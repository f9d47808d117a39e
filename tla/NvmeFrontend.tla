---------------------------- MODULE NvmeFrontend ----------------------------
(***************************************************************************)
(* The NVMe half of the frontend server: the subsystem, controller and     *)
(* namespace services at work at once on one store and one SNAP.           *)
(***************************************************************************)
EXTENDS NvmeSubsystem, NvmeController, NvmeNamespace

Next ==
    \/ Restart
    \/ \E c \in Calls : SubsysStep(c) \/ CtrlStep(c) \/ NsStep(c)

Spec == Init /\ [][Next]_vars

-----------------------------------------------------------------------------
(* A create that SNAP has carried out and that is about to store its       *)
(* object: a subsystem's, or a child's below NQN n.                        *)
Creating(op, n, num) ==
    \E c \in Calls : /\ call[c].op = op
                     /\ InCreateWindow(c)
                     /\ call[c].nqn = n
                     /\ call[c].num = num

(* Nothing stays on SNAP that no object names, short of a create about to  *)
(* store its object: what no object names no client can list by name or    *)
(* delete.  This is the other direction of the Live...OnSnap invariants    *)
(* and needs every create to get its answer and its store.Set.             *)
NoOrphanOnSnap ==
    /\ \A n \in snapSubsys :
          \/ Creating("CreateNvmeSubsystem", n, None)
          \/ \E s \in SubsystemIds : LiveSubsystem(s) /\ subsysStore[s] = n
    /\ \A x \in snapCtrls :
          \/ Creating("CreateNvmeController", x[1], x[2])
          \/ \E y \in CtrlNames : /\ LiveController(y)
                                  /\ subsysStore[y[1]] = x[1]
                                  /\ ctrlStore[y] = x[2]
    /\ \A x \in snapNs :
          \/ Creating("CreateNvmeNamespace", x[1], x[3])
          \/ \E y \in NsNames : /\ LiveNamespace(y)
                                /\ subsysStore[y[1]] = x[1]
                                /\ nsStore[y] = x[3]

ObjectsKept ==
    /\ \A s \in SubsystemIds :
          subsysStore[s] # None => subsysStore'[s] \in {subsysStore[s], None}
    /\ \A x \in CtrlNames :
          ctrlStore[x] # None => ctrlStore'[x] \in {ctrlStore[x], None}
    /\ \A x \in NsNames :
          nsStore[x] # None => nsStore'[x] \in {nsStore[x], None}

(* A stored object is never replaced by a different one under its name: a  *)
(* create that is "called with same key" leaves the first object in place. *)
ObjectsNotReplaced == [][ObjectsKept]_vars

(***************************************************************************)
(* The live objects are a tree each handler moves in one step: a create    *)
(* when it stores its object, a delete when SNAP has obeyed.  All other    *)
(* steps, refusals, lost answers of creates and restarts among them, leave *)
(* the tree as it is.                                                      *)
(***************************************************************************)
LiveSubsystems ==
    [s \in SubsystemIds |-> IF LiveSubsystem(s) THEN subsysStore[s] ELSE None]

LiveControllers ==
    [x \in CtrlNames |-> IF LiveController(x) THEN ctrlStore[x] ELSE None]

LiveNamespaces ==
    [x \in NsNames |-> IF LiveNamespace(x) THEN nsStore[x] ELSE None]

Tree == INSTANCE NvmeTree WITH subsystems  <- LiveSubsystems,
                               controllers <- LiveControllers,
                               namespaces  <- LiveNamespaces

(* The handlers, with all their steps, implement the tree: calls that do   *)
(* not overlap on one subsystem look atomic, and no order of the steps of  *)
(* calls on different subsystems shows.                                    *)
TreeImplemented == Tree!TreeSpec

(* When no call is in flight, no two subsystem objects share an NQN.       *)
NqnsUniqueAtRest ==
    (\A c \in Calls : call[c] = Idle) =>
        \A r, s \in SubsystemIds :
            subsysStore[r] # None /\ subsysStore[r] = subsysStore[s] => r = s
=============================================================================
