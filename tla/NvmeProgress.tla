---------------------------- MODULE NvmeProgress ----------------------------
(***************************************************************************)
(* What persistent clients achieve.  The bridge itself retries nothing; a  *)
(* client whose call failed sends it again.                                *)
(***************************************************************************)
EXTENDS NvmeFrontend

(* The step handler c is about to take.                                    *)
HandlerStep(c) == call[c] # Idle /\ (SubsysStep(c) \/ CtrlStep(c) \/ NsStep(c))

(* The record handler c was called for.                                    *)
Record(c) ==
    CASE call[c].op \in {"CreateNvmeSubsystem", "DeleteNvmeSubsystem"} ->
            subsysStore[SubsysKey(c)]
      [] call[c].op \in {"CreateNvmeController", "DeleteNvmeController"} ->
            ctrlStore[CtrlKey(c)]
      [] call[c].op \in {"CreateNvmeNamespace", "DeleteNvmeNamespace"} ->
            nsStore[NsKey(c)]

(* SNAP's state allows what handler c asks for.                            *)
SnapCould(c) ==
    LET n == call[c].nqn
        k == call[c].num
    IN  CASE call[c].op = "CreateNvmeSubsystem"  -> ENABLED SnapCreateSubsystem(n)
          [] call[c].op = "DeleteNvmeSubsystem"  -> ENABLED SnapDeleteSubsystem(n)
          [] call[c].op = "CreateNvmeController" ->
                \E j \in Cntlids : ENABLED SnapCreateController(n, j)
          [] call[c].op = "DeleteNvmeController" -> ENABLED SnapDeleteController(n, k)
          [] call[c].op = "CreateNvmeNamespace"  ->
                ENABLED SnapAttach(n, HardCodedCntlid, k)
          [] call[c].op = "DeleteNvmeNamespace"  ->
                ENABLED SnapDetach(n, HardCodedCntlid, k)

(* Nothing that handler c looks at next makes it give up.                  *)
CouldGoOn(c) ==
    CASE call[c].pc = "lookup" -> (Record(c) = None) = (call[c].op \in Creates)
      [] call[c].pc = "parent" -> subsysStore[call[c].sub] # None
      [] call[c].pc = "check"  -> call[c].nqn \notin nqns
      [] call[c].pc = "snap"   -> SnapCould(c)
      [] OTHER                 -> TRUE

(* The store, SNAP or the process fails: a call ends although it could go  *)
(* on, and not by storing or erasing its object, or the table is lost.     *)
Failure ==
    \/ /\ store' = store
       /\ \E c \in Calls : call[c] # Idle /\ call'[c] = Idle /\ CouldGoOn(c)
    \/ /\ nqns \ nqns' # {}
       /\ \A c \in Calls : ~At(c, "DeleteNvmeSubsystem", "forget")

(* gRPC runs each handler in a goroutine, none of which starves, and from  *)
(* some moment on nothing fails any more.  What a client does is its own   *)
(* business.                                                               *)
ProgressSpec ==
    /\ Spec
    /\ \A c \in Calls : WF_vars(HandlerStep(c))
    /\ <>[][~Failure]_vars

-----------------------------------------------------------------------------
(* What keeps a subsystem, a controller, on SNAP.                          *)
SubsysBusy(s) == \E x \in snapCtrls : x[1] = subsysStore[s]
CtrlBusy(x) ==
    \E y \in snapNs : y[1] = subsysStore[x[1]] /\ y[2] = ctrlStore[x]

(* A delete that is asked for again and again gets rid of the object,      *)
(* unless SNAP is kept busy below it: whatever has failed, the record      *)
(* leads to what is on SNAP, and nothing others do can keep it there.      *)
DeletesComplete ==
    /\ \A s \in SubsystemIds :
          []<><<\E c \in Calls : SubsysDeleteBegin(c, s)>>_vars
              => (subsysStore[s] # None ~> subsysStore[s] = None \/ SubsysBusy(s))
    /\ \A x \in CtrlNames :
          []<><<\E c \in Calls : CtrlDeleteBegin(c, x[1], x[2])>>_vars
              => (ctrlStore[x] # None ~> ctrlStore[x] = None \/ CtrlBusy(x))
    /\ \A x \in NsNames :
          []<><<\E c \in Calls : NsDeleteBegin(c, x[1], x[2])>>_vars
              => (nsStore[x] # None ~> nsStore[x] = None)

(* An NQN that SNAP is rid of can be used again by whoever keeps asking,   *)
(* under any name that is free: no table, record or call holds it back.    *)
FreedNqnsUsable ==
    \A n \in Nqns :
        []<><<\E c \in Calls, s \in SubsystemIds :
                 subsysStore[s] = None /\ SubsysCreateBegin(c, s, n)>>_vars
            => (n \notin snapSubsys ~> n \in snapSubsys)
=============================================================================
