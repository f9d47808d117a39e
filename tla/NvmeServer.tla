----------------------------- MODULE NvmeServer -----------------------------
(***************************************************************************)
(* What the NVMe services of the bridge share: the server object, the      *)
(* persistent store, the SNAP service behind the JSON-RPC socket, and the  *)
(* calls in flight.                                                        *)
(*                                                                         *)
(* Every gRPC request runs its handler in a goroutine of its own and the   *)
(* code takes no lock, so handlers interleave at every access to something *)
(* shared.  A handler is therefore a sequence of steps, each of which      *)
(* touches one of: the store, the NQNs table, SNAP.                        *)
(*                                                                         *)
(* The store and SNAP outlive the bridge process; the NQNs table does not. *)
(***************************************************************************)
EXTENDS Integers

CONSTANTS
    SubsystemIds,   \* resource ids of subsystems (user settable or generated)
    ControllerIds,  \* resource ids of controllers below a subsystem
    NamespaceIds,   \* resource ids of namespaces below a subsystem
    Nqns,           \* NVMe qualified names, the key of a subsystem on SNAP
    Cntlids,        \* controller numbers SNAP hands out
    Nsids,          \* namespace numbers the client asks for
    Calls,          \* slots for calls in flight
    None,           \* no value
    Faults,         \* handler kinds SNAP and the store may come apart in
    Overlap,        \* may calls on one subsystem's resources overlap?
    SnapRefusesBusy \* does SNAP keep what still has controllers/namespaces?

(***************************************************************************)
(* Faults names the windows that may break between the answer SNAP works   *)
(* out and the last store access of the handler: by an answer that gets    *)
(* lost (the EOF of the tests), a failing store or the death of the        *)
(* process.  A refusal that changes nothing is possible in every run.      *)
(***************************************************************************)
ASSUME ConstantsAssumption ==
    /\ Faults \subseteq {"create", "delete"}
    /\ Overlap \in BOOLEAN
    /\ SnapRefusesBusy \in BOOLEAN
    /\ Cntlids \subseteq Nat /\ 0 \in Cntlids
    /\ Nsids \subseteq Nat

VARIABLES
    subsysStore,    \* store: subsystem name  -> NQN of the record, or None
    ctrlStore,      \* store: controller name -> Cntlid of the record, or None
    nsStore,        \* store: namespace name  -> HostNsid of the record, or None
    nqns,           \* Server.NQNs, the in-memory set of NQNs taken
    snapSubsys,     \* SNAP: NQNs of its subsystems
    snapCtrls,      \* SNAP: <<nqn, cntlid>> of its NVMe controllers
    snapNs,         \* SNAP: <<nqn, cntlid, nsid>> of attached namespaces
    call            \* the calls in flight: step, arguments and locals

store == <<subsysStore, ctrlStore, nsStore>>
snap  == <<snapSubsys, snapCtrls, snapNs>>
vars  == <<store, nqns, snap, call>>

-----------------------------------------------------------------------------
(* Resource names: a child's name holds the id of its subsystem, so a name *)
(* is the pair of ids and the parent is the pair's first element.          *)
CtrlNames == SubsystemIds \X ControllerIds
NsNames   == SubsystemIds \X NamespaceIds

Creates == {"CreateNvmeSubsystem", "CreateNvmeController", "CreateNvmeNamespace"}
Deletes == {"DeleteNvmeSubsystem", "DeleteNvmeController", "DeleteNvmeNamespace"}
SubsysOps == {"CreateNvmeSubsystem", "DeleteNvmeSubsystem"}
CtrlOps   == {"CreateNvmeController", "DeleteNvmeController"}
NsOps     == {"CreateNvmeNamespace", "DeleteNvmeNamespace"}
Steps   == {"lookup", "parent", "check", "snap", "version", "save",
            "forget", "erase"}

ASSUME NoneAssumption ==
    /\ None \notin SubsystemIds \cup ControllerIds \cup NamespaceIds
    /\ None \notin Nqns \cup Cntlids \cup Nsids
    /\ None \notin Creates \cup Deletes \cup Steps

(* op and pc: the method and its next step; sub and id: the name it works  *)
(* on; nqn and num: the NQN and the Cntlid or HostNsid asked for or read.  *)
Call == [op  : Creates \cup Deletes \cup {None},
         pc  : Steps \cup {None},
         sub : SubsystemIds \cup {None},
         id  : ControllerIds \cup NamespaceIds \cup {None},
         nqn : Nqns \cup {None},
         num : Cntlids \cup Nsids \cup {None}]

Idle == [op |-> None, pc |-> None, sub |-> None,
         id |-> None, nqn |-> None, num |-> None]

At(c, op, pc) == call[c].op = op /\ call[c].pc = pc

Goto(c, pc) == call' = [call EXCEPT ![c].pc = pc]

(* The handler goes on with an NQN and a number it has read.               *)
GotoWith(c, pc, n, k) ==
    call' = [call EXCEPT ![c].pc = pc, ![c].nqn = n, ![c].num = k]

(* The handler returns, whatever it answers.                               *)
Return(c) == call' = [call EXCEPT ![c] = Idle]

(***************************************************************************)
(* A request for name s (below it: i) that passes the request's validation *)
(* arrives; one that does not changes nothing.  The code itself never      *)
(* keeps two calls apart; with Overlap FALSE the clients do, subsystem by  *)
(* subsystem.                                                              *)
(***************************************************************************)
Begin(c, op, s, i, n, k) ==
    /\ call[c] = Idle
    /\ Overlap \/ \A d \in Calls : call[d].sub # s
    /\ call' = [call EXCEPT ![c] = [op |-> op, pc |-> "lookup", sub |-> s,
                                    id |-> i, nqn |-> n, num |-> k]]
    /\ UNCHANGED <<store, nqns, snap>>

(* SNAP has carried out the create (delete) and the store does not say so yet. *)
InCreateWindow(c) == call[c].op \in Creates /\ call[c].pc \in {"version", "save"}
InDeleteWindow(c) == call[c].op \in Deletes /\ call[c].pc \in {"forget", "erase"}

-----------------------------------------------------------------------------
(* SNAP, as the handlers use it (an external service).                     *)
SnapCreateSubsystem(n) ==
    /\ n \notin snapSubsys
    /\ snapSubsys' = snapSubsys \cup {n}
    /\ UNCHANGED <<snapCtrls, snapNs>>

SnapDeleteSubsystem(n) ==
    /\ n \in snapSubsys
    /\ SnapRefusesBusy => \A x \in snapCtrls : x[1] # n
    /\ snapSubsys' = snapSubsys \ {n}
    /\ snapCtrls' = {x \in snapCtrls : x[1] # n}
    /\ snapNs' = {x \in snapNs : x[1] # n}

SnapCreateController(n, k) ==
    /\ n \in snapSubsys
    /\ <<n, k>> \notin snapCtrls
    /\ snapCtrls' = snapCtrls \cup {<<n, k>>}
    /\ UNCHANGED <<snapSubsys, snapNs>>

SnapDeleteController(n, k) ==
    /\ <<n, k>> \in snapCtrls
    /\ SnapRefusesBusy => \A x \in snapNs : <<x[1], x[2]>> # <<n, k>>
    /\ snapCtrls' = snapCtrls \ {<<n, k>>}
    /\ snapNs' = {x \in snapNs : <<x[1], x[2]>> # <<n, k>>}
    /\ UNCHANGED snapSubsys

SnapAttach(n, k, i) ==
    /\ <<n, k>> \in snapCtrls
    /\ <<n, k, i>> \notin snapNs
    /\ snapNs' = snapNs \cup {<<n, k, i>>}
    /\ UNCHANGED <<snapSubsys, snapCtrls>>

SnapDetach(n, k, i) ==
    /\ <<n, k, i>> \in snapNs
    /\ snapNs' = snapNs \ {<<n, k, i>>}
    /\ UNCHANGED <<snapSubsys, snapCtrls>>

-----------------------------------------------------------------------------
(* NewServer on an empty store and a SNAP without configuration.           *)
Init ==
    /\ subsysStore = [s \in SubsystemIds |-> None]
    /\ ctrlStore = [x \in CtrlNames |-> None]
    /\ nsStore = [x \in NsNames |-> None]
    /\ nqns = {}
    /\ snapSubsys = {} /\ snapCtrls = {} /\ snapNs = {}
    /\ call = [c \in Calls |-> Idle]

(* The process dies and comes back: NewServer makes an empty NQNs table,   *)
(* and nothing rebuilds it from the store.                                 *)
Restart ==
    /\ "create" \notin Faults => \A c \in Calls : ~InCreateWindow(c)
    /\ "delete" \notin Faults => \A c \in Calls : ~InDeleteWindow(c)
    /\ nqns' = {}
    /\ call' = [c \in Calls |-> Idle]
    /\ UNCHANGED <<store, snap>>

StoreTypeOK ==
    /\ subsysStore \in [SubsystemIds -> Nqns \cup {None}]
    /\ ctrlStore \in [CtrlNames -> Cntlids \cup {None}]
    /\ nsStore \in [NsNames -> Nsids \cup {None}]

SnapTypeOK ==
    /\ snapSubsys \subseteq Nqns
    /\ snapCtrls \subseteq Nqns \X Cntlids
    /\ snapNs \subseteq Nqns \X Cntlids \X Nsids

(* Every variable has its type.                                            *)
TypeOK ==
    /\ StoreTypeOK
    /\ SnapTypeOK
    /\ nqns \subseteq Nqns
    /\ call \in [Calls -> Call]
=============================================================================
