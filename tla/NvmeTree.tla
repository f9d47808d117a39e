------------------------------ MODULE NvmeTree ------------------------------
(***************************************************************************)
(* What the NVMe services promise: one tree of subsystems, controllers and *)
(* namespaces, each create and delete of which happens at once.            *)
(*                                                                         *)
(* Each action begins with what becomes of the one entry it changes, which *)
(* the assignment below repeats: TLC then sees early that a step is none.  *)
(***************************************************************************)
EXTENDS Integers

CONSTANTS SubsystemIds, ControllerIds, NamespaceIds, Nqns, Cntlids, Nsids, None

VARIABLES
    subsystems,     \* subsystem name  -> its NQN, or None
    controllers,    \* controller name -> its Cntlid, or None
    namespaces      \* namespace name  -> its HostNsid, or None

treeVars == <<subsystems, controllers, namespaces>>

CtrlNames == SubsystemIds \X ControllerIds
NsNames   == SubsystemIds \X NamespaceIds

ControllersOf(s) == {x \in CtrlNames : x[1] = s /\ controllers[x] # None}
NamespacesOf(s)  == {x \in NsNames : x[1] = s /\ namespaces[x] # None}

TreeInit ==
    /\ subsystems = [s \in SubsystemIds |-> None]
    /\ controllers = [x \in CtrlNames |-> None]
    /\ namespaces = [x \in NsNames |-> None]

(* No two subsystems have the same NQN.                                    *)
CreateSubsystem(s, n) ==
    /\ subsystems[s] = None /\ subsystems'[s] = n
    /\ \A r \in SubsystemIds : subsystems[r] # n
    /\ subsystems' = [subsystems EXCEPT ![s] = n]
    /\ UNCHANGED <<controllers, namespaces>>

(* A subsystem that is not empty stays.                                    *)
DeleteSubsystem(s) ==
    /\ subsystems[s] # None /\ subsystems'[s] = None
    /\ ControllersOf(s) = {} /\ NamespacesOf(s) = {}
    /\ subsystems' = [subsystems EXCEPT ![s] = None]
    /\ UNCHANGED <<controllers, namespaces>>

(* No two controllers of a subsystem have the same number.                 *)
CreateController(x, k) ==
    /\ controllers[x] = None /\ controllers'[x] = k
    /\ subsystems[x[1]] # None
    /\ \A y \in ControllersOf(x[1]) : controllers[y] # k
    /\ controllers' = [controllers EXCEPT ![x] = k]
    /\ UNCHANGED <<subsystems, namespaces>>

(* Controller 0 carries the namespaces and stays while there are any.      *)
DeleteController(x) ==
    /\ controllers[x] # None /\ controllers'[x] = None
    /\ controllers[x] = 0 => NamespacesOf(x[1]) = {}
    /\ controllers' = [controllers EXCEPT ![x] = None]
    /\ UNCHANGED <<subsystems, namespaces>>

(* No two namespaces of a subsystem have the same number.                  *)
CreateNamespace(x, h) ==
    /\ namespaces[x] = None /\ namespaces'[x] = h
    /\ subsystems[x[1]] # None
    /\ \A y \in NamespacesOf(x[1]) : namespaces[y] # h
    /\ namespaces' = [namespaces EXCEPT ![x] = h]
    /\ UNCHANGED <<subsystems, controllers>>

DeleteNamespace(x) ==
    /\ namespaces[x] # None /\ namespaces'[x] = None
    /\ namespaces' = [namespaces EXCEPT ![x] = None]
    /\ UNCHANGED <<subsystems, controllers>>

TreeNext ==
    \/ \E s \in SubsystemIds :
          \/ \E n \in Nqns : CreateSubsystem(s, n)
          \/ DeleteSubsystem(s)
    \/ \E x \in CtrlNames :
          \/ \E k \in Cntlids : CreateController(x, k)
          \/ DeleteController(x)
    \/ \E x \in NsNames :
          \/ \E h \in Nsids : CreateNamespace(x, h)
          \/ DeleteNamespace(x)

TreeSpec == TreeInit /\ [][TreeNext]_treeVars
=============================================================================
