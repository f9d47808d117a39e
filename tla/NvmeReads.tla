----------------------------- MODULE NvmeReads ------------------------------
(***************************************************************************)
(* GetNvmeSubsystem, GetNvmeController and GetNvmeNamespace among creates  *)
(* and deletes.  A get reads the store, asks SNAP for a list, and looks    *)
(* for the object in it; between these accesses the world may change.      *)
(*                                                                         *)
(* Gets change nothing, so that one stands for all that are in flight.     *)
(* Nothing keeps it apart from creates and deletes of what it is about.    *)
(***************************************************************************)
EXTENDS NvmeFrontend

VARIABLES
    read,   \* the get in flight: method, next step, name and what it has read
    seen    \* what has been the case at some moment of the get

readsVars == <<vars, read, seen>>

Gets == {"GetNvmeSubsystem", "GetNvmeController", "GetNvmeNamespace"}

ASSUME NoReadAssumption == None \notin Gets \cup {"list", "found", "missing"}

NoRead == [op |-> None, pc |-> None, sub |-> None, id |-> None,
           nqn |-> None, num |-> None]

ReadInFlight == read.pc \in {"lookup", "parent", "list"}

(* What a get can be asked about.                                          *)
IdsBelow(op) == CASE op = "GetNvmeSubsystem"  -> {None}
                  [] op = "GetNvmeController" -> ControllerIds
                  [] op = "GetNvmeNamespace"  -> NamespaceIds

-----------------------------------------------------------------------------
(* Whether the object and its parent are stored, and whether the object is *)
(* there: on SNAP, where the records say.                                  *)
Stored(op, s, i) ==
    /\ subsysStore[s] # None
    /\ op = "GetNvmeController" => ctrlStore[<<s, i>>] # None
    /\ op = "GetNvmeNamespace" => nsStore[<<s, i>>] # None

There(op, s, i) ==
    /\ Stored(op, s, i)
    /\ CASE op = "GetNvmeSubsystem"  -> subsysStore[s] \in snapSubsys
         [] op = "GetNvmeController" ->
               <<subsysStore[s], ctrlStore[<<s, i>>]>> \in snapCtrls
         [] op = "GetNvmeNamespace"  ->
               <<subsysStore[s], HardCodedCntlid, nsStore[<<s, i>>]>> \in snapNs

Facts(op, s, i) ==
    {IF There(op, s, i) THEN "there" ELSE "away"}
        \cup {x \in {"unstored"} : ~Stored(op, s, i)}

-----------------------------------------------------------------------------
ReadBegin(op, s, i) ==
    /\ ~ReadInFlight
    /\ read' = [NoRead EXCEPT !.op = op, !.pc = "lookup", !.sub = s, !.id = i]
    /\ seen' = Facts(op, s, i)

(* The get goes on with what it has read, or answers, or ends in an error. *)
ReadGoto(pc, n, k) ==
    /\ read' = [read EXCEPT !.pc = pc, !.nqn = n, !.num = k]
    /\ UNCHANGED seen

ReadFails == read' = NoRead /\ seen' = {}

(* store.Get on the name *)
ReadLookup ==
    /\ read.pc = "lookup"
    /\ LET x == <<read.sub, read.id>>
       IN \/ /\ read.op = "GetNvmeSubsystem"
             /\ IF subsysStore[read.sub] # None
                  THEN ReadGoto("list", subsysStore[read.sub], None)
                  ELSE ReadGoto("missing", None, None)
          \/ /\ read.op = "GetNvmeController"
             /\ IF ctrlStore[x] # None THEN ReadGoto("list", None, ctrlStore[x])
                                       ELSE ReadGoto("missing", None, None)
          \/ /\ read.op = "GetNvmeNamespace"
             /\ IF nsStore[x] # None THEN ReadGoto("parent", None, nsStore[x])
                                     ELSE ReadGoto("missing", None, None)
          \/ ReadFails

(* Mutant: a store that fails counts as one that has no such subsystem.    *)
FailureIsMissing ==
    /\ read.pc = "parent"
    /\ \/ /\ subsysStore[read.sub] # None
          /\ ReadGoto("list", subsysStore[read.sub], read.num)
       \/ ReadGoto("missing", None, None)

(* store.Get on the subsystem whose id the namespace's name holds.         *)
ReadParent ==
    /\ read.pc = "parent"
    /\ \/ IF subsysStore[read.sub] # None
            THEN ReadGoto("list", subsysStore[read.sub], read.num)
            ELSE ReadGoto("missing", None, None)
       \/ ReadFails

(* Mutant: the namespaces of all subsystems are listed, as controllers are.*)
ListedAnywhere ==
    CASE read.op = "GetNvmeSubsystem"  -> read.nqn \in snapSubsys
      [] read.op = "GetNvmeController" -> \E x \in snapCtrls : x[2] = read.num
      [] read.op = "GetNvmeNamespace"  -> \E x \in snapNs : x[3] = read.num

(* The loop over subsystem_nvme_list, controller_list (of every subsystem  *)
(* there is; only the number is compared) or namespace_list.               *)
Listed ==
    CASE read.op = "GetNvmeSubsystem"  -> read.nqn \in snapSubsys
      [] read.op = "GetNvmeController" -> \E x \in snapCtrls : x[2] = read.num
      [] read.op = "GetNvmeNamespace"  ->
            <<read.nqn, HardCodedCntlid, read.num>> \in snapNs

ReadList ==
    /\ read.pc = "list"
    /\ \/ ReadGoto(IF Listed THEN "found" ELSE "missing", None, None)
       \/ ReadFails

ReadStep ==
    /\ \/ \E op \in Gets, s \in SubsystemIds :
             \E i \in IdsBelow(op) : ReadBegin(op, s, i)
       \/ ReadLookup
       \/ ReadParent
       \/ ReadList
    /\ UNCHANGED vars

(* A step of the others.  The get in flight takes note of what it brings;  *)
(* the answer of one that is over has been delivered.                      *)
Noted ==
    IF ReadInFlight
      THEN UNCHANGED read /\ seen' = seen \cup Facts(read.op, read.sub, read.id)'
      ELSE ReadFails

ReadsInit == Init /\ read = NoRead /\ seen = {}

ReadsNext ==
    \/ ReadStep
    \/ Restart /\ ReadFails
    \/ (\E c \in Calls : SubsysStep(c) \/ CtrlStep(c) \/ NsStep(c)) /\ Noted

ReadsSpec == ReadsInit /\ [][ReadsNext]_readsVars

-----------------------------------------------------------------------------
(* A get that does not find its object is right at some moment of the get: *)
(* the object was not stored, or not on SNAP.  Store and SNAP are read at  *)
(* different moments, and the object may be moved in between.              *)
NoFalseMiss == read.pc = "missing" => "away" \in seen

(* A get that finds a subsystem or a namespace is right at some moment of  *)
(* the get, unless the object or its parent was deleted while it went on.  *)
NoFalseHit ==
    read.pc = "found" /\ read.op # "GetNvmeController" =>
        seen \cap {"there", "unstored"} # {}

(* The same of controllers.  "Could not find NvmeControllerId" is what a   *)
(* get should answer when SNAP has not got the controller.                 *)
ControllerFoundIsThere ==
    read.pc = "found" /\ read.op = "GetNvmeController" =>
        seen \cap {"there", "unstored"} # {}
=============================================================================
