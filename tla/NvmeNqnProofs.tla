--------------------------- MODULE NvmeNqnProofs ----------------------------
(***************************************************************************)
(* Who owns an NQN.  SNAP has at most one subsystem per NQN; it is either  *)
(* that of one live subsystem object, or that of one create that is about  *)
(* to store its object (or an orphan of a create that broke).  From this   *)
(* follow LiveNqnsUnique, LiveSubsystemsOnSnap and NoPhantomNqn, when      *)
(* calls on one subsystem do not overlap and no delete breaks half-way.    *)
(***************************************************************************)
EXTENDS NvmeSerialProofs

(* Create c has made subsystem n on SNAP and not yet stored the object.    *)
Holds(c, n) ==
    /\ call[c].op = "CreateNvmeSubsystem"
    /\ InCreateWindow(c)
    /\ call[c].nqn = n

(* Delete c has taken the subsystem of s off SNAP, not yet out of the store.*)
Removing(c, s) ==
    /\ call[c].op = "DeleteNvmeSubsystem"
    /\ InDeleteWindow(c)
    /\ call[c].sub = s

(* Delete c has taken n off SNAP and not yet out of s.NQNs.                *)
Forgetting(c, n) == At(c, "DeleteNvmeSubsystem", "forget") /\ call[c].nqn = n

(* The NQN a create holds is on SNAP and nobody else's.                    *)
HeldNqns ==
    \A c \in Calls, n \in Nqns :
        Holds(c, n) =>
            /\ n \in snapSubsys
            /\ \A s \in SubsystemIds : LiveSubsystem(s) => subsysStore[s] # n
            /\ \A d \in Calls : Holds(d, n) => d = c

NqnInv ==
    /\ LiveSubsystemsOnSnap
    /\ LiveNqnsUnique
    /\ HeldNqns
    /\ NoPhantomNqn

Inv == TypeInv /\ SerialInv /\ NqnInv

-----------------------------------------------------------------------------
(* The definitions of NvmeSubsystem in these terms.                        *)
LEMMA BeingDeletedDef ==
    \A s : BeingDeleted(s) <=> \E c \in Calls : Removing(c, s)
BY DEF BeingDeleted, Removing

(* The entries of s.NQNs, in these terms.                                  *)
LEMMA NoPhantomDef ==
    NoPhantomNqn <=>
        \A n \in nqns : n \in snapSubsys \/ \E c \in Calls : Forgetting(c, n)
BY DEF NoPhantomNqn, Forgetting

(* Who else holds, removes or forgets what does not change in a step of c. *)
LEMMA OthersSame ==
    ASSUME NEW c \in Calls, OthersKept(c)
    PROVE  \A d \in Calls : \A n : d # c => /\ Holds(d, n)' <=> Holds(d, n)
                                            /\ Removing(d, n)' <=> Removing(d, n)
                                            /\ Forgetting(d, n)' <=> Forgetting(d, n)
<1> SUFFICES ASSUME NEW d \in Calls, d # c, NEW n
             PROVE  /\ Holds(d, n)' <=> Holds(d, n)
                    /\ Removing(d, n)' <=> Removing(d, n)
                    /\ Forgetting(d, n)' <=> Forgetting(d, n)
  OBVIOUS
<1>1. call'[d] = call[d]
  BY DEF OthersKept
<1> QED
  BY <1>1 DEF Holds, Removing, Forgetting, At, InCreateWindow, InDeleteWindow

(* A step of call c that leaves the tables alone, gains no hold on an NQN  *)
(* and ends no delete half-way keeps the invariant.                        *)
LEMMA TablesKept ==
    ASSUME NqnInv, NEW c \in Calls, OthersKept(c),
           UNCHANGED <<subsysStore, nqns, snapSubsys>>,
           \A n : Holds(c, n)' => Holds(c, n),
           \A s : Removing(c, s) => Removing(c, s)',
           \A n : Forgetting(c, n) => Forgetting(c, n)'
    PROVE  NqnInv'
<1>1. \A d \in Calls : \A n : Holds(d, n)' => Holds(d, n)
  BY DEF OthersKept, Holds, InCreateWindow
<1>2. \A d \in Calls : \A s : Removing(d, s) => Removing(d, s)'
  BY DEF OthersKept, Removing, InDeleteWindow
<1>3. \A d \in Calls : \A n : Forgetting(d, n) => Forgetting(d, n)'
  BY DEF OthersKept, Forgetting, At
<1>4. \A s : LiveSubsystem(s)' => LiveSubsystem(s)
  BY <1>2, BeingDeletedDef DEF LiveSubsystem, BeingDeleted, Removing
<1>5. LiveSubsystemsOnSnap' /\ LiveNqnsUnique'
  BY <1>4 DEF NqnInv, LiveSubsystemsOnSnap, LiveNqnsUnique
<1>6. HeldNqns'
  BY <1>1, <1>4 DEF NqnInv, HeldNqns
<1>7. NoPhantomNqn'
  BY <1>3 DEF NqnInv, NoPhantomNqn, Forgetting
<1> QED
  BY <1>5, <1>6, <1>7 DEF NqnInv
-----------------------------------------------------------------------------
(* Call c has nothing to do with who owns an NQN.                          *)
Quiet(c) ==
    \/ call[c].op \notin {"CreateNvmeSubsystem", "DeleteNvmeSubsystem"}
    \/ call[c].pc \notin {"version", "save", "forget", "erase"}

(* A step from one quiet state to another keeps the invariant.             *)
LEMMA QuietStep ==
    ASSUME NqnInv, NEW c \in Calls, OthersKept(c),
           UNCHANGED <<subsysStore, nqns, snapSubsys>>, Quiet(c), Quiet(c)'
    PROVE  NqnInv'
<1>1. \A n : ~Holds(c, n) /\ ~Removing(c, n) /\ ~Forgetting(c, n)
  BY DEF Quiet, Holds, Removing, Forgetting, At, InCreateWindow, InDeleteWindow
<1>2. \A n : ~Holds(c, n)'
  BY DEF Quiet, Holds, InCreateWindow
<1> QED
  BY <1>1, <1>2, TablesKept

(* The step a handler moves to, for any handler.                           *)
LEMMA ControlFacts ==
    ASSUME TypeInv, NEW c \in Calls
    PROVE  /\ \A pc : Goto(c, pc) =>
                 /\ OthersKept(c)
                 /\ call'[c].op = call[c].op /\ call'[c].pc = pc
                 /\ call'[c].sub = call[c].sub /\ call'[c].nqn = call[c].nqn
           /\ \A pc, n, k : GotoWith(c, pc, n, k) =>
                 /\ OthersKept(c)
                 /\ call'[c].op = call[c].op /\ call'[c].pc = pc
                 /\ call'[c].sub = call[c].sub /\ call'[c].nqn = n
           /\ Return(c) => OthersKept(c) /\ call'[c] = Idle
           /\ \A op, s, i, n, k : Begin(c, op, s, i, n, k) =>
                 /\ OthersKept(c)
                 /\ call'[c].op = op /\ call'[c].pc = "lookup"
                 /\ UNCHANGED <<store, nqns, snap>>
<1>1. call \in [Calls -> Call]
  BY DEF TypeInv, TypeOK
<1>2. ASSUME NEW pc, Goto(c, pc)
      PROVE  /\ OthersKept(c)
             /\ call'[c].op = call[c].op /\ call'[c].pc = pc
             /\ call'[c].sub = call[c].sub /\ call'[c].nqn = call[c].nqn
  BY <1>1, <1>2 DEF Goto, OthersKept, Call
<1>3. ASSUME NEW pc, NEW n, NEW k, GotoWith(c, pc, n, k)
      PROVE  /\ OthersKept(c)
             /\ call'[c].op = call[c].op /\ call'[c].pc = pc
             /\ call'[c].sub = call[c].sub /\ call'[c].nqn = n
  BY <1>1, <1>3 DEF GotoWith, OthersKept, Call
<1>4. ASSUME Return(c) PROVE OthersKept(c) /\ call'[c] = Idle
  BY <1>1, <1>4 DEF Return, OthersKept
<1>5. ASSUME NEW op, NEW s, NEW i, NEW n, NEW k, Begin(c, op, s, i, n, k)
      PROVE  /\ OthersKept(c)
             /\ call'[c].op = op /\ call'[c].pc = "lookup"
             /\ UNCHANGED <<store, nqns, snap>>
  BY <1>1, <1>5 DEF Begin, OthersKept
<1> QED
  BY <1>2, <1>3, <1>4, <1>5

(* The handlers of controllers and namespaces own no NQN and touch none of *)
(* the tables it is about.                                                 *)
LEMMA ChildStepNqn ==
    ASSUME Inv, NEW c \in Calls, CtrlStep(c) \/ NsStep(c)
    PROVE  NqnInv'
<1>1. CASE CtrlStep(c)
  <2>1. UNCHANGED <<subsysStore, nqns, snapSubsys>>
    BY <1>1
    DEF CtrlStep, CtrlCreateBegin, CtrlCreateLookup, CtrlCreateParent,
        CtrlCreateOnSnap, CtrlCreateSave, CtrlDeleteBegin, CtrlDeleteLookup,
        CtrlDeleteParent, CtrlDeleteOnSnap, CtrlDeleteErase, Begin, store, snap,
        SnapCreateController, SnapDeleteController
  <2>2. OthersKept(c) /\ call'[c].op \in CtrlOps \cup {None}
    BY <1>1, ControlFacts
    DEF CtrlStep, CtrlCreateBegin, CtrlCreateLookup, CtrlCreateParent,
        CtrlCreateOnSnap, CtrlCreateSave, CtrlDeleteBegin, CtrlDeleteLookup,
        CtrlDeleteParent, CtrlDeleteOnSnap, CtrlDeleteErase, At, Idle, CtrlOps, Inv
  <2>3. call[c].op \in CtrlOps \cup {None}
    BY <1>1
    DEF CtrlStep, CtrlCreateBegin, CtrlCreateLookup, CtrlCreateParent,
        CtrlCreateOnSnap, CtrlCreateSave, CtrlDeleteBegin, CtrlDeleteLookup,
        CtrlDeleteParent, CtrlDeleteOnSnap, CtrlDeleteErase, At, Begin, Idle, CtrlOps
  <2> QED
    BY <2>1, <2>2, <2>3, QuietStep, NoneAssumption
    DEF Quiet, CtrlOps, Creates, Deletes, Inv
<1>2. CASE NsStep(c)
  <2>1. UNCHANGED <<subsysStore, nqns, snapSubsys>>
    BY <1>2
    DEF NsStep, NsCreateBegin, NsCreateLookup, NsCreateParent, NsCreateOnSnap,
        NsCreateSave, NsDeleteBegin, NsDeleteLookup, NsDeleteParent,
        NsDeleteOnSnap, NsDeleteErase, Begin, store, snap, SnapAttach, SnapDetach
  <2>2. OthersKept(c) /\ call'[c].op \in NsOps \cup {None}
    BY <1>2, ControlFacts
    DEF NsStep, NsCreateBegin, NsCreateLookup, NsCreateParent, NsCreateOnSnap,
        NsCreateSave, NsDeleteBegin, NsDeleteLookup, NsDeleteParent,
        NsDeleteOnSnap, NsDeleteErase, At, Idle, NsOps, Inv
  <2>3. call[c].op \in NsOps \cup {None}
    BY <1>2
    DEF NsStep, NsCreateBegin, NsCreateLookup, NsCreateParent, NsCreateOnSnap,
        NsCreateSave, NsDeleteBegin, NsDeleteLookup, NsDeleteParent,
        NsDeleteOnSnap, NsDeleteErase, At, Begin, Idle, NsOps
  <2> QED
    BY <2>1, <2>2, <2>3, QuietStep, NoneAssumption
    DEF Quiet, NsOps, Creates, Deletes, Inv
<1> QED
  BY <1>1, <1>2

-----------------------------------------------------------------------------
(* SNAP makes a subsystem only for an NQN nobody owns.                     *)
LEMMA CreateOnSnapNqn ==
    ASSUME Inv, NEW c \in Calls, SubsysCreateOnSnap(c)
    PROVE  NqnInv'
<1>1. /\ Quiet(c) /\ call[c].op = "CreateNvmeSubsystem" /\ call[c].nqn \in Nqns
      /\ UNCHANGED <<subsysStore, nqns>>
  BY DEF SubsysCreateOnSnap, At, Quiet, Inv, TypeInv, CallFits, store
<1>2. ASSUME UNCHANGED snapSubsys, Return(c) PROVE NqnInv'
  <2>1. OthersKept(c) /\ call'[c] = Idle
    BY <1>2, ControlFacts DEF Inv
  <2>2. Quiet(c)'
    BY <2>1, NoneAssumption DEF Quiet, Idle, Creates, Deletes
  <2> QED
    BY <1>1, <1>2, <2>1, <2>2, QuietStep DEF Inv
<1>3. ASSUME SnapCreateSubsystem(call[c].nqn), OthersKept(c),
             \A n : Holds(c, n)' => n = call[c].nqn,
             \A n : ~Removing(c, n)' /\ ~Forgetting(c, n)'
      PROVE  NqnInv'
  <2>1. /\ call[c].nqn \notin snapSubsys
        /\ snapSubsys' = snapSubsys \cup {call[c].nqn}
    BY <1>3 DEF SnapCreateSubsystem
  <2>2. \A n : ~Holds(c, n) /\ ~Removing(c, n) /\ ~Forgetting(c, n)
    BY <1>1 DEF Quiet, Holds, Removing, Forgetting, At, InCreateWindow,
                InDeleteWindow
  <2>3. \A d \in Calls : \A n : d # c => /\ Holds(d, n)' <=> Holds(d, n)
                                         /\ Removing(d, n)' <=> Removing(d, n)
                                         /\ Forgetting(d, n)' <=> Forgetting(d, n)
    BY <1>3, OthersSame
  <2>4. \A s : LiveSubsystem(s)' <=> LiveSubsystem(s)
    <3>1. \A s : BeingDeleted(s)' <=> BeingDeleted(s)
      BY <1>3, <2>2, <2>3 DEF BeingDeleted, Removing
    <3> QED
      BY <1>1, <3>1 DEF LiveSubsystem
  <2>5. LiveSubsystemsOnSnap' /\ LiveNqnsUnique'
    BY <1>1, <2>1, <2>4 DEF Inv, NqnInv, LiveSubsystemsOnSnap, LiveNqnsUnique
  <2>6. HeldNqns'
    <3>1. ASSUME NEW d \in Calls, NEW n \in Nqns, Holds(d, n)', d # c
          PROVE  Holds(d, n) /\ n \in snapSubsys /\ n # call[c].nqn
      BY <2>1, <2>3, <3>1 DEF Inv, NqnInv, HeldNqns
    <3>2. ASSUME NEW s \in SubsystemIds, LiveSubsystem(s)
          PROVE  subsysStore[s] # call[c].nqn
      BY <2>1, <3>2 DEF Inv, NqnInv, LiveSubsystemsOnSnap
    <3> QED
      BY <1>1, <1>3, <2>1, <2>4, <3>1, <3>2 DEF Inv, NqnInv, HeldNqns
  <2>7. NoPhantomNqn'
    BY <1>1, <2>1, <2>2, <2>3 DEF Inv, NqnInv, NoPhantomNqn, Forgetting
  <2> QED
    BY <2>5, <2>6, <2>7 DEF NqnInv
<1>4. CASE SnapCreateSubsystem(call[c].nqn) /\ Goto(c, "version")
  <2>1. /\ OthersKept(c) /\ call'[c].op = "CreateNvmeSubsystem"
        /\ call'[c].pc = "version" /\ call'[c].nqn = call[c].nqn
    BY <1>1, <1>4, ControlFacts DEF Inv
  <2> QED
    BY <1>3, <1>4, <2>1 DEF Holds, Removing, Forgetting, At
<1>5. CASE SnapCreateSubsystem(call[c].nqn) /\ Return(c)
  <2>1. OthersKept(c) /\ call'[c] = Idle
    BY <1>5, ControlFacts DEF Inv
  <2> QED
    BY <1>3, <1>5, <2>1, NoneAssumption
    DEF Holds, Removing, Forgetting, At, Idle, Creates, Deletes
<1>6. CASE UNCHANGED snap /\ Return(c)
  BY <1>2, <1>6 DEF snap
<1> QED
  BY <1>4, <1>5, <1>6 DEF SubsysCreateOnSnap

(* An NQN enters s.NQNs when its create holds it.                          *)
LEMMA CreateVersionNqn ==
    ASSUME Inv, NEW c \in Calls, SubsysCreateVersion(c)
    PROVE  NqnInv'
<1>1. /\ Holds(c, call[c].nqn) /\ call[c].nqn \in Nqns
      /\ call[c].op = "CreateNvmeSubsystem"
      /\ UNCHANGED <<subsysStore, snapSubsys>>
  BY DEF SubsysCreateVersion, At, Holds, InCreateWindow, Creates, Inv, TypeInv,
         CallFits, store, snap
<1>2. \A n : ~Removing(c, n) /\ ~Forgetting(c, n)
  BY <1>1 DEF Removing, Forgetting, At
<1>3. CASE nqns' = nqns \cup {call[c].nqn} /\ Goto(c, "save")
  <2>1. /\ OthersKept(c) /\ call'[c].op = "CreateNvmeSubsystem"
        /\ call'[c].pc = "save" /\ call'[c].nqn = call[c].nqn
    BY <1>1, <1>3, ControlFacts DEF Inv
  <2>2. \A d \in Calls : \A n : /\ Holds(d, n)' <=> Holds(d, n)
                                /\ Removing(d, n)' <=> Removing(d, n)
                                /\ Forgetting(d, n)' <=> Forgetting(d, n)
    <3>1. /\ Holds(c, call[c].nqn)'
          /\ \A n : Holds(c, n)' => n = call[c].nqn
          /\ \A n : ~Removing(c, n)' /\ ~Forgetting(c, n)'
      BY <2>1 DEF Holds, Removing, Forgetting, At, InCreateWindow, Creates
    <3>2. \A n : Holds(c, n) => n = call[c].nqn
      BY DEF Holds
    <3> QED
      BY <1>1, <1>2, <2>1, <3>1, <3>2, OthersSame
  <2>3. \A s : LiveSubsystem(s)' <=> LiveSubsystem(s)
    BY <1>1, <2>2 DEF LiveSubsystem, BeingDeleted, Removing
  <2>4. LiveSubsystemsOnSnap' /\ LiveNqnsUnique'
    BY <1>1, <2>3 DEF Inv, NqnInv, LiveSubsystemsOnSnap, LiveNqnsUnique
  <2>5. HeldNqns'
    BY <1>1, <2>2, <2>3 DEF Inv, NqnInv, HeldNqns
  <2>6. call[c].nqn \in snapSubsys
    BY <1>1 DEF Inv, NqnInv, HeldNqns
  <2>7. NoPhantomNqn'
    BY <1>1, <1>3, <2>2, <2>6 DEF Inv, NqnInv, NoPhantomNqn, Forgetting
  <2> QED
    BY <2>4, <2>5, <2>7 DEF NqnInv
<1>4. CASE UNCHANGED nqns /\ Return(c)
  <2>1. OthersKept(c) /\ call'[c] = Idle
    BY <1>4, ControlFacts DEF Inv
  <2>2. \A n : ~Holds(c, n)'
    BY <2>1, NoneAssumption DEF Holds, Idle, Creates
  <2> QED
    BY <1>1, <1>2, <1>4, <2>1, <2>2, TablesKept DEF Inv
<1> QED
  BY <1>3, <1>4 DEF SubsysCreateVersion

(* The object that is stored takes over the NQN its create held.           *)
LEMMA CreateSaveNqn ==
    ASSUME Inv, NEW c \in Calls, SubsysCreateSave(c)
    PROVE  NqnInv'
<1>1. /\ Holds(c, call[c].nqn) /\ call[c].nqn \in Nqns
      /\ call[c].op = "CreateNvmeSubsystem"
      /\ SubsysKey(c) \in SubsystemIds
      /\ UNCHANGED <<nqns, snapSubsys>>
  BY NoneAssumption
  DEF SubsysCreateSave, At, Holds, InCreateWindow, Creates, Inv, TypeInv,
      CallFits, snap, SubsysKey
<1>2. \A n : ~Removing(c, n) /\ ~Forgetting(c, n)
  BY <1>1 DEF Removing, Forgetting, At
<1>3. OthersKept(c) /\ call'[c] = Idle
  BY ControlFacts DEF Inv, SubsysCreateSave
<1>4. \A n : ~Holds(c, n)' /\ ~Removing(c, n)' /\ ~Forgetting(c, n)'
  BY <1>3, NoneAssumption DEF Holds, Removing, Forgetting, At, Idle, Creates, Deletes
<1>5. CASE subsysStore' = [subsysStore EXCEPT ![SubsysKey(c)] = call[c].nqn]
  <2>1. /\ subsysStore'[SubsysKey(c)] = call[c].nqn
        /\ \A s \in SubsystemIds : s # SubsysKey(c) => subsysStore'[s] = subsysStore[s]
    BY <1>1, <1>5 DEF Inv, TypeInv, TypeOK, StoreTypeOK
  <2>2. \A d \in Calls : \A n : d # c => /\ Holds(d, n)' <=> Holds(d, n)
                                         /\ Removing(d, n)' <=> Removing(d, n)
                                         /\ Forgetting(d, n)' <=> Forgetting(d, n)
    BY <1>3, OthersSame
  <2>3. \A s \in SubsystemIds : s # SubsysKey(c) /\ LiveSubsystem(s)' => LiveSubsystem(s)
    BY <1>2, <1>4, <2>1, <2>2 DEF LiveSubsystem, BeingDeleted, Removing
  <2>4. call[c].nqn \in snapSubsys
    BY <1>1 DEF Inv, NqnInv, HeldNqns
  <2>5. \A s \in SubsystemIds : LiveSubsystem(s) => subsysStore[s] # call[c].nqn
    BY <1>1 DEF Inv, NqnInv, HeldNqns
  <2>6. LiveSubsystemsOnSnap'
    BY <1>1, <2>1, <2>3, <2>4 DEF Inv, NqnInv, LiveSubsystemsOnSnap
  <2>7. LiveNqnsUnique'
    BY <2>1, <2>3, <2>5 DEF Inv, NqnInv, LiveNqnsUnique
  <2>8. HeldNqns'
    <3>1. ASSUME NEW d \in Calls, NEW n \in Nqns, Holds(d, n)'
          PROVE  d # c /\ Holds(d, n) /\ n # call[c].nqn
      BY <1>1, <1>4, <2>2, <3>1 DEF Inv, NqnInv, HeldNqns
    <3> QED
      BY <1>1, <2>1, <2>3, <3>1 DEF Inv, NqnInv, HeldNqns
  <2>9. NoPhantomNqn'
    BY <1>1, <1>2, <2>2 DEF Inv, NqnInv, NoPhantomNqn, Forgetting
  <2> QED
    BY <2>6, <2>7, <2>8, <2>9 DEF NqnInv
<1>6. CASE UNCHANGED subsysStore
  BY <1>1, <1>2, <1>3, <1>4, <1>6, TablesKept DEF Inv
<1> QED
  BY <1>5, <1>6 DEF SubsysCreateSave

(* A delete takes off SNAP the subsystem of the object it has read, which  *)
(* is live until then and alone owns the NQN.                              *)
LEMMA DeleteOnSnapNqn ==
    ASSUME Inv, "delete" \notin Faults, ~Overlap, NEW c \in Calls,
           SubsysDeleteOnSnap(c)
    PROVE  NqnInv'
<1>1. /\ Quiet(c) /\ call[c].op = "DeleteNvmeSubsystem"
      /\ SubsysKey(c) \in SubsystemIds
      /\ call[c].nqn \in Nqns /\ subsysStore[SubsysKey(c)] = call[c].nqn
      /\ UNCHANGED <<subsysStore, nqns>>
  BY NoneAssumption
  DEF SubsysDeleteOnSnap, At, Quiet, Inv, SerialInv, Knows, TypeInv, CallFits,
      store, SubsysKey, Deletes
<1>2. CASE UNCHANGED snap /\ Return(c)
  <2>1. OthersKept(c) /\ call'[c] = Idle
    BY <1>2, ControlFacts DEF Inv
  <2>2. Quiet(c)'
    BY <2>1, NoneAssumption DEF Quiet, Idle, Creates, Deletes
  <2> QED
    BY <1>1, <1>2, <2>1, <2>2, QuietStep DEF Inv, snap
<1>3. CASE SnapDeleteSubsystem(call[c].nqn) /\ Goto(c, "forget")
  <2>1. /\ OthersKept(c) /\ call'[c].op = "DeleteNvmeSubsystem"
        /\ call'[c].pc = "forget" /\ call'[c].nqn = call[c].nqn
        /\ call'[c].sub = call[c].sub
    BY <1>1, <1>3, ControlFacts DEF Inv
  <2>2. snapSubsys' = snapSubsys \ {call[c].nqn}
    BY <1>3 DEF SnapDeleteSubsystem
  <2>3. /\ Removing(c, SubsysKey(c))' /\ Forgetting(c, call[c].nqn)'
        /\ \A n : ~Holds(c, n)'
    BY <2>1 DEF Removing, Forgetting, Holds, At, InDeleteWindow, Deletes, SubsysKey
  <2>4. \A n : ~Holds(c, n) /\ ~Removing(c, n) /\ ~Forgetting(c, n)
    BY <1>1
    DEF Quiet, Holds, Removing, Forgetting, At, InCreateWindow, InDeleteWindow
  <2>5. \A d \in Calls : \A n : d # c => /\ Holds(d, n)' <=> Holds(d, n)
                                         /\ Removing(d, n)' <=> Removing(d, n)
                                         /\ Forgetting(d, n)' <=> Forgetting(d, n)
    BY <2>1, OthersSame
  <2>6. \A s \in SubsystemIds :
            LiveSubsystem(s)' => LiveSubsystem(s) /\ s # SubsysKey(c)
    <3>1. \A d \in Calls : \A s : Removing(d, s) => Removing(d, s)'
      BY <2>4, <2>5
    <3>2. \A s : (\E d \in Calls : Removing(d, s)) => BeingDeleted(s)'
      BY <3>1 DEF BeingDeleted, Removing
    <3>3. \A s : s = SubsysKey(c) => BeingDeleted(s)'
      BY <2>1 DEF BeingDeleted, InDeleteWindow, SubsysKey, Deletes
    <3>4. \A s : BeingDeleted(s) => BeingDeleted(s)'
      BY <3>2, BeingDeletedDef
    <3> QED
      BY <1>1, <3>3, <3>4 DEF LiveSubsystem
  <2>7. LiveSubsystem(SubsysKey(c))
    <3>1. \A d \in Calls : ~Removing(d, SubsysKey(c))
      BY <1>1, <2>4, NoneAssumption
      DEF Inv, SerialInv, SerialCalls, Removing, SubsysKey
    <3> QED
      BY <1>1, <3>1, BeingDeletedDef, NoneAssumption DEF LiveSubsystem
  <2>8. \A s \in SubsystemIds : LiveSubsystem(s)' => subsysStore[s] # call[c].nqn
    BY <1>1, <2>6, <2>7 DEF Inv, NqnInv, LiveNqnsUnique
  <2>9. LiveSubsystemsOnSnap' /\ LiveNqnsUnique'
    BY <1>1, <2>2, <2>6, <2>8
    DEF Inv, NqnInv, LiveSubsystemsOnSnap, LiveNqnsUnique
  <2>10. HeldNqns'
    <3>1. ASSUME NEW d \in Calls, NEW n \in Nqns, Holds(d, n)'
          PROVE  d # c /\ Holds(d, n) /\ n # call[c].nqn
      BY <1>1, <2>3, <2>5, <2>7, <3>1 DEF Inv, NqnInv, HeldNqns
    <3> QED
      BY <1>1, <2>2, <2>3, <2>5, <2>6, <3>1 DEF Inv, NqnInv, HeldNqns
  <2>11. NoPhantomNqn'
    <3>1. \A n \in nqns : n # call[c].nqn /\ n \in snapSubsys => n \in snapSubsys'
      BY <2>2
    <3>2. \A d \in Calls : \A n : Forgetting(d, n) => Forgetting(d, n)'
      BY <2>4, <2>5
    <3>3. \A n : n = call[c].nqn => Forgetting(c, n)'
      BY <2>1 DEF Forgetting, At
    <3>4. \A n \in nqns : n \in snapSubsys \/ \E d \in Calls : Forgetting(d, n)
      BY NoPhantomDef DEF Inv, NqnInv
    <3>5. \A n \in nqns : n \in snapSubsys' \/ \E d \in Calls : Forgetting(d, n)'
      BY <3>1, <3>2, <3>3, <3>4
    <3> QED
      BY <1>1, <3>5 DEF NoPhantomNqn, Forgetting
  <2> QED
    BY <2>9, <2>10, <2>11 DEF NqnInv
<1> QED
  BY <1>2, <1>3 DEF SubsysDeleteOnSnap

(* The entry a delete takes out of s.NQNs is the one it is to take out.    *)
LEMMA DeleteForgetNqn ==
    ASSUME Inv, NEW c \in Calls, SubsysDeleteForget(c)
    PROVE  NqnInv'
<1>1. /\ Forgetting(c, call[c].nqn) /\ Removing(c, SubsysKey(c))
      /\ UNCHANGED <<subsysStore, snapSubsys>> /\ nqns' = nqns \ {call[c].nqn}
  BY DEF SubsysDeleteForget, At, Forgetting, Removing, InDeleteWindow, Deletes,
         SubsysKey, store, snap
<1>2. /\ OthersKept(c) /\ call'[c].op = "DeleteNvmeSubsystem"
      /\ call'[c].pc = "erase" /\ call'[c].nqn = call[c].nqn
      /\ call'[c].sub = call[c].sub
  BY ControlFacts DEF SubsysDeleteForget, At, Inv
<1>3. /\ \A n : ~Holds(c, n) /\ ~Holds(c, n)'
      /\ \A s : Removing(c, s)' <=> Removing(c, s)
      /\ \A n : Forgetting(c, n) => n = call[c].nqn
  BY <1>1, <1>2
  DEF Holds, Removing, Forgetting, At, InDeleteWindow, Deletes, SubsysKey
<1>4. \A d \in Calls : \A n : d # c => /\ Holds(d, n)' <=> Holds(d, n)
                                       /\ Removing(d, n)' <=> Removing(d, n)
                                       /\ Forgetting(d, n)' <=> Forgetting(d, n)
  BY <1>2, OthersSame
<1>5. \A s : LiveSubsystem(s)' <=> LiveSubsystem(s)
  <2>1. \A d \in Calls : \A s : Removing(d, s)' <=> Removing(d, s)
    BY <1>3, <1>4
  <2>2. \A s : BeingDeleted(s)' <=> \E d \in Calls : Removing(d, s)'
    BY DEF BeingDeleted, Removing
  <2>3. \A s : BeingDeleted(s)' <=> BeingDeleted(s)
    BY <2>1, <2>2, BeingDeletedDef
  <2> QED
    BY <1>1, <2>3 DEF LiveSubsystem
<1>6. LiveSubsystemsOnSnap' /\ LiveNqnsUnique'
  BY <1>1, <1>5 DEF Inv, NqnInv, LiveSubsystemsOnSnap, LiveNqnsUnique
<1>7. HeldNqns'
  BY <1>1, <1>3, <1>4, <1>5 DEF Inv, NqnInv, HeldNqns
<1>8. NoPhantomNqn'
  BY <1>1, <1>3, <1>4 DEF Inv, NqnInv, NoPhantomNqn, Forgetting
<1> QED
  BY <1>6, <1>7, <1>8 DEF NqnInv

(* The record a delete erases is not live any more.                        *)
LEMMA DeleteEraseNqn ==
    ASSUME Inv, "delete" \notin Faults, NEW c \in Calls, SubsysDeleteErase(c)
    PROVE  NqnInv'
<1>1. /\ Removing(c, SubsysKey(c)) /\ SubsysKey(c) \in SubsystemIds
      /\ subsysStore' = [subsysStore EXCEPT ![SubsysKey(c)] = None]
      /\ UNCHANGED <<nqns, snapSubsys>> /\ Return(c)
      /\ \A n : ~Forgetting(c, n) /\ ~Holds(c, n)
  BY NoneAssumption
  DEF SubsysDeleteErase, At, Removing, Forgetting, Holds, InDeleteWindow,
      Deletes, SubsysKey, snap, Inv, TypeInv, CallFits
<1>2. OthersKept(c) /\ call'[c] = Idle
  BY <1>1, ControlFacts DEF Inv
<1>3. \A n : ~Holds(c, n)' /\ ~Removing(c, n)' /\ ~Forgetting(c, n)'
  BY <1>2, NoneAssumption DEF Holds, Removing, Forgetting, At, Idle, Creates, Deletes
<1>4. /\ subsysStore'[SubsysKey(c)] = None
      /\ \A s \in SubsystemIds : s # SubsysKey(c) => subsysStore'[s] = subsysStore[s]
  BY <1>1 DEF Inv, TypeInv, TypeOK, StoreTypeOK
<1>5. \A d \in Calls : \A n : d # c => /\ Holds(d, n)' <=> Holds(d, n)
                                       /\ Removing(d, n)' <=> Removing(d, n)
                                       /\ Forgetting(d, n)' <=> Forgetting(d, n)
  BY <1>2, OthersSame
<1>6. \A s \in SubsystemIds :
          LiveSubsystem(s)' => LiveSubsystem(s) /\ subsysStore'[s] = subsysStore[s]
  <2>1. \A s : Removing(c, s) => s = SubsysKey(c)
    BY DEF Removing, SubsysKey
  <2> QED
    BY <1>4, <1>5, <2>1, BeingDeletedDef DEF LiveSubsystem, BeingDeleted, Removing
<1>7. LiveSubsystemsOnSnap' /\ LiveNqnsUnique'
  BY <1>1, <1>6 DEF Inv, NqnInv, LiveSubsystemsOnSnap, LiveNqnsUnique
<1>8. HeldNqns'
  BY <1>1, <1>3, <1>5, <1>6 DEF Inv, NqnInv, HeldNqns
<1>9. NoPhantomNqn'
  BY <1>1, <1>5 DEF Inv, NqnInv, NoPhantomNqn, Forgetting
<1> QED
  BY <1>7, <1>8, <1>9 DEF NqnInv

(* The steps of the subsystem handlers keep the invariant.                 *)
LEMMA SubsysStepNqn ==
    ASSUME Inv, "delete" \notin Faults, ~Overlap, NEW c \in Calls, SubsysStep(c)
    PROVE  NqnInv'
<1>1. ASSUME OthersKept(c), Quiet(c), Quiet(c)', UNCHANGED <<store, nqns, snap>>
      PROVE  NqnInv'
  BY <1>1, QuietStep DEF Inv, store, snap
<1>2. CASE \E s \in SubsystemIds, n \in Nqns : SubsysCreateBegin(c, s, n)
  <2>1. Quiet(c)
    BY <1>2, NoneAssumption DEF SubsysCreateBegin, Begin, Quiet, Idle, Creates, Deletes
  <2>2. OthersKept(c) /\ Quiet(c)' /\ UNCHANGED <<store, nqns, snap>>
    BY <1>2, ControlFacts DEF SubsysCreateBegin, Quiet, Inv
  <2> QED
    BY <1>1, <2>1, <2>2
<1>3. CASE \E s \in SubsystemIds : SubsysDeleteBegin(c, s)
  <2>1. Quiet(c)
    BY <1>3, NoneAssumption DEF SubsysDeleteBegin, Begin, Quiet, Idle, Creates, Deletes
  <2>2. OthersKept(c) /\ Quiet(c)' /\ UNCHANGED <<store, nqns, snap>>
    BY <1>3, ControlFacts DEF SubsysDeleteBegin, Quiet, Inv
  <2> QED
    BY <1>1, <2>1, <2>2
<1>4. CASE SubsysCreateLookup(c) \/ SubsysCreateCheckNqn(c)
  <2>1. Quiet(c) /\ UNCHANGED <<store, nqns, snap>>
    BY <1>4 DEF SubsysCreateLookup, SubsysCreateCheckNqn, At, Quiet
  <2>2. OthersKept(c) /\ Quiet(c)'
    BY <1>4, ControlFacts, NoneAssumption
    DEF SubsysCreateLookup, SubsysCreateCheckNqn, At, Quiet, Idle, Creates,
        Deletes, Inv
  <2> QED
    BY <1>1, <2>1, <2>2
<1>5. CASE SubsysDeleteLookup(c)
  <2>1. Quiet(c) /\ UNCHANGED <<store, nqns, snap>>
    BY <1>5 DEF SubsysDeleteLookup, At, Quiet
  <2>2. OthersKept(c) /\ Quiet(c)'
    BY <1>5, ControlFacts, NoneAssumption
    DEF SubsysDeleteLookup, At, Quiet, Idle, Creates, Deletes, Inv
  <2> QED
    BY <1>1, <2>1, <2>2
<1> QED
  BY <1>2, <1>3, <1>4, <1>5, CreateOnSnapNqn, CreateVersionNqn, CreateSaveNqn,
     DeleteOnSnapNqn, DeleteForgetNqn, DeleteEraseNqn
  DEF SubsysStep

-----------------------------------------------------------------------------
(* The server starts with nothing on SNAP and nothing taken.               *)
LEMMA InitNqn == Init => NqnInv
<1> SUFFICES ASSUME Init PROVE NqnInv
  OBVIOUS
<1>1. \A c \in Calls : \A n : ~Holds(c, n)
  BY NoneAssumption DEF Init, Idle, Holds, Creates
<1>2. \A s \in SubsystemIds : ~LiveSubsystem(s)
  BY DEF Init, LiveSubsystem
<1>3. LiveSubsystemsOnSnap /\ LiveNqnsUnique
  BY <1>2 DEF LiveSubsystemsOnSnap, LiveNqnsUnique
<1>4. HeldNqns
  BY <1>1 DEF HeldNqns
<1>5. NoPhantomNqn
  BY DEF Init, NoPhantomNqn
<1> QED
  BY <1>3, <1>4, <1>5 DEF NqnInv

(* A restart loses s.NQNs, which only keeps NQNs from being used, and it   *)
(* ends no delete half-way.                                                *)
LEMMA RestartNqn ==
    ASSUME NqnInv, "delete" \notin Faults, Restart
    PROVE  NqnInv'
<1>1. /\ nqns' = {} /\ \A c \in Calls : call'[c] = Idle
      /\ UNCHANGED <<subsysStore, snapSubsys>>
      /\ \A c \in Calls : ~InDeleteWindow(c)
  BY DEF Restart, store, snap
<1>2. \A c \in Calls : \A n : ~Holds(c, n)'
  BY <1>1, NoneAssumption DEF Holds, Idle, Creates
<1>3. \A s \in SubsystemIds : ~BeingDeleted(s)
  BY <1>1 DEF BeingDeleted
<1>4. \A s \in SubsystemIds : LiveSubsystem(s)' => LiveSubsystem(s)
  BY <1>1, <1>3 DEF LiveSubsystem
<1>5. LiveSubsystemsOnSnap' /\ LiveNqnsUnique'
  BY <1>1, <1>4 DEF NqnInv, LiveSubsystemsOnSnap, LiveNqnsUnique
<1>6. HeldNqns'
  BY <1>2 DEF HeldNqns
<1>7. NoPhantomNqn'
  BY <1>1 DEF NoPhantomNqn
<1> QED
  BY <1>5, <1>6, <1>7 DEF NqnInv

(* Every step keeps the invariant.                                         *)
LEMMA NextNqn ==
    ASSUME ~Overlap, "delete" \notin Faults
    PROVE  Inv /\ [Next]_vars => NqnInv'
<1> SUFFICES ASSUME Inv, [Next]_vars PROVE NqnInv'
  OBVIOUS
<1>1. CASE Restart
  BY <1>1, RestartNqn DEF Inv
<1>2. ASSUME NEW c \in Calls, SubsysStep(c) PROVE NqnInv'
  BY <1>2, SubsysStepNqn
<1>3. ASSUME NEW c \in Calls, CtrlStep(c) \/ NsStep(c) PROVE NqnInv'
  BY <1>3, ChildStepNqn
<1>4. CASE UNCHANGED vars
  <2>1. UNCHANGED <<subsysStore, nqns, snapSubsys, call>>
    BY <1>4 DEF vars, store, snap
  <2>2. LiveSubsystemsOnSnap' /\ LiveNqnsUnique'
    BY <2>1 DEF Inv, NqnInv, LiveSubsystemsOnSnap, LiveNqnsUnique,
                LiveSubsystem, BeingDeleted, InDeleteWindow
  <2>3. HeldNqns'
    BY <2>1 DEF Inv, NqnInv, HeldNqns, Holds, InCreateWindow,
                LiveSubsystem, BeingDeleted, InDeleteWindow
  <2>4. NoPhantomNqn'
    BY <2>1 DEF Inv, NqnInv, NoPhantomNqn, At
  <2> QED
    BY <2>2, <2>3, <2>4 DEF NqnInv
<1> QED
  BY <1>1, <1>2, <1>3, <1>4 DEF Next

(* The whole invariant, when calls on one subsystem do not overlap and no  *)
(* delete breaks half-way; creates may break, and the process may restart. *)
THEOREM InvCorrect ==
    ASSUME ~Overlap, "delete" \notin Faults
    PROVE  Spec => []Inv
<1>1. Init => Inv
  BY InitType, InitSerial, InitNqn DEF Inv
<1>2. Inv /\ [Next]_vars => Inv'
  BY NextType, NextSerial, NextNqn DEF Inv
<1> QED
  BY <1>1, <1>2, PTL DEF Spec

(* Two live subsystem objects never name one NQN, though a restart empties *)
(* s.NQNs and the loop over it may be overtaken: SNAP decides.             *)
THEOREM NqnsUnique ==
    ASSUME ~Overlap, "delete" \notin Faults
    PROVE  Spec => []LiveNqnsUnique
<1>1. Inv => LiveNqnsUnique
  BY DEF Inv, NqnInv
<1> QED
  BY <1>1, InvCorrect, PTL

(* Every live subsystem object has its subsystem on SNAP.                  *)
THEOREM SubsystemsOnSnap ==
    ASSUME ~Overlap, "delete" \notin Faults
    PROVE  Spec => []LiveSubsystemsOnSnap
<1>1. Inv => LiveSubsystemsOnSnap
  BY DEF Inv, NqnInv
<1> QED
  BY <1>1, InvCorrect, PTL

(* No entry of s.NQNs refuses an NQN that SNAP is rid of.                  *)
THEOREM NoPhantom ==
    ASSUME ~Overlap, "delete" \notin Faults
    PROVE  Spec => []NoPhantomNqn
<1>1. Inv => NoPhantomNqn
  BY DEF Inv, NqnInv
<1> QED
  BY <1>1, InvCorrect, PTL
=============================================================================
