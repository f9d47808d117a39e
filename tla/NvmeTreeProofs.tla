--------------------------- MODULE NvmeTreeProofs ---------------------------
(***************************************************************************)
(* The handlers implement the tree of NvmeTree.  A call on subsystem s     *)
(* moves only what is below s, in the store, on SNAP and in the tree, as   *)
(* long as calls on s do not overlap and no two live subsystems name one   *)
(* NQN.  So the invariant is stated subsystem by subsystem, and a step of  *)
(* a call has to be looked at below its own subsystem only.                *)
(***************************************************************************)
EXTENDS NvmeNqnProofs

(* What call c has taken off SNAP and not yet out of the store.            *)
SubsysGone(c)  == call[c].op = "DeleteNvmeSubsystem" /\ InDeleteWindow(c)
CtrlGone(c, i) == /\ call[c].op = "DeleteNvmeController" /\ call[c].id = i
                  /\ InDeleteWindow(c)
NsGone(c, i)   == /\ call[c].op = "DeleteNvmeNamespace" /\ call[c].id = i
                  /\ InDeleteWindow(c)

(* The live objects below s do not change.                                 *)
LiveKept(s) ==
    /\ LiveSubsystems'[s] = LiveSubsystems[s]
    /\ \A i \in ControllerIds :
          LiveControllers'[<<s, i>>] = LiveControllers[<<s, i>>]
    /\ \A i \in NamespaceIds :
          LiveNamespaces'[<<s, i>>] = LiveNamespaces[<<s, i>>]

(* Creates that have their child on SNAP and are about to store its object.*)
HoldsCtrl(c) == At(c, "CreateNvmeController", "save")
HoldsNs(c)   == At(c, "CreateNvmeNamespace", "save")

(* The controllers below s, live ones and held ones, are on SNAP below the *)
(* NQN of s, which is live, each with a number of its own.                 *)
CtrlsBelow(s) ==
    /\ \A i \in ControllerIds : LiveControllers[<<s, i>>] # None =>
          /\ LiveSubsystems[s] # None
          /\ <<LiveSubsystems[s], LiveControllers[<<s, i>>]>> \in snapCtrls
    /\ \A i, j \in ControllerIds :
          LiveControllers[<<s, i>>] # None
          /\ LiveControllers[<<s, i>>] = LiveControllers[<<s, j>>] => i = j
    /\ \A c \in Calls : HoldsCtrl(c) /\ call[c].sub = s =>
          /\ <<LiveSubsystems[s], call[c].num>> \in snapCtrls
          /\ \A i \in ControllerIds : LiveControllers[<<s, i>>] # call[c].num

(* The same of namespaces, all of them at controller 0.                    *)
NsBelow(s) ==
    /\ \A i \in NamespaceIds : LiveNamespaces[<<s, i>>] # None =>
          /\ LiveSubsystems[s] # None
          /\ <<LiveSubsystems[s], HardCodedCntlid, LiveNamespaces[<<s, i>>]>>
                \in snapNs
    /\ \A i, j \in NamespaceIds :
          LiveNamespaces[<<s, i>>] # None
          /\ LiveNamespaces[<<s, i>>] = LiveNamespaces[<<s, j>>] => i = j
    /\ \A c \in Calls : HoldsNs(c) /\ call[c].sub = s =>
          /\ <<LiveSubsystems[s], HardCodedCntlid, call[c].num>> \in snapNs
          /\ \A i \in NamespaceIds : LiveNamespaces[<<s, i>>] # call[c].num

(* SNAP has no namespace without its controller.                           *)
SnapTree == \A x \in snapNs : <<x[1], x[2]>> \in snapCtrls

TreeInv == SnapTree /\ \A s \in SubsystemIds : CtrlsBelow(s) /\ NsBelow(s)

TreeStep == Tree!TreeNext \/ UNCHANGED Tree!treeVars

-----------------------------------------------------------------------------
(* What is live, name by name: the stored record, until it is gone.        *)
LiveIsStored ==
    /\ \A s \in SubsystemIds : LiveSubsystems[s] =
          IF \E c \in Calls : SubsysGone(c) /\ call[c].sub = s
            THEN None ELSE subsysStore[s]
    /\ \A s \in SubsystemIds : \A i \in ControllerIds : LiveControllers[<<s, i>>] =
          IF \E c \in Calls : CtrlGone(c, i) /\ call[c].sub = s
            THEN None ELSE ctrlStore[<<s, i>>]
    /\ \A s \in SubsystemIds : \A i \in NamespaceIds : LiveNamespaces[<<s, i>>] =
          IF \E c \in Calls : NsGone(c, i) /\ call[c].sub = s
            THEN None ELSE nsStore[<<s, i>>]

(* That is so by definition.                                               *)
LEMMA LiveDef == LiveIsStored
<1>1. ASSUME NEW s \in SubsystemIds
      PROVE  LiveSubsystems[s] =
                IF \E c \in Calls : SubsysGone(c) /\ call[c].sub = s
                  THEN None ELSE subsysStore[s]
  BY DEF LiveSubsystems, LiveSubsystem, BeingDeleted, SubsysGone
<1>2. ASSUME NEW s \in SubsystemIds, NEW i \in ControllerIds
      PROVE  LiveControllers[<<s, i>>] =
                IF \E c \in Calls : CtrlGone(c, i) /\ call[c].sub = s
                  THEN None ELSE ctrlStore[<<s, i>>]
  <2>1. <<s, i>> \in CtrlNames
    BY DEF CtrlNames
  <2>2. CtrlBeingDeleted(<<s, i>>)
           <=> \E c \in Calls : CtrlGone(c, i) /\ call[c].sub = s
    BY DEF CtrlBeingDeleted, CtrlGone, CtrlKey
  <2> QED
    BY <2>1, <2>2 DEF LiveControllers, LiveController
<1>3. ASSUME NEW s \in SubsystemIds, NEW i \in NamespaceIds
      PROVE  LiveNamespaces[<<s, i>>] =
                IF \E c \in Calls : NsGone(c, i) /\ call[c].sub = s
                  THEN None ELSE nsStore[<<s, i>>]
  <2>1. <<s, i>> \in NsNames
    BY DEF NsNames
  <2>2. NsBeingDeleted(<<s, i>>)
           <=> \E c \in Calls : NsGone(c, i) /\ call[c].sub = s
    BY DEF NsBeingDeleted, NsGone, NsKey
  <2> QED
    BY <2>1, <2>2 DEF LiveNamespaces, LiveNamespace
<1> QED
  BY <1>1, <1>2, <1>3 DEF LiveIsStored

(* The same in the next state.                                             *)
LEMMA LiveDefNext == LiveIsStored'
BY LiveDef, PTL

(* What does not change anywhere does not change.                          *)
LEMMA Pointwise ==
    /\ (\A s \in SubsystemIds : LiveSubsystems'[s] = LiveSubsystems[s])
          => LiveSubsystems' = LiveSubsystems
    /\ (\A x \in CtrlNames : LiveControllers'[x] = LiveControllers[x])
          => LiveControllers' = LiveControllers
    /\ (\A x \in NsNames : LiveNamespaces'[x] = LiveNamespaces[x])
          => LiveNamespaces' = LiveNamespaces
BY DEF LiveSubsystems, LiveControllers, LiveNamespaces

(* When nothing below changes, the tree does not change.                   *)
LEMMA KeptStutters ==
    ASSUME \A s \in SubsystemIds : LiveKept(s)
    PROVE  UNCHANGED Tree!treeVars
<1>1. LiveSubsystems' = LiveSubsystems
  BY Pointwise DEF LiveKept
<1>2. LiveControllers' = LiveControllers
  BY Pointwise DEF LiveKept, CtrlNames
<1>3. LiveNamespaces' = LiveNamespaces
  BY Pointwise DEF LiveKept, NsNames
<1> QED
  BY <1>1, <1>2, <1>3 DEF Tree!treeVars

-----------------------------------------------------------------------------
(* The store keeps all that is not below the subsystem of call c.          *)
StoreKeptBut(c) ==
    /\ \A s \in SubsystemIds : s # call[c].sub => subsysStore'[s] = subsysStore[s]
    /\ \A x \in CtrlNames : x[1] # call[c].sub => ctrlStore'[x] = ctrlStore[x]
    /\ \A x \in NsNames : x[1] # call[c].sub => nsStore'[x] = nsStore[x]

(* A handler's writes to the store are below its subsystem.                *)
LEMMA WritesBelow ==
    ASSUME TypeInv, NEW c \in Calls, NEW v
    PROVE  /\ UNCHANGED store => StoreKeptBut(c)
           /\ /\ subsysStore' = [subsysStore EXCEPT ![SubsysKey(c)] = v]
              /\ UNCHANGED <<ctrlStore, nsStore>>
              => StoreKeptBut(c)
           /\ /\ ctrlStore' = [ctrlStore EXCEPT ![CtrlKey(c)] = v]
              /\ UNCHANGED <<subsysStore, nsStore>>
              => StoreKeptBut(c)
           /\ /\ nsStore' = [nsStore EXCEPT ![NsKey(c)] = v]
              /\ UNCHANGED <<subsysStore, ctrlStore>>
              => StoreKeptBut(c)
BY DEF TypeInv, TypeOK, StoreTypeOK, StoreKeptBut, store, SubsysKey, CtrlKey, NsKey

(* A step of handler c: it touches the store below its subsystem only, and *)
(* goes on with that subsystem or returns.                                 *)
OwnStep(c) ==
    /\ call[c].op # None
    /\ OthersKept(c)
    /\ \/ call'[c] = Idle
       \/ /\ call'[c].op = call[c].op /\ call'[c].sub = call[c].sub
          /\ call'[c].id = call[c].id
    /\ StoreKeptBut(c)

(* What is live below the subsystem of call c depends on c alone.          *)
OwnLive(c) ==
    /\ LiveSubsystems[call[c].sub] =
          IF SubsysGone(c) THEN None ELSE subsysStore[call[c].sub]
    /\ \A i \in ControllerIds : LiveControllers[<<call[c].sub, i>>] =
          IF CtrlGone(c, i) THEN None ELSE ctrlStore[<<call[c].sub, i>>]
    /\ \A i \in NamespaceIds : LiveNamespaces[<<call[c].sub, i>>] =
          IF NsGone(c, i) THEN None ELSE nsStore[<<call[c].sub, i>>]

OwnLiveNext(c) ==
    /\ LiveSubsystems'[call[c].sub] =
          IF SubsysGone(c)' THEN None ELSE subsysStore'[call[c].sub]
    /\ \A i \in ControllerIds : LiveControllers'[<<call[c].sub, i>>] =
          IF CtrlGone(c, i)' THEN None ELSE ctrlStore'[<<call[c].sub, i>>]
    /\ \A i \in NamespaceIds : LiveNamespaces'[<<call[c].sub, i>>] =
          IF NsGone(c, i)' THEN None ELSE nsStore'[<<call[c].sub, i>>]

(* No other call on that subsystem is in flight.                           *)
LEMMA OwnLiveNow ==
    ASSUME TypeInv, SerialCalls, NEW c \in Calls, call[c].op # None
    PROVE  OwnLive(c)
<1>1. call[c].sub \in SubsystemIds
  BY DEF TypeInv, CallFits
<1>2. \A d \in Calls : call[d].sub = call[c].sub => d = c
  BY <1>1, NoneAssumption DEF SerialCalls
<1> QED
  BY <1>1, <1>2, LiveDef DEF LiveIsStored, OwnLive

(* A call that is over has nothing in hand.                                *)
LEMMA IdleGone ==
    ASSUME NEW c \in Calls, call'[c] = Idle
    PROVE  /\ ~SubsysGone(c)' /\ ~InDeleteWindow(c)' /\ ~InCreateWindow(c)'
           /\ \A i : ~CtrlGone(c, i)' /\ ~NsGone(c, i)'
           /\ ~HoldsCtrl(c)' /\ ~HoldsNs(c)'
BY NoneAssumption
DEF Idle, SubsysGone, CtrlGone, NsGone, InDeleteWindow, InCreateWindow, HoldsCtrl,
    HoldsNs, At, Creates, Deletes

(* After a step of c the same holds, and nothing has changed elsewhere.    *)
LEMMA OwnLiveStep ==
    ASSUME TypeInv, SerialCalls, NEW c \in Calls, OwnStep(c)
    PROVE  /\ OwnLiveNext(c)
           /\ \A s \in SubsystemIds : s # call[c].sub => LiveKept(s)
<1>1. call[c].sub \in SubsystemIds
  BY DEF TypeInv, CallFits, OwnStep
<1>2. \A d \in Calls : d # c => call'[d] = call[d] /\ call[d].sub # call[c].sub
  BY <1>1, NoneAssumption DEF SerialCalls, OwnStep, OthersKept
<1>3. OwnLiveNext(c)
  <2>1. LiveSubsystems'[call[c].sub] =
          IF SubsysGone(c)' THEN None ELSE subsysStore'[call[c].sub]
    BY <1>1, <1>2, IdleGone, LiveDefNext DEF LiveIsStored, OwnStep
  <2>2. \A i \in ControllerIds : LiveControllers'[<<call[c].sub, i>>] =
          IF CtrlGone(c, i)' THEN None ELSE ctrlStore'[<<call[c].sub, i>>]
    BY <1>1, <1>2, IdleGone, LiveDefNext DEF LiveIsStored, OwnStep
  <2>3. \A i \in NamespaceIds : LiveNamespaces'[<<call[c].sub, i>>] =
          IF NsGone(c, i)' THEN None ELSE nsStore'[<<call[c].sub, i>>]
    BY <1>1, <1>2, IdleGone, LiveDefNext DEF LiveIsStored, OwnStep
  <2> QED
    BY <2>1, <2>2, <2>3 DEF OwnLiveNext
<1>4. ASSUME NEW s \in SubsystemIds, s # call[c].sub PROVE LiveKept(s)
  <2>1. \A d \in Calls : /\ SubsysGone(d)' /\ call'[d].sub = s
                               <=> SubsysGone(d) /\ call[d].sub = s
                         /\ \A i : CtrlGone(d, i)' /\ call'[d].sub = s
                                      <=> CtrlGone(d, i) /\ call[d].sub = s
                         /\ \A i : NsGone(d, i)' /\ call'[d].sub = s
                                      <=> NsGone(d, i) /\ call[d].sub = s
    <3> TAKE d \in Calls
    <3>1. CASE d = c
      BY <3>1, <1>4, IdleGone DEF OwnStep
    <3>2. CASE d # c
      BY <3>2, <1>2 DEF SubsysGone, CtrlGone, NsGone, InDeleteWindow
    <3> QED
      BY <3>1, <3>2
  <2>2. subsysStore'[s] = subsysStore[s]
    BY <1>4 DEF OwnStep, StoreKeptBut
  <2>3. \A i \in ControllerIds : ctrlStore'[<<s, i>>] = ctrlStore[<<s, i>>]
    BY <1>4 DEF OwnStep, StoreKeptBut, CtrlNames
  <2>4. \A i \in NamespaceIds : nsStore'[<<s, i>>] = nsStore[<<s, i>>]
    BY <1>4 DEF OwnStep, StoreKeptBut, NsNames
  <2>5. LiveSubsystems'[s] = LiveSubsystems[s]
    BY <1>4, <2>1, <2>2, LiveDef, LiveDefNext DEF LiveIsStored
  <2>6. \A i \in ControllerIds :
            LiveControllers'[<<s, i>>] = LiveControllers[<<s, i>>]
    BY <1>4, <2>1, <2>3, LiveDef, LiveDefNext DEF LiveIsStored
  <2>7. \A i \in NamespaceIds : LiveNamespaces'[<<s, i>>] = LiveNamespaces[<<s, i>>]
    BY <1>4, <2>1, <2>4, LiveDef, LiveDefNext DEF LiveIsStored
  <2> QED
    BY <2>5, <2>6, <2>7 DEF LiveKept
<1> QED
  BY <1>3, <1>4

-----------------------------------------------------------------------------
(* SNAP keeps what it has below the NQN of s.                              *)
SnapKept(s) ==
    /\ \A k : <<LiveSubsystems[s], k>> \in snapCtrls
                 => <<LiveSubsystems[s], k>> \in snapCtrls'
    /\ \A k, i : <<LiveSubsystems[s], k, i>> \in snapNs
                 => <<LiveSubsystems[s], k, i>> \in snapNs'

(* The invariant stays below a subsystem whose objects stay and that no    *)
(* call takes hold of a child for.                                         *)
LEMMA BelowKept ==
    ASSUME NEW s \in SubsystemIds, CtrlsBelow(s), NsBelow(s), LiveKept(s),
           SnapKept(s), NEW c \in Calls, OthersKept(c),
           call'[c].sub = s => ~HoldsCtrl(c)' /\ ~HoldsNs(c)'
    PROVE  CtrlsBelow(s)' /\ NsBelow(s)'
<1>1. \A d \in Calls : HoldsCtrl(d)' /\ call'[d].sub = s =>
          HoldsCtrl(d) /\ call[d].sub = s /\ call'[d].num = call[d].num
  BY DEF OthersKept, HoldsCtrl, At
<1>2. \A d \in Calls : HoldsNs(d)' /\ call'[d].sub = s =>
          HoldsNs(d) /\ call[d].sub = s /\ call'[d].num = call[d].num
  BY DEF OthersKept, HoldsNs, At
<1>3. CtrlsBelow(s)'
  BY <1>1 DEF CtrlsBelow, LiveKept, SnapKept
<1>4. NsBelow(s)'
  BY <1>2 DEF NsBelow, LiveKept, SnapKept
<1> QED
  BY <1>3, <1>4

(* A step of c need be looked at below its own subsystem s0 only.          *)
LEMMA BelowOwn ==
    ASSUME TypeInv, SerialCalls, TreeInv, NEW c \in Calls, OwnStep(c), SnapTree',
           NEW s0 \in SubsystemIds, call[c].sub = s0,
           \A s \in SubsystemIds : s # s0 => SnapKept(s),
           CtrlsBelow(s0)', NsBelow(s0)'
    PROVE  TreeInv'
<1> SUFFICES ASSUME NEW s \in SubsystemIds PROVE CtrlsBelow(s)' /\ NsBelow(s)'
  BY DEF TreeInv
<1>1. CASE s = s0
  BY <1>1
<1>2. CASE s # s0
  <2>1. LiveKept(s) /\ SnapKept(s) /\ CtrlsBelow(s) /\ NsBelow(s)
    BY <1>2, OwnLiveStep DEF TreeInv
  <2>2. call'[c].sub # s
    BY <1>2, NoneAssumption DEF OwnStep, Idle
  <2> QED
    BY <2>1, <2>2, BelowKept DEF OwnStep
<1> QED
  BY <1>1, <1>2

(* Call c is no more, and no less, between SNAP and the erasure.           *)
SameWindow(c) ==
    \/ ~InDeleteWindow(c) /\ ~InDeleteWindow(c)'
    \/ /\ InDeleteWindow(c) /\ InDeleteWindow(c)'
       /\ call'[c].op = call[c].op /\ call'[c].sub = call[c].sub
       /\ call'[c].id = call[c].id

(* A step that neither writes to the store nor brings a delete past SNAP   *)
(* moves no live object.                                                   *)
LEMMA StoreQuiet ==
    ASSUME NEW c \in Calls, OthersKept(c), SameWindow(c), UNCHANGED store
    PROVE  \A s \in SubsystemIds : LiveKept(s)
<1>1. \A s : \A d \in Calls :
          /\ SubsysGone(d)' /\ call'[d].sub = s <=> SubsysGone(d) /\ call[d].sub = s
          /\ \A i : CtrlGone(d, i)' /\ call'[d].sub = s
                       <=> CtrlGone(d, i) /\ call[d].sub = s
          /\ \A i : NsGone(d, i)' /\ call'[d].sub = s
                       <=> NsGone(d, i) /\ call[d].sub = s
  <2> TAKE s
  <2> TAKE d \in Calls
  <2>1. CASE d = c
    BY <2>1 DEF SameWindow, SubsysGone, CtrlGone, NsGone
  <2>2. CASE d # c
    BY <2>2 DEF OthersKept, SubsysGone, CtrlGone, NsGone, InDeleteWindow
  <2> QED
    BY <2>1, <2>2
<1> TAKE s \in SubsystemIds
<1>2. /\ UNCHANGED <<subsysStore, ctrlStore, nsStore>>
      /\ (\E d \in Calls : SubsysGone(d)' /\ call'[d].sub = s)
            <=> \E d \in Calls : SubsysGone(d) /\ call[d].sub = s
      /\ \A i : (\E d \in Calls : CtrlGone(d, i)' /\ call'[d].sub = s)
                    <=> \E d \in Calls : CtrlGone(d, i) /\ call[d].sub = s
      /\ \A i : (\E d \in Calls : NsGone(d, i)' /\ call'[d].sub = s)
                    <=> \E d \in Calls : NsGone(d, i) /\ call[d].sub = s
  BY <1>1 DEF store
<1>3. LiveSubsystems'[s] = LiveSubsystems[s]
  BY <1>2, LiveDef, LiveDefNext DEF LiveIsStored
<1>4. \A i \in ControllerIds :
          LiveControllers'[<<s, i>>] = LiveControllers[<<s, i>>]
  BY <1>2, LiveDef, LiveDefNext DEF LiveIsStored
<1>5. \A i \in NamespaceIds : LiveNamespaces'[<<s, i>>] = LiveNamespaces[<<s, i>>]
  BY <1>2, LiveDef, LiveDefNext DEF LiveIsStored
<1> QED
  BY <1>3, <1>4, <1>5 DEF LiveKept

(* A step that moves no live object, takes nothing off SNAP and gets hold  *)
(* of no child keeps the invariant and is none in the tree.                *)
LEMMA QuietTree ==
    ASSUME TreeInv, NEW c \in Calls, OthersKept(c),
           \A s \in SubsystemIds : LiveKept(s),
           snapCtrls \subseteq snapCtrls', snapNs \subseteq snapNs', SnapTree',
           ~HoldsCtrl(c)', ~HoldsNs(c)'
    PROVE  TreeInv' /\ TreeStep
<1>1. ASSUME NEW s \in SubsystemIds PROVE CtrlsBelow(s)' /\ NsBelow(s)'
  <2>1. SnapKept(s)
    BY DEF SnapKept
  <2> QED
    BY <2>1, BelowKept DEF TreeInv
<1>2. TreeStep
  BY KeptStutters DEF TreeStep
<1> QED
  BY <1>1, <1>2 DEF TreeInv

(* Two live subsystems have different NQNs.                                *)
LEMMA NqnsDiffer ==
    ASSUME LiveNqnsUnique, NEW r \in SubsystemIds, NEW s \in SubsystemIds,
           LiveSubsystems[r] = LiveSubsystems[s], LiveSubsystems[r] # None
    PROVE  r = s
BY DEF LiveNqnsUnique, LiveSubsystems

(* The parent of a call that has read it is live, under the NQN it read.   *)
LEMMA ParentLive ==
    ASSUME Inv, NEW c \in Calls, call[c].op \in CtrlOps \cup NsOps,
           call[c].pc \notin {"lookup", "parent"}
    PROVE  /\ LiveSubsystems[call[c].sub] = call[c].nqn
           /\ call[c].nqn \in Nqns /\ call[c].nqn # None
           /\ \A s \in SubsystemIds :
                 s # call[c].sub => LiveSubsystems[s] # call[c].nqn
<1>1. call[c].op # None /\ call[c].sub \in SubsystemIds
  BY NoneAssumption DEF CtrlOps, NsOps, Creates, Deletes, Inv, TypeInv, CallFits
<1>2. call[c].nqn \in Nqns /\ subsysStore[call[c].sub] = call[c].nqn
  BY DEF Inv, SerialInv, Knows, SubsysKey
<1>3. LiveSubsystems[call[c].sub] = call[c].nqn
  BY <1>1, <1>2, OwnLiveNow DEF OwnLive, SubsysGone, CtrlOps, NsOps, Inv, SerialInv
<1> QED
  BY <1>1, <1>2, <1>3, NqnsDiffer, NoneAssumption DEF Inv, NqnInv

(* SNAP keeps all of other subsystems when it loses something of c's.      *)
LEMMA OthersOnSnap ==
    ASSUME NEW n, \A x \in snapCtrls \ snapCtrls' : x[1] = n,
           \A x \in snapNs \ snapNs' : x[1] = n,
           NEW s \in SubsystemIds, LiveSubsystems[s] # n
    PROVE  SnapKept(s)
BY DEF SnapKept

(* A step of c that only control moves, but for s.NQNs and snapSubsys.     *)
Quietly(c) ==
    /\ OthersKept(c) /\ SameWindow(c) /\ ~HoldsCtrl(c)' /\ ~HoldsNs(c)'
    /\ UNCHANGED <<store, snapCtrls, snapNs>>

(* Such a step is none in the tree.                                        *)
LEMMA QuietCall ==
    ASSUME TreeInv, NEW c \in Calls, Quietly(c)
    PROVE  TreeInv' /\ TreeStep
<1>1. SnapTree'
  BY DEF TreeInv, SnapTree, Quietly
<1>2. \A s \in SubsystemIds : LiveKept(s)
  BY StoreQuiet DEF Quietly
<1> QED
  BY <1>1, <1>2, QuietTree DEF Quietly

(* What a handler does at steps that leave no trace in store and SNAP.     *)
LEMMA QuietMoves ==
    ASSUME TypeInv, NEW c \in Calls, ~InDeleteWindow(c),
           UNCHANGED <<store, snapCtrls, snapNs>>
    PROVE  /\ Return(c) => Quietly(c)
           /\ \A pc \in {"parent", "check", "snap", "version"} :
                 Goto(c, pc) => Quietly(c)
           /\ \A pc \in {"parent", "check", "snap", "version"} : \A n, k :
                 GotoWith(c, pc, n, k) => Quietly(c)
           /\ \A op, s, i, n, k : Begin(c, op, s, i, n, k) => Quietly(c)
<1>1. ASSUME Return(c) PROVE Quietly(c)
  BY <1>1, ControlFacts, IdleGone DEF Quietly, SameWindow
<1>2. ASSUME NEW pc \in {"parent", "check", "snap", "version"}, Goto(c, pc)
      PROVE  Quietly(c)
  BY <1>2, ControlFacts
  DEF Quietly, SameWindow, InDeleteWindow, HoldsCtrl, HoldsNs, At
<1>3. ASSUME NEW pc \in {"parent", "check", "snap", "version"}, NEW n, NEW k,
             GotoWith(c, pc, n, k)
      PROVE  Quietly(c)
  BY <1>3, ControlFacts
  DEF Quietly, SameWindow, InDeleteWindow, HoldsCtrl, HoldsNs, At
<1>4. ASSUME NEW op, NEW s, NEW i, NEW n, NEW k, Begin(c, op, s, i, n, k)
      PROVE  Quietly(c)
  BY <1>4, ControlFacts
  DEF Quietly, SameWindow, InDeleteWindow, HoldsCtrl, HoldsNs, At
<1> QED
  BY <1>1, <1>2, <1>3, <1>4

-----------------------------------------------------------------------------
(* When only one subsystem moves, or one child, the tree's function is     *)
(* changed at one name.                                                    *)
LEMMA OneSubsystem ==
    ASSUME NEW s \in SubsystemIds,
           \A r \in SubsystemIds : r # s => LiveKept(r),
           \A i \in ControllerIds :
              LiveControllers'[<<s, i>>] = LiveControllers[<<s, i>>],
           \A i \in NamespaceIds :
              LiveNamespaces'[<<s, i>>] = LiveNamespaces[<<s, i>>]
    PROVE  /\ LiveSubsystems' = [LiveSubsystems EXCEPT ![s] = LiveSubsystems'[s]]
           /\ LiveControllers' = LiveControllers
           /\ LiveNamespaces' = LiveNamespaces
<1>1. LiveSubsystems' = [LiveSubsystems EXCEPT ![s] = LiveSubsystems'[s]]
  <2>1. \A r \in SubsystemIds : r # s => LiveSubsystems'[r] = LiveSubsystems[r]
    BY DEF LiveKept
  <2> QED
    BY <2>1 DEF LiveSubsystems
<1>2. LiveControllers' = LiveControllers
  BY Pointwise DEF LiveKept, CtrlNames
<1>3. LiveNamespaces' = LiveNamespaces
  BY Pointwise DEF LiveKept, NsNames
<1> QED
  BY <1>1, <1>2, <1>3

(* One controller moves.                                                   *)
LEMMA OneController ==
    ASSUME NEW s \in SubsystemIds, NEW i \in ControllerIds,
           \A r \in SubsystemIds : r # s => LiveKept(r),
           LiveSubsystems'[s] = LiveSubsystems[s],
           \A j \in ControllerIds : j # i =>
              LiveControllers'[<<s, j>>] = LiveControllers[<<s, j>>],
           \A j \in NamespaceIds :
              LiveNamespaces'[<<s, j>>] = LiveNamespaces[<<s, j>>]
    PROVE  /\ LiveControllers' = [LiveControllers EXCEPT ![<<s, i>>] =
                                     LiveControllers'[<<s, i>>]]
           /\ LiveSubsystems' = LiveSubsystems
           /\ LiveNamespaces' = LiveNamespaces
<1>1. LiveControllers' = [LiveControllers EXCEPT ![<<s, i>>] =
                             LiveControllers'[<<s, i>>]]
  <2>1. \A x \in CtrlNames :
            x # <<s, i>> => LiveControllers'[x] = LiveControllers[x]
    BY DEF LiveKept, CtrlNames
  <2> QED
    BY <2>1 DEF LiveControllers
<1>2. LiveSubsystems' = LiveSubsystems
  BY Pointwise DEF LiveKept
<1>3. LiveNamespaces' = LiveNamespaces
  BY Pointwise DEF LiveKept, NsNames
<1> QED
  BY <1>1, <1>2, <1>3

(* One namespace moves.                                                    *)
LEMMA OneNamespace ==
    ASSUME NEW s \in SubsystemIds, NEW i \in NamespaceIds,
           \A r \in SubsystemIds : r # s => LiveKept(r),
           LiveSubsystems'[s] = LiveSubsystems[s],
           \A j \in ControllerIds :
              LiveControllers'[<<s, j>>] = LiveControllers[<<s, j>>],
           \A j \in NamespaceIds : j # i =>
              LiveNamespaces'[<<s, j>>] = LiveNamespaces[<<s, j>>]
    PROVE  /\ LiveNamespaces' = [LiveNamespaces EXCEPT ![<<s, i>>] =
                                    LiveNamespaces'[<<s, i>>]]
           /\ LiveSubsystems' = LiveSubsystems
           /\ LiveControllers' = LiveControllers
<1>1. LiveNamespaces' = [LiveNamespaces EXCEPT ![<<s, i>>] =
                            LiveNamespaces'[<<s, i>>]]
  <2>1. \A x \in NsNames :
            x # <<s, i>> => LiveNamespaces'[x] = LiveNamespaces[x]
    BY DEF LiveKept, NsNames
  <2> QED
    BY <2>1 DEF LiveNamespaces
<1>2. LiveSubsystems' = LiveSubsystems
  BY Pointwise DEF LiveKept
<1>3. LiveControllers' = LiveControllers
  BY Pointwise DEF LiveKept, CtrlNames
<1> QED
  BY <1>1, <1>2, <1>3

-----------------------------------------------------------------------------
(* The subsystem handlers.  A create shows when its object is stored.      *)
LEMMA SubsysSaveTree ==
    ASSUME Inv, TreeInv, NEW c \in Calls, SubsysCreateSave(c),
           NEW s0 \in SubsystemIds, call[c].sub = s0
    PROVE  TreeInv' /\ TreeStep
<1>1. /\ call[c].op = "CreateNvmeSubsystem" /\ call[c].pc = "save"
      /\ call[c].nqn \in Nqns /\ call[c].nqn # None
      /\ call[c].op # None
      /\ OthersKept(c) /\ call'[c] = Idle
      /\ UNCHANGED <<ctrlStore, nsStore, snapCtrls, snapNs>>
  BY ControlFacts, NoneAssumption
  DEF SubsysCreateSave, At, Creates, Inv, TypeInv, CallFits, snap
<1>2. CASE UNCHANGED subsysStore
  <2>1. Quietly(c)
    BY <1>1, <1>2, QuietMoves
    DEF SubsysCreateSave, InDeleteWindow, Deletes, Inv, store
  <2> QED
    BY <2>1, QuietCall
<1>3. CASE subsysStore' = [subsysStore EXCEPT ![SubsysKey(c)] = call[c].nqn]
  <2>1. OwnStep(c)
    <3>1. StoreKeptBut(c)
      BY <1>1, <1>3, WritesBelow DEF Inv
    <3> QED
      BY <1>1, <3>1 DEF OwnStep
  <2>2. /\ OwnLive(c) /\ OwnLiveNext(c)
        /\ \A s \in SubsystemIds : s # s0 => LiveKept(s)
    BY <1>1, <2>1, OwnLiveNow, OwnLiveStep DEF Inv, SerialInv
  <2>3. /\ subsysStore[s0] = None
        /\ subsysStore'[s0] = call[c].nqn
    BY <1>1, <1>3 DEF Inv, SerialInv, Knows, SubsysKey, TypeInv, TypeOK, StoreTypeOK
  <2>4. LiveSubsystems[s0] = None /\ LiveSubsystems'[s0] = call[c].nqn
    BY <1>1, <2>2, <2>3, IdleGone DEF OwnLive, OwnLiveNext, SubsysGone
  <2>5. /\ \A i \in ControllerIds :
              LiveControllers'[<<s0, i>>] = LiveControllers[<<s0, i>>]
        /\ \A i \in NamespaceIds :
              LiveNamespaces'[<<s0, i>>] = LiveNamespaces[<<s0, i>>]
    BY <1>1, <2>2, IdleGone DEF OwnLive, OwnLiveNext, CtrlGone, NsGone
  <2>6. /\ \A i \in ControllerIds : LiveControllers'[<<s0, i>>] = None
        /\ \A i \in NamespaceIds : LiveNamespaces'[<<s0, i>>] = None
    <3>1. \A i \in ControllerIds : LiveControllers[<<s0, i>>] = None
      BY <2>4 DEF TreeInv, CtrlsBelow
    <3>2. \A i \in NamespaceIds : LiveNamespaces[<<s0, i>>] = None
      BY <2>4 DEF TreeInv, NsBelow
    <3> QED
      BY <2>5, <3>1, <3>2
  <2>7. TreeInv'
    <3>1. \A d \in Calls : call'[d].sub # s0
      BY <1>1, NoneAssumption
      DEF Idle, Inv, SerialInv, SerialCalls, OthersKept
    <3>2. CtrlsBelow(s0)' /\ NsBelow(s0)'
      BY <1>1, <2>6, <3>1 DEF CtrlsBelow, NsBelow
    <3>3. SnapTree' /\ \A s \in SubsystemIds : SnapKept(s)
      BY <1>1 DEF TreeInv, SnapTree, SnapKept
    <3> QED
      BY <2>1, <3>2, <3>3, BelowOwn DEF Inv, SerialInv
  <2>8. Tree!CreateSubsystem(s0, call[c].nqn)
    <3>1. \A r \in SubsystemIds : LiveSubsystems[r] # call[c].nqn
      BY <1>1
      DEF Inv, NqnInv, HeldNqns, Holds, InCreateWindow, Creates, LiveSubsystems
    <3> QED
      BY <1>1, <2>2, <2>4, <2>5, <3>1, OneSubsystem DEF Tree!CreateSubsystem
  <2> QED
    BY <1>1, <2>7, <2>8 DEF TreeStep, Tree!TreeNext
<1> QED
  BY <1>2, <1>3 DEF SubsysCreateSave

(* A delete shows when SNAP has obeyed, which it does when nothing is left *)
(* below the subsystem.                                                    *)
LEMMA SubsysDeleteOnSnapTree ==
    ASSUME Inv, TreeInv, SnapRefusesBusy, "delete" \notin Faults,
           NEW c \in Calls, SubsysDeleteOnSnap(c),
           NEW s0 \in SubsystemIds, call[c].sub = s0
    PROVE  TreeInv' /\ TreeStep
<1>1. /\ call[c].op = "DeleteNvmeSubsystem" /\ call[c].pc = "snap"
      /\ call[c].op # None
      /\ UNCHANGED store
      /\ call[c].nqn \in Nqns /\ call[c].nqn # None
      /\ subsysStore[s0] = call[c].nqn
  BY NoneAssumption
  DEF SubsysDeleteOnSnap, At, Deletes, Inv, TypeInv, CallFits, SerialInv, Knows,
      SubsysKey
<1>2. CASE UNCHANGED snap /\ Return(c)
  <2>1. Quietly(c)
    BY <1>1, <1>2, QuietMoves DEF InDeleteWindow, Inv, snap
  <2> QED
    BY <2>1, QuietCall
<1>3. CASE SnapDeleteSubsystem(call[c].nqn) /\ Goto(c, "forget")
  <2>1. /\ OthersKept(c) /\ call'[c].op = call[c].op /\ call'[c].pc = "forget"
        /\ call'[c].sub = call[c].sub /\ call'[c].id = call[c].id
    BY <1>3, GotoFacts DEF Inv, TypeInv, Steps
  <2>2. OwnStep(c)
    BY <1>1, <2>1, WritesBelow DEF OwnStep, Inv
  <2>3. /\ OwnLive(c) /\ OwnLiveNext(c)
        /\ \A s \in SubsystemIds : s # s0 => LiveKept(s)
    BY <1>1, <2>2, OwnLiveNow, OwnLiveStep DEF Inv, SerialInv
  <2>4. LiveSubsystems[s0] = call[c].nqn /\ LiveSubsystems'[s0] = None
    BY <1>1, <2>1, <2>3
    DEF OwnLive, OwnLiveNext, SubsysGone, InDeleteWindow, Deletes
  <2>5. /\ \A i \in ControllerIds :
              LiveControllers'[<<s0, i>>] = LiveControllers[<<s0, i>>]
        /\ \A i \in NamespaceIds :
              LiveNamespaces'[<<s0, i>>] = LiveNamespaces[<<s0, i>>]
    BY <1>1, <2>1, <2>3 DEF OwnLive, OwnLiveNext, CtrlGone, NsGone, store
  <2>6. /\ \A x \in snapCtrls : x[1] # call[c].nqn
        /\ \A x \in snapNs : x[1] # call[c].nqn
    BY <1>3 DEF SnapDeleteSubsystem, TreeInv, SnapTree
  <2>7. /\ \A i \in ControllerIds : LiveControllers[<<s0, i>>] = None
        /\ \A i \in NamespaceIds : LiveNamespaces[<<s0, i>>] = None
    BY <1>1, <2>4, <2>6 DEF TreeInv, CtrlsBelow, NsBelow
  <2>8. TreeInv'
    <3>1. UNCHANGED <<snapCtrls, snapNs>>
      BY <1>3, <2>6 DEF SnapDeleteSubsystem
    <3>2. \A d \in Calls : call'[d].sub = s0 => ~HoldsCtrl(d)' /\ ~HoldsNs(d)'
      BY <1>1, <2>1, NoneAssumption
      DEF Inv, SerialInv, SerialCalls, OthersKept, HoldsCtrl, HoldsNs, At
    <3>3. CtrlsBelow(s0)' /\ NsBelow(s0)'
      BY <1>1, <2>1, <2>5, <2>7, <3>2 DEF CtrlsBelow, NsBelow
    <3>4. SnapTree' /\ \A s \in SubsystemIds : SnapKept(s)
      BY <3>1 DEF TreeInv, SnapTree, SnapKept
    <3> QED
      BY <2>2, <3>3, <3>4, BelowOwn DEF Inv, SerialInv
  <2>9. Tree!DeleteSubsystem(s0)
    <3>1. Tree!ControllersOf(s0) = {} /\ Tree!NamespacesOf(s0) = {}
      BY <2>7
      DEF Tree!ControllersOf, Tree!NamespacesOf, Tree!CtrlNames, Tree!NsNames
    <3> QED
      BY <1>1, <2>3, <2>4, <2>5, <3>1, OneSubsystem DEF Tree!DeleteSubsystem
  <2> QED
    BY <1>1, <2>8, <2>9 DEF TreeStep, Tree!TreeNext
<1> QED
  BY <1>2, <1>3 DEF SubsysDeleteOnSnap

-----------------------------------------------------------------------------
(* The controller handlers.  SNAP gives a create a number that no live     *)
(* controller below its subsystem has, and the create holds on to it.      *)
LEMMA CtrlCreateOnSnapTree ==
    ASSUME Inv, TreeInv, NEW c \in Calls, CtrlCreateOnSnap(c),
           NEW s0 \in SubsystemIds, call[c].sub = s0
    PROVE  TreeInv' /\ TreeStep
<1>1. /\ call[c].op = "CreateNvmeController" /\ call[c].pc = "snap"
      /\ call[c].op # None /\ ~InDeleteWindow(c) /\ UNCHANGED store
  BY NoneAssumption DEF CtrlCreateOnSnap, At, Creates, InDeleteWindow, Deletes
<1>2. /\ LiveSubsystems[s0] = call[c].nqn /\ call[c].nqn \in Nqns
      /\ call[c].nqn # None
      /\ \A s \in SubsystemIds : s # s0 => LiveSubsystems[s] # call[c].nqn
  BY <1>1, ParentLive DEF CtrlOps
<1>3. CASE UNCHANGED snap /\ Return(c)
  <2>1. Quietly(c)
    BY <1>1, <1>3, QuietMoves DEF Inv, snap
  <2> QED
    BY <2>1, QuietCall
<1>4. ASSUME NEW k \in Cntlids, SnapCreateController(call[c].nqn, k)
      PROVE  /\ SnapTree' /\ snapCtrls \subseteq snapCtrls' /\ UNCHANGED snapNs
             /\ \A s \in SubsystemIds : SnapKept(s)
             /\ \A i \in ControllerIds : LiveControllers[<<s0, i>>] # k
             /\ <<call[c].nqn, k>> \in snapCtrls'
  <2>1. k # None
    BY NoneAssumption
  <2>2. /\ snapCtrls' = snapCtrls \cup {<<call[c].nqn, k>>} /\ UNCHANGED snapNs
        /\ <<call[c].nqn, k>> \notin snapCtrls
    BY <1>4 DEF SnapCreateController
  <2>3. \A i \in ControllerIds : LiveControllers[<<s0, i>>] # k
    BY <1>2, <2>1, <2>2 DEF TreeInv, CtrlsBelow
  <2> QED
    BY <2>2, <2>3 DEF TreeInv, SnapTree, SnapKept
<1>5. ASSUME NEW k \in Cntlids, SnapCreateController(call[c].nqn, k), Return(c)
      PROVE  TreeInv' /\ TreeStep
  <2>1. OthersKept(c) /\ call'[c] = Idle
    BY <1>5, ControlFacts DEF Inv
  <2>2. SameWindow(c) /\ ~HoldsCtrl(c)' /\ ~HoldsNs(c)'
    BY <1>1, <2>1, IdleGone DEF SameWindow
  <2>3. \A s \in SubsystemIds : LiveKept(s)
    BY <1>1, <2>1, <2>2, StoreQuiet
  <2> QED
    BY <1>4, <1>5, <2>1, <2>2, <2>3, QuietTree
<1>6. ASSUME NEW k \in Cntlids, SnapCreateController(call[c].nqn, k),
             GotoWith(c, "save", call[c].nqn, k)
      PROVE  TreeInv' /\ TreeStep
  <2>1. /\ OthersKept(c) /\ call'[c].op = call[c].op /\ call'[c].pc = "save"
        /\ call'[c].sub = s0 /\ call'[c].id = call[c].id /\ call'[c].num = k
    BY <1>2, <1>6, GotoWithFacts DEF Inv, TypeInv, Steps
  <2>2. StoreKeptBut(c)
    BY <1>1, WritesBelow DEF Inv
  <2>3. OwnStep(c)
    BY <1>1, <2>1, <2>2 DEF OwnStep
  <2>4. SameWindow(c)
    BY <1>1, <2>1 DEF SameWindow, InDeleteWindow
  <2>5. \A s \in SubsystemIds : LiveKept(s)
    BY <1>1, <2>1, <2>4, StoreQuiet
  <2>6. \A d \in Calls : call'[d].sub = s0 => d = c
    BY <1>1, <2>1, NoneAssumption DEF Inv, SerialInv, SerialCalls, OthersKept
  <2>7. /\ ~HoldsNs(c)'
        /\ \A i \in ControllerIds : LiveControllers'[<<s0, i>>] # k
        /\ LiveSubsystems'[s0] = call[c].nqn
    BY <1>1, <1>2, <1>4, <1>6, <2>1, <2>5 DEF HoldsNs, At, LiveKept
  <2>8. /\ snapCtrls \subseteq snapCtrls' /\ UNCHANGED snapNs
        /\ <<call[c].nqn, k>> \in snapCtrls'
    BY <1>4, <1>6
  <2>9. CtrlsBelow(s0)' /\ NsBelow(s0)'
    <3>1. LiveKept(s0) /\ CtrlsBelow(s0) /\ NsBelow(s0)
      BY <2>5 DEF TreeInv
    <3>2. CtrlsBelow(s0)'
      BY <2>1, <2>6, <2>7, <2>8, <3>1 DEF CtrlsBelow, LiveKept
    <3>3. NsBelow(s0)'
      BY <2>6, <2>7, <2>8, <3>1 DEF NsBelow, LiveKept
    <3> QED
      BY <3>2, <3>3
  <2>10. TreeInv'
    BY <1>4, <1>6, <2>3, <2>9, BelowOwn DEF Inv, SerialInv
  <2>11. TreeStep
    BY <2>5, KeptStutters DEF TreeStep
  <2> QED
    BY <2>10, <2>11
<1> QED
  BY <1>3, <1>5, <1>6 DEF CtrlCreateOnSnap

(* The object that is stored takes over the number its create held.        *)
LEMMA CtrlSaveTree ==
    ASSUME Inv, TreeInv, NEW c \in Calls, CtrlCreateSave(c),
           NEW s0 \in SubsystemIds, call[c].sub = s0,
           NEW i0 \in ControllerIds, call[c].id = i0
    PROVE  TreeInv' /\ TreeStep
<1>1. /\ call[c].op = "CreateNvmeController" /\ call[c].pc = "save"
      /\ call[c].op # None /\ ~InDeleteWindow(c) /\ HoldsCtrl(c)
      /\ call[c].num \in Cntlids /\ call[c].num # None
      /\ OthersKept(c) /\ call'[c] = Idle
      /\ UNCHANGED <<subsysStore, nsStore, snapCtrls, snapNs>>
  BY ControlFacts, NoneAssumption
  DEF CtrlCreateSave, At, Creates, Inv, TypeInv, CallFits, snap, InDeleteWindow,
      Deletes, HoldsCtrl
<1>2. CASE UNCHANGED ctrlStore
  <2>1. Quietly(c)
    BY <1>1, <1>2, QuietMoves DEF CtrlCreateSave, Inv, store
  <2> QED
    BY <2>1, QuietCall
<1>3. CASE ctrlStore' = [ctrlStore EXCEPT ![CtrlKey(c)] = call[c].num]
  <2>1. StoreKeptBut(c)
    BY <1>1, <1>3, WritesBelow DEF Inv
  <2>2. OwnStep(c)
    BY <1>1, <2>1 DEF OwnStep
  <2>3. /\ OwnLive(c) /\ OwnLiveNext(c)
        /\ \A s \in SubsystemIds : s # s0 => LiveKept(s)
    BY <1>1, <2>2, OwnLiveNow, OwnLiveStep DEF Inv, SerialInv
  <2>4. /\ ctrlStore[<<s0, i0>>] = None
        /\ ctrlStore'[<<s0, i0>>] = call[c].num
        /\ \A i \in ControllerIds :
              i # i0 => ctrlStore'[<<s0, i>>] = ctrlStore[<<s0, i>>]
    BY <1>1, <1>3
    DEF Inv, SerialInv, Knows, CtrlKey, TypeInv, TypeOK, StoreTypeOK, CtrlNames
  <2>5. /\ LiveControllers[<<s0, i0>>] = None
        /\ LiveControllers'[<<s0, i0>>] = call[c].num
        /\ \A i \in ControllerIds : i # i0 =>
              LiveControllers'[<<s0, i>>] = LiveControllers[<<s0, i>>]
    BY <1>1, <2>3, <2>4, IdleGone DEF OwnLive, OwnLiveNext, CtrlGone
  <2>6. /\ LiveSubsystems'[s0] = LiveSubsystems[s0]
        /\ \A i \in NamespaceIds :
              LiveNamespaces'[<<s0, i>>] = LiveNamespaces[<<s0, i>>]
    BY <1>1, <2>3, IdleGone DEF OwnLive, OwnLiveNext, SubsysGone, NsGone
  <2>7. /\ LiveSubsystems[s0] # None
        /\ <<LiveSubsystems[s0], call[c].num>> \in snapCtrls
        /\ \A i \in ControllerIds : LiveControllers[<<s0, i>>] # call[c].num
    BY <1>1, ParentLive DEF CtrlOps, TreeInv, CtrlsBelow
  <2>8. TreeInv'
    <3>1. \A d \in Calls : call'[d].sub # s0
      BY <1>1, NoneAssumption DEF Idle, Inv, SerialInv, SerialCalls, OthersKept
    <3>2. CtrlsBelow(s0)'
      BY <1>1, <2>5, <2>6, <2>7, <3>1 DEF TreeInv, CtrlsBelow
    <3>3. NsBelow(s0)'
      BY <1>1, <2>6, <3>1 DEF TreeInv, NsBelow
    <3>4. SnapTree' /\ \A s \in SubsystemIds : SnapKept(s)
      BY <1>1 DEF TreeInv, SnapTree, SnapKept
    <3> QED
      BY <2>2, <3>2, <3>3, <3>4, BelowOwn DEF Inv, SerialInv
  <2>9. Tree!CreateController(<<s0, i0>>, call[c].num)
    <3>1. \A y \in Tree!ControllersOf(s0) : LiveControllers[y] # call[c].num
      BY <2>7 DEF Tree!ControllersOf, Tree!CtrlNames
    <3> QED
      BY <2>3, <2>5, <2>6, <2>7, <3>1, OneController DEF Tree!CreateController
  <2>10. <<s0, i0>> \in Tree!CtrlNames
    BY DEF Tree!CtrlNames
  <2> QED
    BY <1>1, <2>8, <2>9, <2>10 DEF TreeStep, Tree!TreeNext
<1> QED
  BY <1>2, <1>3 DEF CtrlCreateSave

(* A delete shows when SNAP has obeyed, which it does when no namespace is *)
(* left at the controller.                                                 *)
LEMMA CtrlDeleteOnSnapTree ==
    ASSUME Inv, TreeInv, SnapRefusesBusy, "delete" \notin Faults,
           NEW c \in Calls, CtrlDeleteOnSnap(c),
           NEW s0 \in SubsystemIds, call[c].sub = s0,
           NEW i0 \in ControllerIds, call[c].id = i0
    PROVE  TreeInv' /\ TreeStep
<1>1. /\ call[c].op = "DeleteNvmeController" /\ call[c].pc = "snap"
      /\ call[c].op # None /\ ~InDeleteWindow(c) /\ UNCHANGED store
      /\ call[c].num \in Cntlids /\ call[c].num # None
      /\ ctrlStore[<<s0, i0>>] = call[c].num
  BY NoneAssumption
  DEF CtrlDeleteOnSnap, At, Deletes, InDeleteWindow, Inv, SerialInv, Knows, CtrlKey
<1>2. /\ LiveSubsystems[s0] = call[c].nqn /\ call[c].nqn # None
      /\ \A s \in SubsystemIds : s # s0 => LiveSubsystems[s] # call[c].nqn
  BY <1>1, ParentLive DEF CtrlOps
<1>3. CASE UNCHANGED snap /\ Return(c)
  <2>1. Quietly(c)
    BY <1>1, <1>3, QuietMoves DEF Inv, snap
  <2> QED
    BY <2>1, QuietCall
<1>4. CASE SnapDeleteController(call[c].nqn, call[c].num) /\ Goto(c, "erase")
  <2>1. /\ OthersKept(c) /\ call'[c].op = call[c].op /\ call'[c].pc = "erase"
        /\ call'[c].sub = s0 /\ call'[c].id = i0
    BY <1>4, GotoFacts DEF Inv, TypeInv, Steps
  <2>2. StoreKeptBut(c)
    BY <1>1, WritesBelow DEF Inv
  <2>3. OwnStep(c)
    BY <1>1, <2>1, <2>2 DEF OwnStep
  <2>4. /\ OwnLive(c) /\ OwnLiveNext(c)
        /\ \A s \in SubsystemIds : s # s0 => LiveKept(s)
    BY <1>1, <2>3, OwnLiveNow, OwnLiveStep DEF Inv, SerialInv
  <2>5. /\ LiveControllers[<<s0, i0>>] = call[c].num
        /\ LiveControllers'[<<s0, i0>>] = None
        /\ \A i \in ControllerIds : i # i0 =>
              LiveControllers'[<<s0, i>>] = LiveControllers[<<s0, i>>]
    BY <1>1, <2>1, <2>4
    DEF OwnLive, OwnLiveNext, CtrlGone, InDeleteWindow, Deletes, store
  <2>6. /\ LiveSubsystems'[s0] = LiveSubsystems[s0]
        /\ \A i \in NamespaceIds :
              LiveNamespaces'[<<s0, i>>] = LiveNamespaces[<<s0, i>>]
    BY <1>1, <2>1, <2>4 DEF OwnLive, OwnLiveNext, SubsysGone, NsGone, store
  <2>7. /\ snapCtrls' = snapCtrls \ {<<call[c].nqn, call[c].num>>}
        /\ UNCHANGED snapNs
        /\ \A x \in snapNs : <<x[1], x[2]>> # <<call[c].nqn, call[c].num>>
    BY <1>4 DEF SnapDeleteController
  <2>8. TreeInv'
    <3>1. \A d \in Calls : call'[d].sub = s0 => ~HoldsCtrl(d)' /\ ~HoldsNs(d)'
      BY <1>1, <2>1, NoneAssumption
      DEF Inv, SerialInv, SerialCalls, OthersKept, HoldsCtrl, HoldsNs, At
    <3>2. CtrlsBelow(s0)'
      BY <1>1, <1>2, <2>5, <2>6, <2>7, <3>1 DEF TreeInv, CtrlsBelow
    <3>3. NsBelow(s0)'
      BY <2>6, <2>7, <3>1 DEF TreeInv, NsBelow
    <3>4. SnapTree'
      BY <2>7 DEF TreeInv, SnapTree
    <3>5. \A s \in SubsystemIds : s # s0 => SnapKept(s)
      BY <1>2, <2>7, OthersOnSnap
    <3> QED
      BY <2>3, <3>2, <3>3, <3>4, <3>5, BelowOwn DEF Inv, SerialInv
  <2>9. Tree!DeleteController(<<s0, i0>>)
    <3>1. call[c].num = 0 => Tree!NamespacesOf(s0) = {}
      <4>1. ASSUME NEW i \in NamespaceIds, LiveNamespaces[<<s0, i>>] # None
            PROVE  call[c].num # 0
        BY <1>2, <2>7, <4>1 DEF TreeInv, NsBelow, HardCodedCntlid
      <4> QED
        BY <4>1 DEF Tree!NamespacesOf, Tree!NsNames
    <3> QED
      BY <1>1, <2>4, <2>5, <2>6, <3>1, OneController DEF Tree!DeleteController
  <2>10. <<s0, i0>> \in Tree!CtrlNames
    BY DEF Tree!CtrlNames
  <2> QED
    BY <2>8, <2>9, <2>10 DEF TreeStep, Tree!TreeNext
<1> QED
  BY <1>3, <1>4 DEF CtrlDeleteOnSnap

-----------------------------------------------------------------------------
(* The namespace handlers, in the same way.  SNAP refuses to attach a      *)
(* number that is attached already.                                        *)
LEMMA NsCreateOnSnapTree ==
    ASSUME Inv, TreeInv, NEW c \in Calls, NsCreateOnSnap(c),
           NEW s0 \in SubsystemIds, call[c].sub = s0
    PROVE  TreeInv' /\ TreeStep
<1>1. /\ call[c].op = "CreateNvmeNamespace" /\ call[c].pc = "snap"
      /\ call[c].op # None /\ ~InDeleteWindow(c) /\ UNCHANGED store
      /\ call[c].num # None
  BY NoneAssumption
  DEF NsCreateOnSnap, At, Creates, InDeleteWindow, Deletes, Inv, TypeInv, CallFits
<1>2. /\ LiveSubsystems[s0] = call[c].nqn /\ call[c].nqn # None
      /\ \A s \in SubsystemIds : s # s0 => LiveSubsystems[s] # call[c].nqn
  BY <1>1, ParentLive DEF NsOps
<1>3. CASE UNCHANGED snap /\ Return(c)
  <2>1. Quietly(c)
    BY <1>1, <1>3, QuietMoves DEF Inv, snap
  <2> QED
    BY <2>1, QuietCall
<1>4. ASSUME SnapAttach(call[c].nqn, HardCodedCntlid, call[c].num)
      PROVE  /\ SnapTree' /\ UNCHANGED snapCtrls /\ snapNs \subseteq snapNs'
             /\ \A s \in SubsystemIds : SnapKept(s)
             /\ \A i \in NamespaceIds : LiveNamespaces[<<s0, i>>] # call[c].num
             /\ <<call[c].nqn, HardCodedCntlid, call[c].num>> \in snapNs'
  <2>1. /\ snapNs' = snapNs \cup {<<call[c].nqn, HardCodedCntlid, call[c].num>>}
        /\ UNCHANGED snapCtrls /\ <<call[c].nqn, HardCodedCntlid>> \in snapCtrls
        /\ <<call[c].nqn, HardCodedCntlid, call[c].num>> \notin snapNs
    BY <1>4 DEF SnapAttach
  <2>2. \A i \in NamespaceIds : LiveNamespaces[<<s0, i>>] # call[c].num
    BY <1>1, <1>2, <2>1 DEF TreeInv, NsBelow
  <2> QED
    BY <2>1, <2>2 DEF TreeInv, SnapTree, SnapKept
<1>5. CASE SnapAttach(call[c].nqn, HardCodedCntlid, call[c].num) /\ Return(c)
  <2>1. OthersKept(c) /\ call'[c] = Idle
    BY <1>5, ControlFacts DEF Inv
  <2>2. SameWindow(c) /\ ~HoldsCtrl(c)' /\ ~HoldsNs(c)'
    BY <1>1, <2>1, IdleGone DEF SameWindow
  <2>3. \A s \in SubsystemIds : LiveKept(s)
    BY <1>1, <2>1, <2>2, StoreQuiet
  <2> QED
    BY <1>4, <1>5, <2>1, <2>2, <2>3, QuietTree
<1>6. CASE SnapAttach(call[c].nqn, HardCodedCntlid, call[c].num) /\ Goto(c, "save")
  <2>1. /\ OthersKept(c) /\ call'[c].op = call[c].op /\ call'[c].pc = "save"
        /\ call'[c].sub = s0 /\ call'[c].id = call[c].id
        /\ call'[c].num = call[c].num
    BY <1>6, GotoFacts DEF Inv, TypeInv, Steps
  <2>2. StoreKeptBut(c)
    BY <1>1, WritesBelow DEF Inv
  <2>3. OwnStep(c)
    BY <1>1, <2>1, <2>2 DEF OwnStep
  <2>4. SameWindow(c)
    BY <1>1, <2>1 DEF SameWindow, InDeleteWindow
  <2>5. \A s \in SubsystemIds : LiveKept(s)
    BY <1>1, <2>1, <2>4, StoreQuiet
  <2>6. \A d \in Calls : call'[d].sub = s0 => d = c
    BY <1>1, <2>1, NoneAssumption DEF Inv, SerialInv, SerialCalls, OthersKept
  <2>7. /\ ~HoldsCtrl(c)'
        /\ \A i \in NamespaceIds : LiveNamespaces'[<<s0, i>>] # call[c].num
        /\ LiveSubsystems'[s0] = call[c].nqn
    BY <1>1, <1>2, <1>4, <1>6, <2>1, <2>5 DEF HoldsCtrl, At, LiveKept
  <2>8. /\ UNCHANGED snapCtrls /\ snapNs \subseteq snapNs'
        /\ <<call[c].nqn, HardCodedCntlid, call[c].num>> \in snapNs'
    BY <1>4, <1>6
  <2>9. CtrlsBelow(s0)' /\ NsBelow(s0)'
    <3>1. LiveKept(s0) /\ CtrlsBelow(s0) /\ NsBelow(s0)
      BY <2>5 DEF TreeInv
    <3>2. CtrlsBelow(s0)'
      BY <2>6, <2>7, <2>8, <3>1 DEF CtrlsBelow, LiveKept
    <3>3. NsBelow(s0)'
      BY <2>1, <2>6, <2>7, <2>8, <3>1 DEF NsBelow, LiveKept, HardCodedCntlid
    <3> QED
      BY <3>2, <3>3
  <2>10. TreeInv'
    BY <1>4, <1>6, <2>3, <2>9, BelowOwn DEF Inv, SerialInv
  <2>11. TreeStep
    BY <2>5, KeptStutters DEF TreeStep
  <2> QED
    BY <2>10, <2>11
<1> QED
  BY <1>3, <1>5, <1>6 DEF NsCreateOnSnap

(* The object that is stored takes over the number its create held.        *)
LEMMA NsSaveTree ==
    ASSUME Inv, TreeInv, NEW c \in Calls, NsCreateSave(c),
           NEW s0 \in SubsystemIds, call[c].sub = s0,
           NEW i0 \in NamespaceIds, call[c].id = i0
    PROVE  TreeInv' /\ TreeStep
<1>1. /\ call[c].op = "CreateNvmeNamespace" /\ call[c].pc = "save"
      /\ call[c].op # None /\ ~InDeleteWindow(c) /\ HoldsNs(c)
      /\ call[c].num \in Nsids /\ call[c].num # None
      /\ OthersKept(c) /\ call'[c] = Idle
      /\ UNCHANGED <<subsysStore, ctrlStore, snapCtrls, snapNs>>
  BY ControlFacts, NoneAssumption
  DEF NsCreateSave, At, Creates, Inv, TypeInv, CallFits, snap, InDeleteWindow,
      Deletes, HoldsNs
<1>2. CASE UNCHANGED nsStore
  <2>1. Quietly(c)
    BY <1>1, <1>2, QuietMoves DEF NsCreateSave, Inv, store
  <2> QED
    BY <2>1, QuietCall
<1>3. CASE nsStore' = [nsStore EXCEPT ![NsKey(c)] = call[c].num]
  <2>1. StoreKeptBut(c)
    BY <1>1, <1>3, WritesBelow DEF Inv
  <2>2. OwnStep(c)
    BY <1>1, <2>1 DEF OwnStep
  <2>3. /\ OwnLive(c) /\ OwnLiveNext(c)
        /\ \A s \in SubsystemIds : s # s0 => LiveKept(s)
    BY <1>1, <2>2, OwnLiveNow, OwnLiveStep DEF Inv, SerialInv
  <2>4. /\ nsStore[<<s0, i0>>] = None
        /\ nsStore'[<<s0, i0>>] = call[c].num
        /\ \A i \in NamespaceIds :
              i # i0 => nsStore'[<<s0, i>>] = nsStore[<<s0, i>>]
    BY <1>1, <1>3
    DEF Inv, SerialInv, Knows, NsKey, TypeInv, TypeOK, StoreTypeOK, NsNames
  <2>5. /\ LiveNamespaces[<<s0, i0>>] = None
        /\ LiveNamespaces'[<<s0, i0>>] = call[c].num
        /\ \A i \in NamespaceIds : i # i0 =>
              LiveNamespaces'[<<s0, i>>] = LiveNamespaces[<<s0, i>>]
    BY <1>1, <2>3, <2>4, IdleGone DEF OwnLive, OwnLiveNext, NsGone
  <2>6. /\ LiveSubsystems'[s0] = LiveSubsystems[s0]
        /\ \A i \in ControllerIds :
              LiveControllers'[<<s0, i>>] = LiveControllers[<<s0, i>>]
    BY <1>1, <2>3, IdleGone DEF OwnLive, OwnLiveNext, SubsysGone, CtrlGone
  <2>7. /\ LiveSubsystems[s0] # None
        /\ <<LiveSubsystems[s0], HardCodedCntlid, call[c].num>> \in snapNs
        /\ \A i \in NamespaceIds : LiveNamespaces[<<s0, i>>] # call[c].num
    BY <1>1, ParentLive DEF NsOps, TreeInv, NsBelow
  <2>8. TreeInv'
    <3>1. \A d \in Calls : call'[d].sub # s0
      BY <1>1, NoneAssumption DEF Idle, Inv, SerialInv, SerialCalls, OthersKept
    <3>2. CtrlsBelow(s0)'
      BY <1>1, <2>6, <3>1 DEF TreeInv, CtrlsBelow
    <3>3. NsBelow(s0)'
      BY <1>1, <2>5, <2>6, <2>7, <3>1 DEF TreeInv, NsBelow, HardCodedCntlid
    <3>4. SnapTree' /\ \A s \in SubsystemIds : SnapKept(s)
      BY <1>1 DEF TreeInv, SnapTree, SnapKept
    <3> QED
      BY <2>2, <3>2, <3>3, <3>4, BelowOwn DEF Inv, SerialInv
  <2>9. Tree!CreateNamespace(<<s0, i0>>, call[c].num)
    <3>1. \A y \in Tree!NamespacesOf(s0) : LiveNamespaces[y] # call[c].num
      BY <2>7 DEF Tree!NamespacesOf, Tree!NsNames
    <3> QED
      BY <2>3, <2>5, <2>6, <2>7, <3>1, OneNamespace DEF Tree!CreateNamespace
  <2>10. <<s0, i0>> \in Tree!NsNames
    BY DEF Tree!NsNames
  <2> QED
    BY <1>1, <2>8, <2>9, <2>10 DEF TreeStep, Tree!TreeNext
<1> QED
  BY <1>2, <1>3 DEF NsCreateSave

(* A delete shows when SNAP has obeyed.                                    *)
LEMMA NsDeleteOnSnapTree ==
    ASSUME Inv, TreeInv, "delete" \notin Faults,
           NEW c \in Calls, NsDeleteOnSnap(c),
           NEW s0 \in SubsystemIds, call[c].sub = s0,
           NEW i0 \in NamespaceIds, call[c].id = i0
    PROVE  TreeInv' /\ TreeStep
<1>1. /\ call[c].op = "DeleteNvmeNamespace" /\ call[c].pc = "snap"
      /\ call[c].op # None /\ ~InDeleteWindow(c) /\ UNCHANGED store
      /\ call[c].num \in Nsids /\ call[c].num # None
      /\ nsStore[<<s0, i0>>] = call[c].num
  BY NoneAssumption
  DEF NsDeleteOnSnap, At, Deletes, InDeleteWindow, Inv, SerialInv, Knows, NsKey
<1>2. /\ LiveSubsystems[s0] = call[c].nqn /\ call[c].nqn # None
      /\ \A s \in SubsystemIds : s # s0 => LiveSubsystems[s] # call[c].nqn
  BY <1>1, ParentLive DEF NsOps
<1>3. CASE UNCHANGED snap /\ Return(c)
  <2>1. Quietly(c)
    BY <1>1, <1>3, QuietMoves DEF Inv, snap
  <2> QED
    BY <2>1, QuietCall
<1>4. CASE /\ SnapDetach(call[c].nqn, HardCodedCntlid, call[c].num)
           /\ Goto(c, "erase")
  <2>1. /\ OthersKept(c) /\ call'[c].op = call[c].op /\ call'[c].pc = "erase"
        /\ call'[c].sub = s0 /\ call'[c].id = i0
    BY <1>4, GotoFacts DEF Inv, TypeInv, Steps
  <2>2. StoreKeptBut(c)
    BY <1>1, WritesBelow DEF Inv
  <2>3. OwnStep(c)
    BY <1>1, <2>1, <2>2 DEF OwnStep
  <2>4. /\ OwnLive(c) /\ OwnLiveNext(c)
        /\ \A s \in SubsystemIds : s # s0 => LiveKept(s)
    BY <1>1, <2>3, OwnLiveNow, OwnLiveStep DEF Inv, SerialInv
  <2>5. /\ LiveNamespaces[<<s0, i0>>] = call[c].num
        /\ LiveNamespaces'[<<s0, i0>>] = None
        /\ \A i \in NamespaceIds : i # i0 =>
              LiveNamespaces'[<<s0, i>>] = LiveNamespaces[<<s0, i>>]
    BY <1>1, <2>1, <2>4
    DEF OwnLive, OwnLiveNext, NsGone, InDeleteWindow, Deletes, store
  <2>6. /\ LiveSubsystems'[s0] = LiveSubsystems[s0]
        /\ \A i \in ControllerIds :
              LiveControllers'[<<s0, i>>] = LiveControllers[<<s0, i>>]
    BY <1>1, <2>1, <2>4 DEF OwnLive, OwnLiveNext, SubsysGone, CtrlGone, store
  <2>7. /\ snapNs' = snapNs \ {<<call[c].nqn, HardCodedCntlid, call[c].num>>}
        /\ UNCHANGED snapCtrls
    BY <1>4 DEF SnapDetach
  <2>8. TreeInv'
    <3>1. \A d \in Calls : call'[d].sub = s0 => ~HoldsCtrl(d)' /\ ~HoldsNs(d)'
      BY <1>1, <2>1, NoneAssumption
      DEF Inv, SerialInv, SerialCalls, OthersKept, HoldsCtrl, HoldsNs, At
    <3>2. CtrlsBelow(s0)'
      BY <2>6, <2>7, <3>1 DEF TreeInv, CtrlsBelow
    <3>3. NsBelow(s0)'
      BY <1>1, <1>2, <2>5, <2>6, <2>7, <3>1 DEF TreeInv, NsBelow, HardCodedCntlid
    <3>4. SnapTree'
      BY <2>7 DEF TreeInv, SnapTree
    <3>5. \A s \in SubsystemIds : s # s0 => SnapKept(s)
      BY <1>2, <2>7, OthersOnSnap
    <3> QED
      BY <2>3, <3>2, <3>3, <3>4, <3>5, BelowOwn DEF Inv, SerialInv
  <2>9. Tree!DeleteNamespace(<<s0, i0>>)
    BY <1>1, <2>4, <2>5, <2>6, OneNamespace DEF Tree!DeleteNamespace
  <2>10. <<s0, i0>> \in Tree!NsNames
    BY DEF Tree!NsNames
  <2> QED
    BY <2>8, <2>9, <2>10 DEF TreeStep, Tree!TreeNext
<1> QED
  BY <1>3, <1>4 DEF NsDeleteOnSnap

-----------------------------------------------------------------------------
(* Erasing a record that is not live any more is no step of the tree.      *)
LEMMA EraseTree ==
    ASSUME Inv, TreeInv, "delete" \notin Faults, NEW c \in Calls,
           SubsysDeleteErase(c) \/ CtrlDeleteErase(c) \/ NsDeleteErase(c),
           NEW s0 \in SubsystemIds, call[c].sub = s0
    PROVE  TreeInv' /\ TreeStep
<1>1. /\ call[c].op \in Deletes /\ call[c].pc = "erase" /\ call[c].op # None
      /\ UNCHANGED <<snapCtrls, snapNs>>
  BY NoneAssumption
  DEF SubsysDeleteErase, CtrlDeleteErase, NsDeleteErase, At, Deletes, snap
<1>2. OthersKept(c) /\ call'[c] = Idle
  BY ControlFacts DEF SubsysDeleteErase, CtrlDeleteErase, NsDeleteErase, Inv
<1>3. ASSUME StoreKeptBut(c)
      PROVE  /\ OwnLive(c) /\ OwnLiveNext(c)
             /\ \A s \in SubsystemIds : s # s0 => LiveKept(s)
  <2>1. OwnStep(c)
    BY <1>1, <1>2, <1>3 DEF OwnStep
  <2> QED
    BY <1>1, <2>1, OwnLiveNow, OwnLiveStep DEF Inv, SerialInv
<1>4. \A s \in SubsystemIds : LiveKept(s)
  <2>1. CASE SubsysDeleteErase(c)
    <3>1. /\ call[c].op = "DeleteNvmeSubsystem" /\ UNCHANGED <<ctrlStore, nsStore>>
          /\ subsysStore' = [subsysStore EXCEPT ![SubsysKey(c)] = None]
      BY <2>1 DEF SubsysDeleteErase, At
    <3>2. StoreKeptBut(c)
      BY <3>1, WritesBelow DEF Inv
    <3>3. SubsysGone(c) /\ subsysStore'[s0] = None
      BY <1>1, <3>1
      DEF SubsysGone, InDeleteWindow, SubsysKey, Inv, TypeInv, TypeOK, StoreTypeOK
    <3>4. LiveKept(s0)
      BY <1>2, <1>3, <3>1, <3>2, <3>3, IdleGone
      DEF LiveKept, OwnLive, OwnLiveNext, CtrlGone, NsGone
    <3> QED
      BY <1>3, <3>2, <3>4
  <2>2. CASE CtrlDeleteErase(c)
    <3>1. /\ call[c].op = "DeleteNvmeController"
          /\ UNCHANGED <<subsysStore, nsStore>>
          /\ ctrlStore' = [ctrlStore EXCEPT ![CtrlKey(c)] = None]
      BY <2>2 DEF CtrlDeleteErase, At
    <3>2. StoreKeptBut(c)
      BY <3>1, WritesBelow DEF Inv
    <3>3. \A i \in ControllerIds :
              IF i = call[c].id
                THEN CtrlGone(c, i) /\ ctrlStore'[<<s0, i>>] = None
                ELSE ~CtrlGone(c, i) /\ ctrlStore'[<<s0, i>>] = ctrlStore[<<s0, i>>]
      BY <1>1, <3>1
      DEF CtrlGone, InDeleteWindow, CtrlKey, CtrlNames, Inv, TypeInv, TypeOK,
          StoreTypeOK
    <3>4. LiveKept(s0)
      BY <1>2, <1>3, <3>1, <3>2, <3>3, IdleGone
      DEF LiveKept, OwnLive, OwnLiveNext, SubsysGone, NsGone
    <3> QED
      BY <1>3, <3>2, <3>4
  <2>3. CASE NsDeleteErase(c)
    <3>1. /\ call[c].op = "DeleteNvmeNamespace"
          /\ UNCHANGED <<subsysStore, ctrlStore>>
          /\ nsStore' = [nsStore EXCEPT ![NsKey(c)] = None]
      BY <2>3 DEF NsDeleteErase, At
    <3>2. StoreKeptBut(c)
      BY <3>1, WritesBelow DEF Inv
    <3>3. \A i \in NamespaceIds :
              IF i = call[c].id
                THEN NsGone(c, i) /\ nsStore'[<<s0, i>>] = None
                ELSE ~NsGone(c, i) /\ nsStore'[<<s0, i>>] = nsStore[<<s0, i>>]
      BY <1>1, <3>1
      DEF NsGone, InDeleteWindow, NsKey, NsNames, Inv, TypeInv, TypeOK, StoreTypeOK
    <3>4. LiveKept(s0)
      BY <1>2, <1>3, <3>1, <3>2, <3>3, IdleGone
      DEF LiveKept, OwnLive, OwnLiveNext, SubsysGone, CtrlGone
    <3> QED
      BY <1>3, <3>2, <3>4
  <2> QED
    BY <2>1, <2>2, <2>3
<1>5. SnapTree'
  BY <1>1 DEF TreeInv, SnapTree
<1> QED
  BY <1>1, <1>2, <1>4, <1>5, IdleGone, QuietTree

(* Neither is taking the NQN out of s.NQNs.                                *)
LEMMA ForgetTree ==
    ASSUME Inv, TreeInv, NEW c \in Calls, SubsysDeleteForget(c)
    PROVE  TreeInv' /\ TreeStep
<1>1. /\ call[c].op = "DeleteNvmeSubsystem" /\ call[c].pc = "forget"
      /\ UNCHANGED <<store, snapCtrls, snapNs>>
  BY DEF SubsysDeleteForget, At, snap
<1>2. /\ OthersKept(c) /\ call'[c].op = call[c].op /\ call'[c].pc = "erase"
      /\ call'[c].sub = call[c].sub /\ call'[c].id = call[c].id
  BY GotoFacts DEF SubsysDeleteForget, Inv, TypeInv, Steps
<1>3. Quietly(c)
  BY <1>1, <1>2
  DEF Quietly, SameWindow, InDeleteWindow, Deletes, HoldsCtrl, HoldsNs, At
<1> QED
  BY <1>3, QuietCall

(* A handler that only looks things up moves nothing.                      *)
LEMMA LookupsTree ==
    ASSUME Inv, TreeInv, NEW c \in Calls,
           \/ \E op, s, i, n, k : Begin(c, op, s, i, n, k)
           \/ SubsysCreateLookup(c) \/ SubsysCreateCheckNqn(c)
           \/ SubsysCreateVersion(c) \/ SubsysDeleteLookup(c)
           \/ CtrlCreateLookup(c) \/ CtrlCreateParent(c)
           \/ CtrlDeleteLookup(c) \/ CtrlDeleteParent(c)
           \/ NsCreateLookup(c) \/ NsCreateParent(c)
           \/ NsDeleteLookup(c) \/ NsDeleteParent(c)
    PROVE  TreeInv' /\ TreeStep
<1>1. CASE \E op, s, i, n, k : Begin(c, op, s, i, n, k)
  <2>1. ~InDeleteWindow(c) /\ UNCHANGED <<store, snapCtrls, snapNs>>
    BY <1>1, NoneAssumption DEF Begin, Idle, InDeleteWindow, Deletes, snap
  <2> QED
    BY <1>1, <2>1, QuietMoves, QuietCall DEF Inv
<1>2. CASE SubsysCreateVersion(c)
  <2>1. /\ OthersKept(c) /\ UNCHANGED <<store, snapCtrls, snapNs>>
        /\ ~InDeleteWindow(c) /\ ~InDeleteWindow(c)'
        /\ ~HoldsCtrl(c)' /\ ~HoldsNs(c)'
    BY <1>2, ControlFacts, IdleGone
    DEF SubsysCreateVersion, At, snap, InDeleteWindow, Deletes, HoldsCtrl, HoldsNs,
        Inv
  <2> QED
    BY <2>1, QuietCall DEF Quietly, SameWindow
<1>3. CASE \/ SubsysCreateLookup(c) \/ SubsysCreateCheckNqn(c)
           \/ SubsysDeleteLookup(c)
           \/ CtrlCreateLookup(c) \/ CtrlCreateParent(c)
           \/ CtrlDeleteLookup(c) \/ CtrlDeleteParent(c)
           \/ NsCreateLookup(c) \/ NsCreateParent(c)
           \/ NsDeleteLookup(c) \/ NsDeleteParent(c)
  <2>1. ~InDeleteWindow(c) /\ UNCHANGED <<store, snapCtrls, snapNs>>
    BY <1>3
    DEF SubsysCreateLookup, SubsysCreateCheckNqn, SubsysDeleteLookup,
        CtrlCreateLookup, CtrlCreateParent, CtrlDeleteLookup, CtrlDeleteParent,
        NsCreateLookup, NsCreateParent, NsDeleteLookup, NsDeleteParent, At,
        InDeleteWindow, snap
  <2>2. \/ Return(c)
        \/ \E pc \in {"parent", "check", "snap", "version"} : Goto(c, pc)
        \/ \E pc \in {"parent", "check", "snap", "version"} : \E n, k :
              GotoWith(c, pc, n, k)
    BY <1>3
    DEF SubsysCreateLookup, SubsysCreateCheckNqn, SubsysDeleteLookup,
        CtrlCreateLookup, CtrlCreateParent, CtrlDeleteLookup, CtrlDeleteParent,
        NsCreateLookup, NsCreateParent, NsDeleteLookup, NsDeleteParent
  <2> QED
    BY <2>1, <2>2, QuietMoves, QuietCall DEF Inv
<1> QED
  BY <1>1, <1>2, <1>3

(* A subsystem on SNAP is not yet one in the tree.                         *)
LEMMA SubsysCreateOnSnapTree ==
    ASSUME Inv, TreeInv, NEW c \in Calls, SubsysCreateOnSnap(c)
    PROVE  TreeInv' /\ TreeStep
<1>1. /\ ~InDeleteWindow(c) /\ UNCHANGED <<store, snapCtrls, snapNs>>
      /\ Return(c) \/ Goto(c, "version")
  BY DEF SubsysCreateOnSnap, At, InDeleteWindow, snap, SnapCreateSubsystem
<1> QED
  BY <1>1, QuietMoves, QuietCall DEF Inv

-----------------------------------------------------------------------------
(* Every step of a handler is one of the tree or none.                     *)
LEMMA HandlerTree ==
    ASSUME Inv, TreeInv, ~Overlap, "delete" \notin Faults, SnapRefusesBusy,
           NEW c \in Calls, SubsysStep(c) \/ CtrlStep(c) \/ NsStep(c)
    PROVE  TreeInv' /\ TreeStep
<1>1. ASSUME call[c].op # None
      PROVE  /\ call[c].sub \in SubsystemIds
             /\ call[c].op \in CtrlOps => call[c].id \in ControllerIds
             /\ call[c].op \in NsOps => call[c].id \in NamespaceIds
  BY <1>1 DEF Inv, TypeInv, CallFits
<1>2. CASE SubsysStep(c)
  <2>1. CASE SubsysCreateSave(c) \/ SubsysDeleteOnSnap(c) \/ SubsysDeleteErase(c)
    <3>1. call[c].sub \in SubsystemIds
      BY <1>1, <2>1, NoneAssumption
      DEF SubsysCreateSave, SubsysDeleteOnSnap, SubsysDeleteErase, At, Creates,
          Deletes
    <3> QED
      BY <2>1, <3>1, SubsysSaveTree, SubsysDeleteOnSnapTree, EraseTree
  <2> QED
    BY <1>2, <2>1, LookupsTree, SubsysCreateOnSnapTree, ForgetTree
    DEF SubsysStep, SubsysCreateBegin, SubsysDeleteBegin
<1>3. CASE CtrlStep(c)
  <2>1. CASE \/ CtrlCreateOnSnap(c) \/ CtrlCreateSave(c)
             \/ CtrlDeleteOnSnap(c) \/ CtrlDeleteErase(c)
    <3>1. call[c].sub \in SubsystemIds /\ call[c].id \in ControllerIds
      BY <1>1, <2>1, NoneAssumption
      DEF CtrlCreateOnSnap, CtrlCreateSave, CtrlDeleteOnSnap, CtrlDeleteErase, At,
          Creates, Deletes, CtrlOps
    <3> QED
      BY <2>1, <3>1, CtrlCreateOnSnapTree, CtrlSaveTree, CtrlDeleteOnSnapTree,
         EraseTree
  <2> QED
    BY <1>3, <2>1, LookupsTree DEF CtrlStep, CtrlCreateBegin, CtrlDeleteBegin
<1>4. CASE NsStep(c)
  <2>1. CASE \/ NsCreateOnSnap(c) \/ NsCreateSave(c)
             \/ NsDeleteOnSnap(c) \/ NsDeleteErase(c)
    <3>1. call[c].sub \in SubsystemIds /\ call[c].id \in NamespaceIds
      BY <1>1, <2>1, NoneAssumption
      DEF NsCreateOnSnap, NsCreateSave, NsDeleteOnSnap, NsDeleteErase, At,
          Creates, Deletes, NsOps
    <3> QED
      BY <2>1, <3>1, NsCreateOnSnapTree, NsSaveTree, NsDeleteOnSnapTree, EraseTree
  <2> QED
    BY <1>4, <2>1, LookupsTree DEF NsStep, NsCreateBegin, NsDeleteBegin
<1> QED
  BY <1>2, <1>3, <1>4

(* A restart ends no delete half-way, so that the tree stays.              *)
LEMMA RestartTree ==
    ASSUME TreeInv, "delete" \notin Faults, Restart
    PROVE  TreeInv' /\ TreeStep
<1>1. /\ \A c \in Calls : call'[c] = Idle /\ ~InDeleteWindow(c)
      /\ UNCHANGED <<subsysStore, ctrlStore, nsStore, snapCtrls, snapNs>>
  BY DEF Restart, store, snap
<1>2. \A c \in Calls : /\ ~SubsysGone(c) /\ ~SubsysGone(c)'
                       /\ \A i : /\ ~CtrlGone(c, i) /\ ~CtrlGone(c, i)'
                                 /\ ~NsGone(c, i) /\ ~NsGone(c, i)'
                       /\ ~HoldsCtrl(c)' /\ ~HoldsNs(c)'
  BY <1>1, IdleGone DEF SubsysGone, CtrlGone, NsGone
<1>3. \A s \in SubsystemIds : LiveKept(s)
  BY <1>1, <1>2, LiveDef, LiveDefNext DEF LiveIsStored, LiveKept
<1>4. ASSUME NEW s \in SubsystemIds PROVE CtrlsBelow(s)' /\ NsBelow(s)'
  BY <1>1, <1>2, <1>3 DEF TreeInv, CtrlsBelow, NsBelow, LiveKept
<1>5. SnapTree'
  BY <1>1 DEF TreeInv, SnapTree
<1> QED
  BY <1>3, <1>4, <1>5, KeptStutters DEF TreeInv, TreeStep

(* No object is live at first.                                             *)
LEMMA InitTree == Init => TreeInv /\ Tree!TreeInit
<1> SUFFICES ASSUME Init PROVE TreeInv /\ Tree!TreeInit
  OBVIOUS
<1>1. /\ LiveSubsystems = [s \in SubsystemIds |-> None]
      /\ LiveControllers = [x \in CtrlNames |-> None]
      /\ LiveNamespaces = [x \in NsNames |-> None]
  BY DEF Init, LiveSubsystems, LiveControllers, LiveNamespaces, LiveSubsystem,
         LiveController, LiveNamespace
<1>2. \A c \in Calls : ~HoldsCtrl(c) /\ ~HoldsNs(c)
  BY NoneAssumption DEF Init, Idle, HoldsCtrl, HoldsNs, At, Creates
<1>3. TreeInv
  BY <1>1, <1>2
  DEF Init, TreeInv, SnapTree, CtrlsBelow, NsBelow, CtrlNames, NsNames
<1> QED
  BY <1>1, <1>3 DEF Tree!TreeInit, CtrlNames, NsNames, Tree!CtrlNames, Tree!NsNames

(* Every step keeps the invariant, and is a step of the tree or none.      *)
LEMMA NextTree ==
    ASSUME ~Overlap, "delete" \notin Faults, SnapRefusesBusy
    PROVE  Inv /\ TreeInv /\ [Next]_vars
              => TreeInv' /\ [Tree!TreeNext]_(Tree!treeVars)
<1> SUFFICES ASSUME Inv, TreeInv, [Next]_vars PROVE TreeInv' /\ TreeStep
  BY DEF TreeStep
<1>1. CASE Restart
  BY <1>1, RestartTree
<1>2. ASSUME NEW c \in Calls, SubsysStep(c) \/ CtrlStep(c) \/ NsStep(c)
      PROVE  TreeInv' /\ TreeStep
  BY <1>2, HandlerTree
<1>3. CASE UNCHANGED vars
  <2>1. UNCHANGED <<subsysStore, ctrlStore, nsStore, snapCtrls, snapNs, call>>
    BY <1>3 DEF vars, store, snap
  <2>2. \A c \in Calls : /\ SubsysGone(c)' <=> SubsysGone(c)
                         /\ \A i : CtrlGone(c, i)' <=> CtrlGone(c, i)
                         /\ \A i : NsGone(c, i)' <=> NsGone(c, i)
                         /\ HoldsCtrl(c)' <=> HoldsCtrl(c)
                         /\ HoldsNs(c)' <=> HoldsNs(c)
    BY <2>1 DEF SubsysGone, CtrlGone, NsGone, HoldsCtrl, HoldsNs, At, InDeleteWindow
  <2>3. \A s \in SubsystemIds : LiveKept(s)
    BY <2>1, <2>2, LiveDef, LiveDefNext DEF LiveIsStored, LiveKept
  <2>4. ASSUME NEW s \in SubsystemIds PROVE CtrlsBelow(s)' /\ NsBelow(s)'
    BY <2>1, <2>2, <2>3 DEF TreeInv, CtrlsBelow, NsBelow, LiveKept
  <2>5. SnapTree'
    BY <2>1 DEF TreeInv, SnapTree
  <2> QED
    BY <2>3, <2>4, <2>5, KeptStutters DEF TreeInv, TreeStep
<1> QED
  BY <1>1, <1>2, <1>3 DEF Next

-----------------------------------------------------------------------------
(* What the invariant says of the objects themselves.                      *)
LEMMA TreeInvImplies ==
    TreeInv => /\ LiveControllersOnSnap /\ LiveCntlidsUnique
               /\ LiveNamespacesOnSnap /\ LiveNsidsUnique
<1> SUFFICES ASSUME TreeInv
             PROVE  /\ LiveControllersOnSnap /\ LiveCntlidsUnique
                    /\ LiveNamespacesOnSnap /\ LiveNsidsUnique
  OBVIOUS
<1>1. \A s \in SubsystemIds :
          LiveSubsystems[s] # None => LiveSubsystems[s] = subsysStore[s]
  BY DEF LiveSubsystems
<1>2. \A x \in CtrlNames :
          LiveController(x) => LiveControllers[x] # None
                               /\ LiveControllers[x] = ctrlStore[x]
  BY DEF LiveControllers, LiveController
<1>3. \A x \in NsNames :
          LiveNamespace(x) => LiveNamespaces[x] # None
                              /\ LiveNamespaces[x] = nsStore[x]
  BY DEF LiveNamespaces, LiveNamespace
<1>4. LiveControllersOnSnap
  <2>1. ASSUME NEW s \in SubsystemIds, NEW i \in ControllerIds, LiveController(<<s, i>>)
        PROVE  /\ subsysStore[s] # None
               /\ <<subsysStore[s], ctrlStore[<<s, i>>]>> \in snapCtrls
    <3>1. /\ LiveControllers[<<s, i>>] # None
          /\ LiveControllers[<<s, i>>] = ctrlStore[<<s, i>>]
      BY <1>2, <2>1 DEF CtrlNames
    <3>2. LiveSubsystems[s] # None /\ LiveSubsystems[s] = subsysStore[s]
      BY <1>1, <3>1 DEF TreeInv, CtrlsBelow
    <3> QED
      BY <3>1, <3>2 DEF TreeInv, CtrlsBelow
  <2> QED
    BY <2>1 DEF LiveControllersOnSnap, CtrlNames
<1>5. LiveCntlidsUnique
  BY <1>2 DEF TreeInv, CtrlsBelow, LiveCntlidsUnique, CtrlNames
<1>6. LiveNamespacesOnSnap
  <2>1. ASSUME NEW s \in SubsystemIds, NEW i \in NamespaceIds, LiveNamespace(<<s, i>>)
        PROVE  /\ subsysStore[s] # None
               /\ <<subsysStore[s], HardCodedCntlid, nsStore[<<s, i>>]>> \in snapNs
    <3>1. /\ LiveNamespaces[<<s, i>>] # None
          /\ LiveNamespaces[<<s, i>>] = nsStore[<<s, i>>]
      BY <1>3, <2>1 DEF NsNames
    <3>2. LiveSubsystems[s] # None /\ LiveSubsystems[s] = subsysStore[s]
      BY <1>1, <3>1 DEF TreeInv, NsBelow
    <3> QED
      BY <3>1, <3>2 DEF TreeInv, NsBelow
  <2> QED
    BY <2>1 DEF LiveNamespacesOnSnap, NsNames
<1>7. LiveNsidsUnique
  BY <1>3 DEF TreeInv, NsBelow, LiveNsidsUnique, NsNames
<1> QED
  BY <1>4, <1>5, <1>6, <1>7

(* The invariant of the tree, when calls on one subsystem do not overlap,  *)
(* no delete breaks half-way and SNAP keeps what still has children.       *)
THEOREM TreeInvCorrect ==
    ASSUME ~Overlap, "delete" \notin Faults, SnapRefusesBusy
    PROVE  Spec => []TreeInv
<1>1. Init => Inv /\ TreeInv
  BY InitType, InitSerial, InitNqn, InitTree DEF Inv
<1>2. Inv /\ TreeInv /\ [Next]_vars => Inv' /\ TreeInv'
  BY NextType, NextSerial, NextNqn, NextTree DEF Inv
<1> QED
  BY <1>1, <1>2, PTL DEF Spec

(* The handlers, step by step, implement the tree whose creates and        *)
(* deletes are atomic.                                                     *)
THEOREM HandlersImplementTree ==
    ASSUME ~Overlap, "delete" \notin Faults, SnapRefusesBusy
    PROVE  Spec => TreeImplemented
<1>1. Init => Tree!TreeInit
  BY InitTree
<1>2. Inv /\ TreeInv /\ [Next]_vars => [Tree!TreeNext]_(Tree!treeVars)
  BY NextTree
<1> QED
  BY <1>1, <1>2, InvCorrect, TreeInvCorrect, PTL
  DEF Spec, TreeImplemented, Tree!TreeSpec
=============================================================================
