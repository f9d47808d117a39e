-------------------------- MODULE NvmeOrphanProofs --------------------------
(***************************************************************************)
(* Nothing stays on SNAP that no object names, when the calls on one       *)
(* subsystem's resources do not overlap and every create that SNAP has     *)
(* carried out gets its answer and stores its object.  Deletes may break   *)
(* half-way and SNAP may delete children with their parents.               *)
(*                                                                         *)
(* The invariant says who answers for what is on SNAP, subsystem by        *)
(* subsystem: an object that is live, below a parent that is live, or a    *)
(* create about to store it.  That the parent is live too is what keeps a  *)
(* child's object when its parent's record is erased.                      *)
(***************************************************************************)
EXTENDS NvmeTreeProofs

(* A create that has its subsystem on SNAP and is about to store it.       *)
HoldsSubsys(c) == call[c].op = "CreateNvmeSubsystem" /\ InCreateWindow(c)

(* Subsystem s, or its create, answers for NQN n.                          *)
SubsysHeld(s, n) ==
    \/ LiveSubsystems[s] = n
    \/ \E c \in Calls : HoldsSubsys(c) /\ call[c].sub = s /\ call[c].nqn = n

(* A controller below s, or its create, answers for number k below NQN n.  *)
CtrlHeld(s, n, k) ==
    /\ LiveSubsystems[s] = n
    /\ \/ \E i \in ControllerIds : LiveControllers[<<s, i>>] = k
       \/ \E c \in Calls : HoldsCtrl(c) /\ call[c].sub = s /\ call[c].num = k

(* The same of namespaces.                                                 *)
NsHeld(s, n, h) ==
    /\ LiveSubsystems[s] = n
    /\ \/ \E i \in NamespaceIds : LiveNamespaces[<<s, i>>] = h
       \/ \E c \in Calls : HoldsNs(c) /\ call[c].sub = s /\ call[c].num = h

NoNumber(c) == call[c].op = "CreateNvmeSubsystem" => call[c].num = None

(* Somebody answers for everything on SNAP, where all namespaces are at    *)
(* controller 0.                                                           *)
OrphanInv ==
    /\ \A c \in Calls : NoNumber(c)
    /\ \A n \in snapSubsys : \E s \in SubsystemIds : SubsysHeld(s, n)
    /\ \A x \in snapCtrls : \E s \in SubsystemIds : CtrlHeld(s, x[1], x[2])
    /\ \A x \in snapNs : \E s \in SubsystemIds : NsHeld(s, x[1], x[3])
    /\ \A x \in snapNs : x[2] = HardCodedCntlid

(* What is held below s goes on to be held.                                *)
HeldKept(s) ==
    /\ \A n \in Nqns : SubsysHeld(s, n) => SubsysHeld(s, n)'
    /\ \A n \in Nqns, k \in Cntlids : CtrlHeld(s, n, k) => CtrlHeld(s, n, k)'
    /\ \A n \in Nqns, h \in Nsids : NsHeld(s, n, h) => NsHeld(s, n, h)'

(* What is on SNAP after the step and was held below s, or was not on SNAP,*)
(* is held below s.                                                        *)
SubsysAnswered(s) ==
    \A n \in snapSubsys' :
        n \notin snapSubsys \/ SubsysHeld(s, n) => SubsysHeld(s, n)'

CtrlsAnswered(s) ==
    \A x \in snapCtrls' :
        x \notin snapCtrls \/ CtrlHeld(s, x[1], x[2]) => CtrlHeld(s, x[1], x[2])'

NsAnswered(s) ==
    \A x \in snapNs' :
        /\ x \notin snapNs => x[2] = HardCodedCntlid
        /\ x \notin snapNs \/ NsHeld(s, x[1], x[3]) => NsHeld(s, x[1], x[3])'

AnswersFor(s) == SubsysAnswered(s) /\ CtrlsAnswered(s) /\ NsAnswered(s)

-----------------------------------------------------------------------------
(* A step is accounted for when one subsystem answers for what it changes  *)
(* and the others keep what they hold.                                     *)
LEMMA OneAnswers ==
    ASSUME TypeInv, OrphanInv, NEW c \in Calls, OthersKept(c), NoNumber(c)',
           NEW s0 \in SubsystemIds, AnswersFor(s0),
           \A s \in SubsystemIds : s # s0 => HeldKept(s)
    PROVE  OrphanInv'
<1>1. \A d \in Calls : NoNumber(d)'
  BY DEF OrphanInv, NoNumber, OthersKept
<1>2. ASSUME NEW n \in snapSubsys' PROVE \E s \in SubsystemIds : SubsysHeld(s, n)'
  <2>1. CASE n \notin snapSubsys
    BY <1>2, <2>1 DEF AnswersFor, SubsysAnswered, CtrlsAnswered, NsAnswered
  <2>2. CASE n \in snapSubsys
    <3>1. n \in Nqns
      BY <2>2 DEF TypeInv, TypeOK, SnapTypeOK
    <3>2. PICK s \in SubsystemIds : SubsysHeld(s, n)
      BY <2>2 DEF OrphanInv
    <3> QED
      BY <1>2, <3>1, <3>2 DEF AnswersFor, SubsysAnswered, CtrlsAnswered, NsAnswered, HeldKept
  <2> QED
    BY <2>1, <2>2
<1>3. ASSUME NEW x \in snapCtrls'
      PROVE  \E s \in SubsystemIds : CtrlHeld(s, x[1], x[2])'
  <2>1. CASE x \notin snapCtrls
    BY <1>3, <2>1 DEF AnswersFor, SubsysAnswered, CtrlsAnswered, NsAnswered
  <2>2. CASE x \in snapCtrls
    <3>1. x[1] \in Nqns /\ x[2] \in Cntlids
      BY <2>2 DEF TypeInv, TypeOK, SnapTypeOK
    <3>2. PICK s \in SubsystemIds : CtrlHeld(s, x[1], x[2])
      BY <2>2 DEF OrphanInv
    <3> QED
      BY <1>3, <3>1, <3>2 DEF AnswersFor, SubsysAnswered, CtrlsAnswered, NsAnswered, HeldKept
  <2> QED
    BY <2>1, <2>2
<1>4. ASSUME NEW x \in snapNs'
      PROVE  \E s \in SubsystemIds : NsHeld(s, x[1], x[3])'
  <2>1. CASE x \notin snapNs
    BY <1>4, <2>1 DEF AnswersFor, SubsysAnswered, CtrlsAnswered, NsAnswered
  <2>2. CASE x \in snapNs
    <3>1. x[1] \in Nqns /\ x[3] \in Nsids
      BY <2>2 DEF TypeInv, TypeOK, SnapTypeOK
    <3>2. PICK s \in SubsystemIds : NsHeld(s, x[1], x[3])
      BY <2>2 DEF OrphanInv
    <3> QED
      BY <1>4, <3>1, <3>2 DEF AnswersFor, SubsysAnswered, CtrlsAnswered, NsAnswered, HeldKept
  <2> QED
    BY <2>1, <2>2
<1>5. \A x \in snapNs' : x[2] = HardCodedCntlid
  BY DEF OrphanInv, AnswersFor, NsAnswered
<1> QED
  BY <1>1, <1>2, <1>3, <1>4, <1>5 DEF OrphanInv

(* A step that brings nothing to SNAP and lets everyone keep what they     *)
(* hold keeps the invariant.                                               *)
LEMMA AllKeep ==
    ASSUME TypeInv, OrphanInv, \A c \in Calls : NoNumber(c)',
           snapSubsys' \subseteq snapSubsys, snapCtrls' \subseteq snapCtrls,
           snapNs' \subseteq snapNs, \A s \in SubsystemIds : HeldKept(s)
    PROVE  OrphanInv'
<1>1. /\ \A n \in snapSubsys' : n \in Nqns
      /\ \A x \in snapCtrls' : x[1] \in Nqns /\ x[2] \in Cntlids
      /\ \A x \in snapNs' : x[1] \in Nqns /\ x[3] \in Nsids
  BY DEF TypeInv, TypeOK, SnapTypeOK
<1> QED
  BY <1>1 DEF OrphanInv, HeldKept

(* A call that goes on with its window, or had none, holds what it held.   *)
GoesOn(c) ==
    /\ InCreateWindow(c) =>
          /\ InCreateWindow(c)' /\ (HoldsCtrl(c) => HoldsCtrl(c)')
          /\ (HoldsNs(c) => HoldsNs(c)')
          /\ call'[c].op = call[c].op /\ call'[c].sub = call[c].sub
          /\ call'[c].nqn = call[c].nqn /\ call'[c].num = call[c].num
    /\ InDeleteWindow(c)' =>
          /\ InDeleteWindow(c)
          /\ call'[c].op = call[c].op /\ call'[c].sub = call[c].sub
          /\ call'[c].id = call[c].id

(* When no record changes and no delete gets past SNAP, the live objects   *)
(* stay; a delete that ends without the erasure has its object back.       *)
LEMMA GoesOnKeeps ==
    ASSUME NEW c \in Calls, OthersKept(c), GoesOn(c), UNCHANGED store
    PROVE  \A s \in SubsystemIds : HeldKept(s)
<1> TAKE s \in SubsystemIds
<1>1. \A d \in Calls :
         /\ SubsysGone(d)' /\ call'[d].sub = s => SubsysGone(d) /\ call[d].sub = s
         /\ \A i : CtrlGone(d, i)' /\ call'[d].sub = s
                      => CtrlGone(d, i) /\ call[d].sub = s
         /\ \A i : NsGone(d, i)' /\ call'[d].sub = s
                      => NsGone(d, i) /\ call[d].sub = s
  <2> TAKE d \in Calls
  <2>1. CASE d = c
    BY <2>1 DEF GoesOn, SubsysGone, CtrlGone, NsGone
  <2>2. CASE d # c
    BY <2>2 DEF OthersKept, SubsysGone, CtrlGone, NsGone, InDeleteWindow
  <2> QED
    BY <2>1, <2>2
<1>2. \A d \in Calls :
         /\ HoldsSubsys(d) => /\ HoldsSubsys(d)' /\ call'[d].sub = call[d].sub
                              /\ call'[d].nqn = call[d].nqn
         /\ HoldsCtrl(d) => /\ HoldsCtrl(d)' /\ call'[d].sub = call[d].sub
                            /\ call'[d].num = call[d].num
         /\ HoldsNs(d) => /\ HoldsNs(d)' /\ call'[d].sub = call[d].sub
                          /\ call'[d].num = call[d].num
  <2> TAKE d \in Calls
  <2>1. CASE d = c
    <3>1. HoldsCtrl(c) \/ HoldsNs(c) \/ HoldsSubsys(c) => InCreateWindow(c)
      BY DEF HoldsCtrl, HoldsNs, HoldsSubsys, At, InCreateWindow, Creates
    <3> QED
      BY <2>1, <3>1 DEF GoesOn, HoldsSubsys
  <2>2. CASE d # c
    BY <2>2 DEF OthersKept, HoldsSubsys, HoldsCtrl, HoldsNs, At, InCreateWindow
  <2> QED
    BY <2>1, <2>2
<1>3. UNCHANGED <<subsysStore, ctrlStore, nsStore>>
  BY DEF store
<1>4. \A n \in Nqns : LiveSubsystems[s] = n => LiveSubsystems'[s] = n
  BY <1>1, <1>3, LiveDef, LiveDefNext, NoneAssumption DEF LiveIsStored
<1>5. \A i \in ControllerIds, k \in Cntlids :
         LiveControllers[<<s, i>>] = k => LiveControllers'[<<s, i>>] = k
  BY <1>1, <1>3, LiveDef, LiveDefNext, NoneAssumption DEF LiveIsStored
<1>6. \A i \in NamespaceIds, h \in Nsids :
         LiveNamespaces[<<s, i>>] = h => LiveNamespaces'[<<s, i>>] = h
  BY <1>1, <1>3, LiveDef, LiveDefNext, NoneAssumption DEF LiveIsStored
<1>7. \A n \in Nqns : SubsysHeld(s, n) => SubsysHeld(s, n)'
  BY <1>2, <1>4 DEF SubsysHeld
<1>8. \A n \in Nqns, k \in Cntlids : CtrlHeld(s, n, k) => CtrlHeld(s, n, k)'
  BY <1>2, <1>4, <1>5 DEF CtrlHeld
<1>9. \A n \in Nqns, h \in Nsids : NsHeld(s, n, h) => NsHeld(s, n, h)'
  BY <1>2, <1>4, <1>6 DEF NsHeld
<1> QED
  BY <1>7, <1>8, <1>9 DEF HeldKept

(* A step of a call lets the other subsystems keep what they hold.         *)
LEMMA OthersHold ==
    ASSUME TypeInv, SerialCalls, NEW c \in Calls, OwnStep(c)
    PROVE  \A s \in SubsystemIds : s # call[c].sub => HeldKept(s)
<1> SUFFICES ASSUME NEW s \in SubsystemIds, s # call[c].sub PROVE HeldKept(s)
  OBVIOUS
<1>1. LiveKept(s)
  BY OwnLiveStep
<1>2. \A d \in Calls : call[d].sub = s => call'[d] = call[d]
  BY DEF OwnStep, OthersKept
<1>3. \A d \in Calls : call[d].sub = s =>
         /\ call'[d].sub = s
         /\ call'[d].nqn = call[d].nqn /\ call'[d].num = call[d].num
         /\ HoldsSubsys(d) => HoldsSubsys(d)'
         /\ HoldsCtrl(d) => HoldsCtrl(d)'
         /\ HoldsNs(d) => HoldsNs(d)'
  BY <1>2 DEF HoldsSubsys, HoldsCtrl, HoldsNs, At, InCreateWindow
<1>4. \A n : SubsysHeld(s, n) => SubsysHeld(s, n)'
  BY <1>1, <1>3 DEF SubsysHeld, LiveKept
<1>5. \A n, k : CtrlHeld(s, n, k) => CtrlHeld(s, n, k)'
  BY <1>1, <1>3 DEF CtrlHeld, LiveKept
<1>6. \A n, h : NsHeld(s, n, h) => NsHeld(s, n, h)'
  BY <1>1, <1>3 DEF NsHeld, LiveKept
<1> QED
  BY <1>4, <1>5, <1>6 DEF HeldKept

(* So a step of a call is accounted for below its own subsystem.           *)
LEMMA OwnAnswers ==
    ASSUME TypeInv, SerialInv, OrphanInv, NEW c \in Calls, OwnStep(c),
           NoNumber(c)', NEW s0 \in SubsystemIds, call[c].sub = s0, AnswersFor(s0)
    PROVE  OrphanInv'
<1>1. OthersKept(c)
  BY DEF OwnStep
<1> QED
  BY <1>1, OthersHold, OneAnswers DEF SerialInv

(* No other call is about what is below its subsystem.                     *)
LEMMA OnlyCall ==
    ASSUME TypeInv, SerialInv, NEW c \in Calls, call[c].op # None
    PROVE  \A d \in Calls : call[d].sub = call[c].sub => d = c
BY NoneAssumption DEF SerialInv, SerialCalls, TypeInv, CallFits

(* Below the subsystem of call c only objects and c itself hold anything.  *)
LEMMA OwnSubsysHeld ==
    ASSUME TypeInv, SerialInv, NEW c \in Calls, call[c].op # None, NEW n,
           SubsysHeld(call[c].sub, n)
    PROVE  \/ LiveSubsystems[call[c].sub] = n
           \/ HoldsSubsys(c) /\ call[c].nqn = n
BY OnlyCall DEF SubsysHeld

(* What c and the live objects hold after a step.                          *)
LEMMA OwnHeldNext ==
    ASSUME NEW c \in Calls, NEW s
    PROVE  /\ \A n :
                 \/ LiveSubsystems'[s] = n
                 \/ HoldsSubsys(c)' /\ call'[c].sub = s /\ call'[c].nqn = n
                 => SubsysHeld(s, n)'
           /\ \A n, k :
                 /\ LiveSubsystems'[s] = n
                 /\ \/ \E i \in ControllerIds : LiveControllers'[<<s, i>>] = k
                    \/ HoldsCtrl(c)' /\ call'[c].sub = s /\ call'[c].num = k
                 => CtrlHeld(s, n, k)'
           /\ \A n, h :
                 /\ LiveSubsystems'[s] = n
                 /\ \/ \E i \in NamespaceIds : LiveNamespaces'[<<s, i>>] = h
                    \/ HoldsNs(c)' /\ call'[c].sub = s /\ call'[c].num = h
                 => NsHeld(s, n, h)'
BY DEF SubsysHeld, CtrlHeld, NsHeld

-----------------------------------------------------------------------------
(* A step that neither writes to the store nor brings anything to SNAP nor *)
(* ends a create that has.                                                 *)
QuietAnswers(c) ==
    /\ OthersKept(c) /\ GoesOn(c) /\ NoNumber(c)' /\ UNCHANGED store
    /\ snapSubsys' \subseteq snapSubsys /\ snapCtrls' \subseteq snapCtrls
    /\ snapNs' \subseteq snapNs

(* Such a step keeps the invariant.                                        *)
LEMMA QuietOrphan ==
    ASSUME TypeInv, OrphanInv, NEW c \in Calls, QuietAnswers(c)
    PROVE  OrphanInv'
<1>1. \A d \in Calls : NoNumber(d)'
  BY DEF OrphanInv, NoNumber, OthersKept, QuietAnswers
<1>2. \A s \in SubsystemIds : HeldKept(s)
  BY GoesOnKeeps DEF QuietAnswers
<1> QED
  BY <1>1, <1>2, AllKeep DEF QuietAnswers

(* The moves a handler makes at such steps.                                *)
LEMMA QuietMovesOn ==
    ASSUME TypeInv, OrphanInv, NEW c \in Calls, ~InCreateWindow(c),
           UNCHANGED store, snapSubsys' \subseteq snapSubsys,
           snapCtrls' \subseteq snapCtrls, snapNs' \subseteq snapNs
    PROVE  /\ Return(c) => QuietAnswers(c)
           /\ \A pc \in {"parent", "check", "snap"} :
                 Goto(c, pc) => QuietAnswers(c)
           /\ \A pc \in {"parent", "check", "snap"}, n \in Nqns \cup {None},
                 k \in Cntlids \cup Nsids \cup {None} :
                 GotoWith(c, pc, n, k) /\ call[c].op # "CreateNvmeSubsystem"
                    => QuietAnswers(c)
<1>1. ASSUME Return(c) PROVE QuietAnswers(c)
  BY <1>1, ControlFacts, IdleGone DEF QuietAnswers, GoesOn, NoNumber, Idle
<1>2. ASSUME NEW pc \in {"parent", "check", "snap"}, Goto(c, pc)
      PROVE  QuietAnswers(c)
  <2>1. /\ OthersKept(c) /\ call'[c].op = call[c].op /\ call'[c].pc = pc
        /\ call'[c].num = call[c].num
    BY <1>2, GotoFacts DEF TypeInv, Steps
  <2> QED
    BY <2>1 DEF QuietAnswers, GoesOn, NoNumber, OrphanInv, InDeleteWindow
<1>3. ASSUME NEW pc \in {"parent", "check", "snap"}, NEW n \in Nqns \cup {None},
             NEW k \in Cntlids \cup Nsids \cup {None}, GotoWith(c, pc, n, k),
             call[c].op # "CreateNvmeSubsystem"
      PROVE  QuietAnswers(c)
  <2>1. OthersKept(c) /\ call'[c].op = call[c].op /\ call'[c].pc = pc
    BY <1>3, GotoWithFacts DEF TypeInv, Steps
  <2> QED
    BY <1>3, <2>1 DEF QuietAnswers, GoesOn, NoNumber, InDeleteWindow
<1> QED
  BY <1>1, <1>2, <1>3

(* A request that is let in holds nothing.                                 *)
LEMMA BeginOrphan ==
    ASSUME TypeInv, OrphanInv, NEW c \in Calls, NEW op, NEW s, NEW i, NEW n, NEW k,
           Begin(c, op, s, i, n, k), op = "CreateNvmeSubsystem" => k = None
    PROVE  OrphanInv'
<1>1. /\ OthersKept(c) /\ call'[c].op = op /\ call'[c].pc = "lookup"
      /\ call'[c].num = k /\ UNCHANGED <<store, snap>> /\ ~InCreateWindow(c)
  BY NoneAssumption
  DEF Begin, OthersKept, TypeInv, TypeOK, InCreateWindow, Idle, Creates
<1>2. GoesOn(c) /\ NoNumber(c)'
  BY <1>1 DEF GoesOn, InDeleteWindow, NoNumber
<1> QED
  BY <1>1, <1>2, QuietOrphan DEF QuietAnswers, snap

(* Who keeps what is held answers for it when SNAP gets nothing new.       *)
LEMMA HeldChildren ==
    ASSUME TypeInv, NEW s, HeldKept(s)
    PROVE  /\ snapSubsys' \subseteq snapSubsys => SubsysAnswered(s)
           /\ snapCtrls' \subseteq snapCtrls => CtrlsAnswered(s)
           /\ snapNs' \subseteq snapNs => NsAnswered(s)
<1>1. ASSUME snapSubsys' \subseteq snapSubsys PROVE SubsysAnswered(s)
  BY <1>1 DEF SubsysAnswered, HeldKept, TypeInv, TypeOK, SnapTypeOK
<1>2. ASSUME snapCtrls' \subseteq snapCtrls, NEW x \in snapCtrls',
             CtrlHeld(s, x[1], x[2])
      PROVE  CtrlHeld(s, x[1], x[2])'
  <2>1. x[1] \in Nqns /\ x[2] \in Cntlids
    BY <1>2 DEF TypeInv, TypeOK, SnapTypeOK
  <2> QED
    BY <1>2, <2>1 DEF HeldKept
<1>3. ASSUME snapNs' \subseteq snapNs, NEW x \in snapNs', NsHeld(s, x[1], x[3])
      PROVE  NsHeld(s, x[1], x[3])'
  <2>1. x[1] \in Nqns /\ x[3] \in Nsids
    BY <1>3 DEF TypeInv, TypeOK, SnapTypeOK
  <2> QED
    BY <1>3, <2>1 DEF HeldKept
<1> QED
  BY <1>1, <1>2, <1>3 DEF CtrlsAnswered, NsAnswered

-----------------------------------------------------------------------------
(* The subsystem that SNAP creates is its create's until it is stored.     *)
LEMMA SubsysCreateOnSnapOrphan ==
    ASSUME TypeInv, SerialInv, OrphanInv, "create" \notin Faults,
           NEW c \in Calls, SubsysCreateOnSnap(c),
           NEW s0 \in SubsystemIds, call[c].sub = s0
    PROVE  OrphanInv'
<1>1. /\ call[c].op = "CreateNvmeSubsystem" /\ call[c].op # None
      /\ call[c].pc = "snap" /\ ~InCreateWindow(c) /\ UNCHANGED store
      /\ ~HoldsSubsys(c)
  BY NoneAssumption DEF SubsysCreateOnSnap, At, Creates, InCreateWindow, HoldsSubsys
<1>2. CASE UNCHANGED snap /\ Return(c)
  BY <1>1, <1>2, QuietMovesOn, QuietOrphan DEF snap
<1>3. CASE SnapCreateSubsystem(call[c].nqn) /\ Goto(c, "version")
  <2>1. /\ OthersKept(c) /\ call'[c].op = call[c].op /\ call'[c].pc = "version"
        /\ call'[c].sub = call[c].sub /\ call'[c].id = call[c].id
        /\ call'[c].nqn = call[c].nqn /\ call'[c].num = call[c].num
    BY <1>3, GotoFacts DEF TypeInv, Steps
  <2>2. NoNumber(c)' /\ HoldsSubsys(c)'
    BY <1>1, <2>1
    DEF NoNumber, OrphanInv, HoldsSubsys, InCreateWindow, Creates
  <2>3. StoreKeptBut(c)
    BY <1>1, WritesBelow
  <2>4. OwnStep(c)
    BY <1>1, <2>1, <2>3 DEF OwnStep
  <2>5. GoesOn(c)
    BY <1>1, <2>1 DEF GoesOn, InDeleteWindow
  <2>6. HeldKept(s0)
    BY <1>1, <2>1, <2>5, GoesOnKeeps DEF TypeInv, CallFits
  <2>7. \A n : n = call[c].nqn => SubsysHeld(s0, n)'
    BY <2>1, <2>2, OwnHeldNext
  <2>8. AnswersFor(s0)
    <3>1. /\ snapSubsys' = snapSubsys \cup {call[c].nqn}
          /\ UNCHANGED <<snapCtrls, snapNs>>
      BY <1>3 DEF SnapCreateSubsystem
    <3>2. \A n \in snapSubsys : n \in Nqns
      BY DEF TypeInv, TypeOK, SnapTypeOK
    <3>3. \A n \in snapSubsys : SubsysHeld(s0, n) => SubsysHeld(s0, n)'
      BY <2>6, <3>2 DEF HeldKept
    <3>4. SubsysAnswered(s0)
      BY <2>7, <3>1, <3>3 DEF SubsysAnswered
    <3> QED
      BY <2>6, <3>1, <3>4, HeldChildren DEF AnswersFor
  <2> QED
    BY <2>2, <2>4, <2>8, OwnAnswers
<1> QED
  BY <1>2, <1>3 DEF SubsysCreateOnSnap

(* It is its object's from then on; nothing is held below a name that has  *)
(* no object.                                                              *)
LEMMA SubsysSaveOrphan ==
    ASSUME TypeInv, SerialInv, OrphanInv, "create" \notin Faults,
           NEW c \in Calls, SubsysCreateSave(c),
           NEW s0 \in SubsystemIds, call[c].sub = s0
    PROVE  OrphanInv'
<1>1. /\ call[c].op = "CreateNvmeSubsystem" /\ call[c].pc = "save"
      /\ call[c].op # None /\ call[c].nqn \in Nqns
      /\ OthersKept(c) /\ call'[c] = Idle
      /\ UNCHANGED <<ctrlStore, nsStore, snapSubsys, snapCtrls, snapNs>>
      /\ subsysStore' = [subsysStore EXCEPT ![SubsysKey(c)] = call[c].nqn]
      /\ subsysStore[s0] = None
  BY ControlFacts, NoneAssumption
  DEF SubsysCreateSave, At, Creates, TypeInv, CallFits, snap, SerialInv, Knows,
      SubsysKey
<1>2. StoreKeptBut(c)
  BY <1>1, WritesBelow
<1>3. OwnStep(c)
  BY <1>1, <1>2 DEF OwnStep
<1>4. OwnLive(c) /\ OwnLiveNext(c)
  BY <1>1, <1>3, OwnLiveNow, OwnLiveStep DEF SerialInv
<1>5. LiveSubsystems[s0] = None
  BY <1>1, <1>4 DEF OwnLive
<1>6. LiveSubsystems'[s0] = call[c].nqn
  <2>1. subsysStore'[s0] = call[c].nqn
    BY <1>1 DEF SubsysKey, TypeInv, TypeOK, StoreTypeOK
  <2> QED
    BY <1>1, <1>4, <2>1, IdleGone DEF OwnLiveNext
<1>7. NoNumber(c)'
  BY <1>1, NoneAssumption DEF NoNumber, Idle
<1>8. AnswersFor(s0)
  <2>1. ASSUME NEW n \in snapSubsys', SubsysHeld(s0, n)
        PROVE  SubsysHeld(s0, n)'
    <3>1. n # None
      BY <1>1, <2>1, NoneAssumption DEF TypeInv, TypeOK, SnapTypeOK
    <3>2. LiveSubsystems[s0] = n \/ call[c].nqn = n
      BY <1>1, <2>1, OwnSubsysHeld
    <3> QED
      BY <1>5, <1>6, <3>1, <3>2, OwnHeldNext
  <2>2. ASSUME NEW x \in snapCtrls' PROVE ~CtrlHeld(s0, x[1], x[2])
    <3>1. x[1] # None
      BY <1>1, <2>2, NoneAssumption DEF TypeInv, TypeOK, SnapTypeOK
    <3> QED
      BY <1>5, <3>1 DEF CtrlHeld
  <2>3. ASSUME NEW x \in snapNs' PROVE ~NsHeld(s0, x[1], x[3])
    <3>1. x[1] # None
      BY <1>1, <2>3, NoneAssumption DEF TypeInv, TypeOK, SnapTypeOK
    <3> QED
      BY <1>5, <3>1 DEF NsHeld
  <2> QED
    BY <1>1, <2>1, <2>2, <2>3
    DEF AnswersFor, SubsysAnswered, CtrlsAnswered, NsAnswered
<1> QED
  BY <1>3, <1>7, <1>8, OwnAnswers

(* What a subsystem answered for has left SNAP with it.                    *)
LEMMA SubsysDeleteOnSnapOrphan ==
    ASSUME TypeInv, SerialInv, OrphanInv, NEW c \in Calls, SubsysDeleteOnSnap(c),
           NEW s0 \in SubsystemIds, call[c].sub = s0
    PROVE  OrphanInv'
<1>1. /\ call[c].op = "DeleteNvmeSubsystem" /\ call[c].op # None
      /\ call[c].pc = "snap" /\ ~InCreateWindow(c) /\ UNCHANGED store
      /\ ~HoldsSubsys(c)
      /\ subsysStore[s0] = call[c].nqn
  BY NoneAssumption
  DEF SubsysDeleteOnSnap, At, Deletes, Creates, InCreateWindow, HoldsSubsys,
      SerialInv, Knows, SubsysKey
<1>2. CASE UNCHANGED snap /\ Return(c)
  BY <1>1, <1>2, QuietMovesOn, QuietOrphan DEF snap
<1>3. CASE SnapDeleteSubsystem(call[c].nqn) /\ Return(c)
  <2>1. /\ snapSubsys' \subseteq snapSubsys /\ snapCtrls' \subseteq snapCtrls
        /\ snapNs' \subseteq snapNs
    BY <1>3 DEF SnapDeleteSubsystem
  <2> QED
    BY <1>1, <1>3, <2>1, QuietMovesOn, QuietOrphan
<1>4. CASE SnapDeleteSubsystem(call[c].nqn) /\ Goto(c, "forget")
  <2>1. /\ OthersKept(c) /\ call'[c].op = call[c].op /\ call'[c].pc = "forget"
        /\ call'[c].sub = call[c].sub /\ call'[c].id = call[c].id
    BY <1>4, GotoFacts DEF TypeInv, Steps
  <2>2. StoreKeptBut(c)
    BY <1>1, WritesBelow
  <2>3. OwnStep(c) /\ NoNumber(c)'
    BY <1>1, <2>1, <2>2 DEF OwnStep, NoNumber
  <2>4. LiveSubsystems[s0] = call[c].nqn
    BY <1>1, OwnLiveNow DEF OwnLive, SubsysGone, InDeleteWindow, SerialInv
  <2>5. AnswersFor(s0)
    <3>1. /\ \A n \in snapSubsys' : n \in snapSubsys /\ n # call[c].nqn
          /\ \A x \in snapCtrls' : x \in snapCtrls /\ x[1] # call[c].nqn
          /\ \A x \in snapNs' : x \in snapNs /\ x[1] # call[c].nqn
      BY <1>4 DEF SnapDeleteSubsystem
    <3>2. \A n \in snapSubsys' : ~SubsysHeld(s0, n)
      <4>1. \A n : SubsysHeld(s0, n) =>
                LiveSubsystems[s0] = n \/ HoldsSubsys(c)
        BY <1>1, OwnSubsysHeld
      <4> QED
        BY <1>1, <2>4, <3>1, <4>1
    <3>3. \A x \in snapCtrls' : ~CtrlHeld(s0, x[1], x[2])
      BY <2>4, <3>1 DEF CtrlHeld
    <3>4. \A x \in snapNs' : ~NsHeld(s0, x[1], x[3])
      BY <2>4, <3>1 DEF NsHeld
    <3> QED
      BY <3>1, <3>2, <3>3, <3>4
      DEF AnswersFor, SubsysAnswered, CtrlsAnswered, NsAnswered
  <2> QED
    BY <2>3, <2>5, OwnAnswers
<1> QED
  BY <1>2, <1>3, <1>4 DEF SubsysDeleteOnSnap

(* A subsystem whose record is erased answers for nothing any more: it has *)
(* not been live since SNAP obeyed, and only live parents count.           *)
LEMMA SubsysEraseOrphan ==
    ASSUME TypeInv, SerialInv, OrphanInv, NEW c \in Calls, SubsysDeleteErase(c),
           NEW s0 \in SubsystemIds, call[c].sub = s0
    PROVE  OrphanInv'
<1>1. /\ call[c].op = "DeleteNvmeSubsystem" /\ call[c].op # None
      /\ call[c].pc = "erase" /\ ~InCreateWindow(c) /\ SubsysGone(c)
      /\ ~HoldsSubsys(c)
      /\ OthersKept(c) /\ call'[c] = Idle /\ Return(c)
      /\ UNCHANGED <<ctrlStore, nsStore, snapSubsys, snapCtrls, snapNs>>
  BY ControlFacts, NoneAssumption
  DEF SubsysDeleteErase, At, Deletes, Creates, InCreateWindow, HoldsSubsys,
      SubsysGone, InDeleteWindow, TypeInv, snap
<1>2. CASE UNCHANGED subsysStore
  BY <1>1, <1>2, QuietMovesOn, QuietOrphan DEF store
<1>3. CASE subsysStore' = [subsysStore EXCEPT ![SubsysKey(c)] = None]
  <2>1. StoreKeptBut(c)
    BY <1>1, <1>3, WritesBelow
  <2>2. OwnStep(c)
    BY <1>1, <2>1 DEF OwnStep
  <2>3. LiveSubsystems[s0] = None
    BY <1>1, OwnLiveNow DEF OwnLive, SerialInv
  <2>4. AnswersFor(s0)
    <3>1. ASSUME NEW n \in snapSubsys' PROVE ~SubsysHeld(s0, n)
      <4>1. n # None
        BY <1>1, <3>1, NoneAssumption DEF TypeInv, TypeOK, SnapTypeOK
      <4> QED
        BY <1>1, <2>3, <4>1, OwnSubsysHeld
    <3>2. ASSUME NEW x \in snapCtrls' PROVE ~CtrlHeld(s0, x[1], x[2])
      <4>1. x[1] # None
        BY <1>1, <3>2, NoneAssumption DEF TypeInv, TypeOK, SnapTypeOK
      <4> QED
        BY <2>3, <4>1 DEF CtrlHeld
    <3>3. ASSUME NEW x \in snapNs' PROVE ~NsHeld(s0, x[1], x[3])
      <4>1. x[1] # None
        BY <1>1, <3>3, NoneAssumption DEF TypeInv, TypeOK, SnapTypeOK
      <4> QED
        BY <2>3, <4>1 DEF NsHeld
    <3> QED
      BY <1>1, <3>1, <3>2, <3>3
      DEF AnswersFor, SubsysAnswered, CtrlsAnswered, NsAnswered
  <2>5. NoNumber(c)'
    BY <1>1, NoneAssumption DEF NoNumber, Idle
  <2> QED
    BY <2>2, <2>4, <2>5, OwnAnswers
<1> QED
  BY <1>2, <1>3 DEF SubsysDeleteErase

-----------------------------------------------------------------------------
(* A child is created below the parent's NQN, and the parent is live.      *)
LEMMA ParentHolds ==
    ASSUME TypeInv, SerialInv, NEW c \in Calls, call[c].op \in CtrlOps \cup NsOps,
           call[c].pc \notin {"lookup", "parent"}
    PROVE  /\ LiveSubsystems[call[c].sub] = call[c].nqn
           /\ call[c].nqn \in Nqns /\ call[c].op # None
<1>1. call[c].op # None
  BY NoneAssumption DEF CtrlOps, NsOps, Creates, Deletes
<1>2. call[c].nqn \in Nqns /\ subsysStore[call[c].sub] = call[c].nqn
  BY DEF SerialInv, Knows, SubsysKey
<1> QED
  BY <1>1, <1>2, OwnLiveNow DEF OwnLive, SubsysGone, CtrlOps, NsOps, SerialInv

(* The controller that SNAP creates is its create's until it is stored.    *)
LEMMA CtrlCreateOnSnapOrphan ==
    ASSUME TypeInv, SerialInv, OrphanInv, "create" \notin Faults,
           NEW c \in Calls, CtrlCreateOnSnap(c),
           NEW s0 \in SubsystemIds, call[c].sub = s0
    PROVE  OrphanInv'
<1>1. /\ call[c].op = "CreateNvmeController" /\ call[c].pc = "snap"
      /\ ~InCreateWindow(c) /\ UNCHANGED store
  BY DEF CtrlCreateOnSnap, At, InCreateWindow
<1>2. /\ LiveSubsystems[s0] = call[c].nqn /\ call[c].nqn \in Nqns
      /\ call[c].op # None
  BY <1>1, ParentHolds DEF CtrlOps
<1>3. CASE UNCHANGED snap /\ Return(c)
  BY <1>1, <1>3, QuietMovesOn, QuietOrphan DEF snap
<1>4. ASSUME NEW k \in Cntlids, SnapCreateController(call[c].nqn, k),
             GotoWith(c, "save", call[c].nqn, k)
      PROVE  OrphanInv'
  <2>1. /\ OthersKept(c) /\ call'[c].op = call[c].op /\ call'[c].pc = "save"
        /\ call'[c].sub = s0 /\ call'[c].id = call[c].id /\ call'[c].num = k
    BY <1>2, <1>4, GotoWithFacts DEF TypeInv, Steps
  <2>2. OwnStep(c) /\ NoNumber(c)' /\ HoldsCtrl(c)'
    BY <1>1, <1>2, <2>1, WritesBelow DEF OwnStep, NoNumber, HoldsCtrl, At
  <2>3. GoesOn(c)
    BY <1>1, <2>1 DEF GoesOn, InDeleteWindow, Deletes
  <2>4. HeldKept(s0)
    BY <1>1, <2>1, <2>3, GoesOnKeeps
  <2>5. LiveSubsystems'[s0] = call[c].nqn
    <3>1. OwnLiveNext(c)
      BY <2>2, OwnLiveStep DEF SerialInv
    <3>2. OwnLive(c)
      BY <1>2, OwnLiveNow DEF SerialInv
    <3> QED
      BY <1>1, <1>2, <2>1, <3>1, <3>2 DEF OwnLive, OwnLiveNext, SubsysGone, store
  <2>6. CtrlsAnswered(s0)
    <3>1. ASSUME NEW x \in snapCtrls', x \notin snapCtrls
          PROVE  CtrlHeld(s0, x[1], x[2])'
      <4>1. x = <<call[c].nqn, k>>
        BY <1>4, <3>1 DEF SnapCreateController
      <4>2. LiveSubsystems'[s0] = x[1] /\ call'[c].num = x[2]
        BY <2>1, <2>5, <4>1
      <4> QED
        BY <2>1, <2>2, <4>2, OwnHeldNext
    <3>2. ASSUME NEW x \in snapCtrls, CtrlHeld(s0, x[1], x[2])
          PROVE  CtrlHeld(s0, x[1], x[2])'
      <4>1. x[1] \in Nqns /\ x[2] \in Cntlids
        BY DEF TypeInv, TypeOK, SnapTypeOK
      <4> QED
        BY <2>4, <3>2, <4>1 DEF HeldKept
    <3> QED
      BY <3>1, <3>2 DEF CtrlsAnswered
  <2>7. UNCHANGED <<snapSubsys, snapNs>>
    BY <1>4 DEF SnapCreateController
  <2>8. AnswersFor(s0)
    BY <2>4, <2>6, <2>7, HeldChildren DEF AnswersFor
  <2> QED
    BY <2>2, <2>8, OwnAnswers
<1> QED
  BY <1>3, <1>4 DEF CtrlCreateOnSnap

(* It is its object's from then on, and no object's number is lost, for    *)
(* there was none under this name.                                         *)
LEMMA CtrlSaveOrphan ==
    ASSUME TypeInv, SerialInv, OrphanInv, "create" \notin Faults,
           NEW c \in Calls, CtrlCreateSave(c),
           NEW s0 \in SubsystemIds, call[c].sub = s0,
           NEW i0 \in ControllerIds, call[c].id = i0
    PROVE  OrphanInv'
<1>1. /\ call[c].op = "CreateNvmeController" /\ call[c].pc = "save"
      /\ call[c].num \in Cntlids
      /\ OthersKept(c) /\ call'[c] = Idle
      /\ UNCHANGED <<subsysStore, nsStore, snapSubsys, snapCtrls, snapNs>>
      /\ ctrlStore' = [ctrlStore EXCEPT ![CtrlKey(c)] = call[c].num]
  BY ControlFacts DEF CtrlCreateSave, At, TypeInv, CallFits, snap
<1>2. /\ LiveSubsystems[s0] = call[c].nqn /\ call[c].nqn \in Nqns
      /\ call[c].op # None /\ ~HoldsSubsys(c) /\ ~HoldsNs(c)
  BY <1>1, ParentHolds DEF CtrlOps, HoldsSubsys, HoldsNs, At
<1>3. OwnStep(c)
  BY <1>1, <1>2, WritesBelow DEF OwnStep
<1>4. OwnLive(c) /\ OwnLiveNext(c)
  BY <1>2, <1>3, OwnLiveNow, OwnLiveStep DEF SerialInv
<1>5. /\ ctrlStore[<<s0, i0>>] = None
      /\ ctrlStore'[<<s0, i0>>] = call[c].num
      /\ \A i \in ControllerIds :
            i # i0 => ctrlStore'[<<s0, i>>] = ctrlStore[<<s0, i>>]
  BY <1>1
  DEF SerialInv, Knows, CtrlKey, TypeInv, TypeOK, StoreTypeOK, CtrlNames
<1>6. /\ LiveSubsystems'[s0] = LiveSubsystems[s0]
      /\ \A i \in NamespaceIds :
            LiveNamespaces'[<<s0, i>>] = LiveNamespaces[<<s0, i>>]
  BY <1>1, <1>4, IdleGone DEF OwnLive, OwnLiveNext, SubsysGone, NsGone
<1>7. /\ LiveControllers[<<s0, i0>>] = None
      /\ LiveControllers'[<<s0, i0>>] = call[c].num
      /\ \A i \in ControllerIds : i # i0 =>
            LiveControllers'[<<s0, i>>] = LiveControllers[<<s0, i>>]
  BY <1>1, <1>4, <1>5, IdleGone DEF OwnLive, OwnLiveNext, CtrlGone
<1>8. NoNumber(c)'
  BY <1>1, <1>2 DEF NoNumber, Idle
<1>9. SubsysAnswered(s0)
  <2>1. ASSUME NEW n, SubsysHeld(s0, n) PROVE SubsysHeld(s0, n)'
    BY <1>2, <1>6, <2>1, OwnSubsysHeld, OwnHeldNext
  <2> QED
    BY <1>1, <2>1 DEF SubsysAnswered
<1>10. CtrlsAnswered(s0)
  <2>1. ASSUME NEW x \in snapCtrls, CtrlHeld(s0, x[1], x[2])
        PROVE  CtrlHeld(s0, x[1], x[2])'
    <3>1. x[2] # None
      BY NoneAssumption DEF TypeInv, TypeOK, SnapTypeOK
    <3>2. /\ LiveSubsystems[s0] = x[1]
          /\ \/ \E i \in ControllerIds : LiveControllers[<<s0, i>>] = x[2]
             \/ call[c].num = x[2]
      BY <1>2, <2>1, OnlyCall DEF CtrlHeld
    <3>3. \E i \in ControllerIds : LiveControllers'[<<s0, i>>] = x[2]
      BY <1>7, <3>1, <3>2
    <3> QED
      BY <1>6, <3>2, <3>3, OwnHeldNext
  <2> QED
    BY <1>1, <2>1 DEF CtrlsAnswered
<1>11. NsAnswered(s0)
  <2>1. ASSUME NEW x \in snapNs, NsHeld(s0, x[1], x[3])
        PROVE  NsHeld(s0, x[1], x[3])'
    <3>1. /\ LiveSubsystems[s0] = x[1]
          /\ \E i \in NamespaceIds : LiveNamespaces[<<s0, i>>] = x[3]
      BY <1>2, <2>1, OnlyCall DEF NsHeld
    <3> QED
      BY <1>6, <3>1, OwnHeldNext
  <2> QED
    BY <1>1, <2>1 DEF NsAnswered
<1> QED
  BY <1>3, <1>8, <1>9, <1>10, <1>11, OwnAnswers DEF AnswersFor

(* A controller's number is its object's alone to answer for until SNAP    *)
(* has deleted it, and nobody's afterwards.                                *)
LEMMA CtrlDeleteOnSnapOrphan ==
    ASSUME TypeInv, SerialInv, OrphanInv, NEW c \in Calls, CtrlDeleteOnSnap(c),
           NEW s0 \in SubsystemIds, call[c].sub = s0,
           NEW i0 \in ControllerIds, call[c].id = i0
    PROVE  OrphanInv'
<1>1. /\ call[c].op = "DeleteNvmeController" /\ call[c].pc = "snap"
      /\ ~InCreateWindow(c) /\ UNCHANGED store
      /\ ctrlStore[<<s0, i0>>] = call[c].num
  BY DEF CtrlDeleteOnSnap, At, InCreateWindow, SerialInv, Knows, CtrlKey
<1>2. /\ LiveSubsystems[s0] = call[c].nqn /\ call[c].op # None
      /\ ~HoldsSubsys(c) /\ ~HoldsCtrl(c) /\ ~HoldsNs(c)
  BY <1>1, ParentHolds DEF CtrlOps, HoldsSubsys, HoldsCtrl, HoldsNs, At
<1>3. CASE UNCHANGED snap /\ Return(c)
  BY <1>1, <1>3, QuietMovesOn, QuietOrphan DEF snap
<1>4. CASE SnapDeleteController(call[c].nqn, call[c].num)
  <2>1. /\ snapSubsys' = snapSubsys /\ snapNs' \subseteq snapNs
        /\ snapCtrls' \subseteq snapCtrls
        /\ <<call[c].nqn, call[c].num>> \notin snapCtrls'
    BY <1>4 DEF SnapDeleteController
  <2>2. CASE Return(c)
    BY <1>1, <2>1, <2>2, QuietMovesOn, QuietOrphan
  <2>3. CASE Goto(c, "erase")
    <3>1. /\ OthersKept(c) /\ call'[c].op = call[c].op /\ call'[c].pc = "erase"
          /\ call'[c].sub = s0 /\ call'[c].id = i0
      BY <2>3, GotoFacts DEF TypeInv, Steps
    <3>2. OwnStep(c) /\ NoNumber(c)'
      BY <1>1, <1>2, <3>1, WritesBelow DEF OwnStep, NoNumber
    <3>3. OwnLive(c) /\ OwnLiveNext(c)
      BY <1>2, <3>2, OwnLiveNow, OwnLiveStep DEF SerialInv
    <3>4. /\ LiveSubsystems'[s0] = LiveSubsystems[s0]
          /\ \A i \in NamespaceIds :
                LiveNamespaces'[<<s0, i>>] = LiveNamespaces[<<s0, i>>]
      BY <1>1, <3>1, <3>3 DEF OwnLive, OwnLiveNext, SubsysGone, NsGone, store
    <3>5. /\ LiveControllers[<<s0, i0>>] = call[c].num
          /\ \A i \in ControllerIds : i # i0 =>
                LiveControllers'[<<s0, i>>] = LiveControllers[<<s0, i>>]
      BY <1>1, <3>1, <3>3 DEF OwnLive, OwnLiveNext, CtrlGone, InDeleteWindow, store
    <3>6. SubsysAnswered(s0)
      <4>1. ASSUME NEW n, SubsysHeld(s0, n) PROVE SubsysHeld(s0, n)'
        BY <1>2, <3>4, <4>1, OwnSubsysHeld, OwnHeldNext
      <4> QED
        BY <2>1, <4>1 DEF SubsysAnswered
    <3>7. CtrlsAnswered(s0)
      <4>1. ASSUME NEW x \in snapCtrls', CtrlHeld(s0, x[1], x[2])
            PROVE  CtrlHeld(s0, x[1], x[2])'
        <5>1. /\ LiveSubsystems[s0] = x[1]
              /\ \E i \in ControllerIds : LiveControllers[<<s0, i>>] = x[2]
          BY <1>2, <4>1, OnlyCall DEF CtrlHeld
        <5>2. x = <<x[1], x[2]>>
          BY <2>1, <4>1 DEF TypeInv, TypeOK, SnapTypeOK
        <5>3. x[2] # call[c].num
          BY <1>2, <2>1, <4>1, <5>1, <5>2
        <5>4. \E i \in ControllerIds : LiveControllers'[<<s0, i>>] = x[2]
          BY <3>5, <5>1, <5>3
        <5> QED
          BY <3>4, <5>1, <5>4, OwnHeldNext
      <4> QED
        BY <2>1, <4>1 DEF CtrlsAnswered
    <3>8. NsAnswered(s0)
      <4>1. ASSUME NEW x \in snapNs', NsHeld(s0, x[1], x[3])
            PROVE  NsHeld(s0, x[1], x[3])'
        <5>1. /\ LiveSubsystems[s0] = x[1]
              /\ \E i \in NamespaceIds : LiveNamespaces[<<s0, i>>] = x[3]
          BY <1>2, <4>1, OnlyCall DEF NsHeld
        <5> QED
          BY <3>4, <5>1, OwnHeldNext
      <4> QED
        BY <2>1, <4>1 DEF NsAnswered
    <3> QED
      BY <3>2, <3>6, <3>7, <3>8, OwnAnswers DEF AnswersFor
  <2> QED
    BY <2>2, <2>3, <1>1, <1>4 DEF CtrlDeleteOnSnap, At
<1> QED
  BY <1>3, <1>4 DEF CtrlDeleteOnSnap

(* Erasing the record of a controller that has left SNAP loses nothing.    *)
LEMMA CtrlEraseOrphan ==
    ASSUME TypeInv, SerialInv, OrphanInv, NEW c \in Calls, CtrlDeleteErase(c),
           NEW s0 \in SubsystemIds, call[c].sub = s0,
           NEW i0 \in ControllerIds, call[c].id = i0
    PROVE  OrphanInv'
<1>1. /\ call[c].op = "DeleteNvmeController" /\ call[c].pc = "erase"
      /\ ~InCreateWindow(c) /\ CtrlGone(c, i0)
      /\ OthersKept(c) /\ call'[c] = Idle /\ Return(c)
      /\ UNCHANGED <<subsysStore, nsStore, snapSubsys, snapCtrls, snapNs>>
  BY ControlFacts
  DEF CtrlDeleteErase, At, InCreateWindow, CtrlGone, InDeleteWindow, Deletes,
      TypeInv, snap
<1>2. CASE UNCHANGED ctrlStore
  BY <1>1, <1>2, QuietMovesOn, QuietOrphan DEF store
<1>3. CASE ctrlStore' = [ctrlStore EXCEPT ![CtrlKey(c)] = None]
  <2>1. /\ call[c].op # None
        /\ ~HoldsSubsys(c) /\ ~HoldsCtrl(c) /\ ~HoldsNs(c)
    BY <1>1, NoneAssumption DEF Deletes, HoldsSubsys, HoldsCtrl, HoldsNs, At
  <2>2. OwnStep(c) /\ NoNumber(c)'
    <3>1. StoreKeptBut(c)
      BY <1>1, <1>3, WritesBelow
    <3>2. NoNumber(c)'
      BY <1>1 DEF NoNumber, Idle
    <3> QED
      BY <1>1, <2>1, <3>1, <3>2 DEF OwnStep
  <2>3. OwnLive(c) /\ OwnLiveNext(c)
    BY <2>1, <2>2, OwnLiveNow, OwnLiveStep DEF SerialInv
  <2>4. /\ LiveSubsystems'[s0] = LiveSubsystems[s0]
        /\ \A i \in NamespaceIds :
              LiveNamespaces'[<<s0, i>>] = LiveNamespaces[<<s0, i>>]
    BY <1>1, <2>3, IdleGone DEF OwnLive, OwnLiveNext, SubsysGone, NsGone
  <2>5. \A i \in ControllerIds :
            i # i0 => ctrlStore'[<<s0, i>>] = ctrlStore[<<s0, i>>]
    BY <1>3 DEF CtrlKey, TypeInv, TypeOK, StoreTypeOK, CtrlNames
  <2>6. /\ LiveControllers[<<s0, i0>>] = None
        /\ \A i \in ControllerIds : i # i0 =>
              LiveControllers'[<<s0, i>>] = LiveControllers[<<s0, i>>]
    BY <1>1, <2>3, <2>5, IdleGone DEF OwnLive, OwnLiveNext, CtrlGone
  <2>7. SubsysAnswered(s0)
    <3>1. ASSUME NEW n, SubsysHeld(s0, n) PROVE SubsysHeld(s0, n)'
      BY <2>1, <2>4, <3>1, OwnSubsysHeld, OwnHeldNext
    <3> QED
      BY <1>1, <3>1 DEF SubsysAnswered
  <2>8. CtrlsAnswered(s0)
    <3>1. ASSUME NEW x \in snapCtrls, CtrlHeld(s0, x[1], x[2])
          PROVE  CtrlHeld(s0, x[1], x[2])'
      <4>1. x[2] # None
        BY NoneAssumption DEF TypeInv, TypeOK, SnapTypeOK
      <4>2. /\ LiveSubsystems[s0] = x[1]
            /\ \E i \in ControllerIds : LiveControllers[<<s0, i>>] = x[2]
        BY <2>1, <3>1, OnlyCall DEF CtrlHeld
      <4>3. \E i \in ControllerIds : LiveControllers'[<<s0, i>>] = x[2]
        BY <2>6, <4>1, <4>2
      <4> QED
        BY <2>4, <4>2, <4>3, OwnHeldNext
    <3> QED
      BY <1>1, <3>1 DEF CtrlsAnswered
  <2>9. NsAnswered(s0)
    <3>1. ASSUME NEW x \in snapNs, NsHeld(s0, x[1], x[3])
          PROVE  NsHeld(s0, x[1], x[3])'
      <4>1. /\ LiveSubsystems[s0] = x[1]
            /\ \E i \in NamespaceIds : LiveNamespaces[<<s0, i>>] = x[3]
        BY <2>1, <3>1, OnlyCall DEF NsHeld
      <4> QED
        BY <2>4, <4>1, OwnHeldNext
    <3> QED
      BY <1>1, <3>1 DEF NsAnswered
  <2> QED
    BY <2>2, <2>7, <2>8, <2>9, OwnAnswers DEF AnswersFor
<1> QED
  BY <1>2, <1>3 DEF CtrlDeleteErase

-----------------------------------------------------------------------------
(* Namespaces are SNAP's, and their creates', in the same way.             *)
LEMMA NsCreateOnSnapOrphan ==
    ASSUME TypeInv, SerialInv, OrphanInv, "create" \notin Faults,
           NEW c \in Calls, NsCreateOnSnap(c),
           NEW s0 \in SubsystemIds, call[c].sub = s0
    PROVE  OrphanInv'
<1>1. /\ call[c].op = "CreateNvmeNamespace" /\ call[c].pc = "snap"
      /\ ~InCreateWindow(c) /\ UNCHANGED store
  BY DEF NsCreateOnSnap, At, InCreateWindow
<1>2. /\ LiveSubsystems[s0] = call[c].nqn /\ call[c].nqn \in Nqns
      /\ call[c].op # None
  BY <1>1, ParentHolds DEF NsOps
<1>3. CASE UNCHANGED snap /\ Return(c)
  BY <1>1, <1>3, QuietMovesOn, QuietOrphan DEF snap
<1>4. CASE /\ SnapAttach(call[c].nqn, HardCodedCntlid, call[c].num)
           /\ Goto(c, "save")
  <2>1. /\ OthersKept(c) /\ call'[c].op = call[c].op /\ call'[c].pc = "save"
        /\ call'[c].sub = s0 /\ call'[c].id = call[c].id
        /\ call'[c].num = call[c].num
    BY <1>2, <1>4, GotoFacts DEF TypeInv, Steps
  <2>2. OwnStep(c) /\ NoNumber(c)' /\ HoldsNs(c)'
    BY <1>1, <1>2, <2>1, WritesBelow DEF OwnStep, NoNumber, HoldsNs, At
  <2>3. GoesOn(c)
    BY <1>1, <2>1 DEF GoesOn, InDeleteWindow, Deletes
  <2>4. HeldKept(s0)
    BY <1>1, <2>1, <2>3, GoesOnKeeps
  <2>5. LiveSubsystems'[s0] = call[c].nqn
    <3>1. OwnLiveNext(c)
      BY <2>2, OwnLiveStep DEF SerialInv
    <3>2. OwnLive(c)
      BY <1>2, OwnLiveNow DEF SerialInv
    <3> QED
      BY <1>1, <1>2, <2>1, <3>1, <3>2 DEF OwnLive, OwnLiveNext, SubsysGone, store
  <2>6. NsAnswered(s0)
    <3>1. ASSUME NEW x \in snapNs', x \notin snapNs
          PROVE  NsHeld(s0, x[1], x[3])' /\ x[2] = HardCodedCntlid
      <4>1. x = <<call[c].nqn, HardCodedCntlid, call[c].num>>
        BY <1>4, <3>1 DEF SnapAttach
      <4>2. LiveSubsystems'[s0] = x[1] /\ call'[c].num = x[3]
        BY <2>1, <2>5, <4>1
      <4>3. NsHeld(s0, x[1], x[3])'
        BY <2>1, <2>2, <4>2, OwnHeldNext
      <4> QED
        BY <4>1, <4>3
    <3>2. ASSUME NEW x \in snapNs, NsHeld(s0, x[1], x[3])
          PROVE  NsHeld(s0, x[1], x[3])'
      <4>1. x[1] \in Nqns /\ x[3] \in Nsids
        BY DEF TypeInv, TypeOK, SnapTypeOK
      <4> QED
        BY <2>4, <3>2, <4>1 DEF HeldKept
    <3> QED
      BY <3>1, <3>2 DEF NsAnswered
  <2>7. UNCHANGED <<snapSubsys, snapCtrls>>
    BY <1>4 DEF SnapAttach
  <2>8. AnswersFor(s0)
    BY <2>4, <2>6, <2>7, HeldChildren DEF AnswersFor
  <2> QED
    BY <2>2, <2>8, OwnAnswers
<1> QED
  BY <1>3, <1>4 DEF NsCreateOnSnap

(* Then their objects'.                                                    *)
LEMMA NsSaveOrphan ==
    ASSUME TypeInv, SerialInv, OrphanInv, "create" \notin Faults,
           NEW c \in Calls, NsCreateSave(c),
           NEW s0 \in SubsystemIds, call[c].sub = s0,
           NEW i0 \in NamespaceIds, call[c].id = i0
    PROVE  OrphanInv'
<1>1. /\ call[c].op = "CreateNvmeNamespace" /\ call[c].pc = "save"
      /\ call[c].num \in Nsids
      /\ OthersKept(c) /\ call'[c] = Idle
      /\ UNCHANGED <<subsysStore, ctrlStore, snapSubsys, snapNs, snapCtrls>>
      /\ nsStore' = [nsStore EXCEPT ![NsKey(c)] = call[c].num]
  BY ControlFacts DEF NsCreateSave, At, TypeInv, CallFits, snap
<1>2. /\ LiveSubsystems[s0] = call[c].nqn /\ call[c].nqn \in Nqns
      /\ call[c].op # None /\ ~HoldsSubsys(c) /\ ~HoldsCtrl(c)
  BY <1>1, ParentHolds DEF NsOps, HoldsSubsys, HoldsCtrl, At
<1>3. OwnStep(c)
  BY <1>1, <1>2, WritesBelow DEF OwnStep
<1>4. OwnLive(c) /\ OwnLiveNext(c)
  BY <1>2, <1>3, OwnLiveNow, OwnLiveStep DEF SerialInv
<1>5. /\ nsStore[<<s0, i0>>] = None
      /\ nsStore'[<<s0, i0>>] = call[c].num
      /\ \A i \in NamespaceIds :
            i # i0 => nsStore'[<<s0, i>>] = nsStore[<<s0, i>>]
  BY <1>1
  DEF SerialInv, Knows, NsKey, TypeInv, TypeOK, StoreTypeOK, NsNames
<1>6. /\ LiveSubsystems'[s0] = LiveSubsystems[s0]
      /\ \A i \in ControllerIds :
            LiveControllers'[<<s0, i>>] = LiveControllers[<<s0, i>>]
  BY <1>1, <1>4, IdleGone DEF OwnLive, OwnLiveNext, SubsysGone, CtrlGone
<1>7. /\ LiveNamespaces[<<s0, i0>>] = None
      /\ LiveNamespaces'[<<s0, i0>>] = call[c].num
      /\ \A i \in NamespaceIds : i # i0 =>
            LiveNamespaces'[<<s0, i>>] = LiveNamespaces[<<s0, i>>]
  BY <1>1, <1>4, <1>5, IdleGone DEF OwnLive, OwnLiveNext, NsGone
<1>8. NoNumber(c)'
  BY <1>1, <1>2 DEF NoNumber, Idle
<1>9. SubsysAnswered(s0)
  <2>1. ASSUME NEW n, SubsysHeld(s0, n) PROVE SubsysHeld(s0, n)'
    BY <1>2, <1>6, <2>1, OwnSubsysHeld, OwnHeldNext
  <2> QED
    BY <1>1, <2>1 DEF SubsysAnswered
<1>10. NsAnswered(s0)
  <2>1. ASSUME NEW x \in snapNs, NsHeld(s0, x[1], x[3])
        PROVE  NsHeld(s0, x[1], x[3])'
    <3>1. x[3] # None
      BY NoneAssumption DEF TypeInv, TypeOK, SnapTypeOK
    <3>2. /\ LiveSubsystems[s0] = x[1]
          /\ \/ \E i \in NamespaceIds : LiveNamespaces[<<s0, i>>] = x[3]
             \/ call[c].num = x[3]
      BY <1>2, <2>1, OnlyCall DEF NsHeld
    <3>3. \E i \in NamespaceIds : LiveNamespaces'[<<s0, i>>] = x[3]
      BY <1>7, <3>1, <3>2
    <3> QED
      BY <1>6, <3>2, <3>3, OwnHeldNext
  <2> QED
    BY <1>1, <2>1 DEF NsAnswered
<1>11. CtrlsAnswered(s0)
  <2>1. ASSUME NEW x \in snapCtrls, CtrlHeld(s0, x[1], x[2])
        PROVE  CtrlHeld(s0, x[1], x[2])'
    <3>1. /\ LiveSubsystems[s0] = x[1]
          /\ \E i \in ControllerIds : LiveControllers[<<s0, i>>] = x[2]
      BY <1>2, <2>1, OnlyCall DEF CtrlHeld
    <3> QED
      BY <1>6, <3>1, OwnHeldNext
  <2> QED
    BY <1>1, <2>1 DEF CtrlsAnswered
<1> QED
  BY <1>3, <1>8, <1>9, <1>10, <1>11, OwnAnswers DEF AnswersFor

(* SNAP detaches the namespace its object answered for, no other.          *)
LEMMA NsDeleteOnSnapOrphan ==
    ASSUME TypeInv, SerialInv, OrphanInv, NEW c \in Calls, NsDeleteOnSnap(c),
           NEW s0 \in SubsystemIds, call[c].sub = s0,
           NEW i0 \in NamespaceIds, call[c].id = i0
    PROVE  OrphanInv'
<1>1. /\ call[c].op = "DeleteNvmeNamespace" /\ call[c].pc = "snap"
      /\ ~InCreateWindow(c) /\ UNCHANGED store
      /\ nsStore[<<s0, i0>>] = call[c].num
  BY DEF NsDeleteOnSnap, At, InCreateWindow, SerialInv, Knows, NsKey
<1>2. /\ LiveSubsystems[s0] = call[c].nqn /\ call[c].op # None
      /\ ~HoldsSubsys(c) /\ ~HoldsNs(c) /\ ~HoldsCtrl(c)
  BY <1>1, ParentHolds DEF NsOps, HoldsSubsys, HoldsNs, HoldsCtrl, At
<1>3. CASE UNCHANGED snap /\ Return(c)
  BY <1>1, <1>3, QuietMovesOn, QuietOrphan DEF snap
<1>4. CASE SnapDetach(call[c].nqn, HardCodedCntlid, call[c].num)
  <2>1. /\ snapSubsys' = snapSubsys /\ snapCtrls' \subseteq snapCtrls
        /\ snapNs' \subseteq snapNs
        /\ <<call[c].nqn, HardCodedCntlid, call[c].num>> \notin snapNs'
    BY <1>4 DEF SnapDetach
  <2>2. CASE Return(c)
    BY <1>1, <2>1, <2>2, QuietMovesOn, QuietOrphan
  <2>3. CASE Goto(c, "erase")
    <3>1. /\ OthersKept(c) /\ call'[c].op = call[c].op /\ call'[c].pc = "erase"
          /\ call'[c].sub = s0 /\ call'[c].id = i0
      BY <2>3, GotoFacts DEF TypeInv, Steps
    <3>2. OwnStep(c) /\ NoNumber(c)'
      BY <1>1, <1>2, <3>1, WritesBelow DEF OwnStep, NoNumber
    <3>3. OwnLive(c) /\ OwnLiveNext(c)
      BY <1>2, <3>2, OwnLiveNow, OwnLiveStep DEF SerialInv
    <3>4. /\ LiveSubsystems'[s0] = LiveSubsystems[s0]
          /\ \A i \in ControllerIds :
                LiveControllers'[<<s0, i>>] = LiveControllers[<<s0, i>>]
      BY <1>1, <3>1, <3>3 DEF OwnLive, OwnLiveNext, SubsysGone, CtrlGone, store
    <3>5. /\ LiveNamespaces[<<s0, i0>>] = call[c].num
          /\ \A i \in NamespaceIds : i # i0 =>
                LiveNamespaces'[<<s0, i>>] = LiveNamespaces[<<s0, i>>]
      BY <1>1, <3>1, <3>3 DEF OwnLive, OwnLiveNext, NsGone, InDeleteWindow, store
    <3>6. SubsysAnswered(s0)
      <4>1. ASSUME NEW n, SubsysHeld(s0, n) PROVE SubsysHeld(s0, n)'
        BY <1>2, <3>4, <4>1, OwnSubsysHeld, OwnHeldNext
      <4> QED
        BY <2>1, <4>1 DEF SubsysAnswered
    <3>7. NsAnswered(s0)
      <4>1. ASSUME NEW x \in snapNs', NsHeld(s0, x[1], x[3])
            PROVE  NsHeld(s0, x[1], x[3])'
        <5>1. /\ LiveSubsystems[s0] = x[1]
              /\ \E i \in NamespaceIds : LiveNamespaces[<<s0, i>>] = x[3]
          BY <1>2, <4>1, OnlyCall DEF NsHeld
        <5>2. x = <<x[1], HardCodedCntlid, x[3]>>
          BY <2>1, <4>1 DEF TypeInv, TypeOK, SnapTypeOK, OrphanInv
        <5>3. x[3] # call[c].num
          BY <1>2, <2>1, <4>1, <5>1, <5>2
        <5>4. \E i \in NamespaceIds : LiveNamespaces'[<<s0, i>>] = x[3]
          BY <3>5, <5>1, <5>3
        <5> QED
          BY <3>4, <5>1, <5>4, OwnHeldNext
      <4> QED
        BY <2>1, <4>1 DEF NsAnswered
    <3>8. CtrlsAnswered(s0)
      <4>1. ASSUME NEW x \in snapCtrls', CtrlHeld(s0, x[1], x[2])
            PROVE  CtrlHeld(s0, x[1], x[2])'
        <5>1. /\ LiveSubsystems[s0] = x[1]
              /\ \E i \in ControllerIds : LiveControllers[<<s0, i>>] = x[2]
          BY <1>2, <4>1, OnlyCall DEF CtrlHeld
        <5> QED
          BY <3>4, <5>1, OwnHeldNext
      <4> QED
        BY <2>1, <4>1 DEF CtrlsAnswered
    <3> QED
      BY <3>2, <3>6, <3>7, <3>8, OwnAnswers DEF AnswersFor
  <2> QED
    BY <2>2, <2>3, <1>1, <1>4 DEF NsDeleteOnSnap, At
<1> QED
  BY <1>3, <1>4 DEF NsDeleteOnSnap

(* Erasing the record of a namespace that is detached loses nothing.       *)
LEMMA NsEraseOrphan ==
    ASSUME TypeInv, SerialInv, OrphanInv, NEW c \in Calls, NsDeleteErase(c),
           NEW s0 \in SubsystemIds, call[c].sub = s0,
           NEW i0 \in NamespaceIds, call[c].id = i0
    PROVE  OrphanInv'
<1>1. /\ call[c].op = "DeleteNvmeNamespace" /\ call[c].pc = "erase"
      /\ ~InCreateWindow(c) /\ NsGone(c, i0)
      /\ OthersKept(c) /\ call'[c] = Idle /\ Return(c)
      /\ UNCHANGED <<subsysStore, ctrlStore, snapSubsys, snapNs, snapCtrls>>
  BY ControlFacts
  DEF NsDeleteErase, At, InCreateWindow, NsGone, InDeleteWindow, Deletes,
      TypeInv, snap
<1>2. CASE UNCHANGED nsStore
  BY <1>1, <1>2, QuietMovesOn, QuietOrphan DEF store
<1>3. CASE nsStore' = [nsStore EXCEPT ![NsKey(c)] = None]
  <2>1. /\ call[c].op # None
        /\ ~HoldsSubsys(c) /\ ~HoldsNs(c) /\ ~HoldsCtrl(c)
    BY <1>1, NoneAssumption DEF Deletes, HoldsSubsys, HoldsNs, HoldsCtrl, At
  <2>2. OwnStep(c) /\ NoNumber(c)'
    <3>1. StoreKeptBut(c)
      BY <1>1, <1>3, WritesBelow
    <3>2. NoNumber(c)'
      BY <1>1 DEF NoNumber, Idle
    <3> QED
      BY <1>1, <2>1, <3>1, <3>2 DEF OwnStep
  <2>3. OwnLive(c) /\ OwnLiveNext(c)
    BY <2>1, <2>2, OwnLiveNow, OwnLiveStep DEF SerialInv
  <2>4. /\ LiveSubsystems'[s0] = LiveSubsystems[s0]
        /\ \A i \in ControllerIds :
              LiveControllers'[<<s0, i>>] = LiveControllers[<<s0, i>>]
    BY <1>1, <2>3, IdleGone DEF OwnLive, OwnLiveNext, SubsysGone, CtrlGone
  <2>5. \A i \in NamespaceIds :
            i # i0 => nsStore'[<<s0, i>>] = nsStore[<<s0, i>>]
    BY <1>3 DEF NsKey, TypeInv, TypeOK, StoreTypeOK, NsNames
  <2>6. /\ LiveNamespaces[<<s0, i0>>] = None
        /\ \A i \in NamespaceIds : i # i0 =>
              LiveNamespaces'[<<s0, i>>] = LiveNamespaces[<<s0, i>>]
    BY <1>1, <2>3, <2>5, IdleGone DEF OwnLive, OwnLiveNext, NsGone
  <2>7. SubsysAnswered(s0)
    <3>1. ASSUME NEW n, SubsysHeld(s0, n) PROVE SubsysHeld(s0, n)'
      BY <2>1, <2>4, <3>1, OwnSubsysHeld, OwnHeldNext
    <3> QED
      BY <1>1, <3>1 DEF SubsysAnswered
  <2>8. NsAnswered(s0)
    <3>1. ASSUME NEW x \in snapNs, NsHeld(s0, x[1], x[3])
          PROVE  NsHeld(s0, x[1], x[3])'
      <4>1. x[3] # None
        BY NoneAssumption DEF TypeInv, TypeOK, SnapTypeOK
      <4>2. /\ LiveSubsystems[s0] = x[1]
            /\ \E i \in NamespaceIds : LiveNamespaces[<<s0, i>>] = x[3]
        BY <2>1, <3>1, OnlyCall DEF NsHeld
      <4>3. \E i \in NamespaceIds : LiveNamespaces'[<<s0, i>>] = x[3]
        BY <2>6, <4>1, <4>2
      <4> QED
        BY <2>4, <4>2, <4>3, OwnHeldNext
    <3> QED
      BY <1>1, <3>1 DEF NsAnswered
  <2>9. CtrlsAnswered(s0)
    <3>1. ASSUME NEW x \in snapCtrls, CtrlHeld(s0, x[1], x[2])
          PROVE  CtrlHeld(s0, x[1], x[2])'
      <4>1. /\ LiveSubsystems[s0] = x[1]
            /\ \E i \in ControllerIds : LiveControllers[<<s0, i>>] = x[2]
        BY <2>1, <3>1, OnlyCall DEF CtrlHeld
      <4> QED
        BY <2>4, <4>1, OwnHeldNext
    <3> QED
      BY <1>1, <3>1 DEF CtrlsAnswered
  <2> QED
    BY <2>2, <2>7, <2>8, <2>9, OwnAnswers DEF AnswersFor
<1> QED
  BY <1>2, <1>3 DEF NsDeleteErase

-----------------------------------------------------------------------------
(* The steps of all handlers that only look things up, or go on between    *)
(* SNAP and the store, leave everything with whoever answers for it.       *)
LEMMA LookupsOrphan ==
    ASSUME TypeInv, OrphanInv, "create" \notin Faults, NEW c \in Calls,
           \/ SubsysCreateLookup(c) \/ SubsysCreateCheckNqn(c)
           \/ SubsysCreateVersion(c) \/ SubsysDeleteLookup(c)
           \/ SubsysDeleteForget(c)
           \/ CtrlCreateLookup(c) \/ CtrlCreateParent(c)
           \/ CtrlDeleteLookup(c) \/ CtrlDeleteParent(c)
           \/ NsCreateLookup(c) \/ NsCreateParent(c)
           \/ NsDeleteLookup(c) \/ NsDeleteParent(c)
    PROVE  OrphanInv'
<1>1. CASE SubsysCreateVersion(c)
  <2>1. /\ call[c].op = "CreateNvmeSubsystem" /\ InCreateWindow(c)
        /\ Goto(c, "save") /\ UNCHANGED <<store, snap>>
    BY <1>1 DEF SubsysCreateVersion, At, InCreateWindow, Creates
  <2>2. /\ OthersKept(c) /\ call'[c].op = call[c].op /\ call'[c].pc = "save"
        /\ call'[c].sub = call[c].sub
        /\ call'[c].nqn = call[c].nqn /\ call'[c].num = call[c].num
    BY <2>1, GotoFacts DEF TypeInv, Steps
  <2>3. InCreateWindow(c)' /\ ~HoldsCtrl(c) /\ ~HoldsNs(c) /\ ~InDeleteWindow(c)'
    BY <2>1, <2>2 DEF InCreateWindow, HoldsCtrl, HoldsNs, At, InDeleteWindow, Creates
  <2>4. GoesOn(c) /\ NoNumber(c)'
    BY <2>2, <2>3 DEF GoesOn, NoNumber, OrphanInv
  <2> QED
    BY <2>1, <2>2, <2>4, QuietOrphan DEF QuietAnswers, snap
<1>2. CASE SubsysDeleteForget(c)
  <2>1. /\ call[c].op = "DeleteNvmeSubsystem" /\ InDeleteWindow(c)
        /\ ~InCreateWindow(c) /\ Goto(c, "erase") /\ UNCHANGED <<store, snap>>
    BY <1>2 DEF SubsysDeleteForget, At, InDeleteWindow, InCreateWindow, Deletes
  <2>2. /\ OthersKept(c) /\ call'[c].op = call[c].op
        /\ call'[c].sub = call[c].sub /\ call'[c].id = call[c].id
    BY <2>1, GotoFacts DEF TypeInv, Steps
  <2>3. GoesOn(c) /\ NoNumber(c)'
    BY <2>1, <2>2 DEF GoesOn, NoNumber
  <2> QED
    BY <2>1, <2>2, <2>3, QuietOrphan DEF QuietAnswers, snap
<1>3. CASE SubsysCreateLookup(c) \/ SubsysCreateCheckNqn(c)
  <2>1. ~InCreateWindow(c) /\ UNCHANGED <<store, snap>>
    BY <1>3 DEF SubsysCreateLookup, SubsysCreateCheckNqn, At, InCreateWindow
  <2>2. Return(c) \/ \E pc \in {"parent", "check", "snap"} : Goto(c, pc)
    BY <1>3 DEF SubsysCreateLookup, SubsysCreateCheckNqn
  <2> QED
    BY <2>1, <2>2, QuietMovesOn, QuietOrphan DEF snap
<1>4. CASE \/ SubsysDeleteLookup(c)
           \/ CtrlCreateLookup(c) \/ CtrlCreateParent(c)
           \/ CtrlDeleteLookup(c) \/ CtrlDeleteParent(c)
           \/ NsCreateLookup(c) \/ NsCreateParent(c)
           \/ NsDeleteLookup(c) \/ NsDeleteParent(c)
  <2>1. /\ ~InCreateWindow(c) /\ UNCHANGED <<store, snap>>
        /\ call[c].op # "CreateNvmeSubsystem" /\ call[c].op # None
        /\ CtrlDeleteLookup(c) => call[c].op \in CtrlOps
        /\ NsDeleteLookup(c) => call[c].op \in NsOps
    BY <1>4, NoneAssumption
    DEF SubsysDeleteLookup, CtrlCreateLookup, CtrlCreateParent, CtrlDeleteLookup,
        CtrlDeleteParent, NsCreateLookup, NsCreateParent, NsDeleteLookup,
        NsDeleteParent, At, InCreateWindow, Creates, Deletes, CtrlOps, NsOps
  <2>2. \/ Return(c)
        \/ \E pc \in {"parent", "check", "snap"} : Goto(c, pc)
        \/ \E pc \in {"parent", "check", "snap"}, n \in Nqns \cup {None},
              k \in Cntlids \cup Nsids \cup {None} : GotoWith(c, pc, n, k)
    BY <1>4, <2>1, LocalsType
    DEF SubsysDeleteLookup, CtrlCreateLookup, CtrlCreateParent, CtrlDeleteLookup,
        CtrlDeleteParent, NsCreateLookup, NsCreateParent, NsDeleteLookup,
        NsDeleteParent, SubsysKey, CtrlKey, NsKey
  <2> QED
    BY <2>1, <2>2, QuietMovesOn, QuietOrphan DEF snap
<1> QED
  BY <1>1, <1>2, <1>3, <1>4

(* Every step of a handler keeps the invariant.                            *)
LEMMA HandlerOrphan ==
    ASSUME TypeInv, SerialInv, OrphanInv, "create" \notin Faults,
           NEW c \in Calls, SubsysStep(c) \/ CtrlStep(c) \/ NsStep(c)
    PROVE  OrphanInv'
<1>1. ASSUME call[c].op # None
      PROVE  /\ call[c].sub \in SubsystemIds
             /\ call[c].op \in CtrlOps => call[c].id \in ControllerIds
             /\ call[c].op \in NsOps => call[c].id \in NamespaceIds
  BY <1>1 DEF TypeInv, CallFits
<1>2. CASE SubsysStep(c)
  <2>1. CASE \/ SubsysCreateOnSnap(c) \/ SubsysCreateSave(c)
             \/ SubsysDeleteOnSnap(c) \/ SubsysDeleteErase(c)
    <3>1. call[c].sub \in SubsystemIds
      BY <1>1, <2>1, NoneAssumption
      DEF SubsysCreateOnSnap, SubsysCreateSave, SubsysDeleteOnSnap,
          SubsysDeleteErase, At, Creates, Deletes
    <3> QED
      BY <2>1, <3>1, SubsysCreateOnSnapOrphan, SubsysSaveOrphan,
         SubsysDeleteOnSnapOrphan, SubsysEraseOrphan
  <2>2. CASE \/ \E s \in SubsystemIds, n \in Nqns : SubsysCreateBegin(c, s, n)
             \/ \E s \in SubsystemIds : SubsysDeleteBegin(c, s)
    BY <2>2, BeginOrphan DEF SubsysCreateBegin, SubsysDeleteBegin
  <2> QED
    BY <1>2, <2>1, <2>2, LookupsOrphan DEF SubsysStep
<1>3. CASE CtrlStep(c)
  <2>1. CASE \/ CtrlCreateOnSnap(c) \/ CtrlCreateSave(c)
             \/ CtrlDeleteOnSnap(c) \/ CtrlDeleteErase(c)
    <3>1. call[c].sub \in SubsystemIds /\ call[c].id \in ControllerIds
      BY <1>1, <2>1, NoneAssumption
      DEF CtrlCreateOnSnap, CtrlCreateSave, CtrlDeleteOnSnap, CtrlDeleteErase, At,
          Creates, Deletes, CtrlOps
    <3> QED
      BY <2>1, <3>1, CtrlCreateOnSnapOrphan, CtrlSaveOrphan, CtrlDeleteOnSnapOrphan,
         CtrlEraseOrphan
  <2>2. CASE \E s \in SubsystemIds, i \in ControllerIds :
                CtrlCreateBegin(c, s, i) \/ CtrlDeleteBegin(c, s, i)
    BY <2>2, BeginOrphan DEF CtrlCreateBegin, CtrlDeleteBegin
  <2> QED
    BY <1>3, <2>1, <2>2, LookupsOrphan DEF CtrlStep
<1>4. CASE NsStep(c)
  <2>1. CASE \/ NsCreateOnSnap(c) \/ NsCreateSave(c)
             \/ NsDeleteOnSnap(c) \/ NsDeleteErase(c)
    <3>1. call[c].sub \in SubsystemIds /\ call[c].id \in NamespaceIds
      BY <1>1, <2>1, NoneAssumption
      DEF NsCreateOnSnap, NsCreateSave, NsDeleteOnSnap, NsDeleteErase, At,
          Creates, Deletes, NsOps
    <3> QED
      BY <2>1, <3>1, NsCreateOnSnapOrphan, NsSaveOrphan, NsDeleteOnSnapOrphan,
         NsEraseOrphan
  <2>2. CASE \/ \E s \in SubsystemIds, i \in NamespaceIds, h \in Nsids :
                   NsCreateBegin(c, s, i, h)
             \/ \E s \in SubsystemIds, i \in NamespaceIds : NsDeleteBegin(c, s, i)
    BY <2>2, BeginOrphan DEF NsCreateBegin, NsDeleteBegin
  <2> QED
    BY <1>4, <2>1, <2>2, LookupsOrphan DEF NsStep
<1> QED
  BY <1>2, <1>3, <1>4

(* No create is between SNAP and the store when the process dies, so a     *)
(* restart leaves nothing behind; deletes it ends have their objects back. *)
LEMMA RestartOrphan ==
    ASSUME TypeInv, OrphanInv, "create" \notin Faults, Restart
    PROVE  OrphanInv'
<1>1. /\ \A c \in Calls : call'[c] = Idle /\ ~InCreateWindow(c)
      /\ UNCHANGED <<subsysStore, ctrlStore, nsStore, snapSubsys, snapCtrls, snapNs>>
  BY DEF Restart, store, snap
<1>2. \A c \in Calls : /\ ~SubsysGone(c)' /\ NoNumber(c)'
                       /\ \A i : ~CtrlGone(c, i)' /\ ~NsGone(c, i)'
                       /\ ~HoldsSubsys(c) /\ ~HoldsCtrl(c) /\ ~HoldsNs(c)
  BY <1>1, IdleGone
  DEF NoNumber, Idle, HoldsSubsys, HoldsCtrl, HoldsNs, At, InCreateWindow, Creates
<1>3. ASSUME NEW s \in SubsystemIds PROVE HeldKept(s)
  <2>1. \A n \in Nqns : LiveSubsystems[s] = n => LiveSubsystems'[s] = n
    BY <1>1, <1>2, LiveDef, LiveDefNext, NoneAssumption DEF LiveIsStored
  <2>2. \A i \in ControllerIds, k \in Cntlids :
           LiveControllers[<<s, i>>] = k => LiveControllers'[<<s, i>>] = k
    BY <1>1, <1>2, LiveDef, LiveDefNext, NoneAssumption DEF LiveIsStored
  <2>3. \A i \in NamespaceIds, h \in Nsids :
           LiveNamespaces[<<s, i>>] = h => LiveNamespaces'[<<s, i>>] = h
    BY <1>1, <1>2, LiveDef, LiveDefNext, NoneAssumption DEF LiveIsStored
  <2>4. \A n \in Nqns : SubsysHeld(s, n) => SubsysHeld(s, n)'
    BY <1>2, <2>1 DEF SubsysHeld
  <2>5. \A n \in Nqns, k \in Cntlids : CtrlHeld(s, n, k) => CtrlHeld(s, n, k)'
    BY <1>2, <2>1, <2>2 DEF CtrlHeld
  <2>6. \A n \in Nqns, h \in Nsids : NsHeld(s, n, h) => NsHeld(s, n, h)'
    BY <1>2, <2>1, <2>3 DEF NsHeld
  <2> QED
    BY <2>4, <2>5, <2>6 DEF HeldKept
<1> QED
  BY <1>1, <1>2, <1>3, AllKeep

(* At first there is nothing on SNAP to answer for.                        *)
LEMMA InitOrphan == Init => OrphanInv
BY NoneAssumption DEF Init, OrphanInv, NoNumber, Idle, Creates

(* Every step keeps the invariant.                                         *)
LEMMA NextOrphan ==
    ASSUME "create" \notin Faults
    PROVE  TypeInv /\ SerialInv /\ OrphanInv /\ [Next]_vars => OrphanInv'
<1> SUFFICES ASSUME TypeInv, SerialInv, OrphanInv, [Next]_vars PROVE OrphanInv'
  OBVIOUS
<1>1. CASE Restart
  BY <1>1, RestartOrphan
<1>2. ASSUME NEW c \in Calls, SubsysStep(c) \/ CtrlStep(c) \/ NsStep(c)
      PROVE  OrphanInv'
  BY <1>2, HandlerOrphan
<1>3. CASE UNCHANGED vars
  <2>1. UNCHANGED <<store, snapSubsys, snapCtrls, snapNs, call>>
    BY <1>3 DEF vars, snap
  <2>2. \A c \in Calls : OthersKept(c) /\ GoesOn(c) /\ NoNumber(c)'
    BY <2>1
    DEF OthersKept, GoesOn, NoNumber, OrphanInv, InCreateWindow, InDeleteWindow,
        HoldsCtrl, HoldsNs, At
  <2>3. ASSUME NEW s \in SubsystemIds PROVE HeldKept(s)
    <3>1. LiveKept(s)
      BY <2>1, LiveDef, LiveDefNext
      DEF LiveIsStored, LiveKept, store, SubsysGone, CtrlGone, NsGone, InDeleteWindow
    <3> QED
      BY <2>1, <3>1
      DEF HeldKept, SubsysHeld, CtrlHeld, NsHeld, LiveKept, HoldsSubsys, HoldsCtrl,
          HoldsNs, InCreateWindow, At
  <2> QED
    BY <2>1, <2>2, <2>3, AllKeep
<1> QED
  BY <1>1, <1>2, <1>3 DEF Next

-----------------------------------------------------------------------------
(* Who answers is an object that names what is on SNAP, or a create.       *)
LEMMA OrphanInvImplies ==
    ASSUME TypeInv, SerialInv, OrphanInv PROVE NoOrphanOnSnap
<1>1. ASSUME NEW n \in snapSubsys
      PROVE  \/ Creating("CreateNvmeSubsystem", n, None)
             \/ \E s \in SubsystemIds : LiveSubsystem(s) /\ subsysStore[s] = n
  <2>1. n # None
    BY NoneAssumption DEF TypeInv, TypeOK, SnapTypeOK
  <2>2. PICK s \in SubsystemIds : SubsysHeld(s, n)
    BY DEF OrphanInv
  <2>3. CASE LiveSubsystems[s] = n
    BY <2>1, <2>3 DEF LiveSubsystems
  <2>4. CASE \E c \in Calls : HoldsSubsys(c) /\ call[c].sub = s /\ call[c].nqn = n
    BY <2>4 DEF OrphanInv, NoNumber, HoldsSubsys, Creating
  <2> QED
    BY <2>2, <2>3, <2>4 DEF SubsysHeld
<1>2. ASSUME NEW s \in SubsystemIds, NEW n \in Nqns, LiveSubsystems[s] = n
      PROVE  subsysStore[s] = n
  BY <1>2, NoneAssumption DEF LiveSubsystems
<1>3. ASSUME NEW c \in Calls, HoldsCtrl(c) \/ HoldsNs(c)
      PROVE  InCreateWindow(c) /\ subsysStore[call[c].sub] = call[c].nqn
  BY <1>3
  DEF HoldsCtrl, HoldsNs, At, InCreateWindow, Creates, SerialInv, Knows, SubsysKey,
      CtrlOps, NsOps
<1>4. ASSUME NEW x \in snapCtrls
      PROVE  \/ Creating("CreateNvmeController", x[1], x[2])
             \/ \E y \in CtrlNames : /\ LiveController(y)
                                     /\ subsysStore[y[1]] = x[1]
                                     /\ ctrlStore[y] = x[2]
  <2>1. x[1] \in Nqns /\ x[2] # None
    BY NoneAssumption DEF TypeInv, TypeOK, SnapTypeOK
  <2>2. PICK s \in SubsystemIds : CtrlHeld(s, x[1], x[2])
    BY DEF OrphanInv
  <2>3. subsysStore[s] = x[1]
    BY <1>2, <2>1, <2>2 DEF CtrlHeld
  <2>4. ASSUME NEW i \in ControllerIds, LiveControllers[<<s, i>>] = x[2]
        PROVE  \E y \in CtrlNames : /\ LiveController(y)
                                    /\ subsysStore[y[1]] = x[1]
                                    /\ ctrlStore[y] = x[2]
    <3>1. <<s, i>> \in CtrlNames
      BY DEF CtrlNames
    <3>2. LiveController(<<s, i>>) /\ ctrlStore[<<s, i>>] = x[2]
      BY <2>1, <2>4, <3>1 DEF LiveControllers
    <3> QED
      BY <2>3, <3>1, <3>2
  <2>5. ASSUME NEW c \in Calls, HoldsCtrl(c), call[c].sub = s, call[c].num = x[2]
        PROVE  Creating("CreateNvmeController", x[1], x[2])
    BY <1>3, <2>3, <2>5 DEF Creating, HoldsCtrl, At
  <2> QED
    BY <2>2, <2>4, <2>5 DEF CtrlHeld
<1>5. ASSUME NEW x \in snapNs
      PROVE  \/ Creating("CreateNvmeNamespace", x[1], x[3])
             \/ \E y \in NsNames : /\ LiveNamespace(y)
                                   /\ subsysStore[y[1]] = x[1]
                                   /\ nsStore[y] = x[3]
  <2>1. x[1] \in Nqns /\ x[3] # None
    BY NoneAssumption DEF TypeInv, TypeOK, SnapTypeOK
  <2>2. PICK s \in SubsystemIds : NsHeld(s, x[1], x[3])
    BY DEF OrphanInv
  <2>3. subsysStore[s] = x[1]
    BY <1>2, <2>1, <2>2 DEF NsHeld
  <2>4. ASSUME NEW i \in NamespaceIds, LiveNamespaces[<<s, i>>] = x[3]
        PROVE  \E y \in NsNames : /\ LiveNamespace(y)
                                  /\ subsysStore[y[1]] = x[1]
                                  /\ nsStore[y] = x[3]
    <3>1. <<s, i>> \in NsNames
      BY DEF NsNames
    <3>2. LiveNamespace(<<s, i>>) /\ nsStore[<<s, i>>] = x[3]
      BY <2>1, <2>4, <3>1 DEF LiveNamespaces
    <3> QED
      BY <2>3, <3>1, <3>2
  <2>5. ASSUME NEW c \in Calls, HoldsNs(c), call[c].sub = s, call[c].num = x[3]
        PROVE  Creating("CreateNvmeNamespace", x[1], x[3])
    BY <1>3, <2>3, <2>5 DEF Creating, HoldsNs, At
  <2> QED
    BY <2>2, <2>4, <2>5 DEF NsHeld
<1> QED
  BY <1>1, <1>4, <1>5 DEF NoOrphanOnSnap

(* Somebody answers for everything on SNAP, when calls on one subsystem do *)
(* not overlap and every create that SNAP has carried out stores its       *)
(* object.  Deletes may break, and SNAP may delete children with parents.  *)
THEOREM OrphanInvCorrect ==
    ASSUME ~Overlap, "create" \notin Faults
    PROVE  Spec => []OrphanInv
<1>1. Init => TypeInv /\ SerialInv /\ OrphanInv
  BY InitType, InitSerial, InitOrphan
<1>2. TypeInv /\ SerialInv /\ OrphanInv /\ [Next]_vars
         => TypeInv' /\ SerialInv' /\ OrphanInv'
  BY NextType, NextSerial, NextOrphan
<1> QED
  BY <1>1, <1>2, PTL DEF Spec

(* Nothing stays on SNAP that no object names, short of a create about to  *)
(* store its object: what SNAP keeps has a name to ask for its deletion by.*)
THEOREM NoOrphans ==
    ASSUME ~Overlap, "create" \notin Faults
    PROVE  Spec => []NoOrphanOnSnap
BY OrphanInvImplies, OrphanInvCorrect, TypeCorrect, SerialCorrect, PTL
=============================================================================
