------------------------- MODULE NvmeOverlapProofs --------------------------
(***************************************************************************)
(* However calls overlap, whatever breaks and whatever SNAP does with busy *)
(* parents: a call that meets no rival works with what is still so, and so *)
(* replaces, erases and deletes nothing but its own.                       *)
(***************************************************************************)
EXTENDS NvmeOverlap, NvmeSerialProofs

(* A call with a rival has met one, and one that has met none knows what   *)
(* it has looked up.                                                       *)
MetInv ==
    /\ \A c, d \in Calls : Rivals(c, d) => c \in met
    /\ \A c \in Calls \ met : Knows(c)

(* A call that is not in flight knows nothing that could be wrong.         *)
LEMMA IdleKnowsNothing ==
    ASSUME NEW c \in Calls, call[c].op = None
    PROVE  Knows(c)
BY NoneAssumption DEF Knows, Creates, Deletes, CtrlOps, NsOps

(* Every step of a handler is local to it.                                 *)
LEMMA StepLocal ==
    ASSUME TypeInv, NEW c \in Calls, SubsysStep(c) \/ CtrlStep(c) \/ NsStep(c)
    PROVE  LocalStep(c)
BY SubsysStepLocal, CtrlStepLocal, NsStepLocal

(* A restart ends every call.                                              *)
LEMMA RestartEnds ==
    ASSUME Restart
    PROVE  /\ \A c \in Calls : call'[c].op = None
           /\ UNCHANGED <<store, snap>>
BY DEF Restart, Idle

(* What a call writes to, no call in flight reads that is not its rival.   *)
LEMMA NoRivalKnows ==
    ASSUME TypeInv, NEW c \in Calls, LocalStep(c), NEW d \in Calls \ {c},
           ~Rivals(d, c), Knows(d)
    PROVE  Knows(d)'
<1>1. OwnWrites(c) /\ call'[d] = call[d]
  BY DEF LocalStep, OthersKept
<1>2. call[d].op # None =>
         subsysStore'[SubsysKey(d)] = subsysStore[SubsysKey(d)]
  BY <1>1, NoneAssumption
  DEF TypeInv, CallFits, OwnWrites, SubsysKey, Rivals, SubsysOps, Creates, Deletes
<1>3. call[d].op \in CtrlOps => ctrlStore'[CtrlKey(d)] = ctrlStore[CtrlKey(d)]
  BY <1>1, NoneAssumption
  DEF TypeInv, CallFits, OwnWrites, CtrlKey, CtrlNames, Rivals, CtrlOps,
      Creates, Deletes
<1>4. call[d].op \in NsOps => nsStore'[NsKey(d)] = nsStore[NsKey(d)]
  BY <1>1, NoneAssumption
  DEF TypeInv, CallFits, OwnWrites, NsKey, NsNames, Rivals, NsOps, Creates, Deletes
<1> QED
  BY <1>1, <1>2, <1>3, <1>4, KnowsKept

(* The invariant holds when the server starts.                             *)
LEMMA InitMet == OverlapInit => TypeInv /\ MetInv
<1> SUFFICES ASSUME OverlapInit PROVE TypeInv /\ MetInv
  OBVIOUS
<1>1. \A c \in Calls : call[c].op = None
  BY DEF OverlapInit, Init, Idle
<1>2. TypeInv
  BY InitType DEF OverlapInit
<1>3. \A c \in Calls : Knows(c)
  BY <1>1, IdleKnowsNothing
<1> QED
  BY <1>1, <1>2, <1>3 DEF MetInv, Rivals

(* Every step keeps the invariant.                                         *)
LEMMA NextMet == TypeInv /\ MetInv /\ [OverlapNext]_overlapVars => MetInv'
<1> SUFFICES ASSUME TypeInv, MetInv, [OverlapNext]_overlapVars PROVE MetInv'
  OBVIOUS
<1>1. CASE UNCHANGED overlapVars
  BY <1>1
  DEF overlapVars, vars, store, MetInv, Rivals, Knows, SubsysKey, CtrlKey, NsKey
<1>2. CASE Next /\ NoteRivals
  <2>1. \A c, d \in Calls : Rivals(c, d)' => c \in met'
    BY <1>2 DEF NoteRivals, Rivals
  <2>2. ASSUME NEW d \in Calls, d \notin met', call'[d].op = None
        PROVE  Knows(d)'
    BY <2>2, NoneAssumption DEF Knows, Creates, Deletes, CtrlOps, NsOps
  <2>3. ASSUME NEW d \in Calls, d \notin met', call'[d].op # None
        PROVE  Knows(d)'
    <3>1. d \notin met
      BY <1>2, <2>3 DEF NoteRivals
    <3>2. Knows(d) /\ \A c \in Calls : ~Rivals(d, c)
      BY <3>1 DEF MetInv
    <3>3. ~Restart
      BY <2>3, RestartEnds
    <3>4. PICK c \in Calls : SubsysStep(c) \/ CtrlStep(c) \/ NsStep(c)
      BY <1>2, <3>3 DEF Next
    <3>5. LocalStep(c)
      BY <3>4, StepLocal
    <3>6. CASE d = c
      BY <3>2, <3>5, <3>6 DEF LocalStep
    <3>7. CASE d # c
      BY <3>2, <3>5, <3>7, NoRivalKnows
    <3> QED
      BY <3>6, <3>7
  <2> QED
    BY <2>1, <2>2, <2>3 DEF MetInv
<1> QED
  BY <1>1, <1>2 DEF OverlapNext

(* Steps of the model with its history are steps of the model.             *)
LEMMA OverlapNextType == TypeInv /\ [OverlapNext]_overlapVars => TypeInv'
<1>1. [OverlapNext]_overlapVars => [Next]_vars
  BY DEF OverlapNext, overlapVars
<1> QED
  BY <1>1, NextType

(* In every state, whatever overlaps, breaks or is left on SNAP: a call in *)
(* flight that has met no rival knows what it has looked up.               *)
THEOREM MetCorrect == OverlapSpec => [](TypeInv /\ MetInv)
<1>1. OverlapInit => TypeInv /\ MetInv
  BY InitMet
<1>2. (TypeInv /\ MetInv) /\ [OverlapNext]_overlapVars => (TypeInv /\ MetInv)'
  BY OverlapNextType, NextMet
<1> QED
  BY <1>1, <1>2, PTL DEF OverlapSpec

-----------------------------------------------------------------------------
(* A call that moves is the one whose handler takes the step.              *)
LEMMA MoverSteps ==
    ASSUME TypeInv, NEW c \in Calls, call'[c] # call[c], Next, ~Restart
    PROVE  SubsysStep(c) \/ CtrlStep(c) \/ NsStep(c)
<1>1. PICK d \in Calls : SubsysStep(d) \/ CtrlStep(d) \/ NsStep(d)
  BY DEF Next
<1>2. OthersKept(d)
  BY <1>1, StepLocal DEF LocalStep
<1>3. d = c
  BY <1>2 DEF OthersKept
<1> QED
  BY <1>1, <1>3

(* A handler that knows its record erases that.                            *)
LEMMA StepErasesAsRead ==
    ASSUME TypeInv, NEW c \in Calls, Knows(c),
           SubsysStep(c) \/ CtrlStep(c) \/ NsStep(c)
    PROVE  ErasedAsRead
<1>1. CASE UNCHANGED store
  BY <1>1 DEF ErasedAsRead, store
<1>2. CASE SubsysCreateSave(c)
  <2>1. call[c].nqn # None
    BY <1>2, NoneAssumption DEF SubsysCreateSave, At, TypeInv, CallFits
  <2> QED
    BY <1>2, <2>1 DEF SubsysCreateSave, ErasedAsRead, TypeInv, TypeOK, StoreTypeOK
<1>3. CASE CtrlCreateSave(c)
  <2>1. call[c].num # None
    BY <1>3, NoneAssumption DEF CtrlCreateSave, At, TypeInv, CallFits
  <2> QED
    BY <1>3, <2>1 DEF CtrlCreateSave, ErasedAsRead, TypeInv, TypeOK, StoreTypeOK
<1>4. CASE NsCreateSave(c)
  <2>1. call[c].num # None
    BY <1>4, NoneAssumption DEF NsCreateSave, At, TypeInv, CallFits
  <2> QED
    BY <1>4, <2>1 DEF NsCreateSave, ErasedAsRead, TypeInv, TypeOK, StoreTypeOK
<1>5. CASE SubsysDeleteErase(c)
  <2>1. subsysStore[SubsysKey(c)] = call[c].nqn
    BY <1>5 DEF SubsysDeleteErase, At, Knows
  <2> QED
    BY <1>5, <2>1
    DEF SubsysDeleteErase, SubsysKey, ErasedAsRead, TypeInv, TypeOK, StoreTypeOK
<1>6. CASE CtrlDeleteErase(c)
  <2>1. ctrlStore[CtrlKey(c)] = call[c].num
    BY <1>6 DEF CtrlDeleteErase, At, Knows
  <2> QED
    BY <1>6, <2>1 DEF CtrlDeleteErase, ErasedAsRead, TypeInv, TypeOK, StoreTypeOK
<1>7. CASE NsDeleteErase(c)
  <2>1. nsStore[NsKey(c)] = call[c].num
    BY <1>7 DEF NsDeleteErase, At, Knows
  <2> QED
    BY <1>7, <2>1 DEF NsDeleteErase, ErasedAsRead, TypeInv, TypeOK, StoreTypeOK
<1> QED
  BY <1>1, <1>2, <1>3, <1>4, <1>5, <1>6, <1>7, StepWrites

(* A handler changes SNAP in its one step there, and only as it must.      *)
LEMMA SnapWrites ==
    ASSUME NEW c \in Calls, SubsysStep(c) \/ CtrlStep(c) \/ NsStep(c)
    PROVE  \/ UNCHANGED snap
           \/ At(c, "CreateNvmeSubsystem", "snap") /\ SnapCreateSubsystem(call[c].nqn)
           \/ At(c, "DeleteNvmeSubsystem", "snap") /\ SnapDeleteSubsystem(call[c].nqn)
           \/ /\ At(c, "CreateNvmeController", "snap")
              /\ \E k \in Cntlids : SnapCreateController(call[c].nqn, k)
           \/ /\ At(c, "DeleteNvmeController", "snap")
              /\ SnapDeleteController(call[c].nqn, call[c].num)
           \/ /\ At(c, "CreateNvmeNamespace", "snap")
              /\ SnapAttach(call[c].nqn, HardCodedCntlid, call[c].num)
           \/ /\ At(c, "DeleteNvmeNamespace", "snap")
              /\ SnapDetach(call[c].nqn, HardCodedCntlid, call[c].num)
<1>1. CASE SubsysStep(c)
  BY <1>1
  DEF SubsysStep, SubsysCreateBegin, SubsysCreateLookup, SubsysCreateCheckNqn,
      SubsysCreateOnSnap, SubsysCreateVersion, SubsysCreateSave, SubsysDeleteBegin,
      SubsysDeleteLookup, SubsysDeleteOnSnap, SubsysDeleteForget,
      SubsysDeleteErase, Begin
<1>2. CASE CtrlStep(c)
  BY <1>2
  DEF CtrlStep, CtrlCreateBegin, CtrlCreateLookup, CtrlCreateParent,
      CtrlCreateOnSnap, CtrlCreateSave, CtrlDeleteBegin, CtrlDeleteLookup,
      CtrlDeleteParent, CtrlDeleteOnSnap, CtrlDeleteErase, Begin
<1>3. CASE NsStep(c)
  BY <1>3
  DEF NsStep, NsCreateBegin, NsCreateLookup, NsCreateParent, NsCreateOnSnap,
      NsCreateSave, NsDeleteBegin, NsDeleteLookup, NsDeleteParent,
      NsDeleteOnSnap, NsDeleteErase, Begin
<1> QED
  BY <1>1, <1>2, <1>3

(* A handler that knows its records acts on SNAP by what they say now.     *)
LEMMA StepActsOnOwn ==
    ASSUME TypeInv, NEW c \in Calls, Knows(c),
           SubsysStep(c) \/ CtrlStep(c) \/ NsStep(c)
    PROVE  ActsOnOwn(c)
<1> DEFINE n == subsysStore[call[c].sub]
<1>1. CASE UNCHANGED snap
  BY <1>1 DEF ActsOnOwn, snap
<1>2. CASE At(c, "CreateNvmeSubsystem", "snap") /\ SnapCreateSubsystem(call[c].nqn)
  BY <1>2 DEF At, SnapCreateSubsystem, ActsOnOwn
<1>3. CASE At(c, "DeleteNvmeSubsystem", "snap") /\ SnapDeleteSubsystem(call[c].nqn)
  <2>1. call[c].nqn = n
    BY <1>3 DEF At, Knows, SubsysKey
  <2> QED
    BY <1>3, <2>1 DEF At, SnapDeleteSubsystem, ActsOnOwn
<1>4. ASSUME NEW k \in Cntlids, At(c, "CreateNvmeController", "snap"),
             SnapCreateController(call[c].nqn, k)
      PROVE  ActsOnOwn(c)
  <2>1. call[c].nqn = n
    BY <1>4 DEF At, Knows, SubsysKey, CtrlOps
  <2> QED
    BY <1>4, <2>1 DEF At, SnapCreateController, ActsOnOwn
<1>5. CASE /\ At(c, "DeleteNvmeController", "snap")
           /\ SnapDeleteController(call[c].nqn, call[c].num)
  <2>1. call[c].nqn = n /\ call[c].num = ctrlStore[CtrlKey(c)]
    BY <1>5 DEF At, Knows, SubsysKey, CtrlOps
  <2>2. \A x \in snapNs \ snapNs' : x[1] = n
    BY <1>5, <2>1 DEF SnapDeleteController
  <2>3. snapNs' \ snapNs = {}
    BY <1>5 DEF SnapDeleteController
  <2> QED
    BY <1>5, <2>1, <2>2, <2>3 DEF At, SnapDeleteController, ActsOnOwn
<1>6. CASE /\ At(c, "CreateNvmeNamespace", "snap")
           /\ SnapAttach(call[c].nqn, HardCodedCntlid, call[c].num)
  <2>1. call[c].nqn = n
    BY <1>6 DEF At, Knows, SubsysKey, NsOps
  <2> QED
    BY <1>6, <2>1 DEF At, SnapAttach, ActsOnOwn
<1>7. CASE /\ At(c, "DeleteNvmeNamespace", "snap")
           /\ SnapDetach(call[c].nqn, HardCodedCntlid, call[c].num)
  <2>1. call[c].nqn = n /\ call[c].num = nsStore[NsKey(c)]
    BY <1>7 DEF At, Knows, SubsysKey, NsOps
  <2> QED
    BY <1>7, <2>1 DEF At, SnapDetach, ActsOnOwn
<1> QED
  BY <1>1, <1>2, <1>3, <1>4, <1>5, <1>6, <1>7, SnapWrites

-----------------------------------------------------------------------------
(* No object is replaced by another, and none erased but the one its       *)
(* delete has read, by a call that has met no rival: for any overlap of    *)
(* calls, any faults and restarts, and whatever SNAP refuses.              *)
THEOREM OnlyRivalsReplaceObjects == OverlapSpec => OnlyRivalsReplace
<1>1. TypeInv /\ MetInv /\ [OverlapNext]_overlapVars =>
         [\A c \in Calls \ met :
             Moves(c, {"save", "erase"}) => ObjectsKept /\ ErasedAsRead]_overlapVars
  <2> SUFFICES ASSUME TypeInv, MetInv, OverlapNext,
                      NEW c \in Calls \ met, Moves(c, {"save", "erase"})
               PROVE  ObjectsKept /\ ErasedAsRead
    BY DEF overlapVars
  <2>1. CASE Restart
    BY <2>1, RestartEnds DEF ObjectsKept, ErasedAsRead, store
  <2>2. CASE ~Restart
    <3>1. SubsysStep(c) \/ CtrlStep(c) \/ NsStep(c)
      BY <2>2, MoverSteps DEF Moves, OverlapNext
    <3>2. Knows(c)
      BY DEF MetInv
    <3> QED
      BY <3>1, <3>2, StepKeepsObjects, StepErasesAsRead
  <2> QED
    BY <2>1, <2>2
<1> QED
  BY <1>1, MetCorrect, PTL DEF OverlapSpec, OnlyRivalsReplace

(* A call that has met no rival takes nothing off SNAP that is another     *)
(* object's, and makes nothing below another's NQN: for any overlap of     *)
(* calls, any faults and restarts, and whatever SNAP refuses.              *)
THEOREM OnlyRivalsActAstray == OverlapSpec => OnlyRivalsStray
<1>1. TypeInv /\ MetInv /\ [OverlapNext]_overlapVars =>
         [\A c \in Calls \ met : Moves(c, {"snap"}) => ActsOnOwn(c)]_overlapVars
  <2> SUFFICES ASSUME TypeInv, MetInv, OverlapNext,
                      NEW c \in Calls \ met, Moves(c, {"snap"})
               PROVE  ActsOnOwn(c)
    BY DEF overlapVars
  <2>1. CASE Restart
    BY <2>1, RestartEnds DEF ActsOnOwn, snap
  <2>2. CASE ~Restart
    <3>1. SubsysStep(c) \/ CtrlStep(c) \/ NsStep(c)
      BY <2>2, MoverSteps DEF Moves, OverlapNext
    <3>2. Knows(c)
      BY DEF MetInv
    <3> QED
      BY <3>1, <3>2, StepActsOnOwn
  <2> QED
    BY <2>1, <2>2
<1> QED
  BY <1>1, MetCorrect, PTL DEF OverlapSpec, OnlyRivalsStray
=============================================================================
