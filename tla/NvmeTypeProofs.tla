--------------------------- MODULE NvmeTypeProofs ---------------------------
(***************************************************************************)
(* Type correctness of NvmeFrontend, for every value of the constants, and *)
(* the lemmas about calls in flight that the other proofs rest on.         *)
(***************************************************************************)
EXTENDS NvmeFrontend, TLAPS

-----------------------------------------------------------------------------
(* What a handler's control operators do to its call, field by field, and  *)
(* that they leave every other call alone.                                 *)
OthersKept(c) == \A d \in Calls : d # c => call'[d] = call[d]

(* The content of a free slot is a well-formed call.                       *)
LEMMA IdleType == Idle \in Call
BY DEF Idle, Call

(* A request that is let in fills a free slot and changes nothing else.    *)
LEMMA BeginFacts ==
    ASSUME TypeOK, NEW c \in Calls, NEW op \in Creates \cup Deletes,
           NEW s \in SubsystemIds,
           NEW i \in ControllerIds \cup NamespaceIds \cup {None},
           NEW n \in Nqns \cup {None},
           NEW k \in Cntlids \cup Nsids \cup {None},
           Begin(c, op, s, i, n, k)
    PROVE  /\ call' \in [Calls -> Call]
           /\ OthersKept(c)
           /\ call'[c].op = op /\ call'[c].pc = "lookup"
           /\ call'[c].sub = s /\ call'[c].id = i
           /\ call'[c].nqn = n /\ call'[c].num = k
           /\ UNCHANGED <<store, nqns, snap>>
BY DEF TypeOK, Begin, Call, OthersKept, Steps

(* A handler that moves on keeps its arguments and what it has read.       *)
LEMMA GotoFacts ==
    ASSUME TypeOK, NEW c \in Calls, NEW pc \in Steps, Goto(c, pc)
    PROVE  /\ call' \in [Calls -> Call]
           /\ OthersKept(c)
           /\ call'[c].op = call[c].op /\ call'[c].pc = pc
           /\ call'[c].sub = call[c].sub /\ call'[c].id = call[c].id
           /\ call'[c].nqn = call[c].nqn /\ call'[c].num = call[c].num
BY DEF TypeOK, Goto, Call, OthersKept

(* A handler that has read something moves on with it.                     *)
LEMMA GotoWithFacts ==
    ASSUME TypeOK, NEW c \in Calls, NEW pc \in Steps,
           NEW n \in Nqns \cup {None},
           NEW k \in Cntlids \cup Nsids \cup {None},
           GotoWith(c, pc, n, k)
    PROVE  /\ call' \in [Calls -> Call]
           /\ OthersKept(c)
           /\ call'[c].op = call[c].op /\ call'[c].pc = pc
           /\ call'[c].sub = call[c].sub /\ call'[c].id = call[c].id
           /\ call'[c].nqn = n /\ call'[c].num = k
BY DEF TypeOK, GotoWith, Call, OthersKept

(* A handler that returns frees its slot.                                  *)
LEMMA ReturnFacts ==
    ASSUME TypeOK, NEW c \in Calls, Return(c)
    PROVE  /\ call' \in [Calls -> Call]
           /\ OthersKept(c)
           /\ call'[c] = Idle
BY IdleType DEF TypeOK, Return, OthersKept

-----------------------------------------------------------------------------
(* Type correctness needs to know which arguments a call carries: what SNAP*)
(* is asked to create and what is saved comes from them.                   *)
CallFits ==
    \A c \in Calls :
        /\ call[c].op # None => call[c].sub \in SubsystemIds
        /\ call[c].op \in CtrlOps => call[c].id \in ControllerIds
        /\ call[c].op \in NsOps => call[c].id \in NamespaceIds
        /\ call[c].op = "CreateNvmeSubsystem" => call[c].nqn \in Nqns
        /\ call[c].op = "CreateNvmeController" /\ call[c].pc = "save"
              => call[c].num \in Cntlids
        /\ call[c].op = "CreateNvmeNamespace" => call[c].num \in Nsids

CallInv == call \in [Calls -> Call] /\ CallFits

TypeInv == TypeOK /\ CallFits

(* A request that is let in carries the arguments of its method.           *)
LEMMA BeginFits ==
    ASSUME TypeInv, NEW c \in Calls, NEW op \in Creates \cup Deletes,
           NEW s \in SubsystemIds,
           NEW i \in ControllerIds \cup NamespaceIds \cup {None},
           NEW n \in Nqns \cup {None},
           NEW k \in Cntlids \cup Nsids \cup {None},
           Begin(c, op, s, i, n, k),
           op \in CtrlOps => i \in ControllerIds,
           op \in NsOps => i \in NamespaceIds,
           op = "CreateNvmeSubsystem" => n \in Nqns,
           op = "CreateNvmeNamespace" => k \in Nsids
    PROVE  TypeInv'
<1>1. /\ call' \in [Calls -> Call] /\ OthersKept(c)
      /\ call'[c].op = op /\ call'[c].pc = "lookup"
      /\ call'[c].sub = s /\ call'[c].id = i
      /\ call'[c].nqn = n /\ call'[c].num = k
      /\ UNCHANGED <<store, nqns, snap>>
  BY BeginFacts DEF TypeInv
<1>2. CallFits'
  BY <1>1 DEF TypeInv, CallFits, OthersKept
<1> QED
  BY <1>1, <1>2 DEF TypeInv, TypeOK, StoreTypeOK, SnapTypeOK, store, snap

(* Moving on keeps calls well formed.                                      *)
LEMMA GotoFits ==
    ASSUME TypeInv, NEW c \in Calls, NEW pc \in Steps, Goto(c, pc),
           pc = "save" => call[c].op # "CreateNvmeController"
    PROVE  CallInv'
<1>1. /\ call' \in [Calls -> Call] /\ OthersKept(c)
      /\ call'[c].op = call[c].op /\ call'[c].pc = pc
      /\ call'[c].sub = call[c].sub /\ call'[c].id = call[c].id
      /\ call'[c].nqn = call[c].nqn /\ call'[c].num = call[c].num
  BY GotoFacts DEF TypeInv
<1> QED
  BY <1>1 DEF TypeInv, CallFits, CallInv, OthersKept

(* So does moving on with what was read, when it is what the method needs. *)
LEMMA GotoWithFits ==
    ASSUME TypeInv, NEW c \in Calls, NEW pc \in Steps,
           NEW n \in Nqns \cup {None},
           NEW k \in Cntlids \cup Nsids \cup {None},
           GotoWith(c, pc, n, k),
           call[c].op # "CreateNvmeSubsystem",
           call[c].op = "CreateNvmeController" /\ pc = "save" => k \in Cntlids,
           call[c].op = "CreateNvmeNamespace" => k = call[c].num
    PROVE  CallInv'
<1>1. /\ call' \in [Calls -> Call] /\ OthersKept(c)
      /\ call'[c].op = call[c].op /\ call'[c].pc = pc
      /\ call'[c].sub = call[c].sub /\ call'[c].id = call[c].id
      /\ call'[c].nqn = n /\ call'[c].num = k
  BY GotoWithFacts DEF TypeInv
<1> QED
  BY <1>1 DEF TypeInv, CallFits, CallInv, OthersKept

(* So does returning.                                                      *)
LEMMA ReturnFits ==
    ASSUME TypeInv, NEW c \in Calls, Return(c)
    PROVE  CallInv'
<1>1. call' \in [Calls -> Call] /\ OthersKept(c) /\ call'[c] = Idle
  BY ReturnFacts DEF TypeInv
<1> QED
  BY <1>1, NoneAssumption
  DEF TypeInv, CallInv, CallFits, OthersKept, Idle, Creates, Deletes, CtrlOps,
      NsOps

(* What a call read or was given is of the type its field has.             *)
LEMMA LocalsType ==
    ASSUME TypeInv, NEW c \in Calls
    PROVE  /\ call[c].nqn \in Nqns \cup {None}
           /\ call[c].num \in Cntlids \cup Nsids \cup {None}
           /\ call[c].op # None =>
                 /\ call[c].sub \in SubsystemIds
                 /\ subsysStore[call[c].sub] \in Nqns \cup {None}
           /\ call[c].op \in CtrlOps =>
                 ctrlStore[<<call[c].sub, call[c].id>>] \in Cntlids \cup {None}
           /\ call[c].op \in NsOps =>
                 nsStore[<<call[c].sub, call[c].id>>] \in Nsids \cup {None}
           /\ call[c].op = "CreateNvmeSubsystem" => call[c].nqn \in Nqns
           /\ call[c].op = "CreateNvmeController" /\ call[c].pc = "save"
                 => call[c].num \in Cntlids
           /\ call[c].op = "CreateNvmeNamespace" => call[c].num \in Nsids
BY NoneAssumption
   DEF TypeInv, TypeOK, StoreTypeOK, CallFits, Call, CtrlOps, NsOps, CtrlNames,
       NsNames, Creates, Deletes

(* What a step leaves alone keeps its type.                                *)
LEMMA UnchangedType ==
    ASSUME TypeInv
    PROVE  /\ UNCHANGED store => StoreTypeOK'
           /\ UNCHANGED snap => SnapTypeOK'
BY DEF TypeInv, TypeOK, StoreTypeOK, SnapTypeOK, store, snap

(* SNAP never comes to hold anything but subsystems with an NQN, and       *)
(* controllers and namespaces below one.                                   *)
LEMMA SnapCreateType ==
    ASSUME SnapTypeOK
    PROVE  /\ \A n \in Nqns : SnapCreateSubsystem(n) => SnapTypeOK'
           /\ \A n, k : k \in Cntlids /\ SnapCreateController(n, k) => SnapTypeOK'
           /\ \A n, k, i : i \in Nsids /\ SnapAttach(n, k, i) => SnapTypeOK'
<1>1. ASSUME NEW n \in Nqns, SnapCreateSubsystem(n)  PROVE SnapTypeOK'
  BY <1>1 DEF SnapTypeOK, SnapCreateSubsystem
<1>2. ASSUME NEW n, NEW k \in Cntlids, SnapCreateController(n, k)
      PROVE  SnapTypeOK'
  BY <1>2 DEF SnapTypeOK, SnapCreateController
<1>3. ASSUME NEW n, NEW k, NEW i \in Nsids, SnapAttach(n, k, i)
      PROVE  SnapTypeOK'
  BY <1>3 DEF SnapTypeOK, SnapAttach
<1> QED
  BY <1>1, <1>2, <1>3

(* What SNAP deletes leaves only what was there.                           *)
LEMMA SnapDeleteType ==
    ASSUME SnapTypeOK, NEW n, NEW k, NEW i,
           \/ SnapDeleteSubsystem(n)
           \/ SnapDeleteController(n, k)
           \/ SnapDetach(n, k, i)
    PROVE  SnapTypeOK'
BY DEF SnapTypeOK, SnapDeleteSubsystem, SnapDeleteController, SnapDetach

(* The steps of the subsystem handlers keep the types.                     *)
LEMMA SubsysStepType ==
    ASSUME TypeInv, NEW c \in Calls, SubsysStep(c)
    PROVE  TypeInv'
<1>0. TypeOK /\ StoreTypeOK /\ SnapTypeOK /\ nqns \subseteq Nqns
  BY DEF TypeInv, TypeOK
<1>1. CASE \E s \in SubsystemIds, n \in Nqns : SubsysCreateBegin(c, s, n)
  BY <1>1, BeginFits DEF SubsysCreateBegin, Creates, Deletes, CtrlOps, NsOps
<1>2. CASE SubsysCreateLookup(c)
  <2>1. CallInv'
    BY <1>2, ReturnFits, GotoFits DEF SubsysCreateLookup, At, Steps
  <2>2. StoreTypeOK'
    BY <1>2, UnchangedType DEF SubsysCreateLookup
  <2>3. SnapTypeOK'
    BY <1>2, UnchangedType DEF SubsysCreateLookup
  <2>4. nqns' \subseteq Nqns
    BY <1>0, <1>2, LocalsType DEF SubsysCreateLookup, At
  <2> QED
    BY <2>1, <2>2, <2>3, <2>4 DEF TypeInv, TypeOK, CallInv
<1>3. CASE SubsysCreateCheckNqn(c)
  <2>1. CallInv'
    BY <1>3, ReturnFits, GotoFits DEF SubsysCreateCheckNqn, At, Steps
  <2>2. StoreTypeOK'
    BY <1>3, UnchangedType DEF SubsysCreateCheckNqn
  <2>3. SnapTypeOK'
    BY <1>3, UnchangedType DEF SubsysCreateCheckNqn
  <2>4. nqns' \subseteq Nqns
    BY <1>0, <1>3, LocalsType DEF SubsysCreateCheckNqn, At
  <2> QED
    BY <2>1, <2>2, <2>3, <2>4 DEF TypeInv, TypeOK, CallInv
<1>4. CASE SubsysCreateOnSnap(c)
  <2>1. CallInv'
    BY <1>4, ReturnFits, GotoFits DEF SubsysCreateOnSnap, At, Steps
  <2>2. StoreTypeOK'
    BY <1>4, UnchangedType DEF SubsysCreateOnSnap
  <2>3. SnapTypeOK'
    BY <1>0, <1>4, UnchangedType, LocalsType, SnapCreateType,
        ConstantsAssumption
    DEF SubsysCreateOnSnap, At, HardCodedCntlid
  <2>4. nqns' \subseteq Nqns
    BY <1>0, <1>4, LocalsType DEF SubsysCreateOnSnap, At
  <2> QED
    BY <2>1, <2>2, <2>3, <2>4 DEF TypeInv, TypeOK, CallInv
<1>5. CASE SubsysCreateVersion(c)
  <2>1. CallInv'
    BY <1>5, ReturnFits, GotoFits DEF SubsysCreateVersion, At, Steps
  <2>2. StoreTypeOK'
    BY <1>5, UnchangedType DEF SubsysCreateVersion
  <2>3. SnapTypeOK'
    BY <1>5, UnchangedType DEF SubsysCreateVersion
  <2>4. nqns' \subseteq Nqns
    BY <1>0, <1>5, LocalsType DEF SubsysCreateVersion, At
  <2> QED
    BY <2>1, <2>2, <2>3, <2>4 DEF TypeInv, TypeOK, CallInv
<1>6. CASE SubsysCreateSave(c)
  <2>1. CallInv'
    BY <1>6, ReturnFits DEF SubsysCreateSave, At, Steps
  <2>2. StoreTypeOK'
    BY <1>0, <1>6, LocalsType DEF SubsysCreateSave, At, StoreTypeOK, store
  <2>3. SnapTypeOK'
    BY <1>6, UnchangedType DEF SubsysCreateSave
  <2>4. nqns' \subseteq Nqns
    BY <1>0, <1>6, LocalsType DEF SubsysCreateSave, At
  <2> QED
    BY <2>1, <2>2, <2>3, <2>4 DEF TypeInv, TypeOK, CallInv
<1>7. CASE \E s \in SubsystemIds : SubsysDeleteBegin(c, s)
  BY <1>7, BeginFits DEF SubsysDeleteBegin, Creates, Deletes, CtrlOps, NsOps
<1>8. CASE SubsysDeleteLookup(c)
  <2>1. CallInv'
    BY NoneAssumption, <1>8, ReturnFits, GotoWithFits, LocalsType
    DEF SubsysDeleteLookup, At, Steps, SubsysKey, CtrlOps, NsOps, Creates,
        Deletes
  <2>2. StoreTypeOK'
    BY <1>8, UnchangedType DEF SubsysDeleteLookup
  <2>3. SnapTypeOK'
    BY <1>8, UnchangedType DEF SubsysDeleteLookup
  <2>4. nqns' \subseteq Nqns
    BY <1>0, <1>8, LocalsType DEF SubsysDeleteLookup, At
  <2> QED
    BY <2>1, <2>2, <2>3, <2>4 DEF TypeInv, TypeOK, CallInv
<1>9. CASE SubsysDeleteOnSnap(c)
  <2>1. CallInv'
    BY <1>9, ReturnFits, GotoFits DEF SubsysDeleteOnSnap, At, Steps
  <2>2. StoreTypeOK'
    BY <1>9, UnchangedType DEF SubsysDeleteOnSnap
  <2>3. SnapTypeOK'
    BY <1>0, <1>9, UnchangedType, LocalsType, SnapDeleteType,
        ConstantsAssumption
    DEF SubsysDeleteOnSnap, At, HardCodedCntlid
  <2>4. nqns' \subseteq Nqns
    BY <1>0, <1>9, LocalsType DEF SubsysDeleteOnSnap, At
  <2> QED
    BY <2>1, <2>2, <2>3, <2>4 DEF TypeInv, TypeOK, CallInv
<1>10. CASE SubsysDeleteForget(c)
  <2>1. CallInv'
    BY <1>10, ReturnFits, GotoFits DEF SubsysDeleteForget, At, Steps
  <2>2. StoreTypeOK'
    BY <1>10, UnchangedType DEF SubsysDeleteForget
  <2>3. SnapTypeOK'
    BY <1>10, UnchangedType DEF SubsysDeleteForget
  <2>4. nqns' \subseteq Nqns
    BY <1>0, <1>10, LocalsType DEF SubsysDeleteForget, At
  <2> QED
    BY <2>1, <2>2, <2>3, <2>4 DEF TypeInv, TypeOK, CallInv
<1>11. CASE SubsysDeleteErase(c)
  <2>1. CallInv'
    BY <1>11, ReturnFits DEF SubsysDeleteErase, At, Steps
  <2>2. StoreTypeOK'
    BY <1>0, <1>11, LocalsType DEF SubsysDeleteErase, At, StoreTypeOK, store
  <2>3. SnapTypeOK'
    BY <1>11, UnchangedType DEF SubsysDeleteErase
  <2>4. nqns' \subseteq Nqns
    BY <1>0, <1>11, LocalsType DEF SubsysDeleteErase, At
  <2> QED
    BY <2>1, <2>2, <2>3, <2>4 DEF TypeInv, TypeOK, CallInv
<1> QED
  BY <1>1, <1>2, <1>3, <1>4, <1>5, <1>6, <1>7, <1>8, <1>9, <1>10, <1>11
  DEF SubsysStep

(* The steps of the controller handlers keep the types.                    *)
LEMMA CtrlStepType ==
    ASSUME TypeInv, NEW c \in Calls, CtrlStep(c)
    PROVE  TypeInv'
<1>0. TypeOK /\ StoreTypeOK /\ SnapTypeOK /\ nqns \subseteq Nqns
  BY DEF TypeInv, TypeOK
<1>1. CASE \E s \in SubsystemIds, i \in ControllerIds : CtrlCreateBegin(c, s, i)
  BY <1>1, BeginFits DEF CtrlCreateBegin, Creates, Deletes, CtrlOps, NsOps
<1>2. CASE CtrlCreateLookup(c)
  <2>1. CallInv'
    BY <1>2, ReturnFits, GotoFits DEF CtrlCreateLookup, At, Steps
  <2>2. StoreTypeOK'
    BY <1>2, UnchangedType DEF CtrlCreateLookup
  <2>3. SnapTypeOK'
    BY <1>2, UnchangedType DEF CtrlCreateLookup
  <2>4. nqns' \subseteq Nqns
    BY <1>0, <1>2, LocalsType DEF CtrlCreateLookup, At
  <2> QED
    BY <2>1, <2>2, <2>3, <2>4 DEF TypeInv, TypeOK, CallInv
<1>3. CASE CtrlCreateParent(c)
  <2>1. CallInv'
    BY NoneAssumption, <1>3, ReturnFits, GotoWithFits, LocalsType
    DEF CtrlCreateParent, At, Steps, CtrlOps, NsOps, Creates, Deletes
  <2>2. StoreTypeOK'
    BY <1>3, UnchangedType DEF CtrlCreateParent
  <2>3. SnapTypeOK'
    BY <1>3, UnchangedType DEF CtrlCreateParent
  <2>4. nqns' \subseteq Nqns
    BY <1>0, <1>3, LocalsType DEF CtrlCreateParent, At
  <2> QED
    BY <2>1, <2>2, <2>3, <2>4 DEF TypeInv, TypeOK, CallInv
<1>4. CASE CtrlCreateOnSnap(c)
  <2>1. CallInv'
    BY <1>4, ReturnFits, GotoWithFits, LocalsType
    DEF CtrlCreateOnSnap, At, Steps
  <2>2. StoreTypeOK'
    BY <1>4, UnchangedType DEF CtrlCreateOnSnap
  <2>3. SnapTypeOK'
    BY <1>0, <1>4, UnchangedType, LocalsType, SnapCreateType,
        ConstantsAssumption
    DEF CtrlCreateOnSnap, At, HardCodedCntlid
  <2>4. nqns' \subseteq Nqns
    BY <1>0, <1>4, LocalsType DEF CtrlCreateOnSnap, At
  <2> QED
    BY <2>1, <2>2, <2>3, <2>4 DEF TypeInv, TypeOK, CallInv
<1>5. CASE CtrlCreateSave(c)
  <2>1. CallInv'
    BY <1>5, ReturnFits DEF CtrlCreateSave, At, Steps
  <2>2. StoreTypeOK'
    BY <1>0, <1>5, LocalsType DEF CtrlCreateSave, At, StoreTypeOK, store
  <2>3. SnapTypeOK'
    BY <1>5, UnchangedType DEF CtrlCreateSave
  <2>4. nqns' \subseteq Nqns
    BY <1>0, <1>5, LocalsType DEF CtrlCreateSave, At
  <2> QED
    BY <2>1, <2>2, <2>3, <2>4 DEF TypeInv, TypeOK, CallInv
<1>6. CASE \E s \in SubsystemIds, i \in ControllerIds : CtrlDeleteBegin(c, s, i)
  BY <1>6, BeginFits DEF CtrlDeleteBegin, Creates, Deletes, CtrlOps, NsOps
<1>7. CASE CtrlDeleteLookup(c)
  <2>1. CallInv'
    BY NoneAssumption, <1>7, ReturnFits, GotoWithFits, LocalsType
    DEF CtrlDeleteLookup, At, Steps, CtrlKey, CtrlOps, NsOps, Creates, Deletes
  <2>2. StoreTypeOK'
    BY <1>7, UnchangedType DEF CtrlDeleteLookup
  <2>3. SnapTypeOK'
    BY <1>7, UnchangedType DEF CtrlDeleteLookup
  <2>4. nqns' \subseteq Nqns
    BY <1>0, <1>7, LocalsType DEF CtrlDeleteLookup, At
  <2> QED
    BY <2>1, <2>2, <2>3, <2>4 DEF TypeInv, TypeOK, CallInv
<1>8. CASE CtrlDeleteParent(c)
  <2>1. CallInv'
    BY NoneAssumption, <1>8, ReturnFits, GotoWithFits, LocalsType
    DEF CtrlDeleteParent, At, Steps, CtrlOps, NsOps, Creates, Deletes
  <2>2. StoreTypeOK'
    BY <1>8, UnchangedType DEF CtrlDeleteParent
  <2>3. SnapTypeOK'
    BY <1>8, UnchangedType DEF CtrlDeleteParent
  <2>4. nqns' \subseteq Nqns
    BY <1>0, <1>8, LocalsType DEF CtrlDeleteParent, At
  <2> QED
    BY <2>1, <2>2, <2>3, <2>4 DEF TypeInv, TypeOK, CallInv
<1>9. CASE CtrlDeleteOnSnap(c)
  <2>1. CallInv'
    BY <1>9, ReturnFits, GotoFits DEF CtrlDeleteOnSnap, At, Steps
  <2>2. StoreTypeOK'
    BY <1>9, UnchangedType DEF CtrlDeleteOnSnap
  <2>3. SnapTypeOK'
    BY <1>0, <1>9, UnchangedType, LocalsType, SnapDeleteType,
        ConstantsAssumption
    DEF CtrlDeleteOnSnap, At, HardCodedCntlid
  <2>4. nqns' \subseteq Nqns
    BY <1>0, <1>9, LocalsType DEF CtrlDeleteOnSnap, At
  <2> QED
    BY <2>1, <2>2, <2>3, <2>4 DEF TypeInv, TypeOK, CallInv
<1>10. CASE CtrlDeleteErase(c)
  <2>1. CallInv'
    BY <1>10, ReturnFits DEF CtrlDeleteErase, At, Steps
  <2>2. StoreTypeOK'
    BY <1>0, <1>10, LocalsType DEF CtrlDeleteErase, At, StoreTypeOK, store
  <2>3. SnapTypeOK'
    BY <1>10, UnchangedType DEF CtrlDeleteErase
  <2>4. nqns' \subseteq Nqns
    BY <1>0, <1>10, LocalsType DEF CtrlDeleteErase, At
  <2> QED
    BY <2>1, <2>2, <2>3, <2>4 DEF TypeInv, TypeOK, CallInv
<1> QED
  BY <1>1, <1>2, <1>3, <1>4, <1>5, <1>6, <1>7, <1>8, <1>9, <1>10 DEF CtrlStep

(* The steps of the namespace handlers keep the types.                     *)
LEMMA NsStepType ==
    ASSUME TypeInv, NEW c \in Calls, NsStep(c)
    PROVE  TypeInv'
<1>0. TypeOK /\ StoreTypeOK /\ SnapTypeOK /\ nqns \subseteq Nqns
  BY DEF TypeInv, TypeOK
<1>1. CASE \E s \in SubsystemIds, i \in NamespaceIds, h \in Nsids : NsCreateBegin(c, s, i, h)
  BY <1>1, BeginFits DEF NsCreateBegin, Creates, Deletes, CtrlOps, NsOps
<1>2. CASE NsCreateLookup(c)
  <2>1. CallInv'
    BY <1>2, ReturnFits, GotoFits DEF NsCreateLookup, At, Steps
  <2>2. StoreTypeOK'
    BY <1>2, UnchangedType DEF NsCreateLookup
  <2>3. SnapTypeOK'
    BY <1>2, UnchangedType DEF NsCreateLookup
  <2>4. nqns' \subseteq Nqns
    BY <1>0, <1>2, LocalsType DEF NsCreateLookup, At
  <2> QED
    BY <2>1, <2>2, <2>3, <2>4 DEF TypeInv, TypeOK, CallInv
<1>3. CASE NsCreateParent(c)
  <2>1. CallInv'
    BY NoneAssumption, <1>3, ReturnFits, GotoWithFits, LocalsType
    DEF NsCreateParent, At, Steps, CtrlOps, NsOps, Creates, Deletes
  <2>2. StoreTypeOK'
    BY <1>3, UnchangedType DEF NsCreateParent
  <2>3. SnapTypeOK'
    BY <1>3, UnchangedType DEF NsCreateParent
  <2>4. nqns' \subseteq Nqns
    BY <1>0, <1>3, LocalsType DEF NsCreateParent, At
  <2> QED
    BY <2>1, <2>2, <2>3, <2>4 DEF TypeInv, TypeOK, CallInv
<1>4. CASE NsCreateOnSnap(c)
  <2>1. CallInv'
    BY <1>4, ReturnFits, GotoFits DEF NsCreateOnSnap, At, Steps
  <2>2. StoreTypeOK'
    BY <1>4, UnchangedType DEF NsCreateOnSnap
  <2>3. SnapTypeOK'
    BY <1>0, <1>4, UnchangedType, LocalsType, SnapCreateType,
        ConstantsAssumption
    DEF NsCreateOnSnap, At, HardCodedCntlid
  <2>4. nqns' \subseteq Nqns
    BY <1>0, <1>4, LocalsType DEF NsCreateOnSnap, At
  <2> QED
    BY <2>1, <2>2, <2>3, <2>4 DEF TypeInv, TypeOK, CallInv
<1>5. CASE NsCreateSave(c)
  <2>1. CallInv'
    BY <1>5, ReturnFits DEF NsCreateSave, At, Steps
  <2>2. StoreTypeOK'
    BY <1>0, <1>5, LocalsType DEF NsCreateSave, At, StoreTypeOK, store
  <2>3. SnapTypeOK'
    BY <1>5, UnchangedType DEF NsCreateSave
  <2>4. nqns' \subseteq Nqns
    BY <1>0, <1>5, LocalsType DEF NsCreateSave, At
  <2> QED
    BY <2>1, <2>2, <2>3, <2>4 DEF TypeInv, TypeOK, CallInv
<1>6. CASE \E s \in SubsystemIds, i \in NamespaceIds : NsDeleteBegin(c, s, i)
  BY <1>6, BeginFits DEF NsDeleteBegin, Creates, Deletes, CtrlOps, NsOps
<1>7. CASE NsDeleteLookup(c)
  <2>1. CallInv'
    BY NoneAssumption, <1>7, ReturnFits, GotoWithFits, LocalsType
    DEF NsDeleteLookup, At, Steps, NsKey, CtrlOps, NsOps, Creates, Deletes
  <2>2. StoreTypeOK'
    BY <1>7, UnchangedType DEF NsDeleteLookup
  <2>3. SnapTypeOK'
    BY <1>7, UnchangedType DEF NsDeleteLookup
  <2>4. nqns' \subseteq Nqns
    BY <1>0, <1>7, LocalsType DEF NsDeleteLookup, At
  <2> QED
    BY <2>1, <2>2, <2>3, <2>4 DEF TypeInv, TypeOK, CallInv
<1>8. CASE NsDeleteParent(c)
  <2>1. CallInv'
    BY NoneAssumption, <1>8, ReturnFits, GotoWithFits, LocalsType
    DEF NsDeleteParent, At, Steps, CtrlOps, NsOps, Creates, Deletes
  <2>2. StoreTypeOK'
    BY <1>8, UnchangedType DEF NsDeleteParent
  <2>3. SnapTypeOK'
    BY <1>8, UnchangedType DEF NsDeleteParent
  <2>4. nqns' \subseteq Nqns
    BY <1>0, <1>8, LocalsType DEF NsDeleteParent, At
  <2> QED
    BY <2>1, <2>2, <2>3, <2>4 DEF TypeInv, TypeOK, CallInv
<1>9. CASE NsDeleteOnSnap(c)
  <2>1. CallInv'
    BY <1>9, ReturnFits, GotoFits DEF NsDeleteOnSnap, At, Steps
  <2>2. StoreTypeOK'
    BY <1>9, UnchangedType DEF NsDeleteOnSnap
  <2>3. SnapTypeOK'
    BY <1>0, <1>9, UnchangedType, LocalsType, SnapDeleteType,
        ConstantsAssumption
    DEF NsDeleteOnSnap, At, HardCodedCntlid
  <2>4. nqns' \subseteq Nqns
    BY <1>0, <1>9, LocalsType DEF NsDeleteOnSnap, At
  <2> QED
    BY <2>1, <2>2, <2>3, <2>4 DEF TypeInv, TypeOK, CallInv
<1>10. CASE NsDeleteErase(c)
  <2>1. CallInv'
    BY <1>10, ReturnFits DEF NsDeleteErase, At, Steps
  <2>2. StoreTypeOK'
    BY <1>0, <1>10, LocalsType DEF NsDeleteErase, At, StoreTypeOK, store
  <2>3. SnapTypeOK'
    BY <1>10, UnchangedType DEF NsDeleteErase
  <2>4. nqns' \subseteq Nqns
    BY <1>0, <1>10, LocalsType DEF NsDeleteErase, At
  <2> QED
    BY <2>1, <2>2, <2>3, <2>4 DEF TypeInv, TypeOK, CallInv
<1> QED
  BY <1>1, <1>2, <1>3, <1>4, <1>5, <1>6, <1>7, <1>8, <1>9, <1>10 DEF NsStep

(* A restart empties the in-memory parts.                                  *)
LEMMA RestartType ==
    ASSUME TypeInv, Restart
    PROVE  TypeInv'
<1>1. call' = [c \in Calls |-> Idle] /\ nqns' = {} /\ UNCHANGED <<store, snap>>
  BY DEF Restart
<1>2. call' \in [Calls -> Call] /\ CallFits'
  BY <1>1, IdleType, NoneAssumption
  DEF CallFits, Idle, Creates, Deletes, CtrlOps, NsOps
<1> QED
  BY <1>1, <1>2, UnchangedType DEF TypeInv, TypeOK

(* The server starts with everything empty.                                *)
LEMMA InitType == Init => TypeInv
<1> SUFFICES ASSUME Init PROVE TypeInv
  OBVIOUS
<1>1. call \in [Calls -> Call] /\ CallFits
  BY IdleType, NoneAssumption
  DEF Init, CallFits, Idle, Creates, Deletes, CtrlOps, NsOps
<1> QED
  BY <1>1 DEF Init, TypeInv, TypeOK, StoreTypeOK, SnapTypeOK

(* Every step keeps the types.                                             *)
LEMMA NextType == TypeInv /\ [Next]_vars => TypeInv'
<1> SUFFICES ASSUME TypeInv, [Next]_vars PROVE TypeInv'
  OBVIOUS
<1>1. CASE Restart
  BY <1>1, RestartType
<1>2. ASSUME NEW c \in Calls, SubsysStep(c) PROVE TypeInv'
  BY <1>2, SubsysStepType
<1>3. ASSUME NEW c \in Calls, CtrlStep(c) PROVE TypeInv'
  BY <1>3, CtrlStepType
<1>4. ASSUME NEW c \in Calls, NsStep(c) PROVE TypeInv'
  BY <1>4, NsStepType
<1>5. CASE UNCHANGED vars
  BY <1>5, UnchangedType
  DEF TypeInv, TypeOK, CallFits, At, vars
<1> QED
  BY <1>1, <1>2, <1>3, <1>4, <1>5 DEF Next

(* Every variable has its type and every call the arguments of its method, *)
(* whatever faults, overlaps and refusals occur.                           *)
THEOREM TypeCorrect == Spec => []TypeInv
<1> QED
  BY InitType, NextType, PTL DEF Spec

(* The type invariant of the model.                                        *)
THEOREM TypeSafe == Spec => []TypeOK
<1>1. TypeInv => TypeOK
  BY DEF TypeInv
<1> QED
  BY <1>1, TypeCorrect, PTL

=============================================================================
