-------------------------- MODULE NvmeSerialProofs --------------------------
(***************************************************************************)
(* What holds when the calls on one subsystem's resources do not overlap,  *)
(* whatever breaks: the record a handler has read is still the record in   *)
(* the store at each of its later steps.                                   *)
(***************************************************************************)
EXTENDS NvmeTypeProofs

(* At most one call is in flight for a subsystem and what is below it.     *)
SerialCalls ==
    \A c, d \in Calls :
        c # d /\ call[c].sub = call[d].sub => call[c].sub = None

(* What call c has looked up is still so: a create has found nothing under *)
(* its name, a delete holds its record, and both hold the parent's NQN.    *)
Knows(c) ==
    /\ call[c].op = "CreateNvmeSubsystem" /\ call[c].pc # "lookup"
          => subsysStore[SubsysKey(c)] = None
    /\ call[c].op = "CreateNvmeController" /\ call[c].pc # "lookup"
          => ctrlStore[CtrlKey(c)] = None
    /\ call[c].op = "CreateNvmeNamespace" /\ call[c].pc # "lookup"
          => nsStore[NsKey(c)] = None
    /\ call[c].op = "DeleteNvmeSubsystem" /\ call[c].pc # "lookup"
          => call[c].nqn \in Nqns /\ subsysStore[SubsysKey(c)] = call[c].nqn
    /\ call[c].op = "DeleteNvmeController" /\ call[c].pc # "lookup"
          => call[c].num \in Cntlids /\ ctrlStore[CtrlKey(c)] = call[c].num
    /\ call[c].op = "DeleteNvmeNamespace" /\ call[c].pc # "lookup"
          => call[c].num \in Nsids /\ nsStore[NsKey(c)] = call[c].num
    /\ call[c].op \in CtrlOps \cup NsOps /\ call[c].pc \notin {"lookup", "parent"}
          => call[c].nqn \in Nqns /\ subsysStore[SubsysKey(c)] = call[c].nqn

SerialInv == SerialCalls /\ \A c \in Calls : Knows(c)

(* A step of call c writes nothing to the store but what its own name is   *)
(* stored with.                                                            *)
OwnWrites(c) ==
    /\ \A s \in SubsystemIds :
          subsysStore'[s] # subsysStore[s] =>
             call[c].op \in SubsysOps /\ SubsysKey(c) = s
    /\ \A x \in CtrlNames :
          ctrlStore'[x] # ctrlStore[x] => call[c].op \in CtrlOps /\ CtrlKey(c) = x
    /\ \A x \in NsNames :
          nsStore'[x] # nsStore[x] => call[c].op \in NsOps /\ NsKey(c) = x

(* A call that begins does so as Begin lets it; one that goes on stays on  *)
(* its subsystem.                                                          *)
Admitted(c) ==
    \/ call'[c].sub \in {call[c].sub, None}
    \/ Overlap
    \/ \A d \in Calls : call[d].sub # call'[c].sub

(* All that a step of call c may do, seen from the other calls, and that   *)
(* it leaves c no less right than it was.                                  *)
LocalStep(c) ==
    OthersKept(c) /\ OwnWrites(c) /\ Admitted(c) /\ (Knows(c) => Knows(c)')

-----------------------------------------------------------------------------
(* A call in flight keeps knowing what it knows while nothing is written   *)
(* to what its name and its parent's are stored with.                      *)
LEMMA KnowsKept ==
    ASSUME TypeInv, NEW d \in Calls, Knows(d), call'[d] = call[d],
           call[d].op # None =>
              subsysStore'[SubsysKey(d)] = subsysStore[SubsysKey(d)],
           call[d].op \in CtrlOps => ctrlStore'[CtrlKey(d)] = ctrlStore[CtrlKey(d)],
           call[d].op \in NsOps => nsStore'[NsKey(d)] = nsStore[NsKey(d)]
    PROVE  Knows(d)'
<1>1. SubsysKey(d)' = SubsysKey(d) /\ CtrlKey(d)' = CtrlKey(d) /\ NsKey(d)' = NsKey(d)
  BY DEF SubsysKey, CtrlKey, NsKey
<1>2. CASE call[d].op = None
  BY <1>2, NoneAssumption DEF Knows, Creates, Deletes, CtrlOps, NsOps
<1>3. CASE call[d].op # None
  BY <1>1, <1>3 DEF Knows, CtrlOps, NsOps
<1> QED
  BY <1>2, <1>3

(* A request that is let in knows nothing yet.                             *)
LEMMA BeginLocal ==
    ASSUME TypeInv, NEW c \in Calls,
           NEW op \in Creates \cup Deletes, NEW s \in SubsystemIds,
           NEW i \in ControllerIds \cup NamespaceIds \cup {None},
           NEW n \in Nqns \cup {None},
           NEW k \in Cntlids \cup Nsids \cup {None},
           Begin(c, op, s, i, n, k)
    PROVE  LocalStep(c)
<1>1. /\ OthersKept(c)
      /\ call'[c].pc = "lookup" /\ call'[c].sub = s
      /\ UNCHANGED <<store, nqns, snap>>
  BY BeginFacts DEF TypeInv
<1>2. Admitted(c)
  BY <1>1 DEF Begin, Admitted
<1>3. OwnWrites(c)
  BY <1>1 DEF OwnWrites, store
<1>4. Knows(c)'
  BY <1>1 DEF Knows
<1> QED
  BY <1>1, <1>2, <1>3, <1>4 DEF LocalStep

(* A handler that returns knows nothing any more.                          *)
LEMMA ReturnLocal ==
    ASSUME TypeInv, NEW c \in Calls, call[c].op # None,
           Return(c), OwnWrites(c)
    PROVE  LocalStep(c)
<1>1. OthersKept(c) /\ call'[c] = Idle
  BY ReturnFacts DEF TypeInv
<1>2. Knows(c) => Knows(c)'
  BY <1>1, NoneAssumption DEF Knows, Idle, Creates, Deletes, CtrlOps, NsOps
<1>3. call'[c].sub = None
  BY <1>1 DEF Idle
<1> QED
  BY <1>1, <1>2, <1>3 DEF LocalStep, Admitted

(* A handler that moves on after its lookups knows what it knew.           *)
LEMMA GotoLocal ==
    ASSUME TypeInv, NEW c \in Calls, call[c].op # None,
           NEW pc \in Steps, Goto(c, pc), UNCHANGED store,
           call[c].pc \notin {"lookup", "parent"}
    PROVE  LocalStep(c)
<1>1. /\ OthersKept(c)
      /\ call'[c].op = call[c].op /\ call'[c].pc = pc
      /\ call'[c].sub = call[c].sub /\ call'[c].id = call[c].id
      /\ call'[c].nqn = call[c].nqn /\ call'[c].num = call[c].num
  BY GotoFacts DEF TypeInv
<1>2. Knows(c) => Knows(c)'
  BY <1>1 DEF Knows, SubsysKey, CtrlKey, NsKey, store
<1>3. OwnWrites(c)
  BY DEF OwnWrites, store
<1> QED
  BY <1>1, <1>2, <1>3 DEF LocalStep, Admitted

(* A create that finds nothing under its name knows that.                  *)
LEMMA AbsentLocal ==
    ASSUME TypeInv, NEW c \in Calls,
           NEW pc \in {"check", "parent"}, Goto(c, pc), UNCHANGED store,
           \/ /\ call[c].op = "CreateNvmeSubsystem"
              /\ subsysStore[SubsysKey(c)] = None
           \/ /\ call[c].op = "CreateNvmeController" /\ pc = "parent"
              /\ ctrlStore[CtrlKey(c)] = None
           \/ /\ call[c].op = "CreateNvmeNamespace" /\ pc = "parent"
              /\ nsStore[NsKey(c)] = None
    PROVE  LocalStep(c)
<1>1. /\ OthersKept(c)
      /\ call'[c].op = call[c].op /\ call'[c].pc = pc
      /\ call'[c].sub = call[c].sub /\ call'[c].id = call[c].id
  BY GotoFacts DEF TypeInv, Steps
<1>2. Knows(c) => Knows(c)'
  BY <1>1 DEF Knows, SubsysKey, CtrlKey, NsKey, store, CtrlOps, NsOps
<1>3. OwnWrites(c)
  BY DEF OwnWrites, store
<1>4. call[c].op # None
  BY NoneAssumption DEF Creates
<1> QED
  BY <1>1, <1>2, <1>3 DEF LocalStep, Admitted

(* A delete of a child that finds its record, a child's handler that finds *)
(* its parent and a create that is given a number know what they read.     *)
LEMMA ReadLocal ==
    ASSUME TypeInv, NEW c \in Calls, NEW pc \in {"parent", "snap", "save"},
           NEW n \in Nqns \cup {None},
           NEW k \in Cntlids \cup Nsids \cup {None},
           GotoWith(c, pc, n, k), UNCHANGED store,
           \/ /\ call[c].op = "DeleteNvmeSubsystem"
              /\ n \in Nqns /\ subsysStore[SubsysKey(c)] = n
           \/ /\ call[c].op = "DeleteNvmeController" /\ pc = "parent"
              /\ k \in Cntlids /\ ctrlStore[CtrlKey(c)] = k
           \/ /\ call[c].op = "DeleteNvmeNamespace" /\ pc = "parent"
              /\ k \in Nsids /\ nsStore[NsKey(c)] = k
           \/ /\ call[c].op \in CtrlOps \cup NsOps /\ call[c].pc # "lookup"
              /\ call[c].op \in Deletes => k = call[c].num
              /\ Knows(c) => n \in Nqns /\ subsysStore[SubsysKey(c)] = n
    PROVE  LocalStep(c)
<1>1. /\ OthersKept(c)
      /\ call'[c].op = call[c].op /\ call'[c].pc = pc
      /\ call'[c].sub = call[c].sub /\ call'[c].id = call[c].id
      /\ call'[c].nqn = n /\ call'[c].num = k
  BY GotoWithFacts DEF TypeInv, Steps
<1>2. Knows(c) => Knows(c)'
  BY <1>1
  DEF Knows, SubsysKey, CtrlKey, NsKey, store, CtrlOps, NsOps, Deletes
<1>3. OwnWrites(c)
  BY DEF OwnWrites, store
<1>4. call[c].op # None
  BY NoneAssumption DEF Creates, Deletes, CtrlOps, NsOps
<1> QED
  BY <1>1, <1>2, <1>3 DEF LocalStep, Admitted

(* A handler's only writes to the store are to the name it works on.       *)
LEMMA StoreWrites ==
    ASSUME TypeInv, NEW c \in Calls, NEW v
    PROVE  /\ UNCHANGED store => OwnWrites(c)
           /\ /\ call[c].op \in SubsysOps
              /\ subsysStore' = [subsysStore EXCEPT ![SubsysKey(c)] = v]
              /\ UNCHANGED <<ctrlStore, nsStore>>
              => OwnWrites(c)
           /\ /\ call[c].op \in CtrlOps
              /\ ctrlStore' = [ctrlStore EXCEPT ![CtrlKey(c)] = v]
              /\ UNCHANGED <<subsysStore, nsStore>>
              => OwnWrites(c)
           /\ /\ call[c].op \in NsOps
              /\ nsStore' = [nsStore EXCEPT ![NsKey(c)] = v]
              /\ UNCHANGED <<subsysStore, ctrlStore>>
              => OwnWrites(c)
BY DEF TypeInv, TypeOK, StoreTypeOK, OwnWrites, store, SubsysKey, CtrlKey, NsKey

(* A step of a subsystem handler is local.                               *)
LEMMA SubsysStepLocal ==
    ASSUME TypeInv, NEW c \in Calls, SubsysStep(c)
    PROVE  LocalStep(c)
<1>1. CASE \E s \in SubsystemIds, n \in Nqns : SubsysCreateBegin(c, s, n)
  BY <1>1, BeginLocal DEF SubsysCreateBegin, Creates, Deletes
<1>2. CASE SubsysCreateLookup(c)
  <2>1. UNCHANGED store /\ call[c].op # None /\ OwnWrites(c)
    BY <1>2, NoneAssumption, StoreWrites DEF SubsysCreateLookup, At, Creates, Deletes
  <2> QED
    BY <1>2, <2>1, ReturnLocal, AbsentLocal, NoneAssumption DEF SubsysCreateLookup, At, Steps
<1>3. CASE SubsysCreateCheckNqn(c)
  <2>1. UNCHANGED store /\ call[c].op # None /\ OwnWrites(c)
    BY <1>3, NoneAssumption, StoreWrites DEF SubsysCreateCheckNqn, At, Creates, Deletes
  <2> QED
    BY <1>3, <2>1, ReturnLocal, GotoLocal, NoneAssumption DEF SubsysCreateCheckNqn, At, Steps
<1>4. CASE SubsysCreateOnSnap(c)
  <2>1. UNCHANGED store /\ call[c].op # None /\ OwnWrites(c)
    BY <1>4, NoneAssumption, StoreWrites DEF SubsysCreateOnSnap, At, Creates, Deletes
  <2> QED
    BY <1>4, <2>1, ReturnLocal, GotoLocal, NoneAssumption DEF SubsysCreateOnSnap, At, Steps
<1>5. CASE SubsysCreateVersion(c)
  <2>1. UNCHANGED store /\ call[c].op # None /\ OwnWrites(c)
    BY <1>5, NoneAssumption, StoreWrites DEF SubsysCreateVersion, At, Creates, Deletes
  <2> QED
    BY <1>5, <2>1, ReturnLocal, GotoLocal, NoneAssumption DEF SubsysCreateVersion, At, Steps
<1>6. CASE SubsysCreateSave(c)
  <2>1. OwnWrites(c)
    BY <1>6, StoreWrites DEF SubsysCreateSave, store, At, SubsysOps
  <2> QED
    BY <1>6, <2>1, ReturnLocal, NoneAssumption DEF SubsysCreateSave, At, Creates, Deletes
<1>7. CASE \E s \in SubsystemIds : SubsysDeleteBegin(c, s)
  BY <1>7, BeginLocal DEF SubsysDeleteBegin, Creates, Deletes
<1>8. CASE SubsysDeleteLookup(c)
  <2>1. UNCHANGED store /\ call[c].op # None /\ OwnWrites(c)
    BY <1>8, NoneAssumption, StoreWrites DEF SubsysDeleteLookup, At, Creates, Deletes
  <2> QED
    BY <1>8, <2>1, ReturnLocal, ReadLocal, LocalsType, NoneAssumption DEF SubsysDeleteLookup, At, Steps, SubsysKey, CtrlOps, NsOps, Creates, Deletes
<1>9. CASE SubsysDeleteOnSnap(c)
  <2>1. UNCHANGED store /\ call[c].op # None /\ OwnWrites(c)
    BY <1>9, NoneAssumption, StoreWrites DEF SubsysDeleteOnSnap, At, Creates, Deletes
  <2> QED
    BY <1>9, <2>1, ReturnLocal, GotoLocal, NoneAssumption DEF SubsysDeleteOnSnap, At, Steps
<1>10. CASE SubsysDeleteForget(c)
  <2>1. UNCHANGED store /\ call[c].op # None /\ OwnWrites(c)
    BY <1>10, NoneAssumption, StoreWrites DEF SubsysDeleteForget, At, Creates, Deletes
  <2> QED
    BY <1>10, <2>1, ReturnLocal, GotoLocal, NoneAssumption DEF SubsysDeleteForget, At, Steps
<1>11. CASE SubsysDeleteErase(c)
  <2>1. OwnWrites(c)
    BY <1>11, StoreWrites DEF SubsysDeleteErase, store, At, SubsysOps
  <2> QED
    BY <1>11, <2>1, ReturnLocal, NoneAssumption DEF SubsysDeleteErase, At, Creates, Deletes
<1> QED
  BY <1>1, <1>2, <1>3, <1>4, <1>5, <1>6, <1>7, <1>8, <1>9, <1>10, <1>11 DEF SubsysStep

(* A step of a controller handler is local.                              *)
LEMMA CtrlStepLocal ==
    ASSUME TypeInv, NEW c \in Calls, CtrlStep(c)
    PROVE  LocalStep(c)
<1>1. CASE \E s \in SubsystemIds, i \in ControllerIds : CtrlCreateBegin(c, s, i)
  BY <1>1, BeginLocal DEF CtrlCreateBegin, Creates, Deletes
<1>2. CASE CtrlCreateLookup(c)
  <2>1. UNCHANGED store /\ call[c].op # None /\ OwnWrites(c)
    BY <1>2, NoneAssumption, StoreWrites DEF CtrlCreateLookup, At, Creates, Deletes
  <2> QED
    BY <1>2, <2>1, ReturnLocal, AbsentLocal, NoneAssumption DEF CtrlCreateLookup, At, Steps
<1>3. CASE CtrlCreateParent(c)
  <2>1. UNCHANGED store /\ call[c].op # None /\ OwnWrites(c)
    BY <1>3, NoneAssumption, StoreWrites DEF CtrlCreateParent, At, Creates, Deletes
  <2> QED
    BY <1>3, <2>1, ReturnLocal, ReadLocal, LocalsType, NoneAssumption DEF CtrlCreateParent, At, Steps, CtrlKey, SubsysKey, CtrlOps, NsOps, Creates, Deletes
<1>4. CASE CtrlCreateOnSnap(c)
  <2>1. UNCHANGED store /\ call[c].op # None /\ OwnWrites(c)
    BY <1>4, NoneAssumption, StoreWrites DEF CtrlCreateOnSnap, At, Creates, Deletes
  <2>2. Knows(c) => /\ call[c].nqn \in Nqns
                    /\ subsysStore[SubsysKey(c)] = call[c].nqn
    BY <1>4 DEF CtrlCreateOnSnap, At, Knows, CtrlOps
  <2> QED
    BY <1>4, <2>1, ReturnLocal, ReadLocal, LocalsType, <2>2, NoneAssumption DEF CtrlCreateOnSnap, At, Steps, CtrlKey, SubsysKey, CtrlOps, NsOps, Creates, Deletes
<1>5. CASE CtrlCreateSave(c)
  <2>1. OwnWrites(c)
    BY <1>5, StoreWrites DEF CtrlCreateSave, store, At, CtrlOps
  <2> QED
    BY <1>5, <2>1, ReturnLocal, NoneAssumption DEF CtrlCreateSave, At, Creates, Deletes
<1>6. CASE \E s \in SubsystemIds, i \in ControllerIds : CtrlDeleteBegin(c, s, i)
  BY <1>6, BeginLocal DEF CtrlDeleteBegin, Creates, Deletes
<1>7. CASE CtrlDeleteLookup(c)
  <2>1. UNCHANGED store /\ call[c].op # None /\ OwnWrites(c)
    BY <1>7, NoneAssumption, StoreWrites DEF CtrlDeleteLookup, At, Creates, Deletes
  <2> QED
    BY <1>7, <2>1, ReturnLocal, ReadLocal, LocalsType, NoneAssumption DEF CtrlDeleteLookup, At, Steps, CtrlKey, SubsysKey, CtrlOps, NsOps, Creates, Deletes
<1>8. CASE CtrlDeleteParent(c)
  <2>1. UNCHANGED store /\ call[c].op # None /\ OwnWrites(c)
    BY <1>8, NoneAssumption, StoreWrites DEF CtrlDeleteParent, At, Creates, Deletes
  <2> QED
    BY <1>8, <2>1, ReturnLocal, ReadLocal, LocalsType, NoneAssumption DEF CtrlDeleteParent, At, Steps, CtrlKey, SubsysKey, CtrlOps, NsOps, Creates, Deletes
<1>9. CASE CtrlDeleteOnSnap(c)
  <2>1. UNCHANGED store /\ call[c].op # None /\ OwnWrites(c)
    BY <1>9, NoneAssumption, StoreWrites DEF CtrlDeleteOnSnap, At, Creates, Deletes
  <2> QED
    BY <1>9, <2>1, ReturnLocal, GotoLocal, NoneAssumption DEF CtrlDeleteOnSnap, At, Steps
<1>10. CASE CtrlDeleteErase(c)
  <2>1. OwnWrites(c)
    BY <1>10, StoreWrites DEF CtrlDeleteErase, store, At, CtrlOps
  <2> QED
    BY <1>10, <2>1, ReturnLocal, NoneAssumption DEF CtrlDeleteErase, At, Creates, Deletes
<1> QED
  BY <1>1, <1>2, <1>3, <1>4, <1>5, <1>6, <1>7, <1>8, <1>9, <1>10 DEF CtrlStep

(* A step of a namespace handler is local.                               *)
LEMMA NsStepLocal ==
    ASSUME TypeInv, NEW c \in Calls, NsStep(c)
    PROVE  LocalStep(c)
<1>1. CASE \E s \in SubsystemIds, i \in NamespaceIds, h \in Nsids : NsCreateBegin(c, s, i, h)
  BY <1>1, BeginLocal DEF NsCreateBegin, Creates, Deletes
<1>2. CASE NsCreateLookup(c)
  <2>1. UNCHANGED store /\ call[c].op # None /\ OwnWrites(c)
    BY <1>2, NoneAssumption, StoreWrites DEF NsCreateLookup, At, Creates, Deletes
  <2> QED
    BY <1>2, <2>1, ReturnLocal, AbsentLocal, NoneAssumption DEF NsCreateLookup, At, Steps
<1>3. CASE NsCreateParent(c)
  <2>1. UNCHANGED store /\ call[c].op # None /\ OwnWrites(c)
    BY <1>3, NoneAssumption, StoreWrites DEF NsCreateParent, At, Creates, Deletes
  <2> QED
    BY <1>3, <2>1, ReturnLocal, ReadLocal, LocalsType, NoneAssumption DEF NsCreateParent, At, Steps, NsKey, SubsysKey, CtrlOps, NsOps, Creates, Deletes
<1>4. CASE NsCreateOnSnap(c)
  <2>1. UNCHANGED store /\ call[c].op # None /\ OwnWrites(c)
    BY <1>4, NoneAssumption, StoreWrites DEF NsCreateOnSnap, At, Creates, Deletes
  <2> QED
    BY <1>4, <2>1, ReturnLocal, GotoLocal, NoneAssumption DEF NsCreateOnSnap, At, Steps
<1>5. CASE NsCreateSave(c)
  <2>1. OwnWrites(c)
    BY <1>5, StoreWrites DEF NsCreateSave, store, At, NsOps
  <2> QED
    BY <1>5, <2>1, ReturnLocal, NoneAssumption DEF NsCreateSave, At, Creates, Deletes
<1>6. CASE \E s \in SubsystemIds, i \in NamespaceIds : NsDeleteBegin(c, s, i)
  BY <1>6, BeginLocal DEF NsDeleteBegin, Creates, Deletes
<1>7. CASE NsDeleteLookup(c)
  <2>1. UNCHANGED store /\ call[c].op # None /\ OwnWrites(c)
    BY <1>7, NoneAssumption, StoreWrites DEF NsDeleteLookup, At, Creates, Deletes
  <2> QED
    BY <1>7, <2>1, ReturnLocal, ReadLocal, LocalsType, NoneAssumption DEF NsDeleteLookup, At, Steps, NsKey, SubsysKey, CtrlOps, NsOps, Creates, Deletes
<1>8. CASE NsDeleteParent(c)
  <2>1. UNCHANGED store /\ call[c].op # None /\ OwnWrites(c)
    BY <1>8, NoneAssumption, StoreWrites DEF NsDeleteParent, At, Creates, Deletes
  <2> QED
    BY <1>8, <2>1, ReturnLocal, ReadLocal, LocalsType, NoneAssumption DEF NsDeleteParent, At, Steps, NsKey, SubsysKey, CtrlOps, NsOps, Creates, Deletes
<1>9. CASE NsDeleteOnSnap(c)
  <2>1. UNCHANGED store /\ call[c].op # None /\ OwnWrites(c)
    BY <1>9, NoneAssumption, StoreWrites DEF NsDeleteOnSnap, At, Creates, Deletes
  <2> QED
    BY <1>9, <2>1, ReturnLocal, GotoLocal, NoneAssumption DEF NsDeleteOnSnap, At, Steps
<1>10. CASE NsDeleteErase(c)
  <2>1. OwnWrites(c)
    BY <1>10, StoreWrites DEF NsDeleteErase, store, At, NsOps
  <2> QED
    BY <1>10, <2>1, ReturnLocal, NoneAssumption DEF NsDeleteErase, At, Creates, Deletes
<1> QED
  BY <1>1, <1>2, <1>3, <1>4, <1>5, <1>6, <1>7, <1>8, <1>9, <1>10 DEF NsStep

(* Where calls on a subsystem's resources do not overlap, no other call    *)
(* works on the names that a call's step writes to.                        *)
LEMMA StepSerial ==
    ASSUME TypeInv, SerialInv, ~Overlap, NEW c \in Calls, LocalStep(c)
    PROVE  SerialInv'
<1>1. OthersKept(c) /\ OwnWrites(c) /\ Admitted(c) /\ Knows(c)'
  BY DEF LocalStep, SerialInv
<1>2. \A d \in Calls \ {c} : call'[d] = call[d]
  BY <1>1 DEF OthersKept
<1>3. SerialCalls'
  BY <1>1, <1>2 DEF SerialInv, SerialCalls, Admitted
<1>4. ASSUME NEW d \in Calls \ {c} PROVE Knows(d)'
  <2>1. Knows(d) /\ call'[d] = call[d]
    BY <1>2 DEF SerialInv, TypeInv
  <2>2. call[d].op # None => call[d].sub # None /\ call[d].sub # call[c].sub
    BY <2>1, NoneAssumption DEF TypeInv, SerialInv, SerialCalls, CallFits
  <2>3. call[d].op # None => subsysStore'[SubsysKey(d)] = subsysStore[SubsysKey(d)]
    BY <1>1, <2>1, <2>2, NoneAssumption DEF TypeInv, OwnWrites, SubsysKey, CallFits
  <2>4. call[d].op \in CtrlOps => ctrlStore'[CtrlKey(d)] = ctrlStore[CtrlKey(d)]
    BY <1>1, <2>1, <2>2, NoneAssumption
    DEF TypeInv, OwnWrites, CtrlKey, CtrlNames, CallFits, CtrlOps, Creates, Deletes
  <2>5. call[d].op \in NsOps => nsStore'[NsKey(d)] = nsStore[NsKey(d)]
    BY <1>1, <2>1, <2>2, NoneAssumption
    DEF TypeInv, OwnWrites, NsKey, NsNames, CallFits, NsOps, Creates, Deletes
  <2> QED
    BY <2>1, <2>3, <2>4, <2>5, KnowsKept
<1> QED
  BY <1>1, <1>3, <1>4 DEF SerialInv

(* The server starts with no call in flight.                               *)
LEMMA InitSerial == Init => SerialInv
<1> SUFFICES ASSUME Init PROVE SerialInv
  OBVIOUS
<1>1. \A c \in Calls : call[c] = Idle
  BY DEF Init
<1>2. SerialCalls
  BY <1>1 DEF SerialCalls, Idle
<1>3. \A c \in Calls : Knows(c)
  BY <1>1, NoneAssumption DEF Knows, Idle, Creates, Deletes, CtrlOps, NsOps
<1> QED
  BY <1>2, <1>3 DEF SerialInv

(* A restart ends every call.                                              *)
LEMMA RestartSerial ==
    ASSUME Restart
    PROVE  SerialInv'
<1>1. \A c \in Calls : call'[c] = Idle
  BY DEF Restart
<1>2. SerialCalls'
  BY <1>1 DEF SerialCalls, Idle
<1>3. \A c \in Calls : Knows(c)'
  BY <1>1, NoneAssumption DEF Knows, Idle, Creates, Deletes, CtrlOps, NsOps
<1> QED
  BY <1>2, <1>3 DEF SerialInv

(* Every step keeps the invariant.                                         *)
LEMMA NextSerial ==
    ASSUME ~Overlap
    PROVE  TypeInv /\ SerialInv /\ [Next]_vars => SerialInv'
<1> SUFFICES ASSUME TypeInv, SerialInv, [Next]_vars PROVE SerialInv'
  OBVIOUS
<1>1. CASE Restart
  BY <1>1, RestartSerial
<1>2. ASSUME NEW c \in Calls, SubsysStep(c) PROVE SerialInv'
  BY <1>2, SubsysStepLocal, StepSerial
<1>3. ASSUME NEW c \in Calls, CtrlStep(c) PROVE SerialInv'
  BY <1>3, CtrlStepLocal, StepSerial
<1>4. ASSUME NEW c \in Calls, NsStep(c) PROVE SerialInv'
  BY <1>4, NsStepLocal, StepSerial
<1>5. CASE UNCHANGED vars
  BY <1>5
  DEF vars, store, SerialInv, SerialCalls, Knows, SubsysKey, CtrlKey, NsKey
<1> QED
  BY <1>1, <1>2, <1>3, <1>4, <1>5 DEF Next

(* Without overlap, what a handler has looked up stays so until it returns.*)
LEMMA SerialCorrect ==
    ASSUME ~Overlap
    PROVE  Spec => [](TypeInv /\ SerialInv)
<1>1. Init => TypeInv /\ SerialInv
  BY InitType, InitSerial
<1>2. (TypeInv /\ SerialInv) /\ [Next]_vars => (TypeInv /\ SerialInv)'
  BY NextType, NextSerial
<1> QED
  BY <1>1, <1>2, PTL DEF Spec

-----------------------------------------------------------------------------
(* The last steps of creates and deletes alone write to the store.         *)
LEMMA StepWrites ==
    ASSUME NEW c \in Calls, SubsysStep(c) \/ CtrlStep(c) \/ NsStep(c)
    PROVE  \/ UNCHANGED store
           \/ SubsysCreateSave(c) \/ SubsysDeleteErase(c)
           \/ CtrlCreateSave(c) \/ CtrlDeleteErase(c)
           \/ NsCreateSave(c) \/ NsDeleteErase(c)
<1>1. SubsysStep(c) => UNCHANGED store \/ SubsysCreateSave(c) \/ SubsysDeleteErase(c)
  BY DEF SubsysStep, SubsysCreateBegin, SubsysCreateLookup, SubsysCreateCheckNqn,
         SubsysCreateOnSnap, SubsysCreateVersion, SubsysDeleteBegin,
         SubsysDeleteLookup, SubsysDeleteOnSnap, SubsysDeleteForget, Begin
<1>2. CtrlStep(c) => UNCHANGED store \/ CtrlCreateSave(c) \/ CtrlDeleteErase(c)
  BY DEF CtrlStep, CtrlCreateBegin, CtrlCreateLookup, CtrlCreateParent,
         CtrlCreateOnSnap, CtrlDeleteBegin, CtrlDeleteLookup,
         CtrlDeleteParent, CtrlDeleteOnSnap, Begin
<1>3. NsStep(c) => UNCHANGED store \/ NsCreateSave(c) \/ NsDeleteErase(c)
  BY DEF NsStep, NsCreateBegin, NsCreateLookup, NsCreateParent, NsCreateOnSnap,
         NsDeleteBegin, NsDeleteLookup, NsDeleteParent, NsDeleteOnSnap, Begin
<1> QED
  BY <1>1, <1>2, <1>3

(* Only the create and delete of a name write to it: a create when nothing *)
(* is there, a delete to leave nothing there.                              *)
LEMMA StepKeepsObjects ==
    ASSUME TypeInv, NEW c \in Calls, Knows(c),
           SubsysStep(c) \/ CtrlStep(c) \/ NsStep(c)
    PROVE  ObjectsKept
<1>1. CASE UNCHANGED store
  BY <1>1 DEF ObjectsKept, store
<1>2. CASE SubsysCreateSave(c)
  <2>1. subsysStore[SubsysKey(c)] = None
    BY <1>2 DEF SubsysCreateSave, At, Knows
  <2> QED
    BY <1>2, <2>1 DEF SubsysCreateSave, ObjectsKept, TypeInv, TypeOK, StoreTypeOK
<1>3. CASE CtrlCreateSave(c)
  <2>1. ctrlStore[CtrlKey(c)] = None
    BY <1>3 DEF CtrlCreateSave, At, Knows
  <2> QED
    BY <1>3, <2>1 DEF CtrlCreateSave, ObjectsKept, TypeInv, TypeOK, StoreTypeOK
<1>4. CASE NsCreateSave(c)
  <2>1. nsStore[NsKey(c)] = None
    BY <1>4 DEF NsCreateSave, At, Knows
  <2> QED
    BY <1>4, <2>1 DEF NsCreateSave, ObjectsKept, TypeInv, TypeOK, StoreTypeOK
<1>5. CASE SubsysDeleteErase(c)
  BY <1>5 DEF SubsysDeleteErase, ObjectsKept, TypeInv, TypeOK, StoreTypeOK
<1>6. CASE CtrlDeleteErase(c)
  BY <1>6 DEF CtrlDeleteErase, ObjectsKept, TypeInv, TypeOK, StoreTypeOK
<1>7. CASE NsDeleteErase(c)
  BY <1>7 DEF NsDeleteErase, ObjectsKept, TypeInv, TypeOK, StoreTypeOK
<1> QED
  BY <1>1, <1>2, <1>3, <1>4, <1>5, <1>6, <1>7, StepWrites
=============================================================================
