-------------------------- MODULE NvmeReadsProofs ---------------------------
(***************************************************************************)
(* The answers of the gets of NvmeReads, when the calls on one subsystem's *)
(* resources do not overlap, whatever breaks.  Creates and deletes run on  *)
(* while a get is between its reads; what the get carries along is what it *)
(* has read, and what it relies on is that an object is not replaced: the  *)
(* record it has read is still there, or the object is being unmade.       *)
(***************************************************************************)
EXTENDS NvmeReads, NvmeSerialProofs

Read == [op  : Gets \cup {None},
         pc  : {None, "lookup", "parent", "list", "found", "missing"},
         sub : SubsystemIds \cup {None},
         id  : ControllerIds \cup NamespaceIds \cup {None},
         nqn : Nqns \cup {None},
         num : Cntlids \cup Nsids \cup {None}]

(* A get has the fields of a get, and one in flight asks for something.    *)
ReadFits ==
    /\ read \in Read
    /\ seen \subseteq {"there", "away", "unstored"}
    /\ ReadInFlight =>
          /\ read.op \in Gets
          /\ read.sub \in SubsystemIds
          /\ read.id \in IdsBelow(read.op)
    /\ read.pc = "parent" => read.op = "GetNvmeNamespace"

(* What is the case now is among what has been the case; an object that    *)
(* was not stored was not there.                                           *)
SeesNow ==
    /\ ReadInFlight => Facts(read.op, read.sub, read.id) \subseteq seen
    /\ "unstored" \in seen => "away" \in seen

(* A get in flight whose object and parent were stored all along holds the *)
(* records they still have.                                                *)
HoldsRecord ==
    read.pc \in {"parent", "list"} /\ "unstored" \notin seen =>
        /\ read.op = "GetNvmeController"
              => ctrlStore[<<read.sub, read.id>>] = read.num
        /\ read.op = "GetNvmeNamespace"
              => nsStore[<<read.sub, read.id>>] = read.num
        /\ read.pc = "list" /\ read.op # "GetNvmeController"
              => subsysStore[read.sub] = read.nqn

(* The inductive invariant of the gets.                                    *)
ReadInv == ReadFits /\ SeesNow /\ HoldsRecord /\ NoFalseMiss /\ NoFalseHit

-----------------------------------------------------------------------------
(* The facts about a name at one moment.                                   *)
LEMMA FactsAre ==
    ASSUME NEW op, NEW s, NEW i
    PROVE  /\ Facts(op, s, i) \subseteq {"there", "away", "unstored"}
           /\ "there" \in Facts(op, s, i) <=> There(op, s, i)
           /\ "away" \in Facts(op, s, i) <=> ~There(op, s, i)
           /\ "unstored" \in Facts(op, s, i) <=> ~Stored(op, s, i)
           /\ There(op, s, i) => Stored(op, s, i)
  BY DEF Facts, There

(* A get that is over or was never begun claims nothing.                   *)
LEMMA FailedReadInv == ASSUME ReadFails PROVE ReadInv'
  BY NoneAssumption, NoReadAssumption
  DEF ReadFails, ReadInv, ReadFits, SeesNow, HoldsRecord, NoFalseMiss, NoFalseHit,
      ReadInFlight, NoRead, Read, Steps, Gets

(* A get begins with what is the case now.                                 *)
LEMMA BegunReadInv ==
    ASSUME NEW op \in Gets, NEW s \in SubsystemIds, NEW i \in IdsBelow(op),
           ReadBegin(op, s, i), UNCHANGED vars
    PROVE  ReadInv'
<1>1. /\ read' = [op |-> op, pc |-> "lookup", sub |-> s, id |-> i,
                  nqn |-> None, num |-> None]
      /\ seen' = Facts(op, s, i)
  BY DEF ReadBegin, NoRead
<1>2. i \in ControllerIds \cup NamespaceIds \cup {None}
  BY DEF IdsBelow, Gets
<1>3. ReadFits'
  BY <1>1, <1>2, FactsAre DEF ReadFits, Read, ReadInFlight, Gets, IdsBelow
<1>4. Facts(op, s, i)' = Facts(op, s, i)
  BY DEF vars, store, snap, Facts, There, Stored
<1>5. SeesNow'
  <2>1. "unstored" \in seen' => "away" \in seen'
    BY <1>1, FactsAre
  <2>2. Facts(read.op, read.sub, read.id)' \subseteq seen'
    BY <1>1, <1>4 DEF Facts, There, Stored
  <2> QED
    BY <2>1, <2>2 DEF SeesNow
<1>6. HoldsRecord' /\ NoFalseMiss' /\ NoFalseHit'
  BY <1>1 DEF HoldsRecord, NoFalseMiss, NoFalseHit
<1> QED
  BY <1>3, <1>5, <1>6 DEF ReadInv

(* A get that goes on sees no more than it saw; it has to answer for what  *)
(* it has read and for what it says.                                       *)
LEMMA GotoReadInv ==
    ASSUME ReadInv, ReadInFlight, UNCHANGED vars,
           NEW pc \in {"parent", "list", "found", "missing"},
           NEW n \in Nqns \cup {None}, NEW k \in Cntlids \cup Nsids \cup {None},
           ReadGoto(pc, n, k), pc = "parent" => read.op = "GetNvmeNamespace",
           (HoldsRecord /\ NoFalseMiss /\ NoFalseHit)'
    PROVE  ReadInv'
<1>1. read \in Read /\ read' = [read EXCEPT !.pc = pc, !.nqn = n, !.num = k]
  BY DEF ReadInv, ReadFits, ReadGoto
<1>2. /\ read' \in Read /\ seen' = seen
      /\ read'.pc = pc /\ read'.op = read.op
      /\ read'.sub = read.sub /\ read'.id = read.id
  BY <1>1 DEF Read, ReadGoto
<1>3. ReadFits'
  BY <1>2 DEF ReadInv, ReadFits, ReadInFlight, IdsBelow
<1>4. Facts(read.op, read.sub, read.id)' = Facts(read.op, read.sub, read.id)
  BY <1>2 DEF vars, store, snap, Facts, There, Stored
<1>5. SeesNow'
  BY <1>2, <1>4 DEF ReadInv, SeesNow, ReadInFlight
<1> QED
  BY <1>3, <1>5 DEF ReadInv

(* store.Get on the name: the record is held from here on, or not stored.  *)
LEMMA LookupReadInv ==
    ASSUME TypeInv, ReadInv, ReadLookup, UNCHANGED vars
    PROVE  ReadInv'
<1> DEFINE x == <<read.sub, read.id>>
<1>1. /\ read.pc = "lookup" /\ ReadInFlight
      /\ read.op \in Gets /\ read.sub \in SubsystemIds
      /\ read.id \in IdsBelow(read.op)
      /\ Facts(read.op, read.sub, read.id) \subseteq seen
  BY DEF ReadLookup, ReadInFlight, ReadInv, ReadFits, SeesNow
<1>2. CASE ReadFails
  BY <1>2, FailedReadInv
<1>3. ASSUME ReadGoto("missing", None, None), ~Stored(read.op, read.sub, read.id)
      PROVE  ReadInv'
  <2>1. "away" \in seen
    BY <1>1, <1>3, FactsAre
  <2>2. (HoldsRecord /\ NoFalseMiss /\ NoFalseHit)'
    BY <1>3, <2>1 DEF ReadGoto, HoldsRecord, NoFalseMiss, NoFalseHit, ReadInv,
       ReadFits, Read
  <2> QED
    BY <1>1, <1>3, <2>2, GotoReadInv
<1>4. ASSUME NEW pc \in {"parent", "list"}, NEW n \in Nqns \cup {None},
             NEW k \in Cntlids \cup Nsids \cup {None}, ReadGoto(pc, n, k),
             pc = "parent" <=> read.op = "GetNvmeNamespace",
             read.op = "GetNvmeSubsystem" => n = subsysStore[read.sub],
             read.op = "GetNvmeController" => k = ctrlStore[x],
             read.op = "GetNvmeNamespace" => k = nsStore[x]
      PROVE  ReadInv'
  <2>1. /\ read'.pc = pc /\ read'.op = read.op /\ read'.sub = read.sub
        /\ read'.id = read.id /\ read'.nqn = n /\ read'.num = k
    BY <1>4 DEF ReadGoto, ReadInv, ReadFits, Read
  <2>2. HoldsRecord'
    BY <1>1, <1>4, <2>1 DEF HoldsRecord, vars, store, Gets
  <2>3. NoFalseMiss' /\ NoFalseHit'
    BY <1>4, <2>1 DEF NoFalseMiss, NoFalseHit
  <2> QED
    BY <1>1, <1>4, <2>2, <2>3, GotoReadInv
<1>5. CASE read.op = "GetNvmeSubsystem"
  <2>1. subsysStore[read.sub] \in Nqns \cup {None}
    BY <1>1 DEF TypeInv, TypeOK, StoreTypeOK
  <2>2. subsysStore[read.sub] = None => ~Stored(read.op, read.sub, read.id)
    BY DEF Stored
  <2> QED
    BY <1>2, <1>3, <1>4, <1>5, <2>1, <2>2 DEF ReadLookup
<1>6. CASE read.op = "GetNvmeController"
  <2>1. read.id \in ControllerIds
    BY <1>1, <1>6 DEF IdsBelow
  <2>2. ctrlStore[x] \in Cntlids \cup {None}
    BY <1>1, <2>1 DEF TypeInv, TypeOK, StoreTypeOK, CtrlNames
  <2>3. ctrlStore[x] = None => ~Stored(read.op, read.sub, read.id)
    BY <1>6 DEF Stored
  <2> QED
    BY <1>2, <1>3, <1>4, <1>6, <2>2, <2>3 DEF ReadLookup
<1>7. CASE read.op = "GetNvmeNamespace"
  <2>1. read.id \in NamespaceIds
    BY <1>1, <1>7 DEF IdsBelow
  <2>2. nsStore[x] \in Nsids \cup {None}
    BY <1>1, <2>1 DEF TypeInv, TypeOK, StoreTypeOK, NsNames
  <2>3. nsStore[x] = None => ~Stored(read.op, read.sub, read.id)
    BY <1>7 DEF Stored
  <2> QED
    BY <1>2, <1>3, <1>4, <1>7, <2>2, <2>3 DEF ReadLookup
<1> QED
  BY <1>1, <1>5, <1>6, <1>7 DEF Gets

(* store.Get on the parent of a namespace: its NQN is held from here on.   *)
LEMMA ParentReadInv ==
    ASSUME TypeInv, ReadInv, ReadParent, UNCHANGED vars
    PROVE  ReadInv'
<1>1. /\ read.pc = "parent" /\ ReadInFlight
      /\ read.op = "GetNvmeNamespace" /\ read.sub \in SubsystemIds
      /\ read.num \in Cntlids \cup Nsids \cup {None}
      /\ Facts(read.op, read.sub, read.id) \subseteq seen
  BY DEF ReadParent, ReadInFlight, ReadInv, ReadFits, SeesNow, Read
<1>2. CASE ReadFails
  BY <1>2, FailedReadInv
<1>3. CASE /\ subsysStore[read.sub] # None
           /\ ReadGoto("list", subsysStore[read.sub], read.num)
  <2>1. /\ read'.pc = "list" /\ read'.op = read.op /\ read'.sub = read.sub
        /\ read'.id = read.id /\ read'.nqn = subsysStore[read.sub]
        /\ read'.num = read.num /\ seen' = seen
    BY <1>3 DEF ReadGoto, ReadInv, ReadFits, Read
  <2>2. HoldsRecord'
    BY <1>1, <2>1 DEF HoldsRecord, ReadInv, vars, store
  <2>3. NoFalseMiss' /\ NoFalseHit'
    BY <2>1 DEF NoFalseMiss, NoFalseHit
  <2>4. subsysStore[read.sub] \in Nqns \cup {None}
    BY <1>1 DEF TypeInv, TypeOK, StoreTypeOK
  <2> QED
    BY <1>1, <1>3, <2>2, <2>3, <2>4, GotoReadInv
<1>4. CASE subsysStore[read.sub] = None /\ ReadGoto("missing", None, None)
  <2>1. ~Stored(read.op, read.sub, read.id)
    BY <1>4 DEF Stored
  <2>2. "away" \in seen
    BY <1>1, <2>1, FactsAre
  <2>3. (HoldsRecord /\ NoFalseMiss /\ NoFalseHit)'
    BY <1>4, <2>2 DEF ReadGoto, HoldsRecord, NoFalseMiss, NoFalseHit, ReadInv,
       ReadFits, Read
  <2> QED
    BY <1>1, <1>4, <2>3, GotoReadInv
<1> QED
  BY <1>2, <1>3, <1>4 DEF ReadParent

(* The list, looked through: found is there and not found is away, unless  *)
(* the record read before is no longer there.  A controller's number may   *)
(* be found below another subsystem, but is not missed below its own.      *)
LEMMA ListReadInv ==
    ASSUME TypeInv, ReadInv, ReadList, UNCHANGED vars
    PROVE  ReadInv'
<1> DEFINE pc == IF Listed THEN "found" ELSE "missing"
           x == <<read.sub, read.id>>
<1>1. /\ read.pc = "list" /\ ReadInFlight
      /\ read.op \in Gets /\ read.sub \in SubsystemIds
      /\ Facts(read.op, read.sub, read.id) \subseteq seen
      /\ "unstored" \in seen => "away" \in seen
  BY DEF ReadList, ReadInFlight, ReadInv, ReadFits, SeesNow
<1>2. CASE ReadFails
  BY <1>2, FailedReadInv
<1>3. CASE ReadGoto(pc, None, None)
  <2>1. /\ read'.pc = pc /\ read'.op = read.op /\ seen' = seen
    BY <1>3 DEF ReadGoto, ReadInv, ReadFits, Read
  <2>2. SUFFICES ASSUME "unstored" \notin seen
                 PROVE  (NoFalseMiss /\ NoFalseHit)'
    <3>1. "unstored" \in seen => (NoFalseMiss /\ NoFalseHit)'
      BY <1>1, <2>1 DEF NoFalseMiss, NoFalseHit
    <3>2. HoldsRecord'
      BY <2>1 DEF HoldsRecord
    <3> QED
      BY <1>1, <1>3, <2>2, <3>1, <3>2, GotoReadInv
  <2>3. Stored(read.op, read.sub, read.id)
    BY <1>1, <2>2, FactsAre
  <2>4. CASE read.op = "GetNvmeSubsystem"
    <3>1. subsysStore[read.sub] = read.nqn
      BY <1>1, <2>2, <2>4 DEF ReadInv, HoldsRecord
    <3>2. Listed <=> There(read.op, read.sub, read.id)
      BY <2>3, <2>4, <3>1 DEF Listed, There
    <3> QED
      BY <1>1, <2>1, <3>2, FactsAre DEF NoFalseMiss, NoFalseHit
  <2>5. CASE read.op = "GetNvmeController"
    <3>1. ctrlStore[x] = read.num
      BY <1>1, <2>2, <2>5 DEF ReadInv, HoldsRecord
    <3>2. There(read.op, read.sub, read.id) =>
            <<subsysStore[read.sub], read.num>> \in snapCtrls
      BY <2>5, <3>1 DEF There
    <3>3. There(read.op, read.sub, read.id) => Listed
      BY <2>5, <3>2 DEF Listed
    <3> QED
      BY <1>1, <2>1, <2>5, <3>3, FactsAre DEF NoFalseMiss, NoFalseHit
  <2>6. CASE read.op = "GetNvmeNamespace"
    <3>1. subsysStore[read.sub] = read.nqn /\ nsStore[x] = read.num
      BY <1>1, <2>2, <2>6 DEF ReadInv, HoldsRecord
    <3>2. Listed <=> There(read.op, read.sub, read.id)
      BY <2>3, <2>6, <3>1 DEF Listed, There
    <3> QED
      BY <1>1, <2>1, <3>2, FactsAre DEF NoFalseMiss, NoFalseHit
  <2> QED
    BY <1>1, <2>4, <2>5, <2>6 DEF Gets
<1> QED
  BY <1>2, <1>3 DEF ReadList

(* The other handlers' steps: what they bring is noted, and they replace   *)
(* nothing, so the record a get holds is still stored or the get has seen  *)
(* it gone.                                                                *)
LEMMA NotedReadInv ==
    ASSUME ReadInv, ObjectsKept, Noted
    PROVE  ReadInv'
<1>1. CASE ~ReadInFlight
  BY <1>1, FailedReadInv DEF Noted
<1>2. CASE ReadInFlight
  <2> DEFINE s == read.sub  i == read.id
  <2>1. /\ read' = read
        /\ seen' = seen \cup Facts(read.op, read.sub, read.id)'
        /\ read.op \in Gets /\ s \in SubsystemIds /\ i \in IdsBelow(read.op)
    BY <1>2 DEF Noted, ReadInv, ReadFits
  <2>2. /\ Facts(read.op, s, i)' \subseteq {"there", "away", "unstored"}
        /\ "unstored" \in Facts(read.op, s, i)' => "away" \in Facts(read.op, s, i)'
        /\ "unstored" \notin Facts(read.op, s, i)' => Stored(read.op, s, i)'
    <3>1. (/\ Facts(read.op, s, i) \subseteq {"there", "away", "unstored"}
           /\ "unstored" \in Facts(read.op, s, i) => "away" \in Facts(read.op, s, i)
           /\ "unstored" \notin Facts(read.op, s, i) => Stored(read.op, s, i))'
      BY DEF Facts, There
    <3> QED
      BY <2>1, <3>1
  <2>3. ReadFits'
    BY <2>1, <2>2 DEF ReadInv, ReadFits, ReadInFlight, IdsBelow
  <2>4. SeesNow'
    BY <2>1, <2>2 DEF ReadInv, SeesNow
  <2>5. HoldsRecord'
    <3>1. SUFFICES ASSUME read.pc \in {"parent", "list"}, "unstored" \notin seen'
                   PROVE  HoldsRecord'
      BY <2>1 DEF HoldsRecord
    <3>2. Stored(read.op, s, i)' /\ Stored(read.op, s, i)
      BY <2>1, <2>2, <3>1, <1>2, FactsAre DEF ReadInv, SeesNow
    <3>3. read.op = "GetNvmeController" => <<s, i>> \in CtrlNames
      BY <2>1 DEF IdsBelow, CtrlNames
    <3>4. read.op = "GetNvmeNamespace" => <<s, i>> \in NsNames
      BY <2>1 DEF IdsBelow, NsNames
    <3>5. subsysStore'[s] = subsysStore[s]
      BY <2>1, <3>2 DEF ObjectsKept, Stored
    <3>6. read.op = "GetNvmeController" => ctrlStore'[<<s, i>>] = ctrlStore[<<s, i>>]
      BY <2>1, <3>2, <3>3 DEF ObjectsKept, Stored
    <3>7. read.op = "GetNvmeNamespace" => nsStore'[<<s, i>>] = nsStore[<<s, i>>]
      BY <2>1, <3>2, <3>4 DEF ObjectsKept, Stored
    <3> QED
      BY <2>1, <3>1, <3>5, <3>6, <3>7 DEF ReadInv, HoldsRecord
  <2>6. NoFalseMiss' /\ NoFalseHit'
    BY <1>2, <2>1 DEF NoFalseMiss, NoFalseHit, ReadInFlight
  <2> QED
    BY <2>3, <2>4, <2>5, <2>6 DEF ReadInv
<1> QED
  BY <1>1, <1>2

-----------------------------------------------------------------------------
(* The gets add nothing to what the handlers do.                           *)
LEMMA ReadsNextIsNext == [ReadsNext]_readsVars => [Next]_vars
  BY DEF ReadsNext, ReadStep, readsVars, Next

(* Every step keeps the invariant of the gets.                             *)
LEMMA NextReads ==
    ASSUME TypeInv, SerialInv, ReadInv, [ReadsNext]_readsVars
    PROVE  ReadInv'
<1>1. ASSUME NEW op \in Gets, NEW s \in SubsystemIds, NEW i \in IdsBelow(op),
             ReadBegin(op, s, i), UNCHANGED vars
      PROVE  ReadInv'
  BY <1>1, BegunReadInv
<1>2. CASE (ReadLookup \/ ReadParent \/ ReadList) /\ UNCHANGED vars
  BY <1>2, LookupReadInv, ParentReadInv, ListReadInv
<1>3. CASE Restart /\ ReadFails
  BY <1>3, FailedReadInv
<1>4. ASSUME NEW c \in Calls, SubsysStep(c) \/ CtrlStep(c) \/ NsStep(c), Noted
      PROVE  ReadInv'
  BY <1>4, StepKeepsObjects, NotedReadInv DEF SerialInv
<1>5. CASE UNCHANGED readsVars
  BY <1>5
  DEF readsVars, vars, store, snap, ReadInv, ReadFits, SeesNow, HoldsRecord,
      NoFalseMiss, NoFalseHit, ReadInFlight, Facts, There, Stored
<1> QED
  BY <1>1, <1>2, <1>3, <1>4, <1>5 DEF ReadsNext, ReadStep

(* Without overlap, the invariant of the gets holds in every state.        *)
THEOREM ReadsCorrect ==
    ASSUME ~Overlap
    PROVE  ReadsSpec => [](TypeInv /\ SerialInv /\ ReadInv)
<1>1. ReadsInit => TypeInv /\ SerialInv /\ ReadInv
  <2>1. ReadsInit => ReadInv
    BY NoneAssumption, NoReadAssumption
    DEF ReadsInit, ReadInv, ReadFits, SeesNow, HoldsRecord, NoFalseMiss,
        NoFalseHit, ReadInFlight, NoRead, Read, Steps, Gets
  <2> QED
    BY <2>1, InitType, InitSerial DEF ReadsInit
<1>2. (TypeInv /\ SerialInv /\ ReadInv) /\ [ReadsNext]_readsVars
         => (TypeInv /\ SerialInv /\ ReadInv)'
  BY ReadsNextIsNext, NextType, NextSerial, NextReads
<1> QED
  BY <1>1, <1>2, PTL DEF ReadsSpec

(* Without overlap, a get that does not find its object is right at some   *)
(* moment of the get, whatever moves between its reads.                    *)
THEOREM MissesAreTrue == ASSUME ~Overlap PROVE ReadsSpec => []NoFalseMiss
<1>1. ReadInv => NoFalseMiss
  BY DEF ReadInv
<1> QED
  BY <1>1, ReadsCorrect, PTL

(* Without overlap, a get that finds a subsystem or a namespace is right   *)
(* at some moment of the get, or the object was deleted while it went on.  *)
THEOREM HitsAreTrue == ASSUME ~Overlap PROVE ReadsSpec => []NoFalseHit
<1>1. ReadInv => NoFalseHit
  BY DEF ReadInv
<1> QED
  BY <1>1, ReadsCorrect, PTL
=============================================================================
