---------------------------- MODULE VirtioProofs ----------------------------
(***************************************************************************)
(* What holds of virtio-blk creates, deletes and gets when no two calls    *)
(* for one id overlap, whatever answers get lost and however often the     *)
(* process dies and takes the map with it.                                 *)
(***************************************************************************)
EXTENDS VirtioBlk, TLAPS

(* Which locals a call has set.                                            *)
CallFits ==
    \A c \in Calls :
        /\ call[c].op # None => call[c].id \in VirtioIds /\ call[c].pc # None
        /\ call[c].op = "create" => call[c].pf \in Pfs

GetFits == GetInFlight => get.id \in VirtioIds

TypeInv == VirtioTypeOK /\ CallFits /\ GetFits

(* A controller's name is an id only if SNAP has taken that id for it.     *)
LEMMA SnapNames ==
    ASSUME NEW i \in VirtioIds, NEW f \in Pfs
    PROVE  /\ SnapName(i, f) \in VirtioIds \cup Pfs
           /\ \A j \in VirtioIds : SnapName(i, f) = j => i = j
           /\ i \in SerialNames => SnapName(i, f) = i
BY VirtioAssumption DEF SnapName

OthersKept(c) == \A d \in Calls : d # c => call'[d] = call[d]

-----------------------------------------------------------------------------
(* What the control operators do to a call, field by field.                *)
LEMMA BeginFacts ==
    ASSUME TypeInv, NEW c \in Calls, NEW op \in {"create", "delete"},
           NEW i \in VirtioIds, NEW f \in Pfs \cup {None},
           Begin(c, op, i, f)
    PROVE  /\ call' \in [Calls -> VirtioCall] /\ OthersKept(c)
           /\ call'[c].op = op /\ call'[c].pc = "lookup"
           /\ call'[c].id = i /\ call'[c].pf = f
           /\ UNCHANGED things
BY DEF TypeInv, VirtioTypeOK, Begin, VirtioCall, OthersKept

(* A handler that moves on keeps its arguments.                            *)
LEMMA GotoFacts ==
    ASSUME TypeInv, NEW c \in Calls, NEW pc \in {"snap", "save", "erase"},
           Goto(c, pc)
    PROVE  /\ call' \in [Calls -> VirtioCall] /\ OthersKept(c)
           /\ call'[c].op = call[c].op /\ call'[c].pc = pc
           /\ call'[c].id = call[c].id /\ call'[c].pf = call[c].pf
BY DEF TypeInv, VirtioTypeOK, Goto, VirtioCall, OthersKept

(* A handler that returns frees its slot.                                  *)
LEMMA ReturnFacts ==
    ASSUME TypeInv, NEW c \in Calls, Return(c)
    PROVE  /\ call' \in [Calls -> VirtioCall] /\ OthersKept(c)
           /\ call'[c] = Idle
<1>1. Idle \in VirtioCall
  BY DEF Idle, VirtioCall
<1> QED
  BY <1>1 DEF TypeInv, VirtioTypeOK, Return, OthersKept

(* A handler goes on with what it has, or is over.                         *)
Control(c) ==
    /\ call' \in [Calls -> VirtioCall] /\ OthersKept(c)
    /\ \/ call'[c] = Idle
       \/ /\ call'[c].op = call[c].op /\ call'[c].pc # None
          /\ call'[c].id = call[c].id /\ call'[c].pf = call[c].pf

(* Every step but the first of a handler does that.                        *)
LEMMA ControlFacts ==
    ASSUME TypeInv, NEW c \in Calls
    PROVE  /\ Return(c) => Control(c)
           /\ \A pc \in {"snap", "save", "erase"} : Goto(c, pc) => Control(c)
BY ReturnFacts, GotoFacts, VirtioAssumption DEF Control

-----------------------------------------------------------------------------
(* The calls stay well formed.                                             *)
LEMMA ControlFits ==
    ASSUME TypeInv, NEW c \in Calls, Control(c)
    PROVE  CallFits'
BY VirtioAssumption DEF TypeInv, CallFits, Control, OthersKept, Idle

(* A step of a create or delete keeps the things of their types and the    *)
(* calls well formed.                                                      *)
LEMMA StepTypes ==
    ASSUME TypeInv, NEW c \in Calls, VirtioStep(c)
    PROVE  /\ virtioCtrls' \in [VirtioIds -> Pfs \cup {None}]
           /\ snapVirtio' \subseteq (VirtioIds \cup Pfs) \X Pfs
           /\ gone' \subseteq VirtioIds
           /\ call' \in [Calls -> VirtioCall]
           /\ CallFits'
<1> DEFINE Goal == /\ virtioCtrls' \in [VirtioIds -> Pfs \cup {None}]
                   /\ snapVirtio' \subseteq (VirtioIds \cup Pfs) \X Pfs
                   /\ gone' \subseteq VirtioIds
                   /\ call' \in [Calls -> VirtioCall]
                   /\ CallFits'
<1>0. /\ virtioCtrls \in [VirtioIds -> Pfs \cup {None}]
      /\ snapVirtio \subseteq (VirtioIds \cup Pfs) \X Pfs
      /\ gone \subseteq VirtioIds
  BY DEF TypeInv, VirtioTypeOK
<1>1. ASSUME NEW op \in {"create", "delete"}, NEW i \in VirtioIds,
             NEW f \in Pfs \cup {None}, Begin(c, op, i, f),
             op = "create" => f \in Pfs
      PROVE  Goal
  <2>1. CallFits'
    BY <1>1, BeginFacts, VirtioAssumption DEF TypeInv, CallFits, OthersKept
  <2> QED
    BY <1>0, <1>1, <2>1, BeginFacts DEF things
<1>2. ASSUME Control(c), UNCHANGED things
      PROVE  Goal
  BY <1>0, <1>2, ControlFits DEF Control, things
<1>3. CASE CreateLookup(c)
  BY <1>2, <1>3, ControlFacts DEF CreateLookup
<1>4. CASE CreateOnSnap(c)
  <2>1. Control(c)
    BY <1>4, ControlFacts DEF CreateOnSnap
  <2>2. call[c].id \in VirtioIds /\ call[c].pf \in Pfs
    BY <1>4, VirtioAssumption DEF CreateOnSnap, At, TypeInv, CallFits
  <2>3. snapVirtio' \subseteq (VirtioIds \cup Pfs) \X Pfs
    BY <1>0, <1>4, <2>2, SnapNames DEF CreateOnSnap, SnapCreateVirtio
  <2> QED
    BY <1>0, <1>4, <2>1, <2>3, ControlFits DEF CreateOnSnap, Control
<1>5. CASE CreateSave(c)
  <2>1. Control(c)
    BY <1>5, ControlFacts DEF CreateSave
  <2>2. call[c].pf \in Pfs
    BY <1>5, VirtioAssumption DEF CreateSave, At, TypeInv, CallFits
  <2>3. virtioCtrls' \in [VirtioIds -> Pfs \cup {None}]
    BY <1>0, <1>5, <2>2 DEF CreateSave
  <2> QED
    BY <1>0, <1>5, <2>1, <2>3, ControlFits DEF CreateSave, Control
<1>6. CASE DeleteLookup(c)
  BY <1>2, <1>6, ControlFacts DEF DeleteLookup
<1>7. CASE DeleteOnSnap(c)
  <2>1. Control(c)
    BY <1>7, ControlFacts DEF DeleteOnSnap
  <2>2. call[c].id \in VirtioIds
    BY <1>7, VirtioAssumption DEF DeleteOnSnap, At, TypeInv, CallFits
  <2>3. snapVirtio' \subseteq (VirtioIds \cup Pfs) \X Pfs /\ gone' \subseteq VirtioIds
    BY <1>0, <1>7, <2>2 DEF DeleteOnSnap, SnapDeleteVirtio
  <2> QED
    BY <1>0, <1>7, <2>1, <2>3, ControlFits DEF DeleteOnSnap, Control
<1>8. CASE DeleteErase(c)
  <2>1. Control(c)
    BY <1>8, ControlFacts DEF DeleteErase
  <2>2. virtioCtrls' \in [VirtioIds -> Pfs \cup {None}] /\ gone' \subseteq VirtioIds
    BY <1>0, <1>8 DEF DeleteErase
  <2> QED
    BY <1>0, <1>8, <2>1, <2>2, ControlFits DEF DeleteErase, Control
<1> QED
  BY <1>1, <1>3, <1>4, <1>5, <1>6, <1>7, <1>8 DEF VirtioStep

(* An answer is a function or a miss.                                      *)
LEMMA AnswerType ==
    ASSUME virtioCtrls \in [VirtioIds -> Pfs \cup {None}], NEW i \in VirtioIds
    PROVE  Answer(i) \in Pfs \cup {None}
BY DEF Answer

(* A free get and one that begins are well formed.                         *)
LEMMA GetTypes ==
    ASSUME TypeInv, GetStep, UNCHANGED <<things, call>>
    PROVE  TypeInv'
<1>1. /\ virtioCtrls' \in [VirtioIds -> Pfs \cup {None}]
      /\ snapVirtio' \subseteq (VirtioIds \cup Pfs) \X Pfs
      /\ gone' \subseteq VirtioIds
      /\ call' \in [Calls -> VirtioCall]
      /\ CallFits'
  BY DEF TypeInv, VirtioTypeOK, CallFits, things
<1>2. NoGet \in VirtioGet
  BY DEF NoGet, VirtioGet
<1>3. get' \in VirtioGet /\ seen' \subseteq Pfs \cup {None} /\ GetFits'
  <2>1. CASE \E i \in VirtioIds : GetVirtioBegin(i)
    BY <2>1, AnswerType
    DEF TypeInv, VirtioTypeOK, GetVirtioBegin, VirtioGet, GetFits
  <2>2. CASE GetVirtioLookup
    <3>1. get' \in VirtioGet /\ seen' = seen /\ get'.id = get.id /\ GetInFlight
      BY <2>2 DEF TypeInv, VirtioTypeOK, GetVirtioLookup, VirtioGet, GetInFlight
    <3> QED
      BY <3>1 DEF TypeInv, VirtioTypeOK, GetFits
  <2>3. CASE GetVirtioList
    <3>1. ASSUME NEW x \in snapVirtio, get' = [get EXCEPT !.pc = "found", !.pf = x[2]]
          PROVE  get' \in VirtioGet /\ ~GetInFlight'
      BY <3>1 DEF TypeInv, VirtioTypeOK, VirtioGet, GetInFlight
    <3>2. ASSUME get' = [get EXCEPT !.pc = "missing"]
          PROVE  get' \in VirtioGet /\ ~GetInFlight'
      BY <3>2 DEF TypeInv, VirtioTypeOK, VirtioGet, GetInFlight
    <3>3. ASSUME get' = NoGet
          PROVE  get' \in VirtioGet /\ ~GetInFlight'
      BY <1>2, <3>3, VirtioAssumption DEF NoGet, GetInFlight
    <3> QED
      BY <2>3, <3>1, <3>2, <3>3 DEF TypeInv, VirtioTypeOK, GetVirtioList, GetFits
  <2> QED
    BY <2>1, <2>2, <2>3 DEF GetStep
<1> QED
  BY <1>1, <1>3 DEF TypeInv, VirtioTypeOK

(* All that holds of types at the start ...                                *)
LEMMA InitTypes == Init => TypeInv
<1> SUFFICES ASSUME Init PROVE TypeInv
  OBVIOUS
<1>1. call \in [Calls -> VirtioCall] /\ CallFits
  BY VirtioAssumption DEF Init, Idle, VirtioCall, CallFits
<1>2. get \in VirtioGet /\ seen \subseteq Pfs \cup {None} /\ GetFits
  BY VirtioAssumption DEF Init, NoGet, VirtioGet, GetFits, GetInFlight
<1> QED
  BY <1>1, <1>2 DEF Init, TypeInv, VirtioTypeOK

(* ... holds after each step.                                              *)
LEMMA NextTypes ==
    ASSUME TypeInv, [Next]_vars
    PROVE  TypeInv'
<1>1. CASE Restart
  <2>1. call' \in [Calls -> VirtioCall] /\ CallFits'
    BY <1>1, VirtioAssumption DEF Restart, Idle, VirtioCall, CallFits
  <2>2. get' \in VirtioGet /\ seen' \subseteq Pfs \cup {None} /\ GetFits'
    BY <1>1, VirtioAssumption DEF Restart, NoGet, VirtioGet, GetFits, GetInFlight
  <2> QED
    BY <1>1, <2>1, <2>2 DEF Restart, TypeInv, VirtioTypeOK
<1>2. CASE GetStep /\ UNCHANGED <<things, call>>
  BY <1>2, GetTypes
<1>3. ASSUME NEW c \in Calls, VirtioStep(c), Noted
      PROVE  TypeInv'
  <2>1. get' \in VirtioGet /\ seen' \subseteq Pfs \cup {None} /\ GetFits'
    <3>1. CASE GetInFlight
      <4>1. get.id \in VirtioIds
        BY <3>1 DEF TypeInv, GetFits
      <4>2. Answer(get.id)' \in Pfs \cup {None}
        BY <1>3, <3>1, <4>1, StepTypes DEF Answer, Noted
      <4> QED
        BY <1>3, <3>1, <4>1, <4>2 DEF Noted, TypeInv, VirtioTypeOK, GetFits
    <3>2. CASE ~GetInFlight
      BY <1>3, <3>2, VirtioAssumption
      DEF Noted, NoGet, VirtioGet, GetFits, GetInFlight
    <3> QED
      BY <3>1, <3>2
  <2> QED
    BY <1>3, <2>1, StepTypes DEF TypeInv, VirtioTypeOK
<1>4. CASE UNCHANGED vars
  BY <1>4
  DEF vars, things, reading, TypeInv, VirtioTypeOK, CallFits, GetFits, GetInFlight
<1> QED
  BY <1>1, <1>2, <1>3, <1>4 DEF Next

(* Every variable has its type, whether or not calls overlap.              *)
THEOREM VirtioTypeSafe == Spec => []VirtioTypeOK
<1>1. TypeInv => VirtioTypeOK
  BY DEF TypeInv
<1> QED
  BY <1>1, InitTypes, NextTypes, PTL DEF Spec

-----------------------------------------------------------------------------
(* At most one create or delete is in flight for an id.                    *)
SerialCalls ==
    \A c, d \in Calls : c # d /\ call[c].id = call[d].id => call[c].id = None

(* What a handler has looked up is still so.                               *)
Knows(c) ==
    /\ call[c].op = "create" /\ call[c].pc # "lookup"
          => virtioCtrls[call[c].id] = None
    /\ call[c].op = "delete" /\ call[c].pc # "lookup"
          => virtioCtrls[call[c].id] # None

SerialInv == SerialCalls /\ \A c \in Calls : Knows(c)

(* SNAP has one controller of a name, and one at a function.               *)
OneEach == \A x, y \in snapVirtio : x[1] = y[1] \/ x[2] = y[2] => x = y

(* An object whose controller is gone is still in the map, and no other    *)
(* controller has come in its place.                                       *)
GoneOffSnap ==
    \A i \in gone : virtioCtrls[i] # None /\ \A x \in snapVirtio : x[1] # i

(* What a create is about to store is on SNAP.                             *)
HeldOnSnap ==
    \A c \in Calls :
        At(c, "create", "save") =>
            <<SnapName(call[c].id, call[c].pf), call[c].pf>> \in snapVirtio

(* The ids among the names on SNAP are those SNAP takes.                   *)
NamesTaken == \A x \in snapVirtio : x[1] \in SerialNames \cup {x[2]}

(* No two of the live objects, and of the creates about to store theirs,   *)
(* have one function.                                                      *)
OnePf ==
    /\ LivePfsUnique
    /\ \A c \in Calls : \A i \in VirtioIds :
          At(c, "create", "save") /\ LiveVirtio(i) => virtioCtrls[i] # call[c].pf
    /\ \A c, d \in Calls :
          /\ At(c, "create", "save") /\ At(d, "create", "save")
          /\ call[c].pf = call[d].pf
          => c = d

SnapInv ==
    /\ OneEach /\ NamesTaken /\ GoneOffSnap
    /\ HeldOnSnap /\ LiveVirtioOnSnap /\ OnePf

(* A get has taken note of what it should answer now, and its answer is    *)
(* one it has taken note of.                                               *)
GetInv ==
    /\ GetInFlight => Answer(get.id) \in seen
    /\ GetsConsistent

Inv == TypeInv /\ SerialInv /\ SnapInv

-----------------------------------------------------------------------------
(* A step of call c that keeps the objects of other ids keeps SerialInv    *)
(* when what c itself knows afterwards is so.                              *)
LEMMA SerialKept ==
    ASSUME TypeInv, SerialInv, NEW c \in Calls, call[c].op # None, Control(c),
           \A i \in VirtioIds : i # call[c].id => virtioCtrls'[i] = virtioCtrls[i],
           Knows(c)'
    PROVE  SerialInv'
<1>1. SerialCalls'
  BY DEF SerialInv, SerialCalls, Control, OthersKept, Idle
<1>2. ASSUME NEW d \in Calls, d # c PROVE Knows(d)'
  <2>1. call'[d] = call[d] /\ Knows(d)
    BY <1>2 DEF Control, OthersKept, SerialInv
  <2>2. CASE call[d].op = None
    BY <2>1, <2>2, VirtioAssumption DEF Knows
  <2>3. CASE call[d].op # None
    <3>1. call[d].id \in VirtioIds /\ call[d].id # call[c].id
      BY <1>2, <2>3, VirtioAssumption
      DEF TypeInv, CallFits, SerialInv, SerialCalls
    <3> QED
      BY <2>1, <3>1 DEF Knows
  <2> QED
    BY <2>2, <2>3
<1> QED
  BY <1>1, <1>2 DEF SerialInv

(* A call that is over knows nothing and holds nothing.                    *)
LEMMA IdleKnows ==
    ASSUME NEW c \in Calls, call'[c] = Idle
    PROVE  Knows(c)' /\ \A op \in {"create", "delete"} : \A pc : ~At(c, op, pc)'
BY VirtioAssumption DEF Knows, Idle, At

(* A request is let in when no other for its id is in flight.              *)
LEMMA BeginKeeps ==
    ASSUME TypeInv, SerialInv, SnapInv, ~Overlap, NEW c \in Calls,
           NEW op \in {"create", "delete"}, NEW i \in VirtioIds,
           NEW f \in Pfs \cup {None}, Begin(c, op, i, f)
    PROVE  SerialInv' /\ SnapInv'
<1>1. /\ OthersKept(c) /\ call'[c].pc = "lookup" /\ call'[c].id = i
      /\ UNCHANGED things
  BY BeginFacts
<1>2. \A d \in Calls : call[d].id # i
  BY DEF Begin
<1>3. SerialCalls'
  BY <1>1, <1>2 DEF SerialInv, SerialCalls, OthersKept
<1>4. \A d \in Calls : Knows(d)'
  BY <1>1 DEF SerialInv, Knows, OthersKept, things
<1>5. SnapInv'
  BY <1>1
  DEF SnapInv, OneEach, NamesTaken, GoneOffSnap, HeldOnSnap,
      LiveVirtioOnSnap, OnePf, LivePfsUnique, LiveVirtio, At, OthersKept, things
<1> QED
  BY <1>3, <1>4, <1>5 DEF SerialInv

(* A step that changes nothing but its call, and takes nothing in hand.    *)
LEMMA QuietKeeps ==
    ASSUME TypeInv, SerialInv, SnapInv, NEW c \in Calls, call[c].op # None,
           Control(c), UNCHANGED things, Knows(c)', ~At(c, "create", "save")'
    PROVE  SerialInv' /\ SnapInv'
<1>1. SerialInv'
  BY SerialKept DEF things
<1>2. SnapInv'
  BY DEF SnapInv, OneEach, NamesTaken, GoneOffSnap, HeldOnSnap,
         LiveVirtioOnSnap, OnePf, LivePfsUnique, LiveVirtio,
         At, Control, OthersKept, things
<1> QED
  BY <1>1, <1>2

(* The lookups: what they find is what they know.                          *)
LEMMA LookupKeeps ==
    ASSUME TypeInv, SerialInv, SnapInv, NEW c \in Calls,
           CreateLookup(c) \/ DeleteLookup(c)
    PROVE  SerialInv' /\ SnapInv'
<1>1. UNCHANGED things /\ call[c].op \in {"create", "delete"} /\ Control(c)
  BY ControlFacts DEF CreateLookup, DeleteLookup, At
<1>2. Knows(c)' /\ ~At(c, "create", "save")'
  <2>1. CASE Return(c)
    BY <2>1, IdleKnows, ReturnFacts
  <2>2. CASE CreateLookup(c) /\ Goto(c, "snap") /\ virtioCtrls[call[c].id] = None
    BY <1>1, <2>2, GotoFacts DEF CreateLookup, Knows, At, things
  <2>3. CASE DeleteLookup(c) /\ Goto(c, "snap") /\ virtioCtrls[call[c].id] # None
    BY <1>1, <2>3, GotoFacts DEF DeleteLookup, Knows, At, things
  <2> QED
    BY <2>1, <2>2, <2>3 DEF CreateLookup, DeleteLookup
<1> QED
  BY <1>1, <1>2, QuietKeeps, VirtioAssumption

(* A create on SNAP: there is no object, so that no controller is gone.    *)
LEMMA CreateOnSnapKeeps ==
    ASSUME TypeInv, SerialInv, SnapInv, NEW c \in Calls, CreateOnSnap(c)
    PROVE  SerialInv' /\ SnapInv'
<1>1. /\ call[c].op = "create" /\ call[c].pc = "snap" /\ Control(c)
      /\ call[c].id \in VirtioIds /\ virtioCtrls[call[c].id] = None
      /\ call[c].pf \in Pfs /\ gone \subseteq VirtioIds
      /\ UNCHANGED <<virtioCtrls, gone>>
  BY ControlFacts, VirtioAssumption
  DEF CreateOnSnap, At, TypeInv, VirtioTypeOK, CallFits, SerialInv, Knows
<1>2. Knows(c)'
  BY <1>1, IdleKnows, VirtioAssumption DEF Control, Knows
<1>3. SerialInv'
  BY <1>1, <1>2, SerialKept, VirtioAssumption
<1>4. CASE UNCHANGED snapVirtio /\ Return(c)
  <2>1. ~At(c, "create", "save")'
    BY <1>4, IdleKnows, ReturnFacts
  <2> QED
    BY <1>1, <1>2, <1>4, <2>1, QuietKeeps, VirtioAssumption DEF things
<1>5. CASE SnapCreateVirtio(call[c].id, call[c].pf)
  <2>1. OneEach'
    BY <1>5 DEF SnapCreateVirtio, SnapInv, OneEach
  <2>2. GoneOffSnap'
    BY <1>1, <1>5, SnapNames DEF SnapCreateVirtio, SnapInv, GoneOffSnap
  <2>3. HeldOnSnap'
    BY <1>1, <1>5, IdleKnows
    DEF SnapCreateVirtio, SnapInv, HeldOnSnap, At, Control, OthersKept
  <2>4. LiveVirtioOnSnap'
    BY <1>1, <1>5 DEF SnapCreateVirtio, SnapInv, LiveVirtioOnSnap, LiveVirtio
  <2>5. NamesTaken'
    BY <1>1, <1>5 DEF SnapCreateVirtio, SnapInv, NamesTaken, SnapName
  <2>6. OnePf'
    <3>1. \A i \in VirtioIds : LiveVirtio(i) => virtioCtrls[i] # call[c].pf
      BY <1>5 DEF SnapCreateVirtio, SnapInv, LiveVirtioOnSnap
    <3>2. \A d \in Calls : At(d, "create", "save") => call[d].pf # call[c].pf
      BY <1>5 DEF SnapCreateVirtio, SnapInv, HeldOnSnap
    <3>3. call'[c] = Idle \/ call'[c].pf = call[c].pf
      BY <1>1 DEF Control
    <3>4. UNCHANGED <<virtioCtrls, gone>>
      BY <1>1
    <3> QED
      BY <1>1, <3>1, <3>2, <3>3, <3>4, IdleKnows
      DEF SnapInv, OnePf, LivePfsUnique, LiveVirtio, At, Control, OthersKept
  <2> QED
    BY <1>3, <2>1, <2>2, <2>3, <2>4, <2>5, <2>6 DEF SnapInv
<1> QED
  BY <1>4, <1>5 DEF CreateOnSnap

(* The object a create stores is what it holds on SNAP.                    *)
LEMMA CreateSaveKeeps ==
    ASSUME TypeInv, SerialInv, SnapInv, NEW c \in Calls, CreateSave(c)
    PROVE  SerialInv' /\ SnapInv'
<1>1. /\ call[c].op = "create" /\ Control(c) /\ call'[c] = Idle
      /\ call[c].id \in VirtioIds /\ virtioCtrls[call[c].id] = None
      /\ <<SnapName(call[c].id, call[c].pf), call[c].pf>> \in snapVirtio
      /\ UNCHANGED <<snapVirtio, gone>>
  BY ControlFacts, ReturnFacts, VirtioAssumption
  DEF CreateSave, At, TypeInv, CallFits, SerialInv, Knows, SnapInv, HeldOnSnap
<1>2. /\ virtioCtrls'[call[c].id] = call[c].pf
      /\ \A i \in VirtioIds : i # call[c].id => virtioCtrls'[i] = virtioCtrls[i]
  BY <1>1 DEF CreateSave, TypeInv, VirtioTypeOK
<1>3. SerialInv'
  BY <1>1, <1>2, SerialKept, IdleKnows, VirtioAssumption
<1>4. call[c].id \notin gone /\ gone \subseteq VirtioIds
  BY <1>1 DEF SnapInv, GoneOffSnap, TypeInv, VirtioTypeOK
<1>5. OneEach' /\ GoneOffSnap'
  BY <1>1, <1>2, <1>4 DEF SnapInv, OneEach, GoneOffSnap
<1>6. HeldOnSnap'
  BY <1>1, IdleKnows DEF SnapInv, HeldOnSnap, At, Control, OthersKept
<1>7. LiveVirtioOnSnap' /\ NamesTaken'
  BY <1>1, <1>2 DEF SnapInv, LiveVirtioOnSnap, LiveVirtio, NamesTaken
<1>8. OnePf'
  <2>1. \A i \in VirtioIds : LiveVirtio(i) => virtioCtrls[i] # call[c].pf
    BY <1>1 DEF CreateSave, SnapInv, OnePf
  <2>2. \A d \in Calls \ {c} :
           At(d, "create", "save") => call[d].pf # call[c].pf
    BY <1>1 DEF CreateSave, SnapInv, OnePf
  <2>3. \A d \in Calls \ {c} : call'[d] = call[d]
    BY <1>1 DEF Control, OthersKept
  <2> QED
    BY <1>1, <1>2, <2>1, <2>2, <2>3, IdleKnows
    DEF SnapInv, OnePf, LivePfsUnique, LiveVirtio, At
<1> QED
  BY <1>3, <1>5, <1>6, <1>7, <1>8 DEF SnapInv

(* What a delete takes off SNAP is gone, and no other's.                   *)
LEMMA DeleteOnSnapKeeps ==
    ASSUME TypeInv, SerialInv, SnapInv, NEW c \in Calls, DeleteOnSnap(c)
    PROVE  SerialInv' /\ SnapInv'
<1>1. /\ call[c].op = "delete" /\ Control(c)
      /\ call[c].id \in VirtioIds /\ virtioCtrls[call[c].id] # None
      /\ UNCHANGED virtioCtrls /\ ~At(c, "create", "save")'
  BY ControlFacts, IdleKnows, VirtioAssumption
  DEF DeleteOnSnap, At, TypeInv, CallFits, SerialInv, Knows, Control
<1>2. Knows(c)'
  BY <1>1, IdleKnows DEF Control, Knows
<1>3. SerialInv'
  BY <1>1, <1>2, SerialKept, VirtioAssumption
<1>4. CASE UNCHANGED <<snapVirtio, gone>>
  BY <1>1, <1>2, <1>4, QuietKeeps, VirtioAssumption DEF things
<1>5. CASE SnapDeleteVirtio(call[c].id) /\ gone' = gone \cup {call[c].id}
  <2>1. snapVirtio' = {x \in snapVirtio : x[1] # call[c].id}
    BY <1>5 DEF SnapDeleteVirtio
  <2>2. OneEach' /\ GoneOffSnap'
    BY <1>1, <1>5, <2>1 DEF SnapInv, OneEach, GoneOffSnap
  <2>3. HeldOnSnap'
    <3> SUFFICES ASSUME NEW d \in Calls, At(d, "create", "save")'
                 PROVE  <<SnapName(call'[d].id, call'[d].pf), call'[d].pf>>
                            \in snapVirtio'
      BY DEF HeldOnSnap
    <3>1. /\ d # c /\ call'[d] = call[d] /\ call[d].op # None
          /\ call[d].id \in VirtioIds /\ call[d].pf \in Pfs
      BY <1>1, VirtioAssumption DEF Control, OthersKept, At, TypeInv, CallFits
    <3>2. call[d].id # call[c].id
      BY <1>1, <3>1, VirtioAssumption DEF SerialInv, SerialCalls
    <3> QED
      BY <1>1, <2>1, <3>1, <3>2, SnapNames DEF SnapInv, HeldOnSnap, At
  <2>4. LiveVirtioOnSnap'
    BY <1>1, <1>5, <2>1, SnapNames
    DEF SnapInv, LiveVirtioOnSnap, LiveVirtio, TypeInv, VirtioTypeOK
  <2>5. NamesTaken' /\ OnePf'
    BY <1>1, <1>5, <2>1
    DEF SnapInv, NamesTaken, OnePf, LivePfsUnique, LiveVirtio, At, Control, OthersKept
  <2> QED
    BY <1>3, <2>2, <2>3, <2>4, <2>5 DEF SnapInv
<1> QED
  BY <1>4, <1>5 DEF DeleteOnSnap

(* The object a delete erases leaves with what was gone of it.             *)
LEMMA DeleteEraseKeeps ==
    ASSUME TypeInv, SerialInv, SnapInv, NEW c \in Calls, DeleteErase(c)
    PROVE  SerialInv' /\ SnapInv'
<1>1. /\ call[c].op = "delete" /\ Control(c) /\ call'[c] = Idle
      /\ call[c].id \in VirtioIds
      /\ UNCHANGED snapVirtio /\ gone' = gone \ {call[c].id}
  BY ControlFacts, ReturnFacts, VirtioAssumption
  DEF DeleteErase, At, TypeInv, CallFits
<1>2. /\ virtioCtrls'[call[c].id] = None
      /\ \A i \in VirtioIds : i # call[c].id => virtioCtrls'[i] = virtioCtrls[i]
  BY <1>1 DEF DeleteErase, TypeInv, VirtioTypeOK
<1>3. SerialInv'
  BY <1>1, <1>2, SerialKept, IdleKnows, VirtioAssumption
<1>4. gone \subseteq VirtioIds
  BY DEF TypeInv, VirtioTypeOK
<1>5. OneEach' /\ GoneOffSnap'
  BY <1>1, <1>2, <1>4 DEF SnapInv, OneEach, GoneOffSnap
<1>6. HeldOnSnap'
  BY <1>1, IdleKnows DEF SnapInv, HeldOnSnap, At, Control, OthersKept
<1>7. LiveVirtioOnSnap' /\ NamesTaken'
  BY <1>1, <1>2 DEF SnapInv, LiveVirtioOnSnap, LiveVirtio, NamesTaken
<1>8. OnePf'
  BY <1>1, <1>2, IdleKnows
  DEF SnapInv, OnePf, LivePfsUnique, LiveVirtio, At, Control, OthersKept
<1> QED
  BY <1>3, <1>5, <1>6, <1>7, <1>8 DEF SnapInv

-----------------------------------------------------------------------------
(* The steps of creates and deletes keep the invariant.                    *)
LEMMA StepKeeps ==
    ASSUME TypeInv, SerialInv, SnapInv, ~Overlap, NEW c \in Calls, VirtioStep(c)
    PROVE  SerialInv' /\ SnapInv'
<1>1. CASE \/ \E i \in VirtioIds, f \in Pfs : Begin(c, "create", i, f)
           \/ \E i \in VirtioIds : Begin(c, "delete", i, None)
  BY <1>1, BeginKeeps
<1>2. CASE CreateLookup(c) \/ DeleteLookup(c)
  BY <1>2, LookupKeeps
<1>3. CASE CreateOnSnap(c)
  BY <1>3, CreateOnSnapKeeps
<1>4. CASE CreateSave(c)
  BY <1>4, CreateSaveKeeps
<1>5. CASE DeleteOnSnap(c)
  BY <1>5, DeleteOnSnapKeeps
<1>6. CASE DeleteErase(c)
  BY <1>6, DeleteEraseKeeps
<1> QED
  BY <1>1, <1>2, <1>3, <1>4, <1>5, <1>6 DEF VirtioStep

(* Only creates, deletes and restarts change what the invariant is about.  *)
LEMMA ThingsKeep ==
    ASSUME SerialInv, SnapInv, UNCHANGED <<things, call>>
    PROVE  SerialInv' /\ SnapInv'
BY DEF SerialInv, SerialCalls, Knows, SnapInv, OneEach, NamesTaken, GoneOffSnap,
       HeldOnSnap, LiveVirtioOnSnap, OnePf, LivePfsUnique, LiveVirtio, At, things

(* A restart loses the objects and the calls, so that nothing is live.     *)
LEMMA RestartKeeps ==
    ASSUME SnapInv, Restart
    PROVE  SerialInv' /\ SnapInv'
<1>1. \A c \in Calls : call'[c] = Idle
  BY DEF Restart
<1>2. SerialInv'
  BY <1>1, IdleKnows DEF SerialInv, SerialCalls, Idle
<1>3. SnapInv'
  BY <1>1, IdleKnows
  DEF Restart, SnapInv, OneEach, NamesTaken, GoneOffSnap, HeldOnSnap,
      LiveVirtioOnSnap, OnePf, LivePfsUnique, LiveVirtio
<1> QED
  BY <1>2, <1>3

(* The invariant holds at the start ...                                    *)
LEMMA InitInv == Init => Inv
<1> SUFFICES ASSUME Init PROVE Inv
  OBVIOUS
<1>1. SerialInv
  BY VirtioAssumption DEF Init, SerialInv, SerialCalls, Knows, Idle
<1>2. SnapInv
  BY VirtioAssumption
  DEF Init, SnapInv, OneEach, NamesTaken, GoneOffSnap, HeldOnSnap,
      LiveVirtioOnSnap, OnePf, LivePfsUnique, LiveVirtio, At, Idle
<1> QED
  BY <1>1, <1>2, InitTypes DEF Inv

(* ... and after each step.                                                *)
LEMMA NextInv ==
    ASSUME Inv, ~Overlap, [Next]_vars
    PROVE  Inv'
<1>1. CASE Restart
  BY <1>1, RestartKeeps, NextTypes DEF Inv
<1>2. CASE GetStep /\ UNCHANGED <<things, call>>
  BY <1>2, ThingsKeep, NextTypes DEF Inv
<1>3. CASE \E c \in Calls : VirtioStep(c)
  BY <1>3, StepKeeps, NextTypes DEF Inv
<1>4. CASE UNCHANGED vars
  BY <1>4, ThingsKeep, NextTypes DEF Inv, vars
<1> QED
  BY <1>1, <1>2, <1>3, <1>4 DEF Next

(* The inductive invariant: what handlers know, what SNAP has one of, and  *)
(* where each live object's controller is.                                 *)
THEOREM VirtioInvCorrect ==
    ASSUME ~Overlap
    PROVE  Spec => []Inv
BY InitInv, NextInv, PTL DEF Spec

(* Two live objects never claim one physical function, as SNAP gives it to *)
(* one and no other object has it by then.                                 *)
THEOREM PfsUnique ==
    ASSUME ~Overlap
    PROVE  Spec => []LivePfsUnique
<1>1. Inv => LivePfsUnique
  BY DEF Inv, SnapInv, OnePf
<1> QED
  BY <1>1, VirtioInvCorrect, PTL

-----------------------------------------------------------------------------
(* Only a delete takes something off SNAP.                                 *)
LEMMA OnlyDeletesTake ==
    ASSUME NEW c \in Calls, VirtioStep(c), NEW x \in snapVirtio \ snapVirtio'
    PROVE  DeleteOnSnap(c) /\ x[1] = call[c].id
BY DEF VirtioStep, Begin, CreateLookup, CreateOnSnap, CreateSave, DeleteLookup,
       DeleteOnSnap, DeleteErase, SnapCreateVirtio, SnapDeleteVirtio, things

(* What leaves SNAP is the controller of an object, at the object's own    *)
(* function: the id a delete sends still names what it found in the map.   *)
THEOREM LosesOnlyObjects ==
    ASSUME ~Overlap
    PROVE  Spec => SnapLosesOnlyObjects
<1>1. ASSUME Inv, [Next]_vars
      PROVE  [OnlyObjectsLeaveSnap]_vars
  <2> SUFFICES ASSUME NEW x \in snapVirtio \ snapVirtio'
               PROVE  x[1] \in VirtioIds /\ virtioCtrls[x[1]] = x[2]
    BY DEF OnlyObjectsLeaveSnap
  <2>1. PICK c \in Calls : VirtioStep(c)
    BY <1>1 DEF Next, Restart, vars, things
  <2>2. DeleteOnSnap(c) /\ x[1] = call[c].id
    BY <2>1, OnlyDeletesTake
  <2>3. x[1] \in VirtioIds /\ virtioCtrls[x[1]] # None
    BY <1>1, <2>2, VirtioAssumption
    DEF DeleteOnSnap, At, Inv, TypeInv, CallFits, SerialInv, Knows
  <2>4. LiveVirtio(x[1])
    BY <1>1, <2>3 DEF Inv, SnapInv, GoneOffSnap, LiveVirtio
  <2>5. PICK y \in snapVirtio : /\ y[1] = SnapName(x[1], virtioCtrls[x[1]])
                                /\ y[2] = virtioCtrls[x[1]]
    BY <1>1, <2>3, <2>4 DEF Inv, SnapInv, LiveVirtioOnSnap
  <2>6. CASE x[1] \in SerialNames
    BY <1>1, <2>3, <2>5, <2>6 DEF Inv, SnapInv, OneEach, SnapName
  <2>7. CASE x[1] \notin SerialNames
    BY <1>1, <2>3, <2>7, VirtioAssumption
    DEF Inv, SnapInv, NamesTaken, TypeInv, VirtioTypeOK
  <2> QED
    BY <2>3, <2>6, <2>7
<1> QED
  BY <1>1, VirtioInvCorrect, PTL DEF Spec, SnapLosesOnlyObjects

-----------------------------------------------------------------------------
(* Nothing has been answered at the start, and a free get answers nothing. *)
LEMMA NoGetInv == get = NoGet => ~GetInFlight /\ GetsConsistent
BY VirtioAssumption DEF NoGet, GetInFlight, GetsConsistent

(* The steps of a get: it looks at what it could answer at that moment,    *)
(* and SNAP's list shows no function of a live object but its own.         *)
LEMMA GetStepKeeps ==
    ASSUME Inv, GetInv, GetStep, UNCHANGED <<things, call>>
    PROVE  GetInv'
<1>1. \A i : Answer(i)' = Answer(i)
  BY DEF Answer, LiveVirtio, things
<1>2. CASE \E i \in VirtioIds : GetVirtioBegin(i)
  BY <1>1, <1>2 DEF GetVirtioBegin, GetInv, GetsConsistent
<1>3. CASE GetVirtioLookup
  <2>1. /\ get'.id = get.id /\ seen' = seen /\ Answer(get.id) \in seen
        /\ get'.pc = IF virtioCtrls[get.id] = None THEN "missing" ELSE "list"
    BY <1>3
    DEF GetVirtioLookup, GetInv, GetInFlight, Inv, TypeInv, VirtioTypeOK, VirtioGet
  <2>2. virtioCtrls[get.id] = None => Answer(get.id) = None
    BY DEF Answer, LiveVirtio
  <2> QED
    BY <1>1, <2>1, <2>2 DEF GetInv, GetsConsistent
<1>4. CASE GetVirtioList
  <2>1. Answer(get.id) \in seen /\ get.id \in VirtioIds
    BY <1>4 DEF GetVirtioList, GetInv, GetInFlight, Inv, TypeInv, GetFits
  <2>2. ASSUME NEW x \in snapVirtio, x[1] = get.id,
               get' = [get EXCEPT !.pc = "found", !.pf = x[2]], UNCHANGED seen
        PROVE  GetInv'
    <3>1. Answer(get.id) \in {x[2], None}
      <4>1. LiveVirtio(get.id) => <<get.id, virtioCtrls[get.id]>> = x
        <5>1. get.id \in SerialNames
          BY <2>1, <2>2, VirtioAssumption
          DEF Inv, SnapInv, NamesTaken, TypeInv, VirtioTypeOK
        <5> QED
          BY <2>1, <2>2, <5>1
          DEF Inv, SnapInv, OneEach, LiveVirtioOnSnap, SnapName
      <4> QED
        BY <4>1 DEF Answer
    <3>2. get'.pc = "found" /\ get'.pf = x[2]
      BY <2>2 DEF Inv, TypeInv, VirtioTypeOK, VirtioGet
    <3> QED
      BY <2>1, <2>2, <3>1, <3>2 DEF GetInv, GetInFlight, GetsConsistent
  <2>3. ASSUME \A x \in snapVirtio : x[1] # get.id,
               get' = [get EXCEPT !.pc = "missing"], UNCHANGED seen
        PROVE  GetInv'
    <3>1. get.id \in SerialNames => Answer(get.id) = None
      BY <2>1, <2>3 DEF Inv, SnapInv, LiveVirtioOnSnap, Answer, SnapName
    <3>2. get'.pc = "missing"
      BY <2>3 DEF Inv, TypeInv, VirtioTypeOK, VirtioGet
    <3> QED
      BY <2>1, <2>3, <3>1, <3>2 DEF GetInv, GetInFlight, GetsConsistent
  <2>4. ASSUME get' = NoGet
        PROVE  GetInv'
    BY <2>4, VirtioAssumption DEF NoGet, GetInv, GetInFlight, GetsConsistent
  <2> QED
    BY <1>4, <2>2, <2>3, <2>4 DEF GetVirtioList
<1> QED
  BY <1>2, <1>3, <1>4 DEF GetStep

(* An answered get tells a function its object has had meanwhile, or the   *)
(* object was gone for a while; a miss is right at some moment of the get. *)
THEOREM GetsCorrect ==
    ASSUME ~Overlap
    PROVE  Spec => []GetsConsistent
<1>1. Init => GetInv
  BY NoGetInv DEF Init, GetInv
<1>2. ASSUME Inv, GetInv, [Next]_vars
      PROVE  GetInv'
  <2>1. ASSUME get' = NoGet PROVE GetInv'
    BY <2>1, VirtioAssumption DEF NoGet, GetInv, GetInFlight, GetsConsistent
  <2>2. CASE Restart
    BY <2>1, <2>2 DEF Restart
  <2>3. CASE GetStep /\ UNCHANGED <<things, call>>
    BY <1>2, <2>3, GetStepKeeps
  <2>4. CASE Noted
    <3>1. CASE GetInFlight
      BY <2>4, <3>1, VirtioAssumption DEF Noted, GetInv, GetInFlight, GetsConsistent
    <3> QED
      BY <2>1, <2>4, <3>1 DEF Noted
  <2>5. CASE UNCHANGED vars
    BY <1>2, <2>5
    DEF vars, things, reading, GetInv, GetInFlight, GetsConsistent, Answer, LiveVirtio
  <2> QED
    BY <1>2, <2>2, <2>3, <2>4, <2>5 DEF Next
<1>3. GetInv => GetsConsistent
  BY DEF GetInv
<1> QED
  BY <1>1, <1>2, <1>3, VirtioInvCorrect, PTL DEF Spec
-----------------------------------------------------------------------------
TableStep == Table!TableNext \/ UNCHANGED LiveObjects

(* The table changes only where the answer about an object does.           *)
LEMMA OthersStay ==
    ASSUME NEW i \in VirtioIds,
           \A j \in VirtioIds : j # i => Answer(j)' = Answer(j)
    PROVE  LiveObjects' = [LiveObjects EXCEPT ![i] = Answer(i)']
BY DEF LiveObjects

(* A step that changes no answer is none of the table's.                   *)
LEMMA SameAnswersStutter ==
    ASSUME \A j \in VirtioIds : Answer(j)' = Answer(j)
    PROVE  UNCHANGED LiveObjects
BY DEF LiveObjects

(* An object that leaves is deleted; one that was not live leaves unseen.  *)
LEMMA LeavingDeletes ==
    ASSUME NEW i \in VirtioIds, Answer(i)' = None,
           \A j \in VirtioIds : j # i => Answer(j)' = Answer(j)
    PROVE  TableStep
<1>1. CASE Answer(i) = None
  BY <1>1, SameAnswersStutter DEF TableStep
<1>2. CASE Answer(i) # None
  <2>1. LiveObjects[i] # None
    BY <1>2 DEF LiveObjects
  <2>2. LiveObjects' = [LiveObjects EXCEPT ![i] = None]
    BY OthersStay
  <2> QED
    BY <2>1, <2>2 DEF TableStep, Table!TableNext, Table!DeleteObject
<1> QED
  BY <1>1, <1>2

(* A create takes effect when it stores its object: the id is free, and so *)
(* is the function, which SNAP has given to no live object.                *)
LEMMA SaveCreates ==
    ASSUME Inv, NEW c \in Calls, CreateSave(c)
    PROVE  TableStep
<1> SUFFICES ASSUME NEW i, NEW f, i = call[c].id, f = call[c].pf
             PROVE  TableStep
  OBVIOUS
<1>1. /\ i \in VirtioIds /\ f \in Pfs /\ virtioCtrls[i] = None
      /\ i \notin gone /\ gone' = gone
      /\ \A j \in VirtioIds : LiveVirtio(j) => virtioCtrls[j] # f
  BY VirtioAssumption
  DEF CreateSave, At, Inv, TypeInv, CallFits, SerialInv, Knows, SnapInv,
      OnePf, GoneOffSnap
<1>2. /\ virtioCtrls'[i] = f
      /\ \A j \in VirtioIds : j # i => virtioCtrls'[j] = virtioCtrls[j]
  BY <1>1 DEF CreateSave, Inv, TypeInv, VirtioTypeOK
<1>3. /\ Answer(i) = None /\ Answer(i)' = f
      /\ \A j \in VirtioIds : j # i => Answer(j)' = Answer(j)
  BY <1>1, <1>2, VirtioAssumption DEF Answer, LiveVirtio
<1>4. \A j \in VirtioIds : Answer(j) # f
  BY <1>1, VirtioAssumption DEF Answer
<1>5. LiveObjects[i] = None /\ \A j \in VirtioIds : LiveObjects[j] # f
  BY <1>1, <1>3, <1>4 DEF LiveObjects
<1>6. LiveObjects' = [LiveObjects EXCEPT ![i] = f]
  BY <1>1, <1>3, OthersStay
<1>7. Table!CreateObject(i, f)
  BY <1>5, <1>6 DEF Table!CreateObject
<1> QED
  BY <1>1, <1>7 DEF TableStep, Table!TableNext

(* A delete takes effect when SNAP obeys ...                               *)
LEMMA SnapDeletes ==
    ASSUME Inv, NEW c \in Calls, DeleteOnSnap(c)
    PROVE  TableStep
<1> SUFFICES ASSUME NEW i, i = call[c].id
             PROVE  TableStep
  OBVIOUS
<1>1. i \in VirtioIds /\ virtioCtrls' = virtioCtrls
  BY VirtioAssumption DEF DeleteOnSnap, At, Inv, TypeInv, CallFits
<1>2. CASE gone' = gone
  BY <1>1, <1>2, SameAnswersStutter DEF Answer, LiveVirtio, TableStep
<1>3. CASE gone' = gone \cup {i}
  <2>1. /\ Answer(i)' = None
        /\ \A j \in VirtioIds : j # i => Answer(j)' = Answer(j)
    BY <1>1, <1>3 DEF Answer, LiveVirtio
  <2> QED
    BY <1>1, <2>1, LeavingDeletes
<1> QED
  BY <1>2, <1>3 DEF DeleteOnSnap

(* ... or else when it erases the object.                                  *)
LEMMA EraseDeletes ==
    ASSUME Inv, NEW c \in Calls, DeleteErase(c)
    PROVE  TableStep
<1> SUFFICES ASSUME NEW i, i = call[c].id
             PROVE  TableStep
  OBVIOUS
<1>1. i \in VirtioIds /\ gone' = gone \ {i}
  BY VirtioAssumption DEF DeleteErase, At, Inv, TypeInv, CallFits
<1>2. /\ virtioCtrls'[i] = None
      /\ \A j \in VirtioIds : j # i => virtioCtrls'[j] = virtioCtrls[j]
  BY <1>1 DEF DeleteErase, Inv, TypeInv, VirtioTypeOK
<1>3. /\ Answer(i)' = None
      /\ \A j \in VirtioIds : j # i => Answer(j)' = Answer(j)
  BY <1>1, <1>2 DEF Answer, LiveVirtio
<1> QED
  BY <1>1, <1>3, LeavingDeletes

(* Every step is a step of the table or leaves it alone.                   *)
LEMMA NextTable ==
    ASSUME Inv, [Next]_vars
    PROVE  TableStep
<1>1. ASSUME virtioCtrls' = virtioCtrls, gone' = gone
      PROVE  TableStep
  BY <1>1, SameAnswersStutter DEF Answer, LiveVirtio, TableStep
<1>2. CASE Restart
  <2>1. LiveObjects' = [i \in VirtioIds |-> None]
    BY <1>2 DEF Restart, LiveObjects, Answer, LiveVirtio
  <2> QED
    BY <2>1 DEF TableStep, Table!TableNext, Table!LoseObjects, Table!Empty
<1>3. CASE GetStep /\ UNCHANGED <<things, call>>
  BY <1>1, <1>3 DEF things
<1>4. ASSUME NEW c \in Calls, VirtioStep(c)
      PROVE  TableStep
  <2>1. CASE CreateSave(c)
    BY <1>4, <2>1, SaveCreates
  <2>2. CASE DeleteOnSnap(c)
    BY <1>4, <2>2, SnapDeletes
  <2>3. CASE DeleteErase(c)
    BY <1>4, <2>3, EraseDeletes
  <2>4. CASE UNCHANGED things \/ CreateOnSnap(c)
    BY <1>1, <2>4 DEF CreateOnSnap, things
  <2> QED
    BY <1>4, <2>1, <2>2, <2>3, <2>4
    DEF VirtioStep, Begin, CreateLookup, DeleteLookup
<1>5. CASE UNCHANGED vars
  BY <1>1, <1>5 DEF vars, things
<1> QED
  BY <1>2, <1>3, <1>4, <1>5 DEF Next

(* Creates and deletes, step by step, with lost answers, ignored results   *)
(* and restarts, implement the table in which each is atomic.              *)
THEOREM HandlersImplementTable ==
    ASSUME ~Overlap
    PROVE  Spec => TableImplemented
<1>1. Init => Table!TableInit
  BY DEF Init, Table!TableInit, Table!Empty, LiveObjects, Answer, LiveVirtio
<1>2. Inv /\ [Next]_vars => [Table!TableNext]_LiveObjects
  BY NextTable DEF TableStep
<1> QED
  BY <1>1, <1>2, VirtioInvCorrect, PTL
  DEF Spec, TableImplemented, Table!TableSpec
=============================================================================
