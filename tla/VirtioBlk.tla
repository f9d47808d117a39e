------------------------------ MODULE VirtioBlk ------------------------------
(***************************************************************************)
(* CreateVirtioBlk, DeleteVirtioBlk and GetVirtioBlk, step by step.        *)
(* Unlike NVMe objects virtio-blk objects are kept in the map              *)
(* Server.VirtioCtrls only, which dies with the process; SNAP's            *)
(* controllers do not.                                                     *)
(*                                                                         *)
(* A create hands SNAP the id as a serial, a delete asks for the name that *)
(* holds the id, and a get looks for the id among SNAP's names.  How SNAP  *)
(* names a controller is SNAP's own affair: it may take the serial for the *)
(* name, or name the controller after its function, as the tests' answer   *)
(* to a create does, which the bridge throws away.                         *)
(*                                                                         *)
(* The answer of any SNAP call may get lost.  Gets change nothing, so that *)
(* one in flight stands for all, and nothing keeps it apart from creates   *)
(* and deletes of its id.                                                  *)
(***************************************************************************)
EXTENDS Naturals

CONSTANTS
    VirtioIds,      \* resource ids of virtio-blk objects
    Pfs,            \* PCI physical functions
    Calls,          \* slots for calls in flight
    SerialNames,    \* ids that SNAP takes for the names of their controllers
    None,           \* no value
    Overlap         \* may calls for one id overlap?

ASSUME VirtioAssumption ==
    /\ Overlap \in BOOLEAN
    /\ SerialNames \subseteq VirtioIds
    /\ VirtioIds \cap Pfs = {}
    /\ None \notin VirtioIds \cup Pfs
             \cup {"create", "delete", "lookup", "snap", "save", "erase",
                   "list", "found", "missing"}

VARIABLES
    virtioCtrls,    \* Server.VirtioCtrls: id -> physical function, or None
    snapVirtio,     \* SNAP: <<name, pf>> of its virtio-blk controllers
    gone,           \* history: ids of objects whose controller SNAP deleted
    call,           \* the creates and deletes in flight
    get,            \* the get in flight: next step, id and function it found
    seen            \* history: what the object of the get has been meanwhile

things  == <<virtioCtrls, snapVirtio, gone>>
reading == <<get, seen>>
vars    == <<things, call, reading>>

VirtioCall == [op : {"create", "delete", None},
               pc : {"lookup", "snap", "save", "erase", None},
               id : VirtioIds \cup {None},
               pf : Pfs \cup {None}]

Idle == [op |-> None, pc |-> None, id |-> None, pf |-> None]

VirtioGet == [pc : {"lookup", "list", "found", "missing", None},
              id : VirtioIds \cup {None},
              pf : Pfs \cup {None}]

NoGet == [pc |-> None, id |-> None, pf |-> None]

At(c, op, pc) == call[c].op = op /\ call[c].pc = pc
Goto(c, pc) == call' = [call EXCEPT ![c].pc = pc]
Return(c) == call' = [call EXCEPT ![c] = Idle]

-----------------------------------------------------------------------------
(* SNAP, as the handlers use it (an external service): a name and a        *)
(* physical function each have one controller.                             *)

(* The name of the controller made for id i at f; f stands for SNAP's own  *)
(* name for a controller there, which has upper-case letters as no id has. *)
SnapName(i, f) == IF i \in SerialNames THEN i ELSE f

SnapCreateVirtio(i, f) ==
    /\ \A x \in snapVirtio : x[1] # SnapName(i, f) /\ x[2] # f
    /\ snapVirtio' = snapVirtio \cup {<<SnapName(i, f), f>>}

SnapDeleteVirtio(i) ==
    /\ \E x \in snapVirtio : x[1] = i
    /\ snapVirtio' = {x \in snapVirtio : x[1] # i}

-----------------------------------------------------------------------------
(* A request that passes validation; pf is what it asks for (create only). *)
Begin(c, op, i, f) ==
    /\ call[c] = Idle
    /\ Overlap \/ \A d \in Calls : call[d].id # i
    /\ call' = [call EXCEPT ![c] = [op |-> op, pc |-> "lookup", id |-> i, pf |-> f]]
    /\ UNCHANGED things

(* s.VirtioCtrls[name]: an existing object is returned as it is.           *)
CreateLookup(c) ==
    /\ At(c, "create", "lookup")
    /\ IF virtioCtrls[call[c].id] = None THEN Goto(c, "snap") ELSE Return(c)
    /\ UNCHANGED things

(* Mutant: the empty name of a refusal is not looked at.                   *)
CreateIgnoresEmptyName(c) ==
    /\ At(c, "create", "snap")
    /\ SnapCreateVirtio(call[c].id, call[c].pf) \/ UNCHANGED snapVirtio
    /\ Goto(c, "save")
    /\ UNCHANGED <<virtioCtrls, gone>>

(* controller_virtio_blk_create: an error or an empty name refuses.  What  *)
(* name SNAP answers with is not kept.                                     *)
CreateOnSnap(c) ==
    /\ At(c, "create", "snap")
    /\ \/ /\ SnapCreateVirtio(call[c].id, call[c].pf)
          /\ Goto(c, "save") \/ Return(c)      \* the answer may get lost
       \/ UNCHANGED snapVirtio /\ Return(c)
    /\ UNCHANGED <<virtioCtrls, gone>>

(* Mutant: the object holds its id in the place of its physical function.  *)
CreateSavesId(c) ==
    /\ At(c, "create", "save")
    /\ virtioCtrls' = [virtioCtrls EXCEPT ![call[c].id] = call[c].id]
    /\ Return(c)
    /\ UNCHANGED <<snapVirtio, gone>>

(* s.VirtioCtrls[name] = response *)
CreateSave(c) ==
    /\ At(c, "create", "save")
    /\ virtioCtrls' = [virtioCtrls EXCEPT ![call[c].id] = call[c].pf]
    /\ Return(c)
    /\ UNCHANGED <<snapVirtio, gone>>

-----------------------------------------------------------------------------
(* Mutant: the name is handed to SNAP whether or not there is an object.   *)
DeleteWithoutRecord(c) ==
    /\ At(c, "delete", "lookup")
    /\ Goto(c, "snap")
    /\ UNCHANGED things

(* s.VirtioCtrls[name]: without an object there is nothing to do.          *)
DeleteLookup(c) ==
    /\ At(c, "delete", "lookup")
    /\ IF virtioCtrls[call[c].id] # None THEN Goto(c, "snap") ELSE Return(c)
    /\ UNCHANGED things

(* controller_virtio_blk_delete: SNAP has nothing to delete if it has not  *)
(* taken the id for the name.  An error ends the call, but a result of     *)
(* false is only logged and the handler goes on as if SNAP had obeyed.     *)
DeleteOnSnap(c) ==
    /\ At(c, "delete", "snap")
    /\ \/ SnapDeleteVirtio(call[c].id) /\ gone' = gone \cup {call[c].id}
       \/ UNCHANGED <<snapVirtio, gone>>
    /\ Goto(c, "erase") \/ Return(c)
    /\ UNCHANGED virtioCtrls

(* delete(s.VirtioCtrls, name) *)
DeleteErase(c) ==
    /\ At(c, "delete", "erase")
    /\ virtioCtrls' = [virtioCtrls EXCEPT ![call[c].id] = None]
    /\ gone' = gone \ {call[c].id}
    /\ Return(c)
    /\ UNCHANGED snapVirtio

-----------------------------------------------------------------------------
(* An object is live while no delete has taken its controller off SNAP.    *)
LiveVirtio(i) == virtioCtrls[i] # None /\ i \notin gone

(* What a get should answer: the object's function, or None for a miss.    *)
Answer(i) == IF LiveVirtio(i) THEN virtioCtrls[i] ELSE None

GetInFlight == get.pc \in {"lookup", "list"}

GetVirtioBegin(i) ==
    /\ ~GetInFlight
    /\ get' = [pc |-> "lookup", id |-> i, pf |-> None]
    /\ seen' = {Answer(i)}

(* s.VirtioCtrls[name]: all that is looked at is whether it is there.      *)
GetVirtioLookup ==
    /\ get.pc = "lookup"
    /\ get' = [get EXCEPT !.pc = IF virtioCtrls[get.id] = None
                                   THEN "missing" ELSE "list"]
    /\ UNCHANGED seen

(* Mutant: any virtio-blk controller of the list will do.                  *)
GetTakesAny ==
    /\ get.pc = "list"
    /\ \E x \in snapVirtio : get' = [get EXCEPT !.pc = "found", !.pf = x[2]]
    /\ UNCHANGED seen

(* controller_list and the loop over it, which compares SNAP's names with  *)
(* the id; an error ends the get.                                          *)
GetVirtioList ==
    /\ get.pc = "list"
    /\ \/ /\ \E x \in snapVirtio :
                x[1] = get.id /\ get' = [get EXCEPT !.pc = "found", !.pf = x[2]]
          /\ UNCHANGED seen
       \/ /\ \A x \in snapVirtio : x[1] # get.id
          /\ get' = [get EXCEPT !.pc = "missing"]
          /\ UNCHANGED seen
       \/ get' = NoGet /\ seen' = {}

(* A step of a create or delete.  The get in flight takes note of it; the  *)
(* answer of one that is over has been delivered.                          *)
Noted ==
    IF GetInFlight
      THEN UNCHANGED get /\ seen' = seen \cup {Answer(get.id)'}
      ELSE get' = NoGet /\ seen' = {}

-----------------------------------------------------------------------------
Init ==
    /\ virtioCtrls = [i \in VirtioIds |-> None]
    /\ snapVirtio = {} /\ gone = {}
    /\ call = [c \in Calls |-> Idle]
    /\ get = NoGet /\ seen = {}

(* The process dies and comes back: NewServer makes an empty map.  A death *)
(* is also how Go ends two handlers that touch the map at the same time.   *)
Restart ==
    /\ virtioCtrls' = [i \in VirtioIds |-> None]
    /\ gone' = {}
    /\ call' = [c \in Calls |-> Idle]
    /\ get' = NoGet /\ seen' = {}
    /\ UNCHANGED snapVirtio

VirtioStep(c) ==
    \/ \E i \in VirtioIds, f \in Pfs : Begin(c, "create", i, f)
    \/ CreateLookup(c)
    \/ CreateOnSnap(c)
    \/ CreateSave(c)
    \/ \E i \in VirtioIds : Begin(c, "delete", i, None)
    \/ DeleteLookup(c)
    \/ DeleteOnSnap(c)
    \/ DeleteErase(c)

GetStep ==
    \/ \E i \in VirtioIds : GetVirtioBegin(i)
    \/ GetVirtioLookup
    \/ GetVirtioList

Next ==
    \/ Restart
    \/ GetStep /\ UNCHANGED <<things, call>>
    \/ (\E c \in Calls : VirtioStep(c)) /\ Noted

Spec == Init /\ [][Next]_vars

-----------------------------------------------------------------------------
(* Every variable has its type.                                            *)
VirtioTypeOK ==
    /\ virtioCtrls \in [VirtioIds -> Pfs \cup {None}]
    /\ snapVirtio \subseteq (VirtioIds \cup Pfs) \X Pfs
    /\ gone \subseteq VirtioIds
    /\ call \in [Calls -> VirtioCall]
    /\ get \in VirtioGet
    /\ seen \subseteq Pfs \cup {None}

(* Every live object has its controller on SNAP, at the physical function  *)
(* the object tells.                                                       *)
LiveVirtioOnSnap ==
    \A i \in VirtioIds :
        LiveVirtio(i) =>
            <<SnapName(i, virtioCtrls[i]), virtioCtrls[i]>> \in snapVirtio

(* Two live objects never claim one physical function: the bridge does not *)
(* compare them, SNAP does, and a delete leaves none behind that SNAP has  *)
(* given the function of to another.                                       *)
LivePfsUnique ==
    \A i, j \in VirtioIds :
        LiveVirtio(i) /\ LiveVirtio(j) /\ virtioCtrls[i] = virtioCtrls[j] => i = j

(* No step takes a controller off SNAP that no object names: what a lost   *)
(* map has left on SNAP stays there.                                       *)
OnlyObjectsLeaveSnap ==
    \A x \in snapVirtio \ snapVirtio' :
        x[1] \in VirtioIds /\ virtioCtrls[x[1]] = x[2]

SnapLosesOnlyObjects == [][OnlyObjectsLeaveSnap]_vars

(* A get tells a function the object has had meanwhile, unless the object  *)
(* was gone for a while: its id may then be in SNAP's list on behalf of a  *)
(* create that has yet to store its object.  Where SNAP takes the id for   *)
(* the name, a miss is right at some moment of the get, although map and   *)
(* list are read one after the other; where it does not, a get misses even *)
(* what is there, as the bridge does not know what name to look for.       *)
GetsConsistent ==
    /\ get.pc = "found" => seen \cap {get.pf, None} # {}
    /\ get.pc = "missing" /\ get.id \in SerialNames => None \in seen

(* The live objects, each with what a get should answer.                   *)
LiveObjects == [i \in VirtioIds |-> Answer(i)]

Table == INSTANCE VirtioTable WITH objects <- LiveObjects

(* Creates and deletes look atomic, whatever answers get lost: a create    *)
(* takes effect when it stores its object, a delete when SNAP obeys or, if *)
(* SNAP has not and the handler goes on, when it erases the object; only a *)
(* restart takes more than one object away.                                *)
TableImplemented == Table!TableSpec
=============================================================================
