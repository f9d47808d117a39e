---------------------------- MODULE NvmeOverlap -----------------------------
(***************************************************************************)
(* NvmeFrontend with calls that overlap as they like, and a history of     *)
(* which of them have met a rival.  The handlers hold no lock and keep     *)
(* working with what they read at their beginning; this module says how    *)
(* far the harm of that can go.                                            *)
(***************************************************************************)
EXTENDS NvmeFrontend

VARIABLE met    \* history: calls in flight that met a rival since they began

overlapVars == <<vars, met>>

(* Two calls in flight are rivals when they are about one name, or one is  *)
(* about the subsystem that the other's name is below.                     *)
Rivals(c, d) ==
    /\ c # d
    /\ call[c].op # None /\ call[d].op # None
    /\ call[c].sub = call[d].sub
    /\ \/ call[c].op \in SubsysOps \/ call[d].op \in SubsysOps
       \/ /\ call[c].id = call[d].id
          /\ \/ {call[c].op, call[d].op} \subseteq CtrlOps
             \/ {call[c].op, call[d].op} \subseteq NsOps

(* A call takes note of each rival it has while in flight.                 *)
NoteRivals ==
    met' = {c \in Calls :
              /\ call'[c].op # None
              /\ c \in met \/ \E d \in Calls : Rivals(c, d)'}

OverlapInit == Init /\ met = {}

OverlapNext == Next /\ NoteRivals

OverlapSpec == OverlapInit /\ [][OverlapNext]_overlapVars

-----------------------------------------------------------------------------
(* A call in flight takes one of the steps pcs.                            *)
Moves(c, pcs) == call[c].pc \in pcs /\ call'[c] # call[c]

(* A delete erases the record it has read, and not one stored since.       *)
ErasedAsRead ==
    /\ \A s \in SubsystemIds :
          subsysStore[s] # None /\ subsysStore'[s] = None =>
             \E c \in Calls : /\ At(c, "DeleteNvmeSubsystem", "erase")
                              /\ call[c].sub = s /\ call[c].nqn = subsysStore[s]
    /\ \A x \in CtrlNames :
          ctrlStore[x] # None /\ ctrlStore'[x] = None =>
             \E c \in Calls : /\ At(c, "DeleteNvmeController", "erase")
                              /\ CtrlKey(c) = x /\ call[c].num = ctrlStore[x]
    /\ \A x \in NsNames :
          nsStore[x] # None /\ nsStore'[x] = None =>
             \E c \in Calls : /\ At(c, "DeleteNvmeNamespace", "erase")
                              /\ NsKey(c) = x /\ call[c].num = nsStore[x]

(* Only a call that has met a rival, at some time between its look at the  *)
(* store and its write to it, replaces an object by a different one, or    *)
(* erases an object that is not the one it has read.                       *)
OnlyRivalsReplace ==
    [][\A c \in Calls \ met :
          Moves(c, {"save", "erase"}) => ObjectsKept /\ ErasedAsRead]_overlapVars

(* What call c changes on SNAP is its own: the subsystem whose record is   *)
(* stored now under the id in c's name or something below it, and of the   *)
(* children, if c deletes one, that which c's name is stored with now.     *)
ActsOnOwn(c) ==
    LET n == subsysStore[call[c].sub]
    IN  /\ snapSubsys \ snapSubsys' \subseteq {n}
        /\ \A x \in (snapCtrls \ snapCtrls') \cup (snapCtrls' \ snapCtrls) : x[1] = n
        /\ \A x \in (snapNs \ snapNs') \cup (snapNs' \ snapNs) : x[1] = n
        /\ call[c].op = "DeleteNvmeController" =>
              \A x \in snapCtrls \ snapCtrls' : x[2] = ctrlStore[CtrlKey(c)]
        /\ call[c].op = "DeleteNvmeNamespace" =>
              \A x \in snapNs \ snapNs' : x[3] = nsStore[NsKey(c)]

(* Only a call that has met a rival acts on SNAP by a record that is no    *)
(* longer so, taking away what another object names or making a child      *)
(* below another object's NQN: whatever breaks and whenever the process    *)
(* dies, and whatever the calls on other names do meanwhile.               *)
OnlyRivalsStray ==
    [][\A c \in Calls \ met : Moves(c, {"snap"}) => ActsOnOwn(c)]_overlapVars
=============================================================================
