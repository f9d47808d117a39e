------------------------------ MODULE ListPages ------------------------------
(***************************************************************************)
(* ListNvmeSubsystems, ListNvmeControllers, ListNvmeNamespaces and         *)
(* ListVirtioBlks.  They have one shape: read the parent's record, if the  *)
(* method has a parent, ask SNAP for its list, cut a page out of it, enter *)
(* a token in Server.Pagination for what is left out, make API objects of  *)
(* the page's entries and sort them.  Meanwhile creates and deletes change *)
(* the parent's record and SNAP's list.                                    *)
(*                                                                         *)
(* No answer carries the token, so that clients have none to send but the  *)
(* empty one, which begins at the list's beginning; any other is refused.  *)
(***************************************************************************)
EXTENDS Naturals, Sequences, FiniteSets, SequencesExt

CONSTANTS
    Methods,        \* the list methods that are called
    Clients,        \* those who call, each one method at a time
    Nqns,           \* NQNs of subsystems
    Items,          \* what SNAP may list, numbered in the order of API names
    Below,          \* of each item: the NQN it is below, or None (virtio-blk)
    PageSizes,      \* page sizes asked for
    DefaultSize,    \* the page size that 0 stands for
    MaxSize,        \* the largest page
    MaxRestarts,    \* bound: deaths of the process
    None            \* no value

ParentMethods == {"ListNvmeControllers", "ListNvmeNamespaces"}

ListMethods == ParentMethods \cup {"ListNvmeSubsystems", "ListVirtioBlks"}

ASSUME ListAssumption ==
    /\ Methods \subseteq ListMethods
    /\ Items \subseteq Nat \ {0}
    /\ Below \in [Items -> Nqns \cup {None}]
    /\ PageSizes \subseteq Nat
    /\ MaxSize \in Nat \ {0} /\ DefaultSize \in 1..MaxSize
    /\ MaxRestarts \in Nat
    /\ None \notin ListMethods \cup Nqns \cup Seq(Items)

VARIABLES
    snapList,       \* SNAP: what it has, in the order in which it lists it
    parent,         \* the store: the NQN of the parent's record, or None
    pagination,     \* Server.Pagination: the offsets tokens were entered for
    restarts,       \* deaths of the process so far
    call,           \* of each client: its call in flight
    answer,         \* of each client: the answer to its last call
    meanwhile       \* history: what was so during each client's last call

vars == <<snapList, parent, pagination, restarts, call, answer, meanwhile>>

(* nqn: that of the parent's record as read; result: SNAP's list.          *)
Idle == [method |-> None, size |-> 0, nqn |-> None, result |-> None]

(* cut: a token was entered for what the page leaves out.                  *)
NoAnswer == [method |-> None, page |-> <<>>, cut |-> FALSE]

(* What SNAP had all along and at some moment, and the parent's NQNs.      *)
NoMeanwhile == [always |-> {}, sometime |-> {}, parents |-> {}]

Now == [always |-> ToSet(snapList), sometime |-> ToSet(snapList),
        parents |-> {parent}]

(* An entry of the answer's slice that is left nil.                        *)
Nil == 0

-----------------------------------------------------------------------------
(* Mutant: no default for the page size.                                   *)
SizeAsAsked(n) == IF n > MaxSize THEN MaxSize ELSE n

(* ExtractPagination and LimitPagination (a library).  The empty token     *)
(* stands for the offset 0.                                                *)
SizeOf(n) == IF n = 0 THEN DefaultSize ELSE IF n > MaxSize THEN MaxSize ELSE n

FirstOffset == 0

HasMore(list, offset, size) == offset + size < Len(list)

Limit(list, offset, size) ==
    SubSeq(list, offset + 1,
           IF HasMore(list, offset, size) THEN offset + size ELSE Len(list))

(* What SNAP answers with: namespaces it lists of one subsystem, NVMe and  *)
(* virtio-blk controllers all as one.                                      *)
ListOf(m, nqn) ==
    IF m = "ListNvmeNamespaces"
      THEN SelectSeq(snapList, LAMBDA x : Below[x] = nqn)
      ELSE snapList

(* What a client asks for: subsystems, virtio-blk controllers, or what is  *)
(* below the parent's NQN.                                                 *)
Wanted(m, nqn) ==
    CASE m = "ListNvmeSubsystems" -> Items
      [] m = "ListVirtioBlks"     -> {x \in Items : Below[x] = None}
      [] m \in ParentMethods      -> {x \in Items : Below[x] = nqn}

(* Mutant: controllers are told by their type alone.                       *)
BlobsOfAnyParent(m, nqn, page) ==
    IF m = "ListNvmeControllers"
      THEN {IF Below[x] # None THEN x ELSE Nil : x \in ToSet(page)}
      ELSE ToSet(page) \cap Wanted(m, nqn)

(* The objects made of a page.  Virtio-blk controllers are picked out of   *)
(* it; the slice of NVMe controllers has an entry for each of the page's,  *)
(* and what is no controller of the parent leaves its entry nil.           *)
Blobs(m, nqn, page) ==
    IF m = "ListNvmeControllers"
      THEN {IF x \in Wanted(m, nqn) THEN x ELSE Nil : x \in ToSet(page)}
      ELSE ToSet(page) \cap Wanted(m, nqn)

(* sort.Slice compares every entry of two or more, and the comparisons     *)
(* read a field of both: a nil one ends the process.                       *)
SortPanics(blobs, page) == Len(page) > 1 /\ Nil \in blobs

(* SNAP lists nothing twice, so a set of objects has one order.            *)
Sorted(blobs) ==
    CHOOSE s \in [1..Cardinality(blobs) -> blobs] :
        \A i, j \in DOMAIN s : i < j => s[i] < s[j]

-----------------------------------------------------------------------------
(* A call begins.  A negative size is refused.                             *)
ListExtract(c, m, n) ==
    /\ call[c] = Idle
    /\ call' = [call EXCEPT ![c] = [Idle EXCEPT !.method = m, !.size = SizeOf(n)]]
    /\ answer' = [answer EXCEPT ![c] = NoAnswer]
    /\ meanwhile' = [meanwhile EXCEPT ![c] = Now]
    /\ UNCHANGED <<snapList, parent, pagination, restarts>>

(* The handler goes on with what it has read.                              *)
ListGoto(c, next) ==
    /\ call' = [call EXCEPT ![c] = next]
    /\ UNCHANGED <<snapList, parent, pagination, restarts, answer, meanwhile>>

(* The handler gives up with an error.                                     *)
ListFails(c) ==
    /\ call' = [call EXCEPT ![c] = Idle]
    /\ meanwhile' = [meanwhile EXCEPT ![c] = NoMeanwhile]
    /\ UNCHANGED <<snapList, parent, pagination, restarts, answer>>

(* store.Get on the parent.                                                *)
ListParent(c) ==
    /\ call[c].method \in ParentMethods /\ call[c].nqn = None
    /\ \/ parent # None /\ ListGoto(c, [call[c] EXCEPT !.nqn = parent])
       \/ ListFails(c)

(* SNAP answers with its list, or there is an error.                       *)
ListFetch(c) ==
    /\ call[c].method # None /\ call[c].result = None
    /\ call[c].method \in ParentMethods => call[c].nqn # None
    /\ \/ ListGoto(c, [call[c] EXCEPT
                          !.result = ListOf(call[c].method, call[c].nqn)])
       \/ ListFails(c)

(* The process dies and comes back: NewServer makes an empty map.          *)
Restart ==
    /\ restarts < MaxRestarts
    /\ restarts' = restarts + 1
    /\ pagination' = {}
    /\ call' = [c \in Clients |-> Idle]
    /\ meanwhile' = [c \in Clients |-> IF call[c] = Idle THEN meanwhile[c]
                                                       ELSE NoMeanwhile]
    /\ UNCHANGED <<snapList, parent, answer>>

Page(c) == Limit(call[c].result, FirstOffset, call[c].size)

Objects(c) == Blobs(call[c].method, call[c].nqn, Page(c))

(* The page is cut out, a token entered for what it leaves out, and the    *)
(* objects made and sorted.  The answer does not carry the token.          *)
ListAnswer(c) ==
    /\ call[c].result # None
    /\ ~SortPanics(Objects(c), Page(c))
    /\ LET more == HasMore(call[c].result, FirstOffset, call[c].size)
       IN /\ pagination' = pagination
                \cup (IF more THEN {FirstOffset + call[c].size} ELSE {})
          /\ answer' = [answer EXCEPT ![c] =
                [method |-> call[c].method, page |-> Sorted(Objects(c)),
                 cut |-> more]]
    /\ call' = [call EXCEPT ![c] = Idle]
    /\ UNCHANGED <<snapList, parent, restarts, meanwhile>>

(* As above, up to the comparison that ends the process: nothing recovers  *)
(* from a panic of a handler.                                              *)
ListPanic(c) ==
    /\ call[c].result # None
    /\ SortPanics(Objects(c), Page(c))
    /\ Restart

-----------------------------------------------------------------------------
(* Calls in flight take note of what is so now.                            *)
NoteNow ==
    meanwhile' = [c \in Clients |->
        IF call[c] = Idle THEN meanwhile[c]
        ELSE [always   |-> meanwhile[c].always \cap ToSet(snapList'),
              sometime |-> meanwhile[c].sometime \cup ToSet(snapList'),
              parents  |-> meanwhile[c].parents \cup {parent'}]]

(* SNAP's list grows and shrinks, by the bridge's own creates and deletes. *)
SnapGrows ==
    /\ \E x \in Items \ ToSet(snapList) : snapList' = Append(snapList, x)
    /\ UNCHANGED <<parent, pagination, restarts, call, answer>>
    /\ NoteNow

SnapShrinks ==
    /\ \E x \in ToSet(snapList) : snapList' = Remove(snapList, x)
    /\ UNCHANGED <<parent, pagination, restarts, call, answer>>
    /\ NoteNow

(* The parent's record is stored, or erased.                               *)
ParentCreated ==
    /\ parent = None
    /\ parent' \in Nqns
    /\ UNCHANGED <<snapList, pagination, restarts, call, answer>>
    /\ NoteNow

ParentDeleted ==
    /\ parent # None
    /\ parent' = None
    /\ UNCHANGED <<snapList, pagination, restarts, call, answer>>
    /\ NoteNow

-----------------------------------------------------------------------------
Init ==
    /\ snapList = <<>>
    /\ parent = None
    /\ pagination = {}
    /\ restarts = 0
    /\ call = [c \in Clients |-> Idle]
    /\ answer = [c \in Clients |-> NoAnswer]
    /\ meanwhile = [c \in Clients |-> NoMeanwhile]

ListStep(c) ==
    \/ \E m \in Methods, n \in PageSizes : ListExtract(c, m, n)
    \/ ListParent(c)
    \/ ListFetch(c)
    \/ ListAnswer(c)
    \/ ListPanic(c)

Next ==
    \/ Restart
    \/ SnapGrows \/ SnapShrinks
    \/ ParentCreated \/ ParentDeleted
    \/ \E c \in Clients : ListStep(c)

Spec == Init /\ [][Next]_vars

-----------------------------------------------------------------------------
(* Every variable has its type.                                            *)
ListTypeOK ==
    /\ ToSet(snapList) \subseteq Items /\ IsInjective(snapList)
    /\ parent \in Nqns \cup {None}
    /\ pagination \subseteq 1..MaxSize
    /\ restarts \in 0..MaxRestarts
    /\ \A c \in Clients :
          /\ call[c].method \in Methods \cup {None}
          /\ call[c] # Idle => call[c].size \in 1..MaxSize
          /\ call[c].nqn \in Nqns \cup {None}
          /\ call[c].result # None => ToSet(call[c].result) \subseteq Items
          /\ answer[c].method \in Methods \cup {None}
          /\ ToSet(answer[c].page) \subseteq Items \cup {Nil}
          /\ answer[c].cut \in BOOLEAN
          /\ meanwhile[c].always \subseteq Items
          /\ meanwhile[c].sometime \subseteq Items
          /\ meanwhile[c].parents \subseteq Nqns \cup {None}

(* An answer, but for its nil entries, tells what SNAP had at some moment  *)
(* of the call, of the kind asked for and below one NQN that the parent    *)
(* had at some moment of it, though parent and list are read apart; and    *)
(* unless the page leaves something out, for which a token is entered, it  *)
(* tells all of these that SNAP had all along.                             *)
AnswersTrue ==
    \A c \in Clients : answer[c].method # None =>
        LET a == answer[c]
            told == ToSet(a.page) \ {Nil}
        IN  \E n \in meanwhile[c].parents :
                /\ a.method \in ParentMethods => n # None
                /\ told \subseteq meanwhile[c].sometime \cap Wanted(a.method, n)
                /\ a.cut \/ meanwhile[c].always \cap Wanted(a.method, n) \subseteq told

(* No answer carries a token, so each should be the end of the list.       *)
EmptyTokenEndsList ==
    \A c \in Clients : answer[c].method # None => ~answer[c].cut

(* ListNvmeControllers lists NVMe controllers, and nothing else.           *)
ControllersListed ==
    \A c \in Clients :
        answer[c].method = "ListNvmeControllers" => Nil \notin ToSet(answer[c].page)
=============================================================================
