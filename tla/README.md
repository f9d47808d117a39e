# A verification development of opi-nvidia-bridge

The bridge is a gRPC server that turns OPI storage requests into JSON-RPC calls
to NVIDIA SNAP.  It keeps three records of one thing: what SNAP has, what the
persistent store says, and what three maps in memory say.  No lock and no
transaction holds them together.  This directory models how the handlers move
the three, checks with TLC on small instances what keeps them in agreement, and
proves the main results for every instance with TLAPS.

## Inventory

| component | source | state | operations |
|---|---|---|---|
| server | `pkg/frontend/frontend.go` | the maps `NQNs`, `VirtioCtrls`, `Pagination`; the store and the JSON-RPC client | `NewServer` (empty maps) |
| NVMe subsystem service | `nvme_subsystem.go` | objects in the store, `NQNs` | Create, Delete, List, Get; Update and Stats are unimplemented |
| NVMe controller service | `nvme_controller.go` | objects in the store | Create, Delete, List, Get; Update and Stats are unimplemented |
| NVMe namespace service | `nvme_namespace.go` | objects in the store | Create, Delete, List, Get; Stats passes SNAP's counters on; Update is unimplemented |
| virtio-blk service | `virtio.go` | `VirtioCtrls`, in memory only | Create, Delete, List, Get; Stats passes SNAP's counters on; Update is unimplemented |
| list paging | the four List methods | `Pagination`: offset per token, never sent | look up, enter |
| validation | `*_validate.go` | none | refuse a request |
| JSON models | `pkg/models/spdk.go` | none | parameters and results of SNAP calls |
| wiring | `cmd/main.go` | none | one gRPC server, HTTP gateway, TLS, Redis |
| SNAP | external | subsystems, controllers, attached namespaces, virtio-blk controllers | the JSON-RPC methods |
| store (gokv/Redis), `utils` | external | objects by name | `Get`, `Set`, `Delete`; paging helpers |
| virtio-scsi, backend, middleend, inventory, IPsec | imported | not in this repository | |

**How they interact.**  gRPC runs each request in a goroutine.  A create reads
the store for its name (and its parent's), calls SNAP, and writes the store; a
delete reads the same, calls SNAP and erases; a get reads the store and then
looks for the object in one of SNAP's lists.  Between two of these accesses
any other handler may run.  Controllers and namespaces depend on the record of
their subsystem, of which they use the NQN only; a namespace is always attached
to controller number 0.  `NQNs` is a second, in-memory record of the NQNs that
stored subsystems name.

**What is hard.**

* Interleaving: store lookups, the NQN check and SNAP calls are separate steps
  (`nvme_subsystem.go:52`, `61`, `74`, `92`, `93`).  The plain maps may also end
  the process when two handlers write to them; the models count that as a
  restart.
* Partial failure: SNAP obeys and its answer is lost, a version query fails, the
  store fails; nothing is ever undone or retried.
* Crash and restart: SNAP and the store survive, the maps do not.
* Stale state: the NQN and number sent to SNAP were read some steps earlier.
* There are no timeouts, no retries and no message queue in this code.

**What makes each part correct.**  A stored object has its counterpart on SNAP
(subsystem, controller, namespace alike) until its delete takes it away; two
objects never share an NQN, Cntlid or HostNsid below one parent, so that a
delete of one never hits the other; nothing is deleted on SNAP that no object
names; an object is not silently replaced; an answer to a get was true at some
moment of the get; an answer to a list tells what was so meanwhile, and all of it
where no token is made for the rest; a client that keeps asking for a delete gets
it, and a freed NQN is usable again.

`PROJECT.json` lists each hazard with its line and the properties aimed at it.

## Modules

| module | models |
|---|---|
| `NvmeServer` | constants and state of the NVMe half, SNAP's operations, the steps all handlers share (`Begin`, `Goto`, `Return`), `Restart`, `TypeOK` |
| `NvmeSubsystem` | Create/DeleteNvmeSubsystem; `SubsysSpec` is this service alone |
| `NvmeController` | Create/DeleteNvmeController |
| `NvmeNamespace` | Create/DeleteNvmeNamespace |
| `NvmeFrontend` | the three together: `Spec`, the properties across them, and the refinement mapping to `NvmeTree` |
| `NvmeOverlap` | `NvmeFrontend` with calls that overlap as they like, and how far that can go wrong |
| `NvmeTree` | the abstract specification: one tree whose creates and deletes are atomic |
| `NvmeReads` | the three Get handlers among the creates and deletes of `NvmeFrontend` |
| `NvmeProgress` | `NvmeFrontend` with fairness, and what clients that retry achieve |
| `VirtioBlk` | Create/Delete/GetVirtioBlk and the map `VirtioCtrls`; the refinement mapping to `VirtioTable` |
| `VirtioTable` | the abstract specification: a table of objects whose creates and deletes are atomic |
| `ListPages` | the four List methods and the map `Pagination`, while creates and deletes change what is listed |
| `MC...` | instances for TLC: symmetry sets, and the items of `ListPages` |
| `NvmeTypeProofs`, `NvmeSerialProofs`, `NvmeNqnProofs`, `NvmeTreeProofs`, `NvmeOrphanProofs` | theorems about `NvmeFrontend` |
| `NvmeOverlapProofs`, `NvmeReadsProofs`, `VirtioProofs` | theorems about `NvmeOverlap`, `NvmeReads` and `VirtioBlk` |

**State and code.**  A handler is a record `call[c]`: its method `op`, the step
`pc` it is about to take, and its locals (name, NQN, number).  Each action is
the code from one access of shared state to just before the next; the action
names the access: `...Lookup` (`store.Get` of the name), `...Parent`
(`store.Get` of the subsystem), `...CheckNqn` (the loop over `NQNs`),
`...OnSnap` (the call), `...Version` (the second call and the entry in `NQNs`),
`...Forget` (`delete(s.NQNs, ...)`), `...Save` and `...Erase` (`store.Set`,
`store.Delete`).  A record in the store is abstracted to what the handlers read
back from it: NQN, Cntlid, HostNsid.  An error path is `Return`.

**Gets** have no effect, so that one get in flight stands for any number, and
`Overlap` does not keep it apart from other calls.  `seen` collects what has
been the case at some moment of the get: its object was on SNAP where the
records say ("there"), was not ("away"), or it or its parent was not stored
("unstored").  Answers are compared with `seen`, not with the state they are
given in, since the store and SNAP are read at different moments.

**The abstract tree.**  `NvmeTree` is what a client may think the services are:
subsystems with their own NQN, below them controllers and namespaces with
numbers of their own, parents that stay while they have children.
`NvmeFrontend` maps its state to it by the *live* objects, those that no delete
has got past SNAP for.  Hence a create takes effect at its `store.Set`, a
delete when SNAP obeys, and every other step, a restart or a lost answer of a
create included, is a stutter of the tree.

**SNAP** is external; it refuses to make what exists and to delete what does
not, may refuse anything else, and chooses Cntlids.  Whether it refuses to
delete a subsystem that has controllers, or a controller that has namespaces,
is not known from this repository: `SnapRefusesBusy` says, and otherwise the
children go with it.

Two more constants state what a property needs of the world:

* `Faults` names the handlers ("create", "delete") that may break between
  SNAP's obedience and the last store access: lost answer, failed version
  query, failing store, death of the process.  A refusal, an error before SNAP
  acts and a restart elsewhere are possible always.
* `Overlap` says if two calls on resources of one subsystem may be in flight at
  once.  The code does not prevent that; with `FALSE` the clients do.  Calls on
  different subsystems always interleave freely, and they share NQNs, SNAP and
  `NQNs`.  `NvmeOverlap` is about calls that overlap without any such limit.

An object is *live* while no delete has got past SNAP for it.

**Overlap.**  Two calls in flight are *rivals* when they are about one name, or
one is about the subsystem above the other's name.  `met` is a history: the calls
in flight that had a rival at some time since they began.  A rival is what can
make stale what a handler has read, and the two properties say that nothing else
can: a call that is not in `met` replaces no object, erases only the record it
has read (`OnlyRivalsReplace`), and acts on SNAP below the NQN that its
subsystem's record has now, on what its own name is stored with
(`OnlyRivalsStray`).  So the hazards of stale records are confined to calls that
a client itself makes to collide: calls on other names, even of one subsystem,
with their failures, leftovers and restarts, never add to them.

**Virtio-blk.**  `gone` remembers the ids of objects whose controller SNAP has
deleted and that are still in the map because the answer was lost; the other
objects are live.  By what name SNAP knows a controller is not known from this
repository.  The create sends the bare id as a serial (`virtio.go:56`) and throws
the name that SNAP answers with away (lines 64-73); the delete sends the full API
name (line 95), and the get compares SNAP's names with the bare id (line 198).  A
test answers the create of `virtio-blk-42` with `VblkEmu0pf0` (`virtio_test.go:38`),
and the lists of the tests have names of both kinds.  So `SerialNames` are the
ids that SNAP takes for names, in any number, and a controller of another id is
named after its physical function (`SnapName`); such names have upper-case
letters, which `virtio_validate.go` does not let an id have, so that no id is
one.  A get of a live object whose id is not in `SerialNames` always misses it;
`GetsConsistent` therefore speaks of hits, and of misses of the others.  SNAP
may refuse any delete, for whatever reason; the handler erases the object either
way.

`VirtioTable` is what the service promises: ids with a physical function each,
no function twice, which creates and deletes change at once and only a restart
empties.  `VirtioBlk` implements it under the mapping `LiveObjects`: a create
takes effect when it stores its object, a delete when SNAP obeys or, if SNAP has
not, when it erases the object.  Objects SNAP has and the map has not are not in
the table: a create that meets one is refused.

**Lists.**  Every list method reads the parent's record, if it has a parent, then
SNAP's list, cuts a page out of it, enters a token in `Pagination` if something is
left out, and makes, filters and sorts the objects.  `SnapGrows`, `SnapShrinks`,
`ParentCreated` and `ParentDeleted` stand for the creates and deletes that run
meanwhile, and `meanwhile` is a history of what SNAP had all along and at some
moment of the call, and of the NQNs the parent's record had.  As no answer carries
a token, a client has none but the empty one: each call begins at offset 0, and
there is no second page.  Any other token is refused, which changes nothing.

## Runs

| run | instance | shows |
|---|---|---|
| `tree_create_faults` | 2 subsystems, 2+2 children each, 2 Cntlids, 1 HostNsid, 2 NQNs, 2 calls; creates may break; SNAP refuses to delete parents | `TypeOK`; `LiveNqnsUnique`, `LiveSubsystemsOnSnap`, `NoPhantomNqn`; children on SNAP below the parent's present NQN, Cntlids and HostNsids not shared; `TreeImplemented`, the refinement to `NvmeTree` |
| `clients_retry` | 2 subsystems, a controller and a namespace each, 1 NQN, 2 calls; creates may break; fairness | `DeletesComplete`, `FreedNqnsUsable` |
| `reads_all_faults` | 2 subsystems, a controller and a namespace each, 1 create or delete and 1 get; everything may break | `NoFalseMiss`, `NoFalseHit` |
| `reads_controller` | the same without namespaces; deletes may break | violation: `ControllerFoundIsThere` |
| `frontend_no_orphans` | 2 subsystems, 2 controllers and a namespace each, 2 calls; deletes may break; SNAP deletes children with parents | `NoOrphanOnSnap` |
| `overlap_all_faults` | 2 subsystems, a controller and a namespace each, 1 NQN, 2 Cntlids, 2 calls that overlap; everything may break; SNAP deletes children with parents | `OnlyRivalsStray`, `OnlyRivalsReplace` |
| `subsystem_delete_faults` | one call, deletes may break | violation: `NqnsUniqueAtRest` |
| `subsystem_overlap` | overlapping calls, nothing breaks | violation: `ObjectsNotReplaced` |
| `virtio_faults` | 3 ids, 2 of them SNAP's names, 2 functions, 3 calls and 1 get; everything may break | `VirtioTypeOK`, `LiveVirtioOnSnap`, `LivePfsUnique`, `GetsConsistent`, `SnapLosesOnlyObjects`; `TableImplemented`, the refinement to `VirtioTable` |
| `list_answers` | 1 client, lists up to 3 entries, 2 NQNs, pages of 1 and 2, 1 restart | `ListTypeOK`, `AnswersTrue` |
| `list_empty_token` | 1 client | violation: `EmptyTokenEndsList` |
| `list_controllers` | 1 client | violation: `ControllersListed` |

**Bounds.**  Two subsystems that want one NQN, with a call each, are all the
actors that the conflicts need.  Two children per subsystem make numbers
collide.  One namespace number suffices, as namespaces conflict only when they
ask for the same.  `MaxRestarts` bounds
deaths in `ListPages` only; the NVMe and virtio models restart any number of
times.  In `ListPages` a panic at the last death is not taken, which is why
deadlock is not checked there.  Tokens for one offset are one, which bounds the
map.  One client is enough there: list calls change nothing but `Pagination`,
which no call's answer depends on, and what a panic of another call does is what
`Restart` does.  Three items make lists longer than a page, with one that is
below the parent, one below another NQN and a virtio-blk controller between
them.

In `overlap_all_faults` one NQN suffices, as the harm is in its going from one
subsystem to the other, and two calls are a pair of rivals; the theorems are for
any number.

A get is in conflict with one subsystem's create or delete at a time, which one
call besides it covers; the second subsystem is there to give an NQN or a number
away to.  The liveness run has one NQN, the one the subsystems compete for, and
no symmetry, which is not sound for liveness.  All models have finitely many
states: no bound but the sizes of the sets and `MaxRestarts`, `MaxSize` of
`ListPages` is needed.

**Fairness.**  `ProgressSpec` assumes two things:

* `WF_vars(HandlerStep(c))` for every call slot: gRPC runs each handler in a
  goroutine of its own, and the scheduler starves none.  This includes that SNAP
  and the store answer in the end: the code gives neither a deadline.
* `<>[][~Failure]_vars`: from some moment on neither the store nor SNAP nor the
  process fails.  `Failure` is a call that ends although what it looks at next
  would let it go on, or the loss of `NQNs`.  Refusals that SNAP's state or the
  store calls for, an NQN in use for instance, go on as before.

That clients ask again is no assumption of the specification, as the code has
neither retry nor timeout; it is the premise `[]<><<...Begin...>>_vars` of each
property, for one kind of request only, while all other clients do as they
like.  Both properties need that deletes do not break half-way: with "delete" in
`Faults` the object stays and SNAP refuses each later delete of it, since it has
nothing to delete.  Nor can a create whose answer was lost be repeated: SNAP
refuses it as long as the NQN is in use, by a subsystem no object names.
`FreedNqnsUsable` therefore speaks of NQNs SNAP is rid of, and `DeletesComplete`
leaves out parents that SNAP is kept from deleting by children, which may be
such leftovers.

**Violations** are disagreements of code and comments:

1. A delete that breaks after SNAP obeyed (store error, lost answer, crash)
   leaves its object behind while the NQN is free again; another create takes
   the NQN.  `nvme_subsystem.go:60` says this is not allowed.
2. Overlapping creates with one id both succeed and return different objects;
   `nvme_subsystem.go:50` calls the API idempotent.
3. List answers never carry the token; the tests take an empty one to be the
   end of the list.
4. `ListNvmeControllers` leaves nil entries for what is no NVMe controller of
   the parent; two entries, and the sort panics.
5. `GetNvmeController` compares the number of a controller but not the NQN it
   is below (`nvme_controller.go:249`), which the List method does compare (line
   217): a controller that a broken delete has left in the store is reported
   active on account of another subsystem's controller.

## Proofs

Most properties of the passing runs are the conclusion of a theorem, for any sets
of ids, NQNs, numbers, functions and calls; the exceptions are named at the end
of this section.  The first five modules are about `NvmeFrontend!Spec`, the
others about the specification of the component they are named after.  The
assumptions on the constants (`ConstantsAssumption`, `NoneAssumption`,
`NoReadAssumption`, `VirtioAssumption`) say of what sort they are and that `None`
is something else; TLC evaluates them in the runs.  What besides is assumed of
the world is named at each theorem:

| theorems | calls do not overlap | deletes do not break | creates do not break | SNAP keeps parents |
|---|---|---|---|---|
| `TypeSafe`, `VirtioTypeSafe`, `MetCorrect`, `OnlyRivalsReplaceObjects`, `OnlyRivalsActAstray` | | | | |
| `MissesAreTrue`, `HitsAreTrue` | x | | | |
| `PfsUnique`, `LosesOnlyObjects`, `GetsCorrect`, `HandlersImplementTable` | x | | | |
| `NoOrphans` | x | | x | |
| `NqnsUnique`, `SubsystemsOnSnap`, `NoPhantom` | x | x | | |
| `HandlersImplementTree` | x | x | | x |

* `NvmeTypeProofs`: `TypeSafe` (`[]TypeOK`) needs nothing more.  `TypeOK` is not
  inductive: `CallInv` adds which locals are set at which step of which method,
  so that what is saved or sent to SNAP is of its type.
* `NvmeSerialProofs` is what the others share.  `Knows` says that what a handler
  has read is still in the store: a create that nothing is stored under its name,
  a delete its record, a child the parent's NQN.  `LocalStep` is all that a step
  of a handler may do, seen from the other calls, and holds of every step with
  any overlap.  From it follow, assuming `~Overlap`, that calls in flight are on
  different subsystems and all know what they have read (`SerialCorrect`), and
  that the step of a call that does replaces no object (`StepKeepsObjects`).
* `NvmeOverlapProofs` assumes nothing of overlaps, faults or SNAP.  `MetInv` says
  that rivals in flight have met, and that a call that has met none knows what it
  has read; a step of another call can make it wrong only by writing what it has
  read, and then that call is a rival (`NoRivalKnows`).  A call that knows its
  records acts by them as they are now (`StepActsOnOwn`, `StepKeepsObjects`,
  `StepErasesAsRead`).
* `NvmeNqnProofs`, assuming `~Overlap` and that deletes do not break: `HeldNqns`
  says that the NQN of a create between SNAP's answer and `store.Set` is on
  SNAP, is no live object's and no other create's.  It makes
  `LiveSubsystemsOnSnap`, `LiveNqnsUnique` and `NoPhantomNqn` inductive
  together: SNAP refuses a second subsystem for an NQN, so a successful create
  finds it owned by nobody; a save hands it from the create to the object; a
  delete takes it from the one live object that `Knows` says it read.  The
  table `NQNs` plays no part in this: losing it in a restart costs nothing but
  an earlier refusal.

* `NvmeTreeProofs`, assuming besides that SNAP refuses to delete parents
  (`SnapRefusesBusy`): `TreeInv` says of each subsystem that its controllers and
  namespaces, the live ones and those of creates between SNAP's answer and
  `store.Set`, are on SNAP below its NQN, with numbers of their own
  (`CtrlsBelow`, `NsBelow`), and that SNAP has no namespace without its
  controller (`SnapTree`).  The held children of creates are what makes it
  inductive: a save turns one into a live object.  As live subsystems have
  different NQNs, a step of a call disturbs only what is below its own
  subsystem, and each action is looked at there alone.  It implies
  `LiveControllersOnSnap`, `LiveCntlidsUnique`, `LiveNamespacesOnSnap` and
  `LiveNsidsUnique` (lemma `TreeInvImplies`), and with it the handlers implement
  `NvmeTree` (`HandlersImplementTree`): every save is a create of the tree, every obedience
  of SNAP to a delete a delete of it, all else a stutter.

* `NvmeOrphanProofs` is the other direction: `OrphanInv` names for everything on
  SNAP who answers for it, subsystem by subsystem: a live object, or a create
  about to store it (`SubsysHeld`, `CtrlHeld`, `NsHeld`).  That a child's parent
  is live too is what makes it inductive: when SNAP has deleted a subsystem and
  the children with it, the children's records stay, and nothing on SNAP may
  count on them when the parent's record is erased.  A save turns the create
  into the object; a delete that breaks leaves a record too many, never a thing
  on SNAP too many.  `NoOrphans` needs no more than that creates do not break:
  then `NoOrphanOnSnap` holds.

* `NvmeReadsProofs`: `HoldsRecord` says that a get in flight whose object and
  parent were stored all along holds the records they still have, which is so as
  objects are never replaced without overlap (`StepKeepsObjects`); `SeesNow` that what is the case now is in `seen`.  When
  SNAP's list comes, the get compares it with a record that is still true, or
  with one whose object has been unstored meanwhile, which `seen` knows.

* `VirtioProofs`: `SnapInv` says that live objects, and creates between SNAP's
  answer and their entry in the map (`HeldOnSnap`), have their controllers on
  SNAP, under the names SNAP gives them (`NamesTaken`), that a name or a function
  has one controller there (`OneEach`) and one such object or create (`OnePf`),
  and that what a delete has taken off SNAP is not there (`GoneOffSnap`).  That
  two objects never share a function needs `OnePf`, as SNAP's own names do not
  tell ids apart.  All this is for any `SerialNames`.  Nothing
  is assumed about answers or restarts, as the map is lost as a whole and a
  create that finds its id or function taken on SNAP is refused.
  `HandlersImplementTable` follows step by step: what a create stores is on SNAP
  (`HeldOnSnap`), so that by `OneEach` no live object has its function; a delete
  changes the table once, as what is gone is not live (`LeavingDeletes`).

The runs `subsystem_overlap` and `subsystem_delete_faults` show what happens
without the first two assumptions; without the fourth SNAP takes children away
whose objects remain, and without the third a create leaves on SNAP what no
object names.

The invariants `NqnInv`, `TreeInv`, `OrphanInv`, `ReadInv`, `SnapInv` and
`MetInv` were checked with TLC on the instances of the runs before they were
proved.

Only model-checked: `DeletesComplete` and `FreedNqnsUsable`, as liveness under
fairness is out of the prover's reach; `ListTypeOK` and `AnswersTrue`; and the
violations.  The invariants of live children and `LiveVirtioOnSnap` have no
theorem of their own, being parts or consequences of `TreeInv` and `SnapInv`; what
they assume (calls do not overlap, SNAP keeps parents) the code does not
guarantee.

## Not modelled

* Update methods: they look an object up and answer "unimplemented", as
  `StatsNvmeSubsystem` and `StatsNvmeController` do without a look.
  `StatsNvmeNamespace` and `StatsVirtioBlk` pass on counters that nothing else
  reads or writes.
* Validation beyond "an invalid request changes nothing": it compares the shapes
  of strings and touches no state.
* TLS, HTTP gateway, logging and tracing, and command-line wiring; services of
  other repositories.
* The growth of `Pagination`: tokens for one offset are one in
  `ListPages`.  A list from a token that was entered by hand, as the tests do.
* What a virtio-blk get of an object not in `SerialNames` should answer: by the
  code it misses.  Virtio-blk calls that overlap on one id.

## Possible continuations

1. The theorems about the tree for calls that have met no rival, in place of the
   assumption that calls do not overlap.
2. `AnswersTrue` as a theorem.
3. Action properties of the gets: once answered, an answer is not taken back.
