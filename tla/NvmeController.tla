--------------------------- MODULE NvmeController ---------------------------
(***************************************************************************)
(* CreateNvmeController and DeleteNvmeController, step by step.            *)
(***************************************************************************)
EXTENDS NvmeServer

CtrlKey(c) == <<call[c].sub, call[c].id>>

-----------------------------------------------------------------------------
(* CreateNvmeController *)

CtrlCreateBegin(c, s, i) ==
    Begin(c, "CreateNvmeController", s, i, None, None)

(* Mutant: an existing object does not end the call.                       *)
CtrlCreateAlways(c) ==
    /\ At(c, "CreateNvmeController", "lookup")
    /\ Goto(c, "parent")
    /\ UNCHANGED <<store, nqns, snap>>

(* store.Get on the name: an existing object is returned as it is.         *)
CtrlCreateLookup(c) ==
    /\ At(c, "CreateNvmeController", "lookup")
    /\ \/ ctrlStore[CtrlKey(c)] = None /\ Goto(c, "parent")
       \/ Return(c)     \* the object exists, or the store fails
    /\ UNCHANGED <<store, nqns, snap>>

(* store.Get on the parent; only its NQN is used.                          *)
CtrlCreateParent(c) ==
    /\ At(c, "CreateNvmeController", "parent")
    /\ \/ /\ subsysStore[call[c].sub] # None
          /\ GotoWith(c, "snap", subsysStore[call[c].sub], call[c].num)
       \/ Return(c)     \* no such subsystem, or the store fails
    /\ UNCHANGED <<store, nqns, snap>>

(* Mutant: the negative Cntlid of a refusal is taken for a real one.       *)
CtrlCreateTakesAnyCntlid(c) ==
    /\ At(c, "CreateNvmeController", "snap")
    /\ \/ \E k \in Cntlids :
             /\ SnapCreateController(call[c].nqn, k)
             /\ GotoWith(c, "save", call[c].nqn, k)
       \/ /\ UNCHANGED snap
          /\ GotoWith(c, "save", call[c].nqn, -1)
    /\ UNCHANGED <<store, nqns>>

(* controller_nvme_create: SNAP chooses the Cntlid, a negative one refuses.*)
CtrlCreateOnSnap(c) ==
    /\ At(c, "CreateNvmeController", "snap")
    /\ \/ \E k \in Cntlids :
             /\ SnapCreateController(call[c].nqn, k)
             /\ \/ GotoWith(c, "save", call[c].nqn, k)
                \/ "create" \in Faults /\ Return(c)
       \/ UNCHANGED snap /\ Return(c)
    /\ UNCHANGED <<store, nqns>>

(* Mutant: the record holds controller number 0, as namespaces assume.     *)
CtrlCreateSavesZero(c) ==
    /\ At(c, "CreateNvmeController", "save")
    /\ ctrlStore' = [ctrlStore EXCEPT ![CtrlKey(c)] = 0]
    /\ Return(c)
    /\ UNCHANGED <<subsysStore, nsStore, nqns, snap>>

(* store.Set: the record holds SNAP's Cntlid, not the one asked for.       *)
CtrlCreateSave(c) ==
    /\ At(c, "CreateNvmeController", "save")
    /\ \/ ctrlStore' = [ctrlStore EXCEPT ![CtrlKey(c)] = call[c].num]
       \/ "create" \in Faults /\ UNCHANGED ctrlStore
    /\ Return(c)
    /\ UNCHANGED <<subsysStore, nsStore, nqns, snap>>

-----------------------------------------------------------------------------
(* DeleteNvmeController *)

CtrlDeleteBegin(c, s, i) ==
    Begin(c, "DeleteNvmeController", s, i, None, None)

CtrlDeleteLookup(c) ==
    /\ At(c, "DeleteNvmeController", "lookup")
    /\ \/ /\ ctrlStore[CtrlKey(c)] # None
          /\ GotoWith(c, "parent", call[c].nqn, ctrlStore[CtrlKey(c)])
       \/ Return(c)     \* no such object, or the store fails
    /\ UNCHANGED <<store, nqns, snap>>

(* store.Get on the subsystem whose id the controller's name holds.        *)
CtrlDeleteParent(c) ==
    /\ At(c, "DeleteNvmeController", "parent")
    /\ \/ /\ subsysStore[call[c].sub] # None
          /\ GotoWith(c, "snap", subsysStore[call[c].sub], call[c].num)
       \/ Return(c)     \* no such subsystem, or the store fails
    /\ UNCHANGED <<store, nqns, snap>>

(* Mutant: controller number 0 is deleted, whatever the record says.       *)
CtrlDeletesZero(c) ==
    /\ At(c, "DeleteNvmeController", "snap")
    /\ \/ SnapDeleteController(call[c].nqn, 0) /\ Goto(c, "erase")
       \/ UNCHANGED snap /\ Return(c)
    /\ UNCHANGED <<store, nqns>>

(* controller_nvme_delete *)
CtrlDeleteOnSnap(c) ==
    /\ At(c, "DeleteNvmeController", "snap")
    /\ \/ /\ SnapDeleteController(call[c].nqn, call[c].num)
          /\ \/ Goto(c, "erase")
             \/ "delete" \in Faults /\ Return(c)
       \/ UNCHANGED snap /\ Return(c)
    /\ UNCHANGED <<store, nqns>>

(* store.Delete *)
CtrlDeleteErase(c) ==
    /\ At(c, "DeleteNvmeController", "erase")
    /\ \/ ctrlStore' = [ctrlStore EXCEPT ![CtrlKey(c)] = None]
       \/ "delete" \in Faults /\ UNCHANGED ctrlStore
    /\ Return(c)
    /\ UNCHANGED <<subsysStore, nsStore, nqns, snap>>

-----------------------------------------------------------------------------
CtrlStep(c) ==
    \/ \E s \in SubsystemIds, i \in ControllerIds : CtrlCreateBegin(c, s, i)
    \/ CtrlCreateLookup(c)
    \/ CtrlCreateParent(c)
    \/ CtrlCreateOnSnap(c)
    \/ CtrlCreateSave(c)
    \/ \E s \in SubsystemIds, i \in ControllerIds : CtrlDeleteBegin(c, s, i)
    \/ CtrlDeleteLookup(c)
    \/ CtrlDeleteParent(c)
    \/ CtrlDeleteOnSnap(c)
    \/ CtrlDeleteErase(c)

-----------------------------------------------------------------------------
(* A controller object is live while no delete has taken it off SNAP.      *)
CtrlBeingDeleted(x) ==
    \E c \in Calls : /\ call[c].op = "DeleteNvmeController"
                     /\ CtrlKey(c) = x
                     /\ InDeleteWindow(c)

LiveController(x) == ctrlStore[x] # None /\ ~CtrlBeingDeleted(x)

(* Every live controller object has its parent in the store, and its       *)
(* controller on SNAP below the NQN the parent has now.                    *)
LiveControllersOnSnap ==
    \A x \in CtrlNames :
        LiveController(x) =>
            /\ subsysStore[x[1]] # None
            /\ <<subsysStore[x[1]], ctrlStore[x]>> \in snapCtrls

(* Two live controller objects of one subsystem have different Cntlids, so *)
(* deleting one never takes the other's controller off SNAP.               *)
LiveCntlidsUnique ==
    \A x, y \in CtrlNames :
        /\ LiveController(x) /\ LiveController(y)
        /\ x[1] = y[1] /\ ctrlStore[x] = ctrlStore[y]
        => x = y
=============================================================================
