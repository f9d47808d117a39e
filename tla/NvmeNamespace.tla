--------------------------- MODULE NvmeNamespace ----------------------------
(***************************************************************************)
(* CreateNvmeNamespace and DeleteNvmeNamespace, step by step.  Namespaces  *)
(* are attached to controller HardCodedCntlid of their subsystem, whatever *)
(* controllers the subsystem has.                                          *)
(***************************************************************************)
EXTENDS NvmeServer

NsKey(c) == <<call[c].sub, call[c].id>>

HardCodedCntlid == 0

-----------------------------------------------------------------------------
(* CreateNvmeNamespace *)

NsCreateBegin(c, s, i, h) ==
    Begin(c, "CreateNvmeNamespace", s, i, None, h)

(* store.Get on the name: an existing object is returned as it is.         *)
NsCreateLookup(c) ==
    /\ At(c, "CreateNvmeNamespace", "lookup")
    /\ \/ nsStore[NsKey(c)] = None /\ Goto(c, "parent")
       \/ Return(c)     \* the object exists, or the store fails
    /\ UNCHANGED <<store, nqns, snap>>

(* store.Get on the parent; only its NQN is used.                          *)
NsCreateParent(c) ==
    /\ At(c, "CreateNvmeNamespace", "parent")
    /\ \/ /\ subsysStore[call[c].sub] # None
          /\ GotoWith(c, "snap", subsysStore[call[c].sub], call[c].num)
       \/ Return(c)     \* no such subsystem, or the store fails
    /\ UNCHANGED <<store, nqns, snap>>

(* Mutant: the result of controller_nvme_namespace_attach is not looked at.*)
NsCreateIgnoresSnapResult(c) ==
    /\ At(c, "CreateNvmeNamespace", "snap")
    /\ \/ SnapAttach(call[c].nqn, HardCodedCntlid, call[c].num)
       \/ UNCHANGED snap
    /\ Goto(c, "save")
    /\ UNCHANGED <<store, nqns>>

(* controller_nvme_namespace_attach *)
NsCreateOnSnap(c) ==
    /\ At(c, "CreateNvmeNamespace", "snap")
    /\ \/ /\ SnapAttach(call[c].nqn, HardCodedCntlid, call[c].num)
          /\ \/ Goto(c, "save")
             \/ "create" \in Faults /\ Return(c)
       \/ UNCHANGED snap /\ Return(c)
    /\ UNCHANGED <<store, nqns>>

(* store.Set *)
NsCreateSave(c) ==
    /\ At(c, "CreateNvmeNamespace", "save")
    /\ \/ nsStore' = [nsStore EXCEPT ![NsKey(c)] = call[c].num]
       \/ "create" \in Faults /\ UNCHANGED nsStore
    /\ Return(c)
    /\ UNCHANGED <<subsysStore, ctrlStore, nqns, snap>>

-----------------------------------------------------------------------------
(* DeleteNvmeNamespace *)

NsDeleteBegin(c, s, i) ==
    Begin(c, "DeleteNvmeNamespace", s, i, None, None)

NsDeleteLookup(c) ==
    /\ At(c, "DeleteNvmeNamespace", "lookup")
    /\ \/ /\ nsStore[NsKey(c)] # None
          /\ GotoWith(c, "parent", call[c].nqn, nsStore[NsKey(c)])
       \/ Return(c)     \* no such object, or the store fails
    /\ UNCHANGED <<store, nqns, snap>>

(* store.Get on the subsystem whose id the namespace's name holds.         *)
NsDeleteParent(c) ==
    /\ At(c, "DeleteNvmeNamespace", "parent")
    /\ \/ /\ subsysStore[call[c].sub] # None
          /\ GotoWith(c, "snap", subsysStore[call[c].sub], call[c].num)
       \/ Return(c)     \* no such subsystem, or the store fails
    /\ UNCHANGED <<store, nqns, snap>>

(* controller_nvme_namespace_detach *)
NsDeleteOnSnap(c) ==
    /\ At(c, "DeleteNvmeNamespace", "snap")
    /\ \/ /\ SnapDetach(call[c].nqn, HardCodedCntlid, call[c].num)
          /\ \/ Goto(c, "erase")
             \/ "delete" \in Faults /\ Return(c)
       \/ UNCHANGED snap /\ Return(c)
    /\ UNCHANGED <<store, nqns>>

(* Mutant: the record is left in the store.                                *)
NsDeleteKeepsRecord(c) ==
    /\ At(c, "DeleteNvmeNamespace", "erase")
    /\ Return(c)
    /\ UNCHANGED <<store, nqns, snap>>

(* store.Delete *)
NsDeleteErase(c) ==
    /\ At(c, "DeleteNvmeNamespace", "erase")
    /\ \/ nsStore' = [nsStore EXCEPT ![NsKey(c)] = None]
       \/ "delete" \in Faults /\ UNCHANGED nsStore
    /\ Return(c)
    /\ UNCHANGED <<subsysStore, ctrlStore, nqns, snap>>

-----------------------------------------------------------------------------
NsStep(c) ==
    \/ \E s \in SubsystemIds, i \in NamespaceIds, h \in Nsids :
          NsCreateBegin(c, s, i, h)
    \/ NsCreateLookup(c)
    \/ NsCreateParent(c)
    \/ NsCreateOnSnap(c)
    \/ NsCreateSave(c)
    \/ \E s \in SubsystemIds, i \in NamespaceIds : NsDeleteBegin(c, s, i)
    \/ NsDeleteLookup(c)
    \/ NsDeleteParent(c)
    \/ NsDeleteOnSnap(c)
    \/ NsDeleteErase(c)

-----------------------------------------------------------------------------
(* A namespace object is live while no delete has detached it on SNAP.     *)
NsBeingDeleted(x) ==
    \E c \in Calls : /\ call[c].op = "DeleteNvmeNamespace"
                     /\ NsKey(c) = x
                     /\ InDeleteWindow(c)

LiveNamespace(x) == nsStore[x] # None /\ ~NsBeingDeleted(x)

(* Every live namespace object has its parent in the store, and is         *)
(* attached on SNAP below the NQN the parent has now.                      *)
LiveNamespacesOnSnap ==
    \A x \in NsNames :
        LiveNamespace(x) =>
            /\ subsysStore[x[1]] # None
            /\ <<subsysStore[x[1]], HardCodedCntlid, nsStore[x]>> \in snapNs

(* Two live namespace objects of one subsystem have different HostNsids:   *)
(* nothing in the bridge compares them, SNAP does.                         *)
LiveNsidsUnique ==
    \A x, y \in NsNames :
        /\ LiveNamespace(x) /\ LiveNamespace(y)
        /\ x[1] = y[1] /\ nsStore[x] = nsStore[y]
        => x = y
=============================================================================
