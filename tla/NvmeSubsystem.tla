--------------------------- MODULE NvmeSubsystem ----------------------------
(***************************************************************************)
(* CreateNvmeSubsystem and DeleteNvmeSubsystem, step by step.              *)
(***************************************************************************)
EXTENDS NvmeServer

SubsysKey(c) == call[c].sub

-----------------------------------------------------------------------------
(* CreateNvmeSubsystem *)

(* A request that passes validateCreateNvmeSubsystemRequest; one that does *)
(* not changes nothing.                                                    *)
SubsysCreateBegin(c, s, n) ==
    Begin(c, "CreateNvmeSubsystem", s, None, n, None)

(* store.Get on the name: an existing object is returned as it is.         *)
SubsysCreateLookup(c) ==
    /\ At(c, "CreateNvmeSubsystem", "lookup")
    /\ \/ subsysStore[SubsysKey(c)] = None /\ Goto(c, "check")
       \/ Return(c)     \* the object exists, or the store fails
    /\ UNCHANGED <<store, nqns, snap>>

(* Mutant: the NQN is entered in s.NQNs before SNAP has answered.          *)
ReserveNqnEarly(c) ==
    /\ At(c, "CreateNvmeSubsystem", "check")
    /\ IF call[c].nqn \in nqns
         THEN Return(c) /\ UNCHANGED nqns
         ELSE Goto(c, "snap") /\ nqns' = nqns \cup {call[c].nqn}
    /\ UNCHANGED <<store, snap>>

(* The loop over s.NQNs.                                                   *)
SubsysCreateCheckNqn(c) ==
    /\ At(c, "CreateNvmeSubsystem", "check")
    /\ IF call[c].nqn \in nqns THEN Return(c) ELSE Goto(c, "snap")
    /\ UNCHANGED <<store, nqns, snap>>

(* Mutant: the result of subsystem_nvme_create is not looked at.           *)
CreateIgnoresSnapResult(c) ==
    /\ At(c, "CreateNvmeSubsystem", "snap")
    /\ SnapCreateSubsystem(call[c].nqn) \/ UNCHANGED snap
    /\ Goto(c, "version")
    /\ UNCHANGED <<store, nqns>>

(* subsystem_nvme_create *)
SubsysCreateOnSnap(c) ==
    /\ At(c, "CreateNvmeSubsystem", "snap")
    /\ \/ SnapCreateSubsystem(call[c].nqn) /\ Goto(c, "version")
       \/ "create" \in Faults /\ SnapCreateSubsystem(call[c].nqn) /\ Return(c)
       \/ UNCHANGED snap /\ Return(c)
    /\ UNCHANGED <<store, nqns>>

(* spdk_get_version, and the entry in s.NQNs when it answers.              *)
SubsysCreateVersion(c) ==
    /\ At(c, "CreateNvmeSubsystem", "version")
    /\ \/ nqns' = nqns \cup {call[c].nqn} /\ Goto(c, "save")
       \/ "create" \in Faults /\ UNCHANGED nqns /\ Return(c)
    /\ UNCHANGED <<store, snap>>

(* store.Set *)
SubsysCreateSave(c) ==
    /\ At(c, "CreateNvmeSubsystem", "save")
    /\ \/ subsysStore' = [subsysStore EXCEPT ![SubsysKey(c)] = call[c].nqn]
       \/ "create" \in Faults /\ UNCHANGED subsysStore
    /\ Return(c)
    /\ UNCHANGED <<ctrlStore, nsStore, nqns, snap>>

-----------------------------------------------------------------------------
(* DeleteNvmeSubsystem *)

SubsysDeleteBegin(c, s) ==
    Begin(c, "DeleteNvmeSubsystem", s, None, None, None)

(* Mutant: the record is erased before SNAP is asked.                      *)
DeleteErasesFirst(c) ==
    /\ At(c, "DeleteNvmeSubsystem", "lookup")
    /\ subsysStore[SubsysKey(c)] # None
    /\ GotoWith(c, "snap", subsysStore[SubsysKey(c)], call[c].num)
    /\ subsysStore' = [subsysStore EXCEPT ![SubsysKey(c)] = None]
    /\ UNCHANGED <<ctrlStore, nsStore, nqns, snap>>

(* store.Get: the record read here is what the later steps work with.      *)
SubsysDeleteLookup(c) ==
    /\ At(c, "DeleteNvmeSubsystem", "lookup")
    /\ \/ /\ subsysStore[SubsysKey(c)] # None
          /\ GotoWith(c, "snap", subsysStore[SubsysKey(c)], call[c].num)
       \/ Return(c)     \* no such object, or the store fails
    /\ UNCHANGED <<store, nqns, snap>>

(* Mutant: the result of subsystem_nvme_delete is only logged.             *)
DeleteIgnoresSnapResult(c) ==
    /\ At(c, "DeleteNvmeSubsystem", "snap")
    /\ SnapDeleteSubsystem(call[c].nqn) \/ UNCHANGED snap
    /\ Goto(c, "forget")
    /\ UNCHANGED <<store, nqns>>

(* subsystem_nvme_delete *)
SubsysDeleteOnSnap(c) ==
    /\ At(c, "DeleteNvmeSubsystem", "snap")
    /\ \/ SnapDeleteSubsystem(call[c].nqn) /\ Goto(c, "forget")
       \/ "delete" \in Faults /\ SnapDeleteSubsystem(call[c].nqn) /\ Return(c)
       \/ UNCHANGED snap /\ Return(c)
    /\ UNCHANGED <<store, nqns>>

(* delete(s.NQNs, nqn) *)
SubsysDeleteForget(c) ==
    /\ At(c, "DeleteNvmeSubsystem", "forget")
    /\ nqns' = nqns \ {call[c].nqn}
    /\ Goto(c, "erase")
    /\ UNCHANGED <<store, snap>>

(* Mutant: the record is left in the store.                                *)
DeleteKeepsRecord(c) ==
    /\ At(c, "DeleteNvmeSubsystem", "erase")
    /\ Return(c)
    /\ UNCHANGED <<store, nqns, snap>>

(* store.Delete *)
SubsysDeleteErase(c) ==
    /\ At(c, "DeleteNvmeSubsystem", "erase")
    /\ \/ subsysStore' = [subsysStore EXCEPT ![SubsysKey(c)] = None]
       \/ "delete" \in Faults /\ UNCHANGED subsysStore
    /\ Return(c)
    /\ UNCHANGED <<ctrlStore, nsStore, nqns, snap>>

-----------------------------------------------------------------------------
SubsysStep(c) ==
    \/ \E s \in SubsystemIds, n \in Nqns : SubsysCreateBegin(c, s, n)
    \/ SubsysCreateLookup(c)
    \/ SubsysCreateCheckNqn(c)
    \/ SubsysCreateOnSnap(c)
    \/ SubsysCreateVersion(c)
    \/ SubsysCreateSave(c)
    \/ \E s \in SubsystemIds : SubsysDeleteBegin(c, s)
    \/ SubsysDeleteLookup(c)
    \/ SubsysDeleteOnSnap(c)
    \/ SubsysDeleteForget(c)
    \/ SubsysDeleteErase(c)

SubsysNext == Restart \/ \E c \in Calls : SubsysStep(c)

SubsysSpec == Init /\ [][SubsysNext]_vars

-----------------------------------------------------------------------------
(* A subsystem object is live while no delete has taken it off SNAP.       *)
BeingDeleted(s) ==
    \E c \in Calls : /\ call[c].op = "DeleteNvmeSubsystem"
                     /\ call[c].sub = s
                     /\ InDeleteWindow(c)

LiveSubsystem(s) == subsysStore[s] # None /\ ~BeingDeleted(s)

(* Two live subsystem objects never name the same NQN.                     *)
LiveNqnsUnique ==
    \A r, s \in SubsystemIds :
        /\ LiveSubsystem(r) /\ LiveSubsystem(s)
        /\ subsysStore[r] = subsysStore[s]
        => r = s

(* Every live subsystem object has its subsystem on SNAP.                  *)
LiveSubsystemsOnSnap ==
    \A s \in SubsystemIds : LiveSubsystem(s) => subsysStore[s] \in snapSubsys

(* The NQNs table never keeps an NQN from being used that SNAP is rid of,  *)
(* unless a delete is about to take the entry out.                         *)
NoPhantomNqn ==
    \A n \in nqns :
        \/ n \in snapSubsys
        \/ \E c \in Calls : /\ At(c, "DeleteNvmeSubsystem", "forget")
                            /\ call[c].nqn = n
=============================================================================
