----------------------------- MODULE MCNvmeReads ----------------------------
(***************************************************************************)
(* NvmeReads for TLC, with the same symmetry as MCNvmeFrontend.            *)
(***************************************************************************)
EXTENDS NvmeReads, TLC

ReadsSymmetry ==
    Permutations(SubsystemIds) \cup Permutations(ControllerIds)
        \cup Permutations(NamespaceIds) \cup Permutations(Nqns)
        \cup Permutations(Calls)
=============================================================================
