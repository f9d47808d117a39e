---------------------------- MODULE MCNvmeOverlap ---------------------------
(***************************************************************************)
(* NvmeOverlap for TLC, with the same symmetry as MCNvmeFrontend.          *)
(***************************************************************************)
EXTENDS NvmeOverlap, TLC

OverlapSymmetry ==
    Permutations(SubsystemIds) \cup Permutations(ControllerIds)
        \cup Permutations(NamespaceIds) \cup Permutations(Nqns)
        \cup Permutations(Calls)
=============================================================================
