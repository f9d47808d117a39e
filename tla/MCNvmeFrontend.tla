--------------------------- MODULE MCNvmeFrontend ---------------------------
(***************************************************************************)
(* Instances of NvmeFrontend for TLC.  Ids, NQNs and call slots are        *)
(* model values that the specification only compares, so each set of them  *)
(* is a symmetry set.                                                      *)
(***************************************************************************)
EXTENDS NvmeFrontend, TLC

Symmetry ==
    Permutations(SubsystemIds) \cup Permutations(ControllerIds)
        \cup Permutations(NamespaceIds) \cup Permutations(Nqns)
        \cup Permutations(Calls)
=============================================================================
