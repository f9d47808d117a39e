----------------------------- MODULE MCVirtioBlk -----------------------------
(***************************************************************************)
(* VirtioBlk for TLC.  Ids that SNAP names alike, physical functions and   *)
(* calls are only compared, so permuting them changes nothing; no liveness *)
(* is checked.                                                             *)
(***************************************************************************)
EXTENDS VirtioBlk, TLC

VirtioSymmetry ==
    Permutations(SerialNames) \cup Permutations(VirtioIds \ SerialNames)
        \cup Permutations(Pfs) \cup Permutations(Calls)
=============================================================================
