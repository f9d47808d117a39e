----------------------------- MODULE MCListPages -----------------------------
(***************************************************************************)
(* ListPages for TLC, with three items: one below each of two NQNs and,    *)
(* between them in the order of names, a virtio-blk controller.            *)
(***************************************************************************)
EXTENDS ListPages

CONSTANTS n1, n2

MCNqns == {n1, n2}

MCBelow == [x \in Items |-> CASE x = 1 -> n1 [] x = 2 -> None [] OTHER -> n2]
=============================================================================
