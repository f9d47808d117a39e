----------------------------- MODULE VirtioTable -----------------------------
(***************************************************************************)
(* What the virtio-blk service promises: a table of objects, each with a   *)
(* physical function of its own, that creates and deletes change at once   *)
(* and that is lost as a whole when the process dies.                      *)
(***************************************************************************)
CONSTANTS VirtioIds, Pfs, None

VARIABLE objects    \* id -> its physical function, or None

Empty == [i \in VirtioIds |-> None]

TableInit == objects = Empty

(* No two objects have the same physical function.                         *)
CreateObject(i, f) ==
    /\ objects[i] = None
    /\ \A j \in VirtioIds : objects[j] # f
    /\ objects' = [objects EXCEPT ![i] = f]

DeleteObject(i) ==
    /\ objects[i] # None
    /\ objects' = [objects EXCEPT ![i] = None]

LoseObjects == objects' = Empty

TableNext ==
    \/ \E i \in VirtioIds :
          \/ \E f \in Pfs : CreateObject(i, f)
          \/ DeleteObject(i)
    \/ LoseObjects

TableSpec == TableInit /\ [][TableNext]_objects
=============================================================================
