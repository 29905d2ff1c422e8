------------------------------- MODULE MCSlab --------------------------------
(* Instances of Slab for TLC: two caches, neither of whose objects divide a block. *)
EXTENDS Slab, TLC

CONSTANTS c3, c6

MCObjSize == [c \in Cache |-> IF c = c3 THEN 3 ELSE 6]
=============================================================================
