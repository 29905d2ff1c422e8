------------------------------ MODULE MCBuddy -------------------------------
(* Instances of Buddy for TLC: small memories, one with a hole. *)
EXTENDS Buddy, TLC

MCSize == [o \in 0 .. MaxOrderCnt |-> 2 ^ o]

\* Frame 5 is not RAM: the block 4..7 can never be merged.
MCUsable == Pfns \ {5}
=============================================================================
