------------------------------ MODULE MCSched --------------------------------
(* Instances of Sched for TLC. *)
EXTENDS Sched, TLC

CONSTANTS a, b, c
=============================================================================
