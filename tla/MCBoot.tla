------------------------------- MODULE MCBoot -------------------------------
(***************************************************************************)
(* The boot processor has id 1; of the others one has the id whose stack   *)
(* the boot processor begins on, one the largest id with a stack of its    *)
(* own, one the largest that passes, and one does not pass.                *)
(***************************************************************************)
EXTENDS Boot

MCDelays == <<10, 20>>
=============================================================================
