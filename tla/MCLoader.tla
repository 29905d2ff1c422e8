------------------------------ MODULE MCLoader -------------------------------
(***************************************************************************)
(* Myfs and Loader for TLC.  Files of D + P blocks need the single         *)
(* indirect block, files of D + P * P + 1 blocks every kind of indirect    *)
(* block, and the loader does not reach their end.  With three entries per *)
(* block the root's first block has room for two files; further ones go to *)
(* a second block, whose names neither list_dic_entry nor the loader sees. *)
(***************************************************************************)
EXTENDS Loader

MCLens == {D + P, D + P * P + 1}
=============================================================================
