----------------------------- MODULE MCHashList -----------------------------
(***************************************************************************)
(* HashList for TLC.  One process plays loader and writer, which gives all *)
(* interleavings of either with the user server; both users have one       *)
(* index, and the table fills up with them.                                *)
(***************************************************************************)
EXTENDS HashList
=============================================================================
