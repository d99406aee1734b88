----------------------------- MODULE MCConnGns -----------------------------
(* Instances of ConnGns for TLC. *)
EXTENDS ConnGns, TLC

MCSymmetry == Permutations(Servers)
=============================================================================
