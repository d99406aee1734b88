----------------------------- MODULE MCBusLink -----------------------------
(* Instances of BusLink for TLC. *)
EXTENDS BusLink, TLC

MCSymmetry == Permutations(Clusters)
=============================================================================
