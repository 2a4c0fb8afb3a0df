---------------------------- MODULE MCDBInstances ----------------------------
(* Small instances of DBInstances for TLC. *)
EXTENDS DBInstances, TLC

CONSTANTS d1, d2, d3, w1, w2

MCSymmetry == Permutations(Ids) \cup Permutations(Workers)
=============================================================================
