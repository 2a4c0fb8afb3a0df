--------------------------- MODULE MCWebInstances ---------------------------
(* Small instances of WebInstances for TLC. *)
EXTENDS WebInstances, TLC

CONSTANTS i1, i2, i3, h1, h2, w1, w2

MCSymmetry == Permutations(Ids) \cup Permutations(Hostnames) \cup Permutations(Workers)
=============================================================================
