----------------------------- MODULE MCJsonStore ----------------------------
(* A small instance of JsonStore for TLC. *)
EXTENDS JsonStore

CONSTANTS k1, k2, w1, w2
=============================================================================
