----------------------------- MODULE MCInventory -----------------------------
(* Small instances of Inventory for TLC. *)
EXTENDS Inventory

CONSTANTS v1, v2, i1, i2, i3, w1, w2

\* Made and removed, halted and booted, and pulled out of its guest.
MCEvents == {<<v1, "future", "poweroff">>, <<v1, "poweroff", "gone">>, <<v1, "running", "poweroff">>,
             <<v1, "poweroff", "running">>, <<v1, "running", "aborted">>, <<v1, "running", "paused">>}
=============================================================================
