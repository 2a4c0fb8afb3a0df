----------------------------- MODULE DurableMap -----------------------------
(***************************************************************************)
(* What a map kept in a file promises: the file holds no entry older than  *)
(* one it held before or than one that was acknowledged, and none newer    *)
(* than memory's; a restart goes back to the file.  This is the abstract   *)
(* specification JsonStore implements.                                     *)
(***************************************************************************)
EXTENDS Integers

CONSTANT Keys

VARIABLES
    latest,     \* the map in memory
    disk,       \* the map a restart would find
    acked       \* the version of each entry known to be on disk

vars == <<latest, disk, acked>>

\* An entry that is not stored still has a version: the one of its deletion.
Entry == [version : Nat, stored : BOOLEAN]

Blank == [k \in Keys |-> [version |-> 0, stored |-> FALSE]]

Versions(m) == [k \in Keys |-> m[k].version]

NoOlder(v, u) == \A k \in Keys : v[k] >= u[k]

\* A version identifies its entry.
Agree(m, n) == \A k \in Keys : m[k].version = n[k].version => m[k] = n[k]

Init == latest = Blank /\ disk = Blank /\ acked = Versions(Blank)

\* Edits of any kind give their entries a newer version.
Change ==
    /\ \A k \in Keys : latest'[k] # latest[k] => latest'[k].version = latest[k].version + 1
    /\ UNCHANGED <<disk, acked>>

\* Entries are written as of some moment between the last flush and now.
Flush ==
    /\ NoOlder(Versions(disk'), Versions(disk))
    /\ NoOlder(Versions(latest), Versions(disk')) /\ Agree(disk', latest)
    /\ NoOlder(Versions(disk'), acked') /\ NoOlder(acked', acked)
    /\ UNCHANGED latest

Restart == latest' = disk /\ UNCHANGED <<disk, acked>>

Next == Change \/ Flush \/ Restart

Spec == Init /\ [][Next]_vars
=============================================================================
