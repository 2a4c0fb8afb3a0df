------------------------------- MODULE Leases -------------------------------
(***************************************************************************)
(* What the allocation of names and of addresses promises: a holder takes  *)
(* one resource nobody has, keeps it, and gives it back; what is held is   *)
(* written down, and a restart finds what was written last.  This is the   *)
(* abstract specification: WebInstances implements it twice, DBInstances   *)
(* once.                                                                   *)
(***************************************************************************)
EXTENDS TLAPS

CONSTANTS Holders, Resources,
          Nothing,    \* none of the Resources
          Lossy,      \* writing may fail
          Restarts    \* there are restarts

VARIABLES held,   \* the resource each holder has, or Nothing
          saved   \* the same, as written down

TypeOK == /\ held  \in [Holders -> Resources \cup {Nothing}]
          /\ saved \in [Holders -> Resources \cup {Nothing}]

Init == held = [x \in Holders |-> Nothing] /\ saved = held

Write == saved' = held' \/ (Lossy /\ UNCHANGED saved)

Acquire(x) ==
    /\ held[x] = Nothing
    /\ \E r \in Resources : /\ \A y \in Holders : held[y] # r
                            /\ held' = [held EXCEPT ![x] = r]
    /\ Write

Release(x) ==
    /\ held[x] # Nothing
    /\ held' = [held EXCEPT ![x] = Nothing]
    /\ Write

Rewrite == UNCHANGED held /\ saved' = held

Restart == Restarts /\ held' = saved /\ UNCHANGED saved

Next == (\E x \in Holders : Acquire(x) \/ Release(x)) \/ Rewrite \/ Restart

Spec == Init /\ [][Next]_<<held, saved>>

\* No resource has two holders, before and after a restart.
ExclusiveIn(h) == \A x, y \in Holders : h[x] = h[y] /\ h[x] # Nothing => x = y
Exclusive == ExclusiveIn(held) /\ ExclusiveIn(saved)

\* Whoever implements this never gives one resource to two, whichever writes
\* are lost and however often there is a restart.
THEOREM NoneShared == Spec => []Exclusive
<1>1. Init => Exclusive
  BY DEF Init, Exclusive, ExclusiveIn
<1>2. TypeOK /\ Exclusive /\ [Next]_<<held, saved>> => Exclusive'
  <2> SUFFICES ASSUME TypeOK, Exclusive, [Next]_<<held, saved>> PROVE Exclusive'
    OBVIOUS
  <2> USE DEF Exclusive, ExclusiveIn
  <2>1. ASSUME NEW x \in Holders, Acquire(x) PROVE ExclusiveIn(held')
    BY <2>1 DEF Acquire, TypeOK
  <2>2. ASSUME NEW x \in Holders, Release(x) PROVE ExclusiveIn(held')
    BY <2>2 DEF Release, TypeOK
  <2>3. ASSUME NEW x \in Holders, Acquire(x) \/ Release(x) PROVE Exclusive'
    BY <2>1, <2>2, <2>3 DEF Acquire, Release, Write
  <2>4. CASE Rewrite \/ Restart \/ UNCHANGED <<held, saved>>
    BY <2>4 DEF Rewrite, Restart
  <2> QED
    BY <2>3, <2>4 DEF Next
<1>3. Init => TypeOK
  BY DEF Init, TypeOK
<1>4. TypeOK /\ [Next]_<<held, saved>> => TypeOK'
  BY DEF TypeOK, Next, Acquire, Release, Rewrite, Restart, Write
<1> QED
  BY <1>1, <1>2, <1>3, <1>4, PTL DEF Spec
=============================================================================
