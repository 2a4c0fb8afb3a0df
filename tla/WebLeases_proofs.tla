-------------------------- MODULE WebLeases_proofs --------------------------
(* Names and addresses of WebInstances: exclusive, and leased as Leases     *)
(* says, when provision requests come one at a time.                        *)
EXTENDS WebInstances_proofs

\* The request under way, of which there is one, holds a name and an address
\* that no stored instance has.
Alone ==
    \A i, j \in Ids : pc[i] \in HandlerPhases /\ pc[j] \in HandlerPhases => i = j

FreshName ==
    \A i \in Ids : pc[i] \in HandlerPhases =>
        \A j \in store : inst[j].hostname # inst[i].hostname

FreshAddress ==
    \A i \in Ids : pc[i] = "allocated" =>
        inst[i].ip \in Pool /\ \A j \in store : inst[j].ip # inst[i].ip

Exclusive == UniqueHostnames /\ UniqueAddresses

UInv == Alone /\ FreshName /\ FreshAddress /\ Exclusive

\* The file is up to date with the store, as far as names and addresses go.
Saved ==
    /\ file.ids = store
    /\ \A i \in store : /\ file.inst[i].hostname = inst[i].hostname
                        /\ file.inst[i].ip = inst[i].ip

-----------------------------------------------------------------------------
(* Exclusive names and addresses. *)

\* What is saved is as exclusive as what is stored.
LEMMA SnapshotExclusive ==
    ASSUME TypeOK, Save \/ UNCHANGED file, store' \subseteq Ids,
           UniqueHostnamesIn(file.ids, file.inst), UniqueAddressesIn(file.ids, file.inst),
           UniqueHostnamesIn(store', inst'), UniqueAddressesIn(store', inst')
    PROVE  UniqueHostnamesIn(file'.ids, file'.inst) /\ UniqueAddressesIn(file'.ids, file'.inst)
<1>1. CASE file' = Snapshot(store', inst')
  <2>1. file'.ids = store' /\ \A i \in store' : file'.inst[i] = inst'[i]
    BY <1>1 DEF Snapshot
  <2> QED
    BY <2>1 DEF UniqueHostnamesIn, UniqueAddressesIn
<1>2. CASE UNCHANGED file
  BY <1>2 DEF UniqueHostnamesIn, UniqueAddressesIn
<1> QED
  BY <1>1, <1>2 DEF Save

\* An instance that has just been stored was the one request under way.
LEMMA SteadyExclusive ==
    ASSUME IInv, UInv, TypeOK', Steady
    PROVE  UInv'
<1>1. TypeOK /\ SoundObjects /\ SoundPhases /\ store' \subseteq Ids
  BY DEF IInv, Steady, TypeOK
<1>2. \A j \in Ids : pc'[j] \in HandlerPhases => pc'[j] = pc[j]
  BY <1>1 DEF SoundPhases, SoundPhase, HandlerPhases, GoroutinePhases
<1>3. \A j \in Ids : /\ inst'[j].hostname = inst[j].hostname
                     /\ inst'[j].ip \in {inst[j].ip, TemplateIP}
                     /\ pc[j] \in HandlerPhases => inst'[j] = inst[j]
  BY <1>1 DEF SoundObjects, Sound, Begun
<1>4. \A j \in store' \ store : pc[j] = "allocated" /\ pc'[j] \notin HandlerPhases
  BY <1>1 DEF SoundObjects, HandlerPhases
<1>5. Alone'
  BY <1>2 DEF UInv, Alone
<1>6. \A j \in store' \ store, i \in Ids : pc'[i] \notin HandlerPhases
  BY <1>1, <1>2, <1>4 DEF UInv, Alone, HandlerPhases
<1>7. FreshName'
  BY <1>1, <1>2, <1>3, <1>6 DEF UInv, FreshName, TypeOK
<1>8. FreshAddress'
  <2> SUFFICES ASSUME NEW i \in Ids, pc'[i] = "allocated"
               PROVE  inst'[i].ip \in Pool /\ \A j \in store' : inst'[j].ip # inst'[i].ip
    BY DEF FreshAddress
  <2>1. pc[i] = "allocated" /\ inst'[i] = inst[i] /\ store' \subseteq store
    BY <1>2, <1>3, <1>6 DEF HandlerPhases
  <2>2. inst[i].ip \in Pool /\ inst[i].ip # TemplateIP
    BY <2>1, PoolAssumption DEF UInv, FreshAddress
  <2> QED
    BY <1>1, <1>3, <2>1, <2>2 DEF UInv, FreshAddress, TypeOK
<1>9. UniqueHostnamesIn(store', inst')
  <2> SUFFICES ASSUME NEW i \in store', NEW j \in store', inst[i].hostname = inst[j].hostname
               PROVE  i = j
    BY <1>1, <1>3 DEF UniqueHostnamesIn
  <2>1. CASE i \in store /\ j \in store
    BY <2>1 DEF UInv, Exclusive, UniqueHostnames, UniqueHostnamesIn
  <2>2. CASE i \in store /\ j \notin store
    BY <1>1, <1>4, <2>2 DEF UInv, FreshName, HandlerPhases
  <2>3. CASE i \notin store /\ j \in store
    BY <1>1, <1>4, <2>3 DEF UInv, FreshName, HandlerPhases
  <2>4. CASE i \notin store /\ j \notin store
    BY <1>1, <1>4, <2>4 DEF UInv, Alone, HandlerPhases
  <2> QED
    BY <2>1, <2>2, <2>3, <2>4
<1>10. UniqueAddressesIn(store', inst')
  <2> SUFFICES ASSUME NEW i \in store', NEW j \in store',
                      inst[i].ip = inst[j].ip, inst[i].ip \in Pool
               PROVE  i = j
    BY <1>1, <1>3, PoolAssumption DEF UniqueAddressesIn
  <2>1. CASE i \in store /\ j \in store
    BY <2>1 DEF UInv, Exclusive, UniqueAddresses, UniqueAddressesIn
  <2>2. CASE i \in store /\ j \notin store
    BY <1>1, <1>4, <2>2 DEF UInv, FreshAddress
  <2>3. CASE i \notin store /\ j \in store
    BY <1>1, <1>4, <2>3 DEF UInv, FreshAddress
  <2>4. CASE i \notin store /\ j \notin store
    BY <1>1, <1>4, <2>4 DEF UInv, Alone, HandlerPhases
  <2> QED
    BY <2>1, <2>2, <2>3, <2>4
<1>11. Exclusive'
  BY <1>1, <1>9, <1>10, SnapshotExclusive
     DEF UInv, Exclusive, UniqueHostnames, UniqueAddresses, SoundObjects
<1> QED
  BY <1>5, <1>7, <1>8, <1>11 DEF UInv

\* The steps of a request, on an object nobody has seen.
LEMMA RequestExclusive ==
    ASSUME IInv, UInv, TypeOK', NEW i \in Ids, ~Begun(i),
           \A j \in Ids \ {i} : inst'[j] = inst[j] /\ pc'[j] = pc[j],
           UNCHANGED <<store, file>>,
           pc'[i] \in HandlerPhases =>
             /\ \A j \in Ids \ {i} : pc[j] \notin HandlerPhases
             /\ \A j \in store : inst[j].hostname # inst'[i].hostname,
           pc'[i] = "allocated" => inst'[i].ip \in Pool /\ \A j \in store : inst[j].ip # inst'[i].ip
    PROVE  UInv'
<1>1. i \notin store /\ store \subseteq Ids
  BY DEF IInv, NamesKnown, TypeOK
<1>2. \A j \in store : inst'[j] = inst[j]
  BY <1>1
<1>3. Alone'
  BY DEF UInv, Alone
<1>4. FreshName'
  BY <1>2 DEF UInv, FreshName
<1>5. FreshAddress'
  BY <1>2 DEF UInv, FreshAddress
<1>6. Exclusive'
  BY <1>2 DEF UInv, Exclusive, UniqueHostnames, UniqueHostnamesIn, UniqueAddresses, UniqueAddressesIn
<1> QED
  BY <1>3, <1>4, <1>5, <1>6 DEF UInv

LEMMA CheckHostnameExclusive ==
    ASSUME ~OverlappingProvisions, IInv, UInv, TypeOK',
           NEW i \in Ids, NEW h \in Hostnames, CheckHostname(i, h)
    PROVE  UInv'
<1>1. ~Begun(i) /\ UNCHANGED <<store, file>>
  BY DEF CheckHostname, Begun
<1>2. \A j \in Ids \ {i} : inst'[j] = inst[j] /\ pc'[j] = pc[j]
  BY DEF CheckHostname, Goto, IInv, TypeOK
<1>3. pc'[i] = "checked"
  BY DEF CheckHostname, Goto, IInv, TypeOK
<1>4. inst'[i].hostname = h
  BY DEF CheckHostname, IInv, TypeOK, Instance
<1>5. /\ \A j \in Ids \ {i} : pc[j] \notin HandlerPhases
      /\ \A j \in store : inst[j].hostname # inst'[i].hostname
  BY <1>4 DEF CheckHostname, HostnameTaken
<1> QED
  BY <1>1, <1>2, <1>3, <1>5, RequestExclusive

LEMMA AllocateIPExclusive ==
    ASSUME IInv, UInv, TypeOK', NEW i \in Ids, AllocateIP(i)
    PROVE  UInv'
<1>1. ~Begun(i) /\ UNCHANGED <<store, file>> /\ pc[i] = "checked" /\ pc[i] \in HandlerPhases
  BY DEF AllocateIP, Begun, HandlerPhases
<1>2. \A j \in Ids \ {i} : inst'[j] = inst[j] /\ pc'[j] = pc[j]
  BY DEF AllocateIP, Goto, IInv, TypeOK
<1>3. CASE \E ip \in FreeIPs : inst' = [inst EXCEPT ![i] =
             [@ EXCEPT !.ip = ip, !.state = "pending", !.vbox = "starting", !.url = "fqdn"]]
           /\ Goto(i, "allocated")
  <2>1. PICK ip \in FreeIPs : inst' = [inst EXCEPT ![i] =
             [@ EXCEPT !.ip = ip, !.state = "pending", !.vbox = "starting", !.url = "fqdn"]]
    BY <1>3
  <2>2. inst'[i].hostname = inst[i].hostname /\ inst'[i].ip = ip
    BY <2>1 DEF IInv, TypeOK, Instance
  <2>3. ip \in Pool /\ ip # NoIP /\ \A j \in store : inst[j].ip # ip
    BY PoolAssumption DEF FreeIPs, UsedIPs
  <2>4. /\ \A j \in Ids \ {i} : pc[j] \notin HandlerPhases
        /\ \A j \in store : inst[j].hostname # inst'[i].hostname
    BY <1>1, <2>2 DEF UInv, Alone, FreshName
  <2> QED
    BY <1>1, <1>2, <2>2, <2>3, <2>4, RequestExclusive
<1>4. CASE inst' = [inst EXCEPT ![i] = NoInstance] /\ Goto(i, "new")
  <2>1. pc'[i] = "new"
    BY <1>4 DEF Goto, IInv, TypeOK
  <2> QED
    BY <1>1, <1>2, <2>1, RequestExclusive DEF HandlerPhases
<1> QED
  BY <1>3, <1>4 DEF AllocateIP

\* A restart forgets the requests and takes the store from the file.
LEMMA CrashExclusive ==
    ASSUME IInv, UInv, Crash
    PROVE  UInv'
<1>1. \A i \in Ids : pc'[i] \in {"new", "done"}
  BY DEF Crash
<1>2. Alone' /\ FreshName' /\ FreshAddress'
  BY <1>1 DEF Alone, FreshName, FreshAddress, HandlerPhases
<1>3. Exclusive'
  BY DEF Crash, UInv, Exclusive, UniqueHostnames, UniqueAddresses
<1> QED
  BY <1>2, <1>3 DEF UInv

LEMMA InitExclusive == Init => UInv
  BY DEF Init, Snapshot, UInv, Alone, FreshName, FreshAddress, Exclusive, HandlerPhases,
         UniqueHostnames, UniqueHostnamesIn, UniqueAddresses, UniqueAddressesIn

LEMMA NextExclusive ==
    ASSUME ~OverlappingProvisions
    PROVE  IInv /\ UInv /\ [Next]_vars => UInv'
<1> SUFFICES ASSUME IInv, UInv, [Next]_vars PROVE UInv'
  OBVIOUS
<1>1. TypeOK'
  BY TypeStep
<1>2. CASE UNCHANGED vars
  BY <1>2 DEF vars, UInv, Alone, FreshName, FreshAddress, Exclusive,
              UniqueHostnames, UniqueHostnamesIn, UniqueAddresses, UniqueAddressesIn
<1>3. CASE Next
  BY <1>1, <1>3, SteadyActions, SteadyExclusive, CheckHostnameExclusive, AllocateIPExclusive,
     CrashExclusive
<1> QED
  BY <1>2, <1>3

\* Names: when provision requests come one at a time, no two stored instances
\* share one, whatever else overlaps, fails to be saved or crashes.
THEOREM HostnamesUnique ==
    ASSUME ~OverlappingProvisions
    PROVE  Spec => []UniqueHostnames
<1>1. UInv => UniqueHostnames
  BY DEF UInv, Exclusive
<1> QED
  BY <1>1, InitExclusive, NextExclusive, Invariance, PTL DEF Spec

\* Addresses of the pool: the same.
THEOREM AddressesUnique ==
    ASSUME ~OverlappingProvisions
    PROVE  Spec => []UniqueAddresses
<1>1. UInv => UniqueAddresses
  BY DEF UInv, Exclusive
<1> QED
  BY <1>1, InitExclusive, NextExclusive, Invariance, PTL DEF Spec

-----------------------------------------------------------------------------
(* When no save fails the file follows the store, and the store only grows  *)
(* by Put.                                                                  *)

LEMMA SteadySaved ==
    ASSUME "save" \notin Failures, IInv, Saved, TypeOK', Steady
    PROVE  Saved'
<1>1. SoundObjects /\ TypeOK /\ store \subseteq Ids /\ store' \subseteq Ids
  BY DEF Steady, IInv, TypeOK
<1>2. CASE Save
  BY <1>1, <1>2 DEF Save, Snapshot, Saved
<1>3. CASE UNCHANGED <<store, file>> /\ \A j \in Ids : inst'[j].ip = inst[j].ip
  BY <1>1, <1>3 DEF SoundObjects, Sound, Saved
<1> QED
  BY <1>1, <1>2, <1>3 DEF SoundObjects

\* A request touches an object that is not stored.
LEMMA RequestKeepsStore ==
    ASSUME IInv, NEW i \in Ids, AllocateIP(i) \/ \E h \in Hostnames : CheckHostname(i, h)
    PROVE  UNCHANGED <<store, file>> /\ \A j \in store : inst'[j] = inst[j]
<1>1. UNCHANGED <<store, file>> /\ ~Begun(i)
  BY DEF AllocateIP, CheckHostname, Begun, HandlerPhases
<1>2. i \notin store /\ store \subseteq Ids
  BY <1>1 DEF IInv, NamesKnown, TypeOK
<1>3. \A j \in Ids \ {i} : inst'[j] = inst[j]
  BY DEF AllocateIP, CheckHostname, IInv, TypeOK
<1> QED
  BY <1>1, <1>2, <1>3

LEMMA RequestSaved ==
    ASSUME IInv, Saved, \E i \in Ids : AllocateIP(i) \/ \E h \in Hostnames : CheckHostname(i, h)
    PROVE  Saved'
  BY RequestKeepsStore DEF Saved

LEMMA InitSaved == Init => Saved
  BY DEF Init, Snapshot, Saved

LEMMA NextSaved ==
    ASSUME "save" \notin Failures
    PROVE  IInv /\ Saved /\ [Next]_vars => Saved'
<1> SUFFICES ASSUME IInv, Saved, [Next]_vars PROVE Saved'
  OBVIOUS
<1>1. TypeOK'
  BY TypeStep
<1>2. CASE UNCHANGED vars
  BY <1>2 DEF vars, Saved
<1>3. CASE Crash
  BY <1>3 DEF Crash, Saved
<1>4. CASE Next /\ ~Crash
  BY <1>1, <1>4, SteadyActions, SteadySaved, RequestSaved
<1> QED
  BY <1>2, <1>3, <1>4

\* No instance returns that was deleted, neither through a goroutine that still
\* works on it nor through a restart, with any overlap of requests.
THEOREM NoneResurrected ==
    ASSUME "save" \notin Failures
    PROVE  Spec => NoResurrection
<1>1. IInv /\ Saved /\ [Next]_vars
        => [\A i \in store' \ store : pc[i] = "allocated"]_vars
  <2> SUFFICES ASSUME IInv, Saved, Next PROVE \A i \in store' \ store : pc[i] = "allocated"
    OBVIOUS
  <2>1. CASE Steady
    BY <2>1 DEF Steady, SoundObjects
  <2>2. CASE \E i \in Ids : AllocateIP(i) \/ \E h \in Hostnames : CheckHostname(i, h)
    BY <2>2, RequestKeepsStore
  <2>3. CASE Crash
    BY <2>3 DEF Crash, Saved
  <2> QED
    BY <2>1, <2>2, <2>3, SteadyActions
<1> QED
  BY <1>1, InitSaved, NextSaved, Invariance, PTL DEF Spec, NoResurrection

-----------------------------------------------------------------------------
(* Names and addresses are leased. *)

NameHeld     == NamesIn(store, inst)
NameSaved    == NamesIn(file.ids, file.inst)
AddressHeld  == AddressesIn(store, inst)
AddressSaved == AddressesIn(file.ids, file.inst)

\* A step in which the store and what it says of names and addresses stay.
LEMMA SameStoreSameLeases ==
    ASSUME TypeOK, UNCHANGED <<store, file>>,
           \A j \in store : inst'[j].hostname = inst[j].hostname /\ inst'[j].ip = inst[j].ip
    PROVE  UNCHANGED <<NameHeld, NameSaved>> /\ UNCHANGED <<AddressHeld, AddressSaved>>
<1>1. \A j \in Ids : /\ (IF j \in store' THEN inst'[j].hostname ELSE None)
                          = (IF j \in store THEN inst[j].hostname ELSE None)
                     /\ (IF j \in store' /\ inst'[j].ip \in Pool THEN inst'[j].ip ELSE NoIP)
                          = (IF j \in store /\ inst[j].ip \in Pool THEN inst[j].ip ELSE NoIP)
  OBVIOUS
<1>2. NameHeld' = NameHeld /\ AddressHeld' = AddressHeld
  BY <1>1 DEF NameHeld, AddressHeld, NamesIn, AddressesIn
<1> QED
  BY <1>2 DEF NameSaved, AddressSaved

\* The holder of a lease, before and after.
LEMMA HeldBy ==
    ASSUME NEW i \in Ids
    PROVE  /\ NameHeld[i] = IF i \in store THEN inst[i].hostname ELSE None
           /\ NameHeld'[i] = IF i \in store' THEN inst'[i].hostname ELSE None
           /\ AddressHeld[i] = IF i \in store /\ inst[i].ip \in Pool THEN inst[i].ip ELSE NoIP
           /\ AddressHeld'[i] = IF i \in store' /\ inst'[i].ip \in Pool THEN inst'[i].ip ELSE NoIP
  BY DEF NameHeld, AddressHeld, NamesIn, AddressesIn

\* What a save writes down is what is held.
LEMMA SaveWrites ==
    ASSUME Save
    PROVE  /\ NameSaved' = NameHeld' \/ ("save" \in Failures /\ UNCHANGED NameSaved)
           /\ AddressSaved' = AddressHeld' \/ ("save" \in Failures /\ UNCHANGED AddressSaved)
<1>1. CASE file' = Snapshot(store', inst')
  <2>1. /\ file'.ids = store'
        /\ \A i \in Ids : i \in store' => file'.inst[i] = inst'[i]
    BY <1>1 DEF Snapshot
  <2>2. \A i \in Ids : /\ (IF i \in file'.ids THEN file'.inst[i].hostname ELSE None)
                            = (IF i \in store' THEN inst'[i].hostname ELSE None)
                       /\ (IF i \in file'.ids /\ file'.inst[i].ip \in Pool
                           THEN file'.inst[i].ip ELSE NoIP)
                            = (IF i \in store' /\ inst'[i].ip \in Pool THEN inst'[i].ip ELSE NoIP)
    BY <2>1
  <2> QED
    BY <2>2 DEF NameHeld, NameSaved, AddressHeld, AddressSaved, NamesIn, AddressesIn
<1>2. CASE "save" \in Failures /\ UNCHANGED file
  BY <1>2 DEF NameSaved, AddressSaved
<1> QED
  BY <1>1, <1>2 DEF Save

\* A function that changes in one place.
LEMMA OnePlace ==
    ASSUME NEW S, NEW f, NEW g, f = [x \in S |-> f[x]], g = [x \in S |-> g[x]],
           NEW i \in S, \A j \in S \ {i} : g[j] = f[j]
    PROVE  g = [f EXCEPT ![i] = g[i]]
<1>1. [f EXCEPT ![i] = g[i]] = [x \in S |-> IF x = i THEN g[i] ELSE f[x]]
  OBVIOUS
<1>2. \A x \in S : (IF x = i THEN g[i] ELSE f[x]) = g[x]
  OBVIOUS
<1> QED
  BY <1>1, <1>2

\* A steady step in which nothing is taken or given back.
LEMMA SameNames ==
    ASSUME Save \/ UNCHANGED file, NameHeld' = NameHeld
    PROVE  [NameLeases!Next]_<<NameHeld, NameSaved>>
<1>1. UNCHANGED NameSaved \/ NameSaved' = NameHeld
  BY SaveWrites DEF NameSaved
<1> QED
  BY <1>1 DEF NameLeases!Next, NameLeases!Rewrite, NameHeld, NameSaved

LEMMA SameAddresses ==
    ASSUME Save \/ UNCHANGED file, AddressHeld' = AddressHeld
    PROVE  [AddressLeases!Next]_<<AddressHeld, AddressSaved>>
<1>1. UNCHANGED AddressSaved \/ AddressSaved' = AddressHeld
  BY SaveWrites DEF AddressSaved
<1> QED
  BY <1>1 DEF AddressLeases!Next, AddressLeases!Rewrite, AddressHeld, AddressSaved

\* One instance enters or leaves the store, or its address is replaced.
LEMMA SteadyNames ==
    ASSUME IInv, UInv, Steady
    PROVE  [NameLeases!Next]_<<NameHeld, NameSaved>>
<1>1. SoundObjects /\ store \subseteq Ids
  BY DEF Steady, IInv, TypeOK
<1>2. \A j \in Ids : inst'[j].hostname = inst[j].hostname
  BY <1>1 DEF SoundObjects, Sound
<1>3. CASE store' = store
  <2>1. NameHeld' = NameHeld
    BY <1>2, <1>3 DEF NameHeld, NamesIn
  <2> QED
    BY <1>1, <2>1, SameNames DEF SoundObjects
<1>4. ASSUME store' # store, NEW i \in Ids,
             \A j \in Ids \ {i} : inst'[j] = inst[j] /\ (j \in store' <=> j \in store)
      PROVE  [NameLeases!Next]_<<NameHeld, NameSaved>>
  <2>1. \A j \in Ids \ {i} : NameHeld'[j] = NameHeld[j]
    BY <1>4, HeldBy
  <2>2. NameHeld = [x \in Ids |-> NameHeld[x]] /\ NameHeld' = [x \in Ids |-> NameHeld'[x]]
    BY DEF NameHeld, NamesIn
  <2>3. NameHeld' = [NameHeld EXCEPT ![i] = NameHeld'[i]]
    BY <2>1, <2>2, OnePlace
  <2>4. NameLeases!Write
    BY <1>1, <1>4, SaveWrites DEF SoundObjects, NameLeases!Write, NameHeld, NameSaved
  <2>5. CASE i \in store /\ i \notin store'
    <3>1. NameHeld[i] # None /\ NameHeld'[i] = None
      BY <2>5, HeldBy, NoneAssumption DEF IInv, NamesKnown, Host
    <3>2. NameLeases!Release(i)
      BY <2>3, <2>4, <3>1 DEF NameLeases!Release, NameHeld
    <3> QED
      BY <3>2 DEF NameLeases!Next
  <2>6. CASE i \notin store /\ i \in store'
    <3>1. pc[i] = "allocated" /\ pc[i] \in HandlerPhases
      BY <1>1, <2>6 DEF SoundObjects, HandlerPhases
    <3>2. inst[i].hostname \in Hostnames
      BY <3>1 DEF IInv, NamesKnown, Host
    <3>3. NameHeld[i] = None /\ NameHeld'[i] = inst[i].hostname
      BY <1>2, <2>6, HeldBy
    <3>4. \A y \in Ids : NameHeld[y] # inst[i].hostname
      BY <3>1, <3>2, HeldBy, NoneAssumption DEF UInv, FreshName
    <3>5. NameLeases!Acquire(i)
      BY <2>3, <2>4, <3>2, <3>3, <3>4 DEF NameLeases!Acquire, NameHeld
    <3> QED
      BY <3>5 DEF NameLeases!Next
  <2>7. CASE i \in store <=> i \in store'
    <3>1. NameHeld' = NameHeld
      BY <1>2, <2>1, <2>2, <2>7, HeldBy
    <3> QED
      BY <1>1, <3>1, SameNames DEF SoundObjects
  <2> QED
    BY <2>5, <2>6, <2>7
<1> QED
  BY <1>1, <1>3, <1>4 DEF SoundObjects

LEMMA SteadyAddresses ==
    ASSUME IInv, UInv, Steady
    PROVE  [AddressLeases!Next]_<<AddressHeld, AddressSaved>>
<1>1. SoundObjects /\ store \subseteq Ids
  BY DEF Steady, IInv, TypeOK
<1>2. \A j \in Ids : /\ inst'[j].ip \in {inst[j].ip, TemplateIP}
                     /\ ~Begun(j) => inst'[j] = inst[j]
  BY <1>1 DEF SoundObjects, Sound
<1>3. CASE AddressHeld' = AddressHeld
  BY <1>1, <1>3, SameAddresses DEF SoundObjects
<1>4. ASSUME AddressHeld' # AddressHeld, NEW i \in Ids,
             \A j \in Ids \ {i} : inst'[j] = inst[j] /\ (j \in store' <=> j \in store)
      PROVE  [AddressLeases!Next]_<<AddressHeld, AddressSaved>>
  <2>1. \A j \in Ids \ {i} : AddressHeld'[j] = AddressHeld[j]
    BY <1>4, HeldBy
  <2>2. /\ AddressHeld = [x \in Ids |-> AddressHeld[x]]
        /\ AddressHeld' = [x \in Ids |-> AddressHeld'[x]]
    BY DEF AddressHeld, AddressesIn
  <2>3. AddressHeld' = [AddressHeld EXCEPT ![i] = AddressHeld'[i]]
    BY <2>1, <2>2, OnePlace
  <2>4. AddressHeld'[i] # AddressHeld[i]
    BY <1>4, <2>2, <2>3
  <2>5. AddressLeases!Write
    <3>1. Save
      BY <1>1, <2>4, HeldBy DEF SoundObjects
    <3> QED
      BY <3>1, SaveWrites DEF AddressLeases!Write, AddressHeld, AddressSaved
  <2>6. CASE i \notin store
    <3>1. i \in store'
      BY <2>4, <2>6, HeldBy
    <3>2. pc[i] = "allocated"
      BY <1>1, <2>6, <3>1 DEF SoundObjects
    <3>3. inst[i].ip \in Pool /\ inst[i].ip # NoIP /\ \A j \in store : inst[j].ip # inst[i].ip
      BY <3>2, PoolAssumption DEF UInv, FreshAddress
    <3>4. inst'[i] = inst[i]
      BY <1>2, <3>2 DEF Begun, HandlerPhases
    <3>5. AddressHeld[i] = NoIP /\ AddressHeld'[i] = inst[i].ip
      BY <2>6, <3>1, <3>3, <3>4, HeldBy
    <3>6. \A y \in Ids : AddressHeld[y] # inst[i].ip
      BY <3>3, HeldBy
    <3>7. AddressLeases!Acquire(i)
      BY <2>3, <2>5, <3>3, <3>5, <3>6 DEF AddressLeases!Acquire, AddressHeld
    <3> QED
      BY <3>7 DEF AddressLeases!Next
  <2>7. CASE i \in store
    <3>1. AddressHeld'[i] \in {AddressHeld[i], NoIP}
      BY <1>2, <2>7, HeldBy, PoolAssumption
    <3>2. AddressLeases!Release(i)
      BY <2>3, <2>4, <2>5, <3>1 DEF AddressLeases!Release, AddressHeld
    <3> QED
      BY <3>2 DEF AddressLeases!Next
  <2> QED
    BY <2>6, <2>7
<1> QED
  BY <1>1, <1>3, <1>4 DEF SoundObjects

\* Every step is a step of Leases, or none.
LEMMA NextLeases ==
    ASSUME IInv, UInv, [Next]_vars
    PROVE  /\ [NameLeases!Next]_<<NameHeld, NameSaved>>
           /\ [AddressLeases!Next]_<<AddressHeld, AddressSaved>>
<1>0. TypeOK
  BY DEF IInv
<1>1. CASE Steady
  BY <1>1, SteadyNames, SteadyAddresses
<1>2. CASE UNCHANGED vars
  BY <1>2 DEF vars, NameHeld, NameSaved, AddressHeld, AddressSaved
<1>3. CASE \E i \in Ids : AllocateIP(i) \/ \E h \in Hostnames : CheckHostname(i, h)
  BY <1>0, <1>3, RequestKeepsStore, SameStoreSameLeases
<1>4. CASE Crash
  <2>1. /\ Crashes
        /\ NameHeld' = NameSaved /\ UNCHANGED NameSaved
        /\ AddressHeld' = AddressSaved /\ UNCHANGED AddressSaved
    BY <1>4 DEF Crash, NameHeld, NameSaved, AddressHeld, AddressSaved
  <2> QED
    BY <2>1 DEF NameLeases!Next, NameLeases!Restart, AddressLeases!Next, AddressLeases!Restart,
                NameHeld, NameSaved, AddressHeld, AddressSaved
<1> QED
  BY <1>1, <1>2, <1>3, <1>4, SteadyActions

LEMMA InitLeases == Init => NameLeases!Init /\ AddressLeases!Init
  BY DEF Init, NameLeases!Init, AddressLeases!Init, NamesIn, AddressesIn, Snapshot

\* WebInstances hands out names the way Leases says, when provision requests
\* come one at a time: any overlap of operations, failing saves and crashes.
THEOREM NamesLeased ==
    ASSUME ~OverlappingProvisions
    PROVE  Spec => NamesAreLeased
<1>1. IInv /\ UInv /\ [Next]_vars
        => [NameLeases!Next]_<<NamesIn(store, inst), NamesIn(file.ids, file.inst)>>
  BY NextLeases DEF NameHeld, NameSaved
<1> QED
  BY <1>1, InitIInv, NextIInv, InitExclusive, NextExclusive, InitLeases,
     PTL DEF Spec, NamesAreLeased, NameLeases!Spec

\* And so it does with the addresses of the pool.
THEOREM AddressesLeased ==
    ASSUME ~OverlappingProvisions
    PROVE  Spec => AddressesAreLeased
<1>1. IInv /\ UInv /\ [Next]_vars
        => [AddressLeases!Next]_<<AddressesIn(store, inst), AddressesIn(file.ids, file.inst)>>
  BY NextLeases DEF AddressHeld, AddressSaved
<1> QED
  BY <1>1, InitIInv, NextIInv, InitExclusive, NextExclusive, InitLeases,
     PTL DEF Spec, AddressesAreLeased, AddressLeases!Spec

=============================================================================
