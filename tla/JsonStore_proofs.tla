-------------------------- MODULE JsonStore_proofs --------------------------
(* Theorems about JsonStore, for any number of keys and callers, without a  *)
(* bound on the versions: MaxVersion occurs in guards only.                 *)
EXTENDS JsonStore, TLAPS

\* An entry m may have been in memory before n.
Before(m, n) == m.version =< n.version /\ (m.version = n.version => m = n)

\* Whoever is inside save has the mutex, or is main loading the store.
Mutex ==
    /\ \A p \in Procs : pc[p] \in Inside <=> p = holder
    /\ pc[Main] # "waiting"
    /\ up = "loading" <=> holder = Main
    /\ up = "down" => holder = None
    /\ up # "up" => \A w \in Callers : pc[w] = "idle"

\* Until the store is loaded its map is empty.
Loading ==
    /\ file = Missing \/ file.kind = "whole"
    /\ up # "up" => mem = Blank /\ data = Blank
    /\ up = "loading" => file = Missing

\* What is in the file was in memory, and holds what was acknowledged.
Ordered == \A k \in Keys :
    /\ acked[k] =< file.data[k].version
    /\ up = "up" => Before(file.data[k], mem[k])

\* The save under way: what it has encoded lies between its start and now.
Encoded ==
    /\ \A p \in Procs : pc[p] \in {"open", "fill", "rename"} => todo = {}
    /\ \A p \in Procs : pc[p] = "rename" => tmp = Whole(data)
    /\ holder # None => \A k \in Keys :
         /\ file.data[k].version =< need[k] /\ need[k] =< mem[k].version
         /\ k \notin todo => need[k] =< data[k].version /\ Before(data[k], mem[k])

IInv == TypeOK /\ Mutex /\ Loading /\ Ordered /\ Encoded

-----------------------------------------------------------------------------
(* The invariant is inductive: one lemma per action. *)

LEMMA BlankType == Blank \in Map /\ Missing \in File /\ Partial \in File
  BY DEF Blank, Map, Entry, Missing, Partial, File

LEMMA VersionsType ==
    ASSUME NEW m \in Map
    PROVE  Versions(m) \in [Keys -> Nat] /\ \A k \in Keys : Versions(m)[k] = m[k].version
  BY DEF Versions, Map, Entry

LEMMA WholeType ==
    ASSUME NEW m \in Map
    PROVE  Whole(m) \in File /\ Whole(m).kind = "whole" /\ Whole(m).data = m
  BY DEF Whole, File

LEMMA InitInv == Init => IInv
<1> SUFFICES ASSUME Init PROVE IInv
  OBVIOUS
<1> USE DEF Init
<1>1. \A k \in Keys : Blank[k] = [version |-> 0, stored |-> FALSE] /\ Versions(Blank)[k] = 0
  BY DEF Blank, Versions
<1>2. Missing.data = Blank /\ Whole(Blank).data = Blank /\ Whole(Blank).kind = "whole"
  BY DEF Missing, Whole
<1>3. TypeOK
  BY BlankType, WholeType, VersionsType DEF TypeOK, Phases
<1>4. Mutex
  BY NoneAssumption, MainAssumption DEF Mutex, Inside, Procs
<1>5. Loading
  BY <1>2 DEF Loading
<1>6. Ordered
  BY <1>1, <1>2 DEF Ordered
<1>7. Encoded
  BY DEF Encoded
<1> QED
  BY <1>3, <1>4, <1>5, <1>6, <1>7 DEF IInv

\* Nobody else is inside save.
LEMMA Alone ==
    ASSUME Mutex, NEW p \in Procs, pc[p] \in Inside
    PROVE  /\ holder = p /\ holder # None
           /\ \A q \in Procs \ {p} : pc[q] \notin Inside
  BY NoneAssumption DEF Mutex

\* A step inside save that neither ends it nor touches memory or the file.
LEMMA WithinSave ==
    ASSUME IInv, NEW p \in Procs, pc[p] \in Inside, NEW phase \in Inside,
           pc' = [pc EXCEPT ![p] = phase],
           UNCHANGED <<up, mem, file, holder, request, need, acked>>,
           tmp' \in File, data' \in Map, todo' \subseteq Keys,
           up # "up" => data' = Blank,
           phase \in {"open", "fill", "rename"} => todo' = {},
           phase = "rename" => tmp' = Whole(data'),
           \A k \in Keys \ todo' : need[k] =< data'[k].version /\ Before(data'[k], mem[k])
    PROVE  IInv'
<1>1. TypeOK /\ Mutex /\ Loading /\ Ordered /\ Encoded
  BY DEF IInv
<1>2. /\ holder = p /\ \A q \in Procs \ {p} : pc[q] \notin Inside
      /\ pc'[p] = phase /\ \A q \in Procs \ {p} : pc'[q] = pc[q]
  BY <1>1, Alone DEF TypeOK
<1>3. TypeOK'
  BY <1>1 DEF TypeOK, Phases, Inside
<1>4. Mutex'
  <2>1. pc'[Main] # "waiting"
    BY <1>1, <1>2 DEF Mutex, Inside, Procs
  <2>2. up # "down" /\ (up # "up" => p \notin Callers)
    BY <1>1, <1>2, NoneAssumption, MainAssumption DEF Mutex, TypeOK
  <2> QED
    BY <1>1, <1>2, <2>1, <2>2 DEF Mutex, Procs
<1>5. Loading'
  BY <1>1 DEF Loading
<1>6. Ordered'
  BY <1>1 DEF Ordered, Before
<1>7. Encoded'
  BY <1>1, <1>2 DEF Encoded, Before, Inside
<1> QED
  BY <1>3, <1>4, <1>5, <1>6, <1>7 DEF IInv

LEMMA MarshalInv ==
    ASSUME IInv, NEW p \in Procs, NEW k \in Keys, MarshalEntry(p, k)
    PROVE  IInv'
<1>1. TypeOK /\ Mutex /\ Loading /\ Encoded /\ pc[p] \in Inside /\ holder # None
  BY Alone DEF IInv, MarshalEntry, Inside
<1>2. data' = [data EXCEPT ![k] = mem[k]] /\ todo' = todo \ {k}
  BY DEF MarshalEntry
<1>3. data' \in Map /\ todo' \subseteq Keys /\ tmp' \in File
  BY <1>1, <1>2 DEF TypeOK, Map, MarshalEntry
<1>4. up # "up" => data' = Blank
  BY <1>1, <1>2 DEF Loading, TypeOK, Map
<1>5. \A j \in Keys \ todo' : need[j] =< data'[j].version /\ Before(data'[j], mem[j])
  BY <1>1, <1>2 DEF Encoded, TypeOK, Map, Entry, Before
<1>6. PICK phase \in {"marshal", "open"} :
        pc' = [pc EXCEPT ![p] = phase] /\ (phase = "open" => todo' = {})
  BY DEF MarshalEntry
<1> QED
  BY <1>1, <1>3, <1>4, <1>5, <1>6, WithinSave DEF MarshalEntry, Inside

\* save returns an error: file and memory are as they were.
LEMMA ErrorInv ==
    ASSUME IInv, NEW p \in Procs, pc[p] \in Inside, EndSave(p, FALSE), UNCHANGED <<file, tmp>>
    PROVE  IInv'
<1>1. TypeOK /\ Mutex /\ Loading /\ Ordered
  BY DEF IInv
<1>2. /\ holder = p /\ \A q \in Procs \ {p} : pc[q] \notin Inside
      /\ pc'[p] = "idle" /\ \A q \in Procs \ {p} : pc'[q] = pc[q]
  BY <1>1, Alone DEF TypeOK, EndSave
<1>3. /\ holder' = None /\ data' = Blank /\ need' = acked /\ acked' = acked
      /\ UNCHANGED <<mem, request, todo>>
      /\ up' = IF p = Main THEN "down" ELSE up
  BY DEF EndSave
<1>4. TypeOK'
  BY <1>1, <1>3, BlankType DEF TypeOK, EndSave, Phases
<1>5. Mutex'
  <2>1. \A q \in Procs : pc'[q] \notin Inside /\ (pc'[q] = "idle" \/ pc'[q] = pc[q])
    BY <1>2 DEF Inside
  <2>2. up' # "loading" /\ (up' # "up" => p = Main)
    BY <1>1, <1>2, <1>3, NoneAssumption DEF Mutex, TypeOK
  <2>3. up' # "up" => \A w \in Callers : pc'[w] = "idle"
    BY <1>1, <1>2, <2>1, <2>2 DEF Mutex, Procs
  <2> QED
    BY <1>1, <1>3, <2>1, <2>2, <2>3, NoneAssumption, MainAssumption DEF Mutex, Procs
<1>6. Loading'
  BY <1>1, <1>2, <1>3 DEF Loading, Mutex
<1>7. Ordered'
  BY <1>1, <1>3 DEF Ordered, Before
<1>8. Encoded'
  BY <1>2, <1>3 DEF Encoded, Inside
<1> QED
  BY <1>4, <1>5, <1>6, <1>7, <1>8 DEF IInv

LEMMA OpenInv ==
    ASSUME IInv, NEW p \in Procs, OpenTmp(p)
    PROVE  IInv'
<1>1. pc[p] \in Inside /\ pc[p] = "open"
  BY DEF OpenTmp, Inside
<1>2. CASE UNCHANGED tmp /\ EndSave(p, FALSE)
  BY <1>1, <1>2, ErrorInv DEF OpenTmp
<1>3. CASE tmp' = Partial /\ pc' = [pc EXCEPT ![p] = "fill"]
           /\ UNCHANGED <<up, mem, holder, request, todo, data, need, acked>>
  <2>1. TypeOK /\ Loading /\ Encoded /\ holder # None
    BY <1>1, Alone DEF IInv
  <2> QED
    BY <1>1, <1>3, <2>1, BlankType, WithinSave
       DEF OpenTmp, Inside, TypeOK, Loading, Encoded
<1> QED
  BY <1>2, <1>3 DEF OpenTmp

LEMMA FillInv ==
    ASSUME IInv, NEW p \in Procs, FillTmp(p)
    PROVE  IInv'
<1>1. pc[p] \in Inside /\ pc[p] = "fill"
  BY DEF FillTmp, Inside
<1>2. CASE UNCHANGED tmp /\ EndSave(p, FALSE)
  BY <1>1, <1>2, ErrorInv DEF FillTmp
<1>3. CASE tmp' = Whole(data) /\ pc' = [pc EXCEPT ![p] = "rename"]
           /\ UNCHANGED <<up, mem, holder, request, todo, data, need, acked>>
  <2>1. TypeOK /\ Loading /\ Encoded /\ holder # None
    BY <1>1, Alone DEF IInv
  <2>2. tmp' \in File
    BY <1>3, <2>1, WholeType DEF TypeOK
  <2> QED
    BY <1>1, <1>3, <2>1, <2>2, WithinSave
       DEF FillTmp, Inside, TypeOK, Loading, Encoded
<1> QED
  BY <1>2, <1>3 DEF FillTmp

\* The new file holds what was encoded.
LEMMA RenameInv ==
    ASSUME IInv, NEW p \in Procs, RenameTmp(p)
    PROVE  IInv'
<1>1. pc[p] \in Inside /\ pc[p] = "rename"
  BY DEF RenameTmp, Inside
<1>2. CASE UNCHANGED <<file, tmp>> /\ EndSave(p, FALSE)
  BY <1>1, <1>2, ErrorInv
<1>3. CASE file' = tmp /\ tmp' = Missing /\ EndSave(p, TRUE)
  <2>1. TypeOK /\ Mutex /\ Loading /\ Ordered /\ Encoded /\ holder # None
    BY <1>1, Alone DEF IInv
  <2>2. /\ holder = p /\ \A q \in Procs \ {p} : pc[q] \notin Inside
        /\ pc'[p] = "idle" /\ \A q \in Procs \ {p} : pc'[q] = pc[q]
    BY <1>1, <1>3, <2>1, Alone DEF TypeOK, EndSave
  <2>3. /\ holder' = None /\ data' = Blank /\ need' = need /\ acked' = need
        /\ UNCHANGED <<mem, request, todo>>
        /\ up' = IF p = Main THEN "up" ELSE up
    BY <1>3 DEF EndSave
  <2>4. file' = Whole(data) /\ file'.kind = "whole" /\ file'.data = data /\ file' \in File
    BY <1>1, <1>3, <2>1, WholeType DEF Encoded, TypeOK
  <2>5. TypeOK'
    BY <1>3, <2>1, <2>3, <2>4, BlankType DEF TypeOK, EndSave, Phases
  <2>6. up' = "up"
    BY <2>1, <2>2, <2>3, NoneAssumption DEF Mutex, TypeOK
  <2>7. Mutex'
    BY <2>1, <2>2, <2>3, <2>6, NoneAssumption, MainAssumption DEF Mutex, Inside, Procs
  <2>8. Loading'
    BY <2>4, <2>6 DEF Loading
  <2>9. Ordered'
    BY <1>1, <2>1, <2>3, <2>4 DEF Ordered, Encoded, Before
  <2>10. Encoded'
    BY <2>2, <2>3 DEF Encoded, Inside
  <2> QED
    BY <2>5, <2>7, <2>8, <2>9, <2>10 DEF IInv
<1> QED
  BY <1>2, <1>3 DEF RenameTmp

\* Memory may move on while the lock is free, ...
LEMMA EnterInv ==
    ASSUME IInv, NEW p \in Procs, pc[p] \notin Inside, holder = None, BeginSave(p),
           mem' \in Map, \A k \in Keys : Before(file.data[k], mem'[k]),
           up' = IF p = Main THEN "loading" ELSE "up",
           p # Main => up = "up",
           p = Main => up = "down" /\ file = Missing /\ mem' = Blank,
           UNCHANGED request
    PROVE  IInv'
<1>1. TypeOK /\ Mutex /\ Loading /\ Ordered /\ Encoded
  BY DEF IInv
<1>2. /\ pc'[p] = "marshal" /\ \A q \in Procs \ {p} : pc'[q] = pc[q] /\ pc[q] \notin Inside
      /\ holder' = p /\ todo' = Keys /\ UNCHANGED <<file, tmp, data, acked>>
  BY <1>1, NoneAssumption DEF BeginSave, TypeOK, Mutex
<1>3. need' \in [Keys -> Nat] /\ \A k \in Keys : need'[k] = mem'[k].version
  BY VersionsType DEF BeginSave
<1>4. TypeOK'
  BY <1>1, <1>2, <1>3 DEF TypeOK, BeginSave, Phases
<1>5. Mutex'
  BY <1>1, <1>2, NoneAssumption, MainAssumption DEF Mutex, Inside, Procs
<1>6. Loading'
  BY <1>1, <1>2 DEF Loading
<1>7. Ordered'
  BY <1>1, <1>2 DEF Ordered
<1>8. Encoded'
  <2>1. \A k \in Keys : file'.data[k].version =< need'[k] /\ need'[k] =< mem'[k].version
    BY <1>2, <1>3 DEF Before, Map, Entry
  <2> QED
    BY <1>2, <2>1 DEF Encoded, Inside
<1> QED
  BY <1>4, <1>5, <1>6, <1>7, <1>8 DEF IInv

\* Edits make entries newer.
LEMMA Newer ==
    ASSUME TypeOK, NEW k \in Keys, NEW v \in BOOLEAN,
           mem' = [mem EXCEPT ![k] = [version |-> @.version + 1, stored |-> v]]
    PROVE  /\ mem' \in Map
           /\ mem'[k].version = mem[k].version + 1
           /\ \A j \in Keys \ {k} : mem'[j] = mem[j]
           /\ \A e \in Entry : Before(e, mem[k]) => Before(e, mem'[k])
  BY DEF TypeOK, Map, Entry, Before

\* ... by a call that enters save or before it.
LEMMA AcquireInv ==
    ASSUME IInv, NEW w \in Callers, Acquire(w)
    PROVE  IInv'
<1>1. TypeOK /\ Mutex /\ Ordered /\ w \in Procs /\ w # Main
  BY MainAssumption DEF IInv, Procs
<1>2. /\ pc[w] = "waiting" /\ holder = None /\ BeginSave(w) /\ UNCHANGED <<up, request>>
      /\ pc[w] \notin Inside
  BY DEF Acquire, Save, Put, Delete, Enter, Inside
<1>3. up = "up"
  BY <1>2, <1>1 DEF Mutex, TypeOK
<1>4. request[w].key \in Keys /\ \A k \in Keys : file.data[k] \in Entry /\ mem[k] \in Entry
  BY <1>1 DEF TypeOK, Requests, File, Map
<1>5. \A k \in Keys : Before(file.data[k], mem[k])
  BY <1>1, <1>3 DEF Ordered
<1>6. mem' \in Map /\ \A k \in Keys : Before(file.data[k], mem'[k])
  <2>1. CASE mem' = mem
    BY <1>1, <1>5, <2>1 DEF TypeOK
  <2>2. ASSUME NEW v \in BOOLEAN,
               mem' = [mem EXCEPT ![request[w].key] = [version |-> @.version + 1, stored |-> v]]
        PROVE  mem' \in Map /\ \A k \in Keys : Before(file.data[k], mem'[k])
    <3>1. PICK key \in Keys : key = request[w].key
      BY <1>4
    <3>2. mem' = [mem EXCEPT ![key] = [version |-> @.version + 1, stored |-> v]]
      BY <2>2, <3>1
    <3>3. /\ mem' \in Map /\ \A j \in Keys \ {key} : mem'[j] = mem[j]
          /\ \A e \in Entry : Before(e, mem[key]) => Before(e, mem'[key])
      BY <1>1, <2>2, <3>2, Newer
    <3> QED
      BY <1>4, <1>5, <3>3
  <2>3. CASE Delete(w) /\ ~mem[request[w].key].stored
    BY <1>1, <2>1, <2>3 DEF Delete, TypeOK, Map
  <2>4. CASE Delete(w) /\ mem[request[w].key].stored
    BY <2>2, <2>4 DEF Delete
  <2> QED
    BY <2>1, <2>2, <2>3, <2>4 DEF Acquire, Save, Put
<1> QED
  BY <1>1, <1>2, <1>3, <1>6, EnterInv

LEMMA MutateInv ==
    ASSUME IInv, NEW k \in Keys, Mutate(k)
    PROVE  IInv'
<1>1. TypeOK /\ Mutex /\ Loading /\ Ordered /\ Encoded /\ up = "up"
  BY DEF IInv, Mutate
<1>2. UNCHANGED <<up, file, tmp, holder, pc, request, todo, data, need, acked>>
  BY DEF Mutate
<1>3. mem[k] \in Entry /\ mem'[k] = [version |-> mem[k].version + 1, stored |-> mem[k].stored]
  BY <1>1 DEF Mutate, TypeOK, Map, Entry
<1>4. mem' = [mem EXCEPT ![k] = [version |-> @.version + 1, stored |-> mem[k].stored]]
  BY <1>1, <1>3 DEF Mutate, TypeOK, Map, Entry
<1>5. mem[k].stored \in BOOLEAN
  BY <1>3 DEF Entry
<1>6. /\ mem' \in Map /\ mem'[k].version = mem[k].version + 1
      /\ \A j \in Keys \ {k} : mem'[j] = mem[j]
      /\ \A e \in Entry : Before(e, mem[k]) => Before(e, mem'[k])
  BY <1>1, <1>4, <1>5, Newer
<1>7. \A j \in Keys : file.data[j] \in Entry /\ data[j] \in Entry /\ mem[j] \in Entry
  BY <1>1 DEF TypeOK, File, Map
<1>8. TypeOK' /\ Mutex' /\ Loading'
  BY <1>1, <1>2, <1>6 DEF TypeOK, Mutex, Loading
<1>9. Ordered'
  BY <1>1, <1>2, <1>6, <1>7 DEF Ordered
<1>10. \A j \in Keys : mem[j].version =< mem'[j].version /\ mem[j].version \in Nat
                       /\ mem'[j].version \in Nat /\ need[j] \in Nat
  BY <1>1, <1>3, <1>6, <1>7 DEF Entry, TypeOK
<1>11. Encoded'
  BY <1>1, <1>2, <1>6, <1>7, <1>10 DEF Encoded
<1> QED
  BY <1>8, <1>9, <1>11 DEF IInv

LEMMA CallInv ==
    ASSUME IInv, NEW w \in Callers, NEW r \in Requests, Call(w, r)
    PROVE  IInv'
<1>1. TypeOK /\ Mutex /\ Loading /\ Ordered /\ Encoded
  BY DEF IInv
<1>2. /\ UNCHANGED <<up, mem, file, tmp, holder, todo, data, need, acked>> /\ up = "up"
      /\ w \in Procs /\ w # Main /\ pc[w] = "idle" /\ pc'[w] = "waiting"
      /\ \A q \in Procs \ {w} : pc'[q] = pc[q]
  BY <1>1, MainAssumption DEF Call, TypeOK, Procs
<1>3. TypeOK'
  BY <1>1, <1>2 DEF Call, TypeOK, Phases
<1>4. Mutex'
  BY <1>1, <1>2 DEF Mutex, Inside, Procs
<1>5. Loading' /\ Ordered'
  BY <1>1, <1>2 DEF Loading, Ordered, Before
<1>6. Encoded'
  BY <1>1, <1>2 DEF Encoded, Before
<1> QED
  BY <1>3, <1>4, <1>5, <1>6 DEF IInv

LEMMA LoadInv ==
    ASSUME IInv, Load
    PROVE  IInv'
<1>1. TypeOK /\ Mutex /\ Loading /\ Ordered /\ Encoded /\ up = "down" /\ holder = None
  BY DEF IInv, Load, Mutex
<1>2. CASE Parse
  <2>1. /\ mem' = file.data /\ up' = "up"
        /\ UNCHANGED <<file, tmp, holder, pc, request, todo, data, need, acked>>
        /\ file.kind = "whole"
    BY <1>2 DEF Parse, Load
  <2>2. TypeOK' /\ \A k \in Keys : file.data[k].version \in Nat
    BY <1>1, <2>1 DEF TypeOK, File, Map, Entry
  <2>3. Mutex' /\ Loading'
    BY <1>1, <2>1, NoneAssumption DEF Mutex, Loading, Procs
  <2>4. Ordered' /\ Encoded'
    BY <1>1, <2>1, <2>2 DEF Ordered, Encoded, Before
  <2> QED
    BY <2>2, <2>3, <2>4 DEF IInv
<1>3. CASE Create
  <2>1. /\ file = Missing /\ mem' = Blank /\ up' = "loading" /\ BeginSave(Main)
        /\ Main \in Procs /\ UNCHANGED request
    BY <1>1, <1>3 DEF Create, Loading, Procs, Load
  <2>2. \A k \in Keys : Before(file.data[k], mem'[k])
    BY <2>1 DEF Before, Missing, Blank
  <2>3. pc[Main] \notin Inside
    BY <1>1, <2>1, NoneAssumption DEF Mutex
  <2> QED
    BY <1>1, <2>1, <2>2, <2>3, BlankType, EnterInv
<1> QED
  BY <1>2, <1>3 DEF Load

LEMMA CrashInv ==
    ASSUME IInv, Crash
    PROVE  IInv'
<1>1. TypeOK /\ Mutex /\ Loading /\ Ordered /\ Encoded
  BY DEF IInv
<1>2. /\ up' = "down" /\ mem' = Blank /\ holder' = None /\ data' = Blank /\ todo' = {}
      /\ need' = acked /\ UNCHANGED <<file, tmp, request, acked>>
      /\ pc' = [q \in Procs |-> "idle"]
  BY DEF Crash
<1>3. TypeOK'
  BY <1>1, <1>2, BlankType DEF TypeOK, Phases
<1>4. Mutex'
  BY <1>2, NoneAssumption, MainAssumption DEF Mutex, Inside, Procs
<1>5. Loading' /\ Ordered' /\ Encoded'
  BY <1>1, <1>2 DEF Loading, Ordered, Encoded
<1> QED
  BY <1>3, <1>4, <1>5 DEF IInv

LEMMA NextInv == IInv /\ [Next]_vars => IInv'
<1> SUFFICES ASSUME IInv, [Next]_vars PROVE IInv'
  OBVIOUS
<1>1. CASE UNCHANGED vars
  BY <1>1 DEF vars, IInv, TypeOK, Mutex, Loading, Ordered, Encoded, Before
<1>2. ASSUME NEW w \in Callers, (\E r \in Requests : Call(w, r)) \/ Acquire(w)
      PROVE  IInv'
  BY <1>2, CallInv, AcquireInv
<1>3. ASSUME NEW p \in Procs, SaveStep(p)
      PROVE  IInv'
  BY <1>3, MarshalInv, OpenInv, FillInv, RenameInv DEF SaveStep
<1> QED
  BY <1>1, <1>2, <1>3, MutateInv, LoadInv, CrashInv DEF Next

THEOREM Invariance == Spec => []IInv
  BY InitInv, NextInv, PTL DEF Spec

\* Every variable keeps its type.
THEOREM TypeCorrect == Spec => []TypeOK
<1>1. IInv => TypeOK
  BY DEF IInv
<1> QED
  BY <1>1, Invariance, PTL

\* No start ever finds half a file.
THEOREM FileWhole == Spec => []FileIsWhole
<1>1. IInv => FileIsWhole
  BY DEF IInv, Loading, FileIsWhole, Missing
<1> QED
  BY <1>1, Invariance, PTL

\* What a call acknowledged stays on disk.
THEOREM AckedDurable == Spec => []AckedIsDurable
<1>1. IInv => AckedIsDurable
  <2> SUFFICES ASSUME IInv, NEW k \in Keys PROVE Versions(file.data)[k] >= acked[k]
    BY DEF AckedIsDurable, NoOlder
  <2> QED
    BY DEF IInv, Ordered, TypeOK, File, Map, Entry, Versions
<1> QED
  BY <1>1, Invariance, PTL

-----------------------------------------------------------------------------
(* The store implements DurableMap. *)

\* A step that leaves memory, the files and what is acknowledged alone.
LEMMA StutterSteps ==
    ASSUME IInv, NEW p \in Procs,
           (\E k \in Keys : MarshalEntry(p, k)) \/ OpenTmp(p) \/ FillTmp(p)
           \/ (RenameTmp(p) /\ EndSave(p, FALSE) /\ UNCHANGED file)
    PROVE  UNCHANGED <<Latest, file, acked>>
<1>1. UNCHANGED <<mem, file, acked>>
  BY DEF MarshalEntry, OpenTmp, FillTmp, EndSave
<1>2. CASE UNCHANGED up
  BY <1>1, <1>2 DEF Latest
<1>3. CASE EndSave(p, FALSE) /\ pc[p] \in Inside
  <2>1. up' = up \/ (up = "loading" /\ up' = "down")
    BY <1>3, Alone DEF EndSave, IInv, Mutex
  <2> QED
    BY <1>1, <2>1 DEF Latest
<1> QED
  BY <1>2, <1>3 DEF MarshalEntry, OpenTmp, FillTmp, RenameTmp, Inside

\* The rename is the flush.
LEMMA RenameFlushes ==
    ASSUME IInv, NEW p \in Procs, RenameTmp(p), file' = tmp, EndSave(p, TRUE)
    PROVE  Durable!Flush
<1>1. TypeOK /\ Mutex /\ Loading /\ Ordered /\ Encoded /\ pc[p] = "rename" /\ pc[p] \in Inside
  BY DEF IInv, RenameTmp, Inside
<1>2. holder = p /\ holder # None /\ up # "down" /\ tmp = Whole(data) /\ tmp.data = data /\ todo = {}
  BY <1>1, Alone, WholeType DEF Encoded, TypeOK, Mutex
<1>3. mem' = mem /\ acked' = need /\ file'.data = data
      /\ up' = IF p = Main THEN "up" ELSE up
  BY <1>2 DEF EndSave
<1>4. Latest = mem /\ Latest' = mem
  <2>1. CASE up = "up"
    BY <1>3, <2>1 DEF Latest
  <2>2. CASE up = "loading"
    BY <1>1, <1>2, <1>3, <2>2 DEF Latest, Mutex, Loading, Missing
  <2> QED
    BY <1>1, <1>2, <2>1, <2>2 DEF TypeOK
<1>5. \A k \in Keys :
        /\ mem[k] \in Entry /\ data[k] \in Entry /\ file.data[k] \in Entry
        /\ need[k] \in Nat /\ acked[k] \in Nat
        /\ acked[k] =< file.data[k].version /\ file.data[k].version =< need[k]
        /\ need[k] =< data[k].version /\ Before(data[k], mem[k])
  BY <1>1, <1>2 DEF TypeOK, Map, File, Ordered, Encoded
<1>6. Durable!NoOlder(Durable!Versions(file'.data), Durable!Versions(file.data))
  BY <1>3, <1>5 DEF Durable!NoOlder, Durable!Versions, Entry
<1>7. Durable!NoOlder(Durable!Versions(mem), Durable!Versions(file'.data))
      /\ Durable!Agree(file'.data, mem)
  BY <1>3, <1>5 DEF Durable!NoOlder, Durable!Versions, Durable!Agree, Entry, Before
<1>8. Durable!NoOlder(Durable!Versions(file'.data), acked') /\ Durable!NoOlder(acked', acked)
  BY <1>3, <1>5 DEF Durable!NoOlder, Durable!Versions, Entry
<1> QED
  BY <1>4, <1>6, <1>7, <1>8 DEF Durable!Flush

\* Calls and the owners of the objects change entries.
LEMMA EditsChange ==
    ASSUME IInv, (\E w \in Callers : Acquire(w)) \/ (\E k \in Keys : Mutate(k))
    PROVE  Durable!Change
<1>1. TypeOK /\ Mutex /\ UNCHANGED <<up, file, acked>> /\ up = "up"
  BY DEF IInv, Acquire, Save, Put, Delete, Enter, BeginSave, Mutate, Mutex, TypeOK, Procs
<1>2. Latest = mem /\ Latest' = mem'
  BY <1>1 DEF Latest
<1>3. \A k \in Keys : mem'[k] # mem[k] => mem'[k].version = mem[k].version + 1
  <2>1. mem \in Map
    BY <1>1 DEF TypeOK
  <2>2. ASSUME NEW w \in Callers, Acquire(w)
        PROVE  \A k \in Keys : mem'[k] # mem[k] => mem'[k].version = mem[k].version + 1
    BY <2>1, <2>2 DEF Acquire, Save, Put, Delete, Map, Entry
  <2>3. ASSUME NEW k \in Keys, Mutate(k)
        PROVE  \A j \in Keys : mem'[j] # mem[j] => mem'[j].version = mem[j].version + 1
    BY <2>1, <2>3 DEF Mutate, Map, Entry
  <2> QED
    BY <2>2, <2>3
<1> QED
  BY <1>1, <1>2, <1>3 DEF Durable!Change

LEMMA NextDurable == IInv /\ [Next]_vars => [Durable!Next]_(Durable!vars)
<1> SUFFICES ASSUME IInv, [Next]_vars PROVE Durable!Next \/ UNCHANGED Durable!vars
  BY DEF Durable!vars
<1>1. CASE UNCHANGED vars
  BY <1>1 DEF vars, Durable!vars, Latest
<1>2. ASSUME NEW w \in Callers, NEW r \in Requests, Call(w, r)
      PROVE  UNCHANGED Durable!vars
  BY <1>2 DEF Call, Durable!vars, Latest
<1>3. ASSUME NEW p \in Procs, SaveStep(p)
      PROVE  Durable!Next \/ UNCHANGED Durable!vars
  <2>1. CASE RenameTmp(p) /\ file' = tmp /\ EndSave(p, TRUE)
    BY <2>1, RenameFlushes DEF Durable!Next
  <2>2. CASE UNCHANGED <<Latest, file, acked>>
    BY <2>2 DEF Durable!vars
  <2> QED
    BY <1>3, <2>1, <2>2, StutterSteps DEF SaveStep, RenameTmp
<1>4. CASE Load
  BY <1>4 DEF Load, Parse, Create, BeginSave, Durable!vars, Latest
<1>5. CASE Crash
  BY <1>5 DEF Crash, Durable!Next, Durable!Restart, Latest
<1> QED
  BY <1>1, <1>2, <1>3, <1>4, <1>5, EditsChange DEF Next, Durable!Next

\* Marshalling entry by entry, failed writes and crashes do not show: to
\* whoever restarts it the store is a durable map.
THEOREM Implements == Spec => IsDurableMap
<1>1. Init => Durable!Init
  <2> SUFFICES ASSUME Init PROVE Durable!Init
    OBVIOUS
  <2>1. Durable!Blank = Blank /\ Durable!Versions(Durable!Blank) = Versions(Blank)
    BY DEF Durable!Blank, Blank, Durable!Versions, Versions
  <2>2. file.data = Blank /\ Latest = Blank /\ acked = Versions(Blank)
    BY DEF Init, Latest, Missing, Whole
  <2> QED
    BY <2>1, <2>2 DEF Durable!Init
<1> QED
  BY <1>1, InitInv, NextInv, NextDurable, PTL DEF Spec, IsDurableMap, Durable!Spec

\* The file never goes back to an older version of an entry.
THEOREM NeverGoesBack == Spec => FileNeverGoesBack
<1>1. IInv /\ [Next]_vars => [NoOlder(Versions(file'.data), Versions(file.data))]_file
  <2> SUFFICES ASSUME IInv, Next, file' # file, NEW k \in Keys
               PROVE  Versions(file'.data)[k] >= Versions(file.data)[k]
    BY DEF vars, NoOlder
  <2>1. PICK p \in Procs : RenameTmp(p) /\ file' = tmp /\ EndSave(p, TRUE)
    BY DEF Next, Call, Acquire, Save, Put, Delete, Enter, BeginSave, SaveStep, MarshalEntry,
           OpenTmp, FillTmp, RenameTmp, Mutate, Load, Parse, Create, Crash
  <2>2. Durable!Flush
    BY <2>1, RenameFlushes
  <2> QED
    BY <2>2 DEF Durable!Flush, Durable!NoOlder, Durable!Versions, Versions
<1> QED
  BY <1>1, Invariance, PTL DEF Spec, FileNeverGoesBack

=============================================================================
