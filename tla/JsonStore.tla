----------------------------- MODULE JsonStore ------------------------------
(***************************************************************************)
(* How InstanceStore and DBInstanceStore keep a map of objects in a JSON   *)
(* file: under the store's mutex the map is marshalled entry by entry,     *)
(* written to <path>.tmp and renamed to <path>.  The goroutines that own   *)
(* the objects change their fields without the mutex, at any moment, and   *)
(* the process may end at any step.  The two stores have the same code.    *)
(*                                                                         *)
(* An entry is abstracted to the number of times it was changed.           *)
(***************************************************************************)
EXTENDS Integers, FiniteSets

CONSTANTS
    Keys,       \* ids of instances
    Callers,    \* goroutines that call Save, Put and Delete
    Main,       \* the goroutine that loads the store
    None,       \* no goroutine
    MaxVersion, \* changes of an entry, a bound of the model
    Failures    \* what may fail: "write", "rename"

Procs == Callers \cup {Main}

ASSUME MainAssumption == Main \notin Callers
ASSUME NoneAssumption == None \notin Procs
ASSUME BoundAssumption == MaxVersion \in Nat /\ IsFiniteSet(Callers)

VARIABLES
    up,         \* "down", "loading" (in NewInstanceStore) or "up"
    mem,        \* Instances, the map in memory
    file,       \* <path>
    tmp,        \* <path>.tmp
    holder,     \* the goroutine inside save, which has the mutex
    pc,         \* where a call is
    request,    \* what a caller asked for
    todo,       \* entries the encoder has not reached yet
    data,       \* what it has encoded
    need,       \* versions in memory when save was entered, acked outside it
    acked       \* versions a call that returned without error has saved

vars == <<up, mem, file, tmp, holder, pc, request, todo, data, need, acked>>

-----------------------------------------------------------------------------
Entry == [version : Nat, stored : BOOLEAN]
Map   == [Keys -> Entry]

\* An empty file counts as the empty map; of a partial one nothing is known.
File == [kind : {"missing", "partial", "whole"}, data : Map]

Blank    == [k \in Keys |-> [version |-> 0, stored |-> FALSE]]
Missing  == [kind |-> "missing", data |-> Blank]
Partial  == [kind |-> "partial", data |-> Blank]
Whole(m) == [kind |-> "whole", data |-> m]

Versions(m) == [k \in Keys |-> m[k].version]

NoOlder(v, u) == \A k \in Keys : v[k] >= u[k]

Requests == [kind : {"put", "delete", "save"}, key : Keys]

Phases == {"idle", "waiting", "marshal", "open", "fill", "rename"}

Inside == {"marshal", "open", "fill", "rename"}

\* Bounds the versions: a call that waits may still add one.
Room == \A k \in Keys :
    mem[k].version + Cardinality({w \in Callers : pc[w] = "waiting"}) < MaxVersion

Init ==
    /\ up = "down"
    /\ mem = Blank
    /\ file \in {Missing, Whole(Blank)}
    /\ tmp = Missing
    /\ holder = None
    /\ pc = [p \in Procs |-> "idle"]
    /\ request \in [Callers -> {r \in Requests : r.kind = "save"}]
    /\ todo = {}
    /\ data = Blank
    /\ need = Versions(Blank)
    /\ acked = Versions(Blank)

-----------------------------------------------------------------------------
(* save, entered by p with the map mem'. *)

BeginSave(p) ==
    /\ holder' = p
    /\ pc' = [pc EXCEPT ![p] = "marshal"]
    /\ todo' = Keys
    /\ need' = Versions(mem')
    /\ UNCHANGED <<file, tmp, data, acked>>

\* Slip: Unlock without defer, missed when save fails.
EndSaveLocked(p, ok) ==
    /\ holder' = IF ok THEN None ELSE p
    /\ pc' = [pc EXCEPT ![p] = "idle"]
    /\ up' = IF p # Main THEN up ELSE IF ok THEN "up" ELSE "down"
    /\ acked' = IF ok THEN need ELSE acked
    /\ need' = acked'
    /\ data' = Blank
    /\ UNCHANGED <<mem, request, todo>>

\* save returns: an error ends the process if main was loading the store.
EndSave(p, ok) ==
    /\ holder' = None
    /\ pc' = [pc EXCEPT ![p] = "idle"]
    /\ up' = IF p # Main THEN up ELSE IF ok THEN "up" ELSE "down"
    /\ acked' = IF ok THEN need ELSE acked
    /\ need' = acked'
    /\ data' = Blank
    /\ UNCHANGED <<mem, request, todo>>

\* MarshalIndent: an entry is read as it is when the encoder gets to it.
MarshalEntry(p, k) ==
    /\ pc[p] = "marshal"
    /\ k \in todo
    /\ data' = [data EXCEPT ![k] = mem[k]]
    /\ todo' = todo \ {k}
    /\ pc' = [pc EXCEPT ![p] = IF todo' = {} THEN "open" ELSE @]
    /\ UNCHANGED <<up, mem, file, tmp, holder, request, need, acked>>

\* Slip: no temporary file.
OpenInPlace(p) ==
    /\ pc[p] = "open"
    /\ file' = Partial
    /\ pc' = [pc EXCEPT ![p] = "fill"]
    /\ UNCHANGED <<up, mem, tmp, holder, request, todo, data, need, acked>>

\* WriteFile truncates the temporary file ...
OpenTmp(p) ==
    /\ pc[p] = "open"
    /\ \/ /\ tmp' = Partial
          /\ pc' = [pc EXCEPT ![p] = "fill"]
          /\ UNCHANGED <<up, mem, holder, request, todo, data, need, acked>>
       \/ "write" \in Failures /\ UNCHANGED tmp /\ EndSave(p, FALSE)
    /\ UNCHANGED file

\* ... and fills it.
FillTmp(p) ==
    /\ pc[p] = "fill"
    /\ \/ /\ tmp' = Whole(data)
          /\ pc' = [pc EXCEPT ![p] = "rename"]
          /\ UNCHANGED <<up, mem, holder, request, todo, data, need, acked>>
       \/ "write" \in Failures /\ UNCHANGED tmp /\ EndSave(p, FALSE)
    /\ UNCHANGED file

\* Slip: the error of the rename is dropped.
RenameTmpCarelessly(p) ==
    /\ pc[p] = "rename"
    /\ \/ file' = tmp /\ tmp' = Missing
       \/ "rename" \in Failures /\ UNCHANGED <<file, tmp>>
    /\ EndSave(p, TRUE)

RenameTmp(p) ==
    /\ pc[p] = "rename"
    /\ \/ file' = tmp /\ tmp' = Missing /\ EndSave(p, TRUE)
       \/ "rename" \in Failures /\ UNCHANGED <<file, tmp>> /\ EndSave(p, FALSE)

SaveStep(p) ==
    \/ \E k \in Keys : MarshalEntry(p, k)
    \/ OpenTmp(p) \/ FillTmp(p) \/ RenameTmp(p)

-----------------------------------------------------------------------------
(* Callers. *)

Call(w, r) ==
    /\ up = "up"
    /\ pc[w] = "idle"
    /\ Room
    /\ pc' = [pc EXCEPT ![w] = "waiting"]
    /\ request' = [request EXCEPT ![w] = r]
    /\ UNCHANGED <<up, mem, file, tmp, holder, todo, data, need, acked>>

\* Slip: no mutex, although the temporary file is shared.
EnterUnlocked(w, kind) ==
    /\ pc[w] = "waiting"
    /\ request[w].kind = kind
    /\ BeginSave(w)
    /\ UNCHANGED <<up, request>>

\* Lock.
Enter(w, kind) ==
    /\ pc[w] = "waiting"
    /\ request[w].kind = kind
    /\ holder = None
    /\ BeginSave(w)
    /\ UNCHANGED <<up, request>>

Save(w) == mem' = mem /\ Enter(w, "save")

Put(w) ==
    /\ mem' = [mem EXCEPT ![request[w].key] = [version |-> @.version + 1, stored |-> TRUE]]
    /\ Enter(w, "put")

\* Of an id that is not in the map, delete changes nothing.
Delete(w) ==
    /\ mem' = [mem EXCEPT ![request[w].key] =
                  IF @.stored THEN [version |-> @.version + 1, stored |-> FALSE] ELSE @]
    /\ Enter(w, "delete")

Acquire(w) == Save(w) \/ Put(w) \/ Delete(w)

\* The owner of a stored object changes a field, without the mutex.
Mutate(k) ==
    /\ up = "up"
    /\ mem[k].stored
    /\ Room
    /\ mem' = [mem EXCEPT ![k].version = @ + 1]
    /\ UNCHANGED <<up, file, tmp, holder, pc, request, todo, data, need, acked>>

-----------------------------------------------------------------------------
(* The process starts and ends. *)

\* Slip: what was parsed does not get into the map.
ParseForgetting ==
    /\ file.kind = "whole"
    /\ mem' = Blank
    /\ up' = "up"
    /\ UNCHANGED <<file, tmp, holder, pc, todo, data, need, acked>>

Parse ==
    /\ file.kind = "whole"
    /\ mem' = file.data
    /\ up' = "up"
    /\ UNCHANGED <<file, tmp, holder, pc, todo, data, need, acked>>

Create ==
    /\ file.kind = "missing"
    /\ mem' = Blank
    /\ up' = "loading"
    /\ BeginSave(Main)

\* load: a missing file is created; one that does not parse ends the process,
\* and no step is left here.
Load ==
    /\ up = "down"
    /\ Parse \/ Create
    /\ UNCHANGED request

\* Memory is lost, and with it the calls; the files stay.
Crash ==
    /\ up # "down"
    /\ up' = "down"
    /\ mem' = Blank
    /\ holder' = None
    /\ pc' = [p \in Procs |-> "idle"]
    /\ todo' = {}
    /\ data' = Blank
    /\ need' = acked
    /\ UNCHANGED <<file, tmp, request, acked>>

Next ==
    \/ \E w \in Callers : (\E r \in Requests : Call(w, r)) \/ Acquire(w)
    \/ \E p \in Procs : SaveStep(p)
    \/ \E k \in Keys : Mutate(k)
    \/ Load \/ Crash

Spec == Init /\ [][Next]_vars

\* The mutex is handed to whoever waits long enough (sync.Mutex's starvation
\* mode): strong fairness.  Nothing is owed of users or of failures.
Fairness ==
    /\ \A w \in Callers : SF_vars(Acquire(w))
    /\ \A p \in Procs : WF_vars(SaveStep(p))

FairSpec == Spec /\ Fairness

-----------------------------------------------------------------------------
(* Properties. *)

TypeOK ==
    /\ up \in {"down", "loading", "up"}
    /\ mem \in Map /\ data \in Map
    /\ file \in File /\ tmp \in File
    /\ holder \in Procs \cup {None}
    /\ pc \in [Procs -> Phases]
    /\ request \in [Callers -> Requests]
    /\ todo \subseteq Keys
    /\ need \in [Keys -> Nat] /\ acked \in [Keys -> Nat]

\* The file is never half written: after a crash at any step of save, or a
\* write that failed halfway, the next start can parse it.
FileIsWhole == file.kind # "partial"

\* What was in memory when a call that returned without error had the mutex is
\* in the file, or something newer: no other call, no failure and no restart
\* takes it back.
AckedIsDurable == NoOlder(Versions(file.data), acked)

\* The file never goes back to older entries, whichever order the callers that
\* save at the same time come in.
FileNeverGoesBack == [][NoOlder(Versions(file'.data), Versions(file.data))]_file

\* Each call returns, failures of the file system included.
CallsReturn == \A w \in Callers : pc[w] # "idle" ~> pc[w] = "idle"

\* The map a restart finds is the map in memory when the process is down.
Latest == IF up = "up" THEN mem ELSE file.data

Durable == INSTANCE DurableMap WITH latest <- Latest, disk <- file.data

\* The store is a durable map: marshalling entry by entry while the objects
\* change, and the two files, do not show.
IsDurableMap == Durable!Spec
=============================================================================
