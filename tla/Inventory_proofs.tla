------------------------- MODULE Inventory_proofs -------------------------
(* Theorems about Inventory, for every value of its constants. *)
EXTENDS Inventory, TLAPS

\* Operations work on imported instances.
WorkersHaveIds == \A w \in Workers : worker[w].pc # "idle" => worker[w].id \in Ids \ Sites

TInv == TypeOK /\ WorkersHaveIds

-----------------------------------------------------------------------------
(* Types of what the actions build. *)

Objects  == [Ids -> Instance]
Machines == [Vms -> Machine]

LEMMA MapType == \A power : MapVBoxState(power) \in State
  BY DEF MapVBoxState, State

LEMMA NoInstanceType == NoInstance \in Instance /\ Site \in Instance
  BY DEF NoInstance, Site, Instance, State, Power

LEMMA IdleTypes == IdleScan \in Scan /\ IdleWorker \in Worker /\ IdleWorker.pc = "idle"
  BY DEF IdleScan, Scan, NotFound, Finding, IdleWorker, Worker

\* Objects keep their type when some are forgotten.
LEMMA ReferencedType ==
    ASSUME NEW objects \in Objects
    PROVE  Referenced(objects) \in Objects
  BY NoInstanceType DEF Referenced, Objects

LEMMA StateUpdate ==
    ASSUME TypeOK, NEW i \in Ids, NEW s \in State
    PROVE  [inst EXCEPT ![i].state = s] \in Objects
<1>1. [inst[i] EXCEPT !.state = s] \in Instance
  BY DEF TypeOK, Instance
<1> QED
  BY <1>1 DEF TypeOK, Objects

LEMMA MachineUpdate ==
    ASSUME TypeOK, NEW v \in Vms, NEW m \in Machine
    PROVE  [machine EXCEPT ![v] = m] \in Machines
  BY DEF TypeOK, Machines

LEMMA PowerUpdate ==
    ASSUME TypeOK, NEW v \in Vms, NEW p \in Power
    PROVE  [machine EXCEPT ![v].power = p] \in Machines
<1>1. [machine[v] EXCEPT !.power = p] \in Machine
  BY DEF TypeOK, Machine
<1> QED
  BY <1>1 DEF TypeOK, Machines

-----------------------------------------------------------------------------
(* Objects that count: in the store or in a goroutine's hands. *)

InUse(i) == i \in store \/ \E w \in Workers : worker[w].id = i

\* An object in use is a site or the entry of a shown machine that is not yet
\* to be made.
EntriesKnown ==
    \A i \in Ids \ Sites : InUse(i) => /\ inst[i].uuid \in Vms \cap Shown
                                       /\ machine[inst[i].uuid].power # "future"

\* A scan knows every entry's machine, unless it is gone.
ScanKnows ==
    /\ \A v \in scan.todo \cup scan.seen : machine[v].power # "future"
    /\ scan.pc = "updating" => scan.todo \subseteq scan.seen /\ scan.seen \subseteq Shown
    /\ \A i \in store \ Sites :
         /\ scan.pc = "listing" => inst[i].uuid \in scan.todo \cup scan.seen \/ ~Registered(inst[i].uuid)
         /\ scan.pc = "updating" => inst[i].uuid \in scan.seen \/ ~Registered(inst[i].uuid)

\* The managed sites, which share the store.
SitesStay == Sites \subseteq store /\ \A i \in Sites : inst[i] = Site

IInv == TInv /\ SitesStay /\ EntriesKnown /\ ScanKnows

\* What machines never do: be unmade, or come back.
Onward ==
    \A v \in Vms : /\ machine[v].power # "future" => machine'[v].power # "future"
                   /\ machine[v].power = "gone" => machine'[v].power = "gone"

\* The parts of IInv that speak of objects survive a step that puts none to use
\* and changes no uuid of those in use.
LEMMA ObjectsStep ==
    ASSUME IInv, TInv', Onward, SitesStay', store' \subseteq store,
           \A i \in Ids : InUse(i)' => InUse(i) /\ inst'[i].uuid = inst[i].uuid
    PROVE  /\ EntriesKnown'
           /\ UNCHANGED scan => ScanKnows'
<1>1. EntriesKnown'
  BY DEF IInv, EntriesKnown, Onward
<1>2. ASSUME UNCHANGED scan PROVE ScanKnows'
  <2>1. \A v \in scan.todo \cup scan.seen : v \in Vms
    BY DEF IInv, TInv, TypeOK, Scan
  <2>2. \A i \in store' \ Sites : i \in store \ Sites /\ i \in Ids /\ inst'[i].uuid = inst[i].uuid
    BY DEF TInv, TypeOK, InUse
  <2>3. \A i \in store \ Sites : inst[i].uuid \in Vms /\ machine[inst[i].uuid].power # "future"
    BY DEF IInv, TInv, TypeOK, EntriesKnown, InUse
  <2>4. \A v \in Vms : machine[v].power # "future" /\ ~Registered(v) => ~Registered(v)'
    BY DEF IInv, TInv, TypeOK, Machine, Registered, Onward, Power
  <2> QED
    BY <1>2, <2>1, <2>2, <2>3, <2>4 DEF IInv, ScanKnows, Onward
<1> QED
  BY <1>1, <1>2

-----------------------------------------------------------------------------
(* The scan. *)

\* A step of the list leaves everything but the scan alone.
LEMMA ListStep ==
    ASSUME IInv, UNCHANGED <<machine, inst, store, worker>>, scan' \in Scan,
           ScanKnows'
    PROVE  IInv'
  BY DEF IInv, TInv, TypeOK, WorkersHaveIds, SitesStay, EntriesKnown, InUse

LEMMA ScanListStep == ASSUME IInv, ScanList PROVE IInv'
<1>1. scan' = [pc |-> "listing", todo |-> {v \in Vms : Registered(v)}, seen |-> {},
               found |-> [v \in Vms |-> NotFound]]
  BY DEF ScanList, IdleScan
<1>2. scan' \in Scan
  BY <1>1 DEF Scan, NotFound, Finding
<1>3. \A v \in Vms : Registered(v) => machine[v].power # "future"
  BY DEF Registered, Power
<1>4. ScanKnows'
  <2>1. \A i \in store \ Sites : inst[i].uuid \in Vms
    BY DEF IInv, TInv, TypeOK, EntriesKnown, InUse
  <2>2. machine' = machine /\ inst' = inst /\ store' = store
    BY DEF ScanList
  <2>3. scan'.pc = "listing" /\ scan'.seen = {} /\ \A v \in Vms : v \in scan'.todo <=> Registered(v)
    BY <1>1
  <2>4. \A v \in scan'.todo \cup scan'.seen : machine'[v].power # "future"
    BY <1>1, <1>3, <2>2
  <2> QED
    BY <2>1, <2>2, <2>3, <2>4 DEF ScanKnows, Registered
<1> QED
  BY <1>2, <1>4, ListStep DEF ScanList

LEMMA ScanInspectStep == ASSUME IInv, NEW v \in Vms, ScanInspect(v) PROVE IInv'
<1>1. scan \in Scan /\ machine[v] \in Machine
  BY DEF IInv, TInv, TypeOK
<1>2. scan'.pc = scan.pc /\ scan'.todo = scan.todo \ {v} /\ scan'.seen = scan.seen \cup {v}
  BY <1>1 DEF ScanInspect, Scan
<1>3. scan' \in Scan
  <2>1. ASSUME NEW addr \in {machine[v].addr, FALSE}, Registered(v),
               scan' = [scan EXCEPT !.todo = @ \ {v}, !.seen = @ \cup {v},
                            !.found[v] = [power |-> machine[v].power, addr |-> addr]]
        PROVE  scan' \in Scan
    <3>1. [power |-> machine[v].power, addr |-> addr] \in Finding
      BY <1>1, <2>1 DEF Machine, Finding, Registered
    <3> QED
      BY <1>1, <2>1, <3>1 DEF Scan
  <2>2. CASE scan' = [scan EXCEPT !.todo = @ \ {v}, !.seen = @ \cup {v}]
    BY <1>1, <2>2 DEF Scan
  <2> QED
    BY <2>1, <2>2 DEF ScanInspect
<1>4. ScanKnows'
  BY <1>2 DEF IInv, ScanKnows, ScanInspect, Registered
<1> QED
  BY <1>3, <1>4, ListStep DEF ScanInspect

LEMMA ScanFilterStep == ASSUME IInv, ScanFilter PROVE IInv'
<1>1. scan \in Scan
  BY DEF IInv, TInv, TypeOK
<1>2. scan' \in Scan
  BY <1>1 DEF ScanFilter, Scan, NotFound, Finding
<1>3. ScanKnows'
  <2>1. scan'.pc = "updating" /\ scan'.todo = scan.seen \cap Shown /\ scan'.seen = scan.seen \cap Shown
    BY DEF ScanFilter
  <2>2. \A i \in store \ Sites : inst[i].uuid \in Shown
    BY DEF IInv, TInv, TypeOK, EntriesKnown, InUse
  <2> QED
    BY <2>1, <2>2 DEF IInv, ScanKnows, ScanFilter, Registered
<1> QED
  BY <1>2, <1>3, ListStep DEF ScanFilter

\* What upsertFromVBox writes.
LEMMA UpsertType ==
    ASSUME IInv, NEW v \in Vms
    PROVE  /\ scan.found[v] \in Finding
           /\ [uuid |-> v, vbox |-> scan.found[v].power,
               state |-> MapVBoxState(scan.found[v].power), addr |-> scan.found[v].addr] \in Instance
           /\ \A o \in Instance : /\ Refreshed(o, scan.found[v]) \in Instance
                                  /\ Refreshed(o, scan.found[v]).uuid = o.uuid
<1>1. scan.found[v] \in Finding
  BY DEF IInv, TInv, TypeOK, Scan
<1>2. MapVBoxState(scan.found[v].power) \in State
  BY MapType
<1> QED
  BY <1>1, <1>2 DEF Finding, Instance, Refreshed

LEMMA UpsertStep == ASSUME IInv, NEW v \in Vms, Upsert(v) PROVE IInv'
<1> DEFINE finding == scan.found[v]
<1>1. /\ v \in Shown /\ v \in scan.seen /\ machine[v].power # "future"
      /\ scan.pc = "updating" /\ scan \in Scan
  BY DEF IInv, TInv, TypeOK, ScanKnows, Upsert
<1>2. scan' \in Scan /\ scan'.pc = "updating" /\ scan'.seen = scan.seen /\ scan'.todo = scan.todo \ {v}
  BY <1>1 DEF Upsert, Scan
<1>3. machine' = machine /\ worker' = worker
  BY DEF Upsert
<1>4. PICK i \in Ids :
        /\ inst' = [inst EXCEPT ![i] = inst'[i]]
        /\ inst'[i] \in Instance
        /\ inst'[i].uuid = v
        /\ i \notin Sites
        /\ store' = store \cup {i}
  <2>1. CASE Entries(v) = {}
    <3>1. PICK i \in FreshIds :
            /\ inst' = [inst EXCEPT ![i] = [uuid |-> v, vbox |-> finding.power,
                                            state |-> MapVBoxState(finding.power), addr |-> finding.addr]]
            /\ store' = store \cup {i}
      BY <2>1 DEF Upsert
    <3>2. i \in Ids /\ i \notin Sites
      BY DEF FreshIds, IInv, SitesStay
    <3> QED
      BY <3>1, <3>2, UpsertType DEF IInv, TInv, TypeOK
  <2>2. CASE Entries(v) # {}
    <3>1. PICK i \in Entries(v) :
            /\ inst' = [inst EXCEPT ![i] = Refreshed(@, finding)]
            /\ store' = store
      BY <2>2 DEF Upsert
    <3>2. i \in Ids /\ inst[i] \in Instance /\ inst[i].uuid = v /\ i \in store
      BY DEF Entries, IInv, TInv, TypeOK
    <3>3. i \notin Sites
      BY <3>2, NoneAssumption DEF IInv, SitesStay, Site
    <3>4. inst'[i] = Refreshed(inst[i], finding)
      BY <3>1, <3>2 DEF IInv, TInv, TypeOK
    <3>5. store' = store \cup {i}
      BY <3>1, <3>2
    <3>6. inst' = [inst EXCEPT ![i] = inst'[i]]
      BY <3>1, <3>4
    <3>7. inst'[i] \in Instance /\ inst'[i].uuid = v
      BY <3>2, <3>4, UpsertType
    <3> QED
      BY <3>2, <3>3, <3>5, <3>6, <3>7
  <2> QED
    BY <2>1, <2>2
<1>5. \A j \in Ids : j # i => inst'[j] = inst[j]
  BY <1>4 DEF IInv, TInv, TypeOK
<1>6. TInv'
  BY <1>2, <1>3, <1>4 DEF IInv, TInv, TypeOK, WorkersHaveIds
<1>7. SitesStay'
  BY <1>4, <1>5, SetsAssumption DEF IInv, SitesStay
<1>8. EntriesKnown'
  BY <1>1, <1>3, <1>4, <1>5 DEF IInv, EntriesKnown, InUse
<1>9. ScanKnows'
  <2>1. \A j \in store' \ Sites : inst'[j].uuid \in scan'.seen \/ ~Registered(inst'[j].uuid)
    BY <1>1, <1>2, <1>4, <1>5 DEF IInv, TInv, TypeOK, ScanKnows
  <2> QED
    BY <1>1, <1>2, <1>3, <2>1 DEF IInv, ScanKnows, Registered
<1> QED
  BY <1>6, <1>7, <1>8, <1>9 DEF IInv

\* Objects in use are not forgotten.
LEMMA KeptObjects ==
    ASSUME NEW objects, NEW i \in Ids, InUse(i)'
    PROVE  Referenced(objects)[i] = objects[i]
  BY DEF Referenced, InUse

LEMMA PurgeStep == ASSUME IInv, Purge PROVE IInv'
<1>1. machine' = machine /\ worker' = worker /\ scan' = IdleScan
      /\ store' = {i \in store : i \in Sites \/ inst[i].uuid \in scan.seen}
      /\ inst' = Referenced(inst)
  BY DEF Purge
<1>2. TInv'
  <2>1. inst' \in Objects
    BY <1>1, ReferencedType DEF IInv, TInv, TypeOK, Objects
  <2> QED
    BY <1>1, <2>1, IdleTypes DEF IInv, TInv, TypeOK, WorkersHaveIds, Objects
<1>3. \A i \in Ids : InUse(i)' => InUse(i) /\ inst'[i] = inst[i]
  BY <1>1, KeptObjects DEF InUse
<1>4. SitesStay'
  BY <1>1, <1>3, SetsAssumption DEF IInv, SitesStay, InUse
<1>5. Onward /\ store' \subseteq store
  BY <1>1 DEF Onward
<1>6. EntriesKnown'
  BY <1>2, <1>3, <1>4, <1>5, ObjectsStep
<1>7. ScanKnows'
  BY <1>1 DEF ScanKnows, IdleScan
<1> QED
  BY <1>2, <1>4, <1>6, <1>7 DEF IInv

-----------------------------------------------------------------------------
(* Operations: the scan and the objects' uuids stay, nothing is added. *)

\* What is left to show of such a step.
LEMMA OperationStep ==
    ASSUME IInv, TInv', Onward, UNCHANGED scan, store' \subseteq store, Sites \subseteq store',
           \A i \in Ids : InUse(i)' => InUse(i) /\ inst'[i].uuid = inst[i].uuid,
           \A i \in Sites : inst'[i] = inst[i]
    PROVE  IInv'
<1>1. SitesStay'
  BY DEF IInv, SitesStay
<1> QED
  BY <1>1, ObjectsStep DEF IInv

LEMMA RequestStartStep == ASSUME IInv, NEW w \in Workers, NEW i \in Ids, RequestStart(w, i) PROVE IInv'
<1>1. /\ i \in store \ Sites
      /\ worker' = [worker EXCEPT ![w] = [op |-> "start", id |-> i, pc |-> "start"]]
      /\ inst' = [inst EXCEPT ![i].state = "provisioning"]
      /\ UNCHANGED <<machine, store, scan>>
  BY DEF RequestStart, MayRequest, Begin
<1>2. inst' \in Objects
  BY <1>1, StateUpdate DEF IInv, TInv, State
<1>3. \A j \in Ids : inst'[j].uuid = inst[j].uuid /\ (j # i => inst'[j] = inst[j])
  BY <1>1 DEF IInv, TInv, TypeOK, Instance
<1>4. TInv'
  BY <1>1, <1>2 DEF IInv, TInv, TypeOK, WorkersHaveIds, Worker, Objects
<1>5. Onward
  BY <1>1 DEF Onward
<1>6. \A j \in Ids : InUse(j)' => InUse(j)
  BY <1>1 DEF IInv, TInv, TypeOK, InUse
<1>7. Sites \subseteq store' /\ \A j \in Sites : inst'[j] = inst[j]
  BY <1>1, <1>3, SetsAssumption DEF IInv, SitesStay
<1> QED
  BY <1>1, <1>3, <1>4, <1>5, <1>6, <1>7, OperationStep

\* StopInstance and Restart, as they begin.
LEMMA BeginStep ==
    ASSUME IInv, NEW w \in Workers, NEW i \in store \ Sites,
           NEW op \in {"stop", "restart"}, NEW step \in {"acpi", "halt"},
           Begin(w, op, i, step), UNCHANGED <<machine, inst, store, scan>>
    PROVE  IInv'
<1>1. TInv'
  BY DEF IInv, TInv, TypeOK, WorkersHaveIds, Worker, Begin
<1>2. Onward
  BY DEF Onward
<1>3. \A j \in Ids : InUse(j)' => InUse(j)
  BY DEF IInv, TInv, TypeOK, InUse, Begin
<1>4. Sites \subseteq store'
  BY DEF IInv, SitesStay
<1> QED
  BY <1>1, <1>2, <1>3, <1>4, OperationStep

LEMMA DeleteStep == ASSUME IInv, NEW w \in Workers, NEW i \in Ids, Delete(w, i) PROVE IInv'
<1>1. /\ i \in store \ Sites /\ store' = store \ {i} /\ inst' = Referenced(inst)
      /\ UNCHANGED <<machine, scan, worker>>
  BY DEF Delete, MayRequest
<1>2. inst' \in Objects
  BY <1>1, ReferencedType DEF IInv, TInv, TypeOK, Objects
<1>3. TInv'
  BY <1>1, <1>2 DEF IInv, TInv, TypeOK, WorkersHaveIds, Objects
<1>4. Onward
  BY <1>1 DEF Onward
<1>5. \A j \in Ids : InUse(j)' => InUse(j) /\ inst'[j] = inst[j]
  BY <1>1, KeptObjects DEF InUse
<1>6. Sites \subseteq store'
  BY <1>1 DEF IInv, SitesStay
<1>7. \A j \in Sites : inst'[j] = inst[j]
  BY <1>5, <1>6, SetsAssumption DEF InUse
<1> QED
  BY <1>1, <1>3, <1>4, <1>5, <1>6, <1>7, OperationStep

-----------------------------------------------------------------------------
(* The goroutines. *)

\* The instance a goroutine works on, and its machine.
LEMMA WorkersMachine ==
    ASSUME IInv, NEW w \in Workers, worker[w].pc # "idle"
    PROVE  /\ worker[w].id \in Ids \ Sites
           /\ VmOf(w) \in Vms
           /\ machine[VmOf(w)].power # "future"
  BY DEF IInv, TInv, WorkersHaveIds, EntriesKnown, InUse, VmOf

\* A machine that is on or off becomes on or off.
LEMMA PowerStep ==
    ASSUME IInv, NEW v \in Vms, machine[v].power # "gone",
           NEW p \in Power, NEW a \in BOOLEAN,
           machine' = [machine EXCEPT ![v] = [power |-> p, addr |-> a]]
    PROVE  machine' \in Machines /\ Onward
<1>1. [power |-> p, addr |-> a] \in Machine
  BY DEF Machine
<1>2. \A u \in Vms : machine'[u] = IF u = v THEN [power |-> p, addr |-> a] ELSE machine[u]
  BY DEF IInv, TInv, TypeOK
<1>3. machine' \in Machines
  BY <1>1, MachineUpdate DEF IInv, TInv
<1>4. p # "future"
  BY DEF Power
<1>5. Onward
  BY <1>2, <1>4 DEF Onward
<1> QED
  BY <1>3, <1>5

\* A goroutine that goes on.
LEMMA ContinueStep ==
    ASSUME IInv, NEW w \in Workers, worker[w].pc # "idle",
           NEW step \in {"start", "halt"}, Continue(w, step),
           machine' \in Machines, Onward, UNCHANGED <<inst, store, scan>>
    PROVE  IInv'
<1>1. worker' = [worker EXCEPT ![w].pc = step] /\ worker[w] \in Worker
  BY DEF Continue, IInv, TInv, TypeOK
<1>2. [worker[w] EXCEPT !.pc = step] \in Worker
  BY <1>1 DEF Worker
<1>3. worker' \in [Workers -> Worker] /\ \A u \in Workers : worker'[u].id = worker[u].id
  BY <1>1, <1>2 DEF IInv, TInv, TypeOK, Worker
<1>4. WorkersHaveIds'
  BY <1>1, <1>3, WorkersMachine DEF IInv, TInv, TypeOK, WorkersHaveIds
<1>5. TInv'
  BY <1>3, <1>4 DEF IInv, TInv, TypeOK, Machines
<1>6. \A j \in Ids : InUse(j)' => InUse(j)
  BY <1>3 DEF InUse
<1>7. Sites \subseteq store'
  BY DEF IInv, SitesStay
<1> QED
  BY <1>5, <1>6, <1>7, OperationStep

\* A goroutine that ends.
LEMMA FinishStep ==
    ASSUME IInv, NEW w \in Workers, NEW objects \in Objects, Finish(w, objects),
           \A i \in Ids : objects[i].uuid = inst[i].uuid,
           \A i \in Sites : objects[i] = inst[i],
           machine' \in Machines, Onward, UNCHANGED <<store, scan>>
    PROVE  IInv'
<1>1. worker' = [worker EXCEPT ![w] = IdleWorker] /\ inst' = Referenced(objects)
  BY DEF Finish
<1>2. inst' \in Objects
  BY <1>1, ReferencedType
<1>3. worker' \in [Workers -> Worker] /\ WorkersHaveIds'
  BY <1>1, IdleTypes DEF IInv, TInv, TypeOK, WorkersHaveIds
<1>4. TInv'
  BY <1>2, <1>3 DEF IInv, TInv, TypeOK, Machines, Objects
<1>5. \A i \in Ids : InUse(i)' => InUse(i) /\ inst'[i] = objects[i]
  <2>1. IdleWorker.id = None
    BY DEF IdleWorker
  <2> QED
    BY <1>1, <2>1, KeptObjects, NoneAssumption DEF IInv, TInv, TypeOK, InUse
<1>6. Sites \subseteq store' /\ \A i \in Sites : inst'[i] = inst[i]
  BY <1>5, SetsAssumption DEF IInv, SitesStay, InUse
<1> QED
  BY <1>4, <1>5, <1>6, OperationStep

LEMMA StartVMStep == ASSUME IInv, NEW w \in Workers, StartVM(w) PROVE IInv'
<1> DEFINE v == VmOf(w)
           i == worker[w].id
           failed == [inst EXCEPT ![i].state = "failed"]
<1>1. worker[w].pc = "start" /\ UNCHANGED <<store, scan>>
  BY DEF StartVM
<1>2. v \in Vms /\ i \in Ids \ Sites
  BY <1>1, WorkersMachine
<1>3. failed \in Objects
  BY <1>2, StateUpdate DEF IInv, TInv, State
<1>4. /\ \A j \in Ids : failed[j].uuid = inst[j].uuid
      /\ \A j \in Sites : failed[j] = inst[j]
  BY <1>2, SetsAssumption DEF IInv, TInv, TypeOK, Instance
<1>5. inst \in Objects /\ machine \in Machines
  BY DEF IInv, TInv, TypeOK, Objects, Machines
<1>6. CASE UNCHANGED machine /\ Finish(w, failed)
  <2>1. Onward
    BY <1>6 DEF Onward
  <2> QED
    BY <1>1, <1>3, <1>4, <1>5, <1>6, <2>1, FinishStep
<1>7. ASSUME NEW p \in {"running", "starting"}, Off(v), machine' = [machine EXCEPT ![v].power = p]
      PROVE  machine' \in Machines /\ Onward
  <2>1. machine' \in Machines
    BY <1>2, <1>7, PowerUpdate DEF IInv, TInv, Power
  <2>2. \A u \in Vms : u # v => machine'[u] = machine[u]
    BY <1>7 DEF IInv, TInv, TypeOK
  <2>3. machine'[v].power = p
    BY <1>2, <1>7 DEF IInv, TInv, TypeOK, Machine
  <2> QED
    BY <1>7, <2>1, <2>2, <2>3 DEF Onward, Off
<1>8. CASE Off(v) /\ machine' = [machine EXCEPT ![v].power = "running"] /\ Finish(w, inst)
  BY <1>1, <1>5, <1>7, <1>8, FinishStep
<1>9. CASE Off(v) /\ machine' = [machine EXCEPT ![v].power = "starting"] /\ Finish(w, failed)
  BY <1>1, <1>3, <1>4, <1>7, <1>9, FinishStep
<1> QED
  BY <1>6, <1>8, <1>9 DEF StartVM

\* A machine that is switched off, or left as it is.
LEMMA OffStep ==
    ASSUME IInv, NEW v \in Vms,
           \/ /\ machine[v].power \in {"running", "paused"}
              /\ machine' = [machine EXCEPT ![v] = [power |-> "poweroff", addr |-> FALSE]]
           \/ UNCHANGED machine
    PROVE  machine' \in Machines /\ Onward
<1>1. CASE UNCHANGED machine
  BY <1>1 DEF Onward, IInv, TInv, TypeOK, Machines
<1>2. CASE /\ machine[v].power \in {"running", "paused"}
           /\ machine' = [machine EXCEPT ![v] = [power |-> "poweroff", addr |-> FALSE]]
  <2>1. machine[v].power # "gone" /\ "poweroff" \in Power
    BY <1>2 DEF Power
  <2> QED
    BY <1>2, <2>1, PowerStep
<1> QED
  BY <1>1, <1>2

LEMMA StopAcpiStep == ASSUME IInv, NEW w \in Workers, StopAcpi(w) PROVE IInv'
<1>1. /\ worker[w].pc = "acpi" /\ UNCHANGED <<store, scan>>
      /\ VmOf(w) \in Vms /\ inst \in Objects
  BY WorkersMachine DEF StopAcpi, IInv, TInv, TypeOK, Objects
<1>2. machine' \in Machines /\ Onward
  BY <1>1, OffStep DEF StopAcpi
<1>3. CASE Finish(w, inst)
  BY <1>1, <1>2, <1>3, FinishStep
<1>4. CASE UNCHANGED inst /\ Continue(w, "halt")
  BY <1>1, <1>2, <1>4, ContinueStep
<1> QED
  BY <1>3, <1>4 DEF StopAcpi

LEMMA PowerOffStep == ASSUME IInv, NEW w \in Workers, PowerOffVM(w) PROVE IInv'
<1>1. /\ worker[w].pc = "halt" /\ UNCHANGED <<store, scan>>
      /\ VmOf(w) \in Vms /\ inst \in Objects
  BY WorkersMachine DEF PowerOffVM, IInv, TInv, TypeOK, Objects
<1>2. machine' \in Machines /\ Onward
  BY <1>1, OffStep DEF PowerOffVM
<1>3. CASE Finish(w, inst)
  BY <1>1, <1>2, <1>3, FinishStep
<1>4. CASE UNCHANGED inst /\ Continue(w, "start")
  BY <1>1, <1>2, <1>4, ContinueStep
<1> QED
  BY <1>3, <1>4 DEF PowerOffVM

-----------------------------------------------------------------------------
(* The machines, and the whole. *)

\* What happens to machines changes nothing else.
LEMMA EventStep ==
    ASSUME IInv, machine' \in Machines, Onward, UNCHANGED <<inst, store, scan, worker>>
    PROVE  IInv'
<1>1. TInv'
  BY DEF IInv, TInv, TypeOK, WorkersHaveIds, Machines
<1>2. Sites \subseteq store' /\ \A i \in Ids : InUse(i)' => InUse(i)
  BY DEF IInv, SitesStay, InUse
<1> QED
  BY <1>1, <1>2, OperationStep

LEMMA BecomesStep ==
    ASSUME IInv, NEW v \in Vms, NEW from \in Power \cup {"future"}, NEW to \in Power \cup {"gone"},
           Becomes(v, from, to)
    PROVE  IInv'
<1> DEFINE m == [power |-> to, addr |-> IF to = "running" THEN machine[v].addr ELSE FALSE]
<1>1. machine[v] \in Machine /\ machine[v].power = from /\ machine' = [machine EXCEPT ![v] = m]
  BY DEF Becomes, IInv, TInv, TypeOK
<1>2. m \in Machine
  BY <1>1 DEF Machine
<1>3. machine' \in Machines
  BY <1>1, <1>2, MachineUpdate DEF IInv, TInv
<1>4. from # "gone" /\ to # "future"
  BY DEF Power
<1>5. Onward
  BY <1>1, <1>4 DEF Onward, IInv, TInv, TypeOK
<1> QED
  BY <1>3, <1>5, EventStep DEF Becomes

LEMMA MachineEventStep == ASSUME IInv, NEW v \in Vms, MachineEvent(v) PROVE IInv'
<1>1. CASE \E from, to \in Power \cup {"future", "gone"} :
             <<v, from, to>> \in MachineEvents /\ Becomes(v, from, to)
  <2>1. PICK from, to \in Power \cup {"future", "gone"} :
          <<v, from, to>> \in MachineEvents /\ Becomes(v, from, to)
    BY <1>1
  <2>2. from \in Power \cup {"future"} /\ to \in Power \cup {"gone"}
    BY <2>1, EventsAssumption
  <2> QED
    BY <2>1, <2>2, BecomesStep
<1>2. CASE ComesUp(v)
  BY <1>2, BecomesStep DEF ComesUp, Power
<1>3. CASE GetsAddress(v)
  <2>1. machine[v].power = "running" /\ machine' = [machine EXCEPT ![v].addr = TRUE]
    BY <1>3 DEF GetsAddress
  <2>2. [machine[v] EXCEPT !.addr = TRUE] \in Machine
    BY DEF IInv, TInv, TypeOK, Machine
  <2>3. machine' \in Machines
    BY <2>1, <2>2 DEF IInv, TInv, TypeOK, Machines
  <2>4. \A u \in Vms : machine'[u].power = machine[u].power
    BY <2>1 DEF IInv, TInv, TypeOK, Machine
  <2> QED
    BY <1>3, <2>3, <2>4, EventStep DEF GetsAddress, Onward
<1> QED
  BY <1>1, <1>2, <1>3 DEF MachineEvent

LEMMA InitIInv == Init => IInv
<1> SUFFICES ASSUME Init PROVE IInv
  OBVIOUS
<1>1. inst = [i \in Ids |-> IF i \in Sites THEN Site ELSE NoInstance] /\ store = Sites
      /\ scan = IdleScan /\ worker = [w \in Workers |-> IdleWorker]
  BY DEF Init
<1>2. TInv
  BY <1>1, SetsAssumption, IdleTypes, NoInstanceType
     DEF Init, TInv, TypeOK, WorkersHaveIds, Machine, Power
<1>3. \A i \in Ids \ Sites : ~InUse(i)
  BY <1>1, NoneAssumption DEF InUse, IdleWorker
<1> QED
  BY <1>1, <1>2, <1>3, SetsAssumption DEF IInv, SitesStay, EntriesKnown, ScanKnows, IdleScan

LEMMA NextIInv == ASSUME IInv, [Next]_vars PROVE IInv'
<1>1. CASE SyncInventory
  BY <1>1, ScanListStep, ScanInspectStep, ScanFilterStep, UpsertStep, PurgeStep DEF SyncInventory
<1>2. CASE Request
  <2>1. PICK w \in Workers, i \in Ids :
          RequestStart(w, i) \/ RequestStop(w, i) \/ RequestRestart(w, i) \/ Delete(w, i)
    BY <1>2 DEF Request
  <2>2. CASE RequestStop(w, i)
    BY <2>2, BeginStep DEF RequestStop, MayRequest
  <2>3. CASE RequestRestart(w, i)
    BY <2>3, BeginStep DEF RequestRestart, MayRequest
  <2> QED
    BY <2>1, <2>2, <2>3, RequestStartStep, DeleteStep
<1>3. CASE \E w \in Workers : WorkerStep(w)
  BY <1>3, StartVMStep, StopAcpiStep, PowerOffStep DEF WorkerStep
<1>4. CASE \E v \in Vms : MachineEvent(v)
  BY <1>4, MachineEventStep
<1>5. CASE UNCHANGED vars
  BY <1>5, EventStep DEF vars, IInv, TInv, TypeOK, Machines, Onward
<1> QED
  BY <1>1, <1>2, <1>3, <1>4, <1>5 DEF Next

-----------------------------------------------------------------------------
(* What changes the set of entries. *)

\* Only a scan adds an entry, and no step gives an entry another machine.
LEMMA EntriesStep ==
    ASSUME IInv, [Next]_vars
    PROVE  \/ \E v \in Vms : Upsert(v)
           \/ store' \subseteq store /\ \A i \in store' : inst'[i].uuid = inst[i].uuid
<1> DEFINE Kept == store' \subseteq store /\ \A i \in store' : inst'[i].uuid = inst[i].uuid
<1>1. TypeOK /\ store \subseteq Ids
  BY DEF IInv, TInv, TypeOK
<1>2. ASSUME UNCHANGED <<inst, store>> PROVE Kept
  BY <1>2
<1>3. \A objects : inst' = Referenced(objects) => \A i \in store' : i \in Ids => inst'[i] = objects[i]
  BY KeptObjects DEF InUse
<1>4. CASE SyncInventory /\ ~\E v \in Vms : Upsert(v)
  <2>1. CASE Purge
    BY <1>1, <1>3, <2>1 DEF Purge
  <2> QED
    BY <1>2, <1>4, <2>1 DEF SyncInventory, ScanList, ScanInspect, ScanFilter
<1>5. CASE Request
  <2>1. PICK w \in Workers, i \in Ids :
          RequestStart(w, i) \/ RequestStop(w, i) \/ RequestRestart(w, i) \/ Delete(w, i)
    BY <1>5 DEF Request
  <2>2. CASE RequestStart(w, i)
    <3>1. inst' = [inst EXCEPT ![i].state = "provisioning"] /\ store' = store
      BY <2>2 DEF RequestStart
    <3>2. \A j \in Ids : inst'[j].uuid = inst[j].uuid
      BY <3>1, <1>1 DEF TypeOK, Instance
    <3> QED
      BY <1>1, <3>1, <3>2
  <2>3. CASE Delete(w, i)
    BY <1>1, <1>3, <2>3 DEF Delete
  <2> QED
    BY <1>2, <2>1, <2>2, <2>3 DEF RequestStop, RequestRestart
<1>6. ASSUME NEW w \in Workers, WorkerStep(w) PROVE Kept
  <2>1. store' = store
    BY <1>6 DEF WorkerStep, StartVM, StopAcpi, PowerOffVM
  <2>2. ASSUME Finish(w, inst) PROVE Kept
    BY <1>1, <1>3, <2>1, <2>2 DEF Finish
  <2>3. ASSUME Finish(w, [inst EXCEPT ![worker[w].id].state = "failed"]) PROVE Kept
    <3> DEFINE failed == [inst EXCEPT ![worker[w].id].state = "failed"]
    <3>1. \A i \in Ids : failed[i].uuid = inst[i].uuid
      BY <1>1 DEF TypeOK, Instance
    <3>2. \A i \in store' : inst'[i] = failed[i]
      BY <1>1, <1>3, <2>1, <2>3 DEF Finish
    <3> QED
      BY <1>1, <2>1, <3>1, <3>2
  <2>4. CASE StartVM(w)
    BY <2>2, <2>3, <2>4 DEF StartVM
  <2> QED
    BY <1>2, <1>6, <2>1, <2>2, <2>4 DEF WorkerStep, StopAcpi, PowerOffVM
<1>7. CASE \E v \in Vms : MachineEvent(v)
  BY <1>2, <1>7 DEF MachineEvent, Becomes, ComesUp, GetsAddress
<1>8. CASE UNCHANGED vars
  BY <1>2, <1>8 DEF vars
<1> QED
  BY <1>4, <1>5, <1>6, <1>7, <1>8 DEF Next

LEMMA OneEntryStep == ASSUME IInv, OneEntryPerMachine, [Next]_vars PROVE OneEntryPerMachine'
<1>1. store \subseteq Ids /\ inst \in Objects
  BY DEF IInv, TInv, TypeOK, Objects
<1>2. CASE store' \subseteq store /\ \A i \in store' : inst'[i].uuid = inst[i].uuid
  BY <1>2 DEF OneEntryPerMachine, Entries
<1>3. ASSUME NEW v \in Vms, Upsert(v) PROVE OneEntryPerMachine'
  <2>1. CASE Entries(v) = {}
    <3>1. PICK i \in FreshIds :
            /\ inst' = [inst EXCEPT ![i] = [uuid |-> v, vbox |-> scan.found[v].power,
                                            state |-> MapVBoxState(scan.found[v].power),
                                            addr |-> scan.found[v].addr]]
            /\ store' = store \cup {i}
      BY <1>3, <2>1 DEF Upsert
    <3>2. i \notin store /\ i \in Ids /\ inst'[i].uuid = v
      BY <1>1, <3>1 DEF FreshIds, Objects
    <3>3. \A j \in store : inst'[j] = inst[j]
      BY <1>1, <3>1, <3>2 DEF Objects
    <3> QED
      BY <2>1, <3>1, <3>2, <3>3 DEF OneEntryPerMachine, Entries
  <2>2. CASE Entries(v) # {}
    <3>1. PICK i \in Entries(v) :
            inst' = [inst EXCEPT ![i] = Refreshed(@, scan.found[v])] /\ store' = store
      BY <1>3, <2>2 DEF Upsert
    <3>2. i \in Ids /\ inst[i] \in Instance
      BY <1>1 DEF Entries, Objects
    <3>3. \A j \in Ids : inst'[j].uuid = inst[j].uuid
      BY <1>1, <3>1, <3>2, UpsertType DEF Objects
    <3> QED
      BY <1>1, <3>1, <3>3 DEF OneEntryPerMachine, Entries
  <2> QED
    BY <2>1, <2>2
<1> QED
  BY <1>2, <1>3, EntriesStep

\* Only a user and the end of a scan remove entries.
LEMMA EntryGoes ==
    ASSUME IInv, [Next]_vars, NEW i \in store \ store'
    PROVE  ~Registered(inst[i].uuid) \/ scan' = scan
<1>1. CASE SyncInventory
  <2>1. CASE Purge
    <3>1. scan.pc = "updating" /\ i \notin Sites /\ inst[i].uuid \notin scan.seen
      BY <2>1 DEF Purge
    <3> QED
      BY <3>1 DEF IInv, ScanKnows
  <2> QED
    BY <1>1, <2>1 DEF SyncInventory, ScanList, ScanInspect, ScanFilter, Upsert
<1>2. CASE Request
  BY <1>2 DEF Request, RequestStart, RequestStop, RequestRestart, Delete
<1>3. CASE \E w \in Workers : WorkerStep(w)
  BY <1>3 DEF WorkerStep, StartVM, StopAcpi, PowerOffVM
<1>4. CASE \E v \in Vms : MachineEvent(v)
  BY <1>4 DEF MachineEvent, Becomes, ComesUp, GetsAddress
<1>5. CASE UNCHANGED vars
  BY <1>5 DEF vars
<1> QED
  BY <1>1, <1>2, <1>3, <1>4, <1>5 DEF Next

-----------------------------------------------------------------------------
(* Theorems. *)

LEMMA InvariantHolds == Spec => []IInv
<1>1. Init => IInv
  BY InitIInv
<1>2. IInv /\ [Next]_vars => IInv'
  BY NextIInv
<1> QED
  BY <1>1, <1>2, PTL DEF Spec

\* Every variable always holds a value of its kind, for any number of machines,
\* ids and goroutines.
THEOREM TypeCorrect == Spec => []TypeOK
<1>1. IInv => TypeOK
  BY DEF IInv, TInv
<1> QED
  BY <1>1, InvariantHolds, PTL

\* upsertFromVBox never makes a second entry for a machine, however operations
\* and removals fall between the steps of a scan.
THEOREM OneEntry == Spec => []OneEntryPerMachine
<1>1. Init => OneEntryPerMachine
  BY NoneAssumption, SetsAssumption DEF Init, OneEntryPerMachine, Entries, Site
<1>2. IInv /\ OneEntryPerMachine /\ [Next]_vars => OneEntryPerMachine'
  BY OneEntryStep
<1> QED
  BY <1>1, <1>2, InvariantHolds, PTL DEF Spec

\* A scan removes an entry only when its machine is gone: a machine that could
\* not be inspected, or was started or stopped while the scan ran, keeps it.
THEOREM EntriesGo == Spec => EntriesGoWithMachines
<1>1. IInv /\ [Next]_vars => [\A i \in store \ store' : ~Registered(inst[i].uuid) \/ scan' = scan]_vars
  BY EntryGoes
<1> QED
  BY <1>1, InvariantHolds, PTL DEF Spec, EntriesGoWithMachines
=============================================================================
