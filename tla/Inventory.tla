------------------------------ MODULE Inventory ------------------------------
(***************************************************************************)
(* The machines somebody made in VirtualBox, as the dashboard of HTTPaaS   *)
(* shows them: SyncInventory, once before the first request and then every *)
(* five seconds on one goroutine, and the operations users ask for on an   *)
(* imported instance, each on a goroutine of its own.                      *)
(*                                                                         *)
(* A scan lists the machines, inspects them one by one and only then       *)
(* updates the store, so it works with what was true some seconds ago,     *)
(* while operations and machines go on.                                    *)
(***************************************************************************)
EXTENDS Integers, FiniteSets

CONSTANTS
    Vms,        \* machines, by their UUID in VirtualBox
    Shown,      \* those whose name passes VMNameFilter
    Ids,        \* instance UUIDs
    Sites,      \* managed instances, in the same store
    Workers,    \* goroutines started by the operation handlers
    None,
    Ops,        \* operations users ask for
    Failures,   \* what may fail: "inspect", "start", "slow", "poweroff"
    MachineEvents  \* what happens to machines outside HTTPaaS: <<v, from, to>>

ASSUME NoneAssumption == None \notin Ids \cup Vms
ASSUME SetsAssumption == Shown \subseteq Vms /\ Sites \subseteq Ids
ASSUME OpsAssumption == Ops \subseteq {"start", "stop", "restart", "delete"}

VARIABLES
    machine,  \* what VirtualBox has
    inst,     \* the Instance objects
    store,    \* ids in InstanceStore.Instances
    scan,     \* how far SyncInventory is, and what it has found
    worker    \* what each operation goroutine is doing

vars == <<machine, inst, store, scan, worker>>

-----------------------------------------------------------------------------
(* Data. *)

State == {"none", "provisioning", "running", "failed", "stopped"}
Power == {"poweroff", "starting", "running", "paused", "aborted"}

\* addr: VirtualBox knows an address of the machine.  A machine is registered
\* at most once: "future" before, "gone" after.
Machine == [power : Power \cup {"future", "gone"}, addr : BOOLEAN]

ASSUME EventsAssumption ==
    MachineEvents \subseteq Vms \X (Power \cup {"future"}) \X (Power \cup {"gone"})

\* What VMInfo returned for a machine, or could not.
Finding == [power : Power \cup {"unknown"}, addr : BOOLEAN]

Instance   == [uuid : Vms \cup {None}, state : State,
               vbox : Power \cup {"unknown", "none"}, addr : BOOLEAN]
NoInstance == [uuid |-> None, state |-> "none", vbox |-> "none", addr |-> FALSE]

\* A managed site has no VMUUID; what else it holds is not this module's.
Site == [uuid |-> None, state |-> "running", vbox |-> "running", addr |-> TRUE]

NotFound == [power |-> "unknown", addr |-> FALSE]

Scan == [pc : {"idle", "listing", "updating"}, todo : SUBSET Vms,
         seen : SUBSET Vms, found : [Vms -> Finding]]
IdleScan == [pc |-> "idle", todo |-> {}, seen |-> {}, found |-> [v \in Vms |-> NotFound]]

Worker == [op : {"none", "start", "stop", "restart"}, id : Ids \cup {None},
           pc : {"idle", "start", "acpi", "halt"}]
IdleWorker == [op |-> "none", id |-> None, pc |-> "idle"]

\* Slip: what VirtualBox says is shown as it is.
MapVBoxStateRaw(power) == power

\* MapVBoxState; unknown falls under its default.
MapVBoxState(power) ==
    CASE power = "running"  -> "running"
      [] power = "starting" -> "provisioning"
      [] power = "aborted"  -> "failed"
      [] OTHER              -> "stopped"

Registered(v) == machine[v].power \in Power
Off(v) == machine[v].power \in {"poweroff", "aborted"}

\* Slip: an instance under way is not looked for.
EntriesOfSettled(v) == {i \in store : inst[i].uuid = v /\ inst[i].state # "provisioning"}

\* upsertFromVBox compares VMUUID over the whole store.
Entries(v) == {i \in store : inst[i].uuid = v}

\* The objects after a step: one that neither the store nor a goroutine refers
\* to is forgotten.
Referenced(objects) ==
    [i \in Ids |-> IF i \in store' \/ \E w \in Workers : worker'[w].id = i
                   THEN objects[i] ELSE NoInstance]

\* util.NewUUID: an id that nothing refers to.
FreshIds == {i \in Ids \ store : \A w \in Workers : worker[w].id # i}

-----------------------------------------------------------------------------
\* main starts with the sites RestoreSites left; machines are off or not made yet.
Init ==
    /\ machine \in [Vms -> [power : {"future", "poweroff"}, addr : {FALSE}]]
    /\ store = Sites
    /\ inst = [i \in Ids |-> IF i \in Sites THEN Site ELSE NoInstance]
    /\ scan = IdleScan
    /\ worker = [w \in Workers |-> IdleWorker]

-----------------------------------------------------------------------------
(* SyncInventory. *)

\* VBoxManage list vms; on an error the scan is given up with nothing changed.
ScanList ==
    /\ scan.pc = "idle"
    /\ scan' = [IdleScan EXCEPT !.pc = "listing", !.todo = {v \in Vms : Registered(v)}]
    /\ UNCHANGED <<machine, inst, store, worker>>

\* Slip: a machine that cannot be inspected is left out of the list.
ScanInspectOrSkip(v) ==
    /\ scan.pc = "listing"
    /\ v \in scan.todo
    /\ \/ \E addr \in {machine[v].addr, FALSE} :
            /\ Registered(v)
            /\ addr = machine[v].addr \/ "inspect" \in Failures
            /\ scan' = [scan EXCEPT !.todo = @ \ {v}, !.seen = @ \cup {v},
                            !.found[v] = [power |-> machine[v].power, addr |-> addr]]
       \/ /\ ~Registered(v) \/ "inspect" \in Failures
          /\ scan' = [scan EXCEPT !.todo = @ \ {v}]
    /\ UNCHANGED <<machine, inst, store, worker>>

\* VMInfo of the next machine of the list: showvminfo tells the state, and an
\* address that guestproperty fails to read counts as none; or showvminfo fails.
ScanInspect(v) ==
    /\ scan.pc = "listing"
    /\ v \in scan.todo
    /\ \/ \E addr \in {machine[v].addr, FALSE} :
            /\ Registered(v)
            /\ addr = machine[v].addr \/ "inspect" \in Failures
            /\ scan' = [scan EXCEPT !.todo = @ \ {v}, !.seen = @ \cup {v},
                            !.found[v] = [power |-> machine[v].power, addr |-> addr]]
       \/ /\ ~Registered(v) \/ "inspect" \in Failures
          /\ scan' = [scan EXCEPT !.todo = @ \ {v}, !.seen = @ \cup {v}]
    /\ UNCHANGED <<machine, inst, store, worker>>

\* The list is complete; the name filter decides what is looked at further.
ScanFilter ==
    /\ scan.pc = "listing"
    /\ scan.todo = {}
    /\ scan' = [pc |-> "updating", todo |-> scan.seen \cap Shown, seen |-> scan.seen \cap Shown,
                found |-> [v \in Vms |-> IF v \in Shown THEN scan.found[v] ELSE NotFound]]
    /\ UNCHANGED <<machine, inst, store, worker>>

\* Slip: the columns are refreshed only along with the state.
RefreshedOnChange(instance, finding) ==
    IF instance.vbox = finding.power THEN instance
    ELSE [instance EXCEPT !.vbox = finding.power, !.state = MapVBoxState(finding.power),
                          !.addr = finding.addr]

\* The state follows VBoxState only when VBoxState changed.
Refreshed(instance, finding) ==
    [instance EXCEPT !.vbox = finding.power,
                     !.state = IF instance.vbox = finding.power THEN instance.state
                               ELSE MapVBoxState(finding.power),
                     !.addr = finding.addr]

\* upsertFromVBox: a new entry, or the columns that changed.
Upsert(v) ==
    /\ scan.pc = "updating"
    /\ v \in scan.todo
    /\ IF Entries(v) = {}
       THEN \E i \in FreshIds :
              /\ inst' = [inst EXCEPT ![i] = [uuid |-> v, vbox |-> scan.found[v].power,
                                              state |-> MapVBoxState(scan.found[v].power),
                                              addr |-> scan.found[v].addr]]
              /\ store' = store \cup {i}
       ELSE \E i \in Entries(v) :
              /\ inst' = [inst EXCEPT ![i] = Refreshed(@, scan.found[v])]
              /\ UNCHANGED store
    /\ scan' = [scan EXCEPT !.todo = @ \ {v}]
    /\ UNCHANGED <<machine, worker>>

\* Slip: no machine at all is taken for a list that failed.
PurgeUnlessEmpty ==
    /\ scan.pc = "updating"
    /\ scan.todo = {}
    /\ store' = IF scan.seen = {} THEN store
                ELSE {i \in store : i \in Sites \/ inst[i].uuid \in scan.seen}
    /\ UNCHANGED <<machine, worker>>
    /\ inst' = Referenced(inst)
    /\ scan' = IdleScan

\* Imported entries whose machine was not listed go.
Purge ==
    /\ scan.pc = "updating"
    /\ scan.todo = {}
    /\ store' = {i \in store : i \in Sites \/ inst[i].uuid \in scan.seen}
    /\ UNCHANGED <<machine, worker>>
    /\ inst' = Referenced(inst)
    /\ scan' = IdleScan

SyncInventory == ScanList \/ ScanFilter \/ Purge \/ \E v \in Vms : ScanInspect(v) \/ Upsert(v)

-----------------------------------------------------------------------------
(* The operations, on an imported instance. *)

VmOf(w) == inst[worker[w].id].uuid

Begin(w, op, i, step) == worker' = [worker EXCEPT ![w] = [op |-> op, id |-> i, pc |-> step]]
Continue(w, step) == worker' = [worker EXCEPT ![w].pc = step]

MayRequest(w, op, i) ==
    /\ op \in Ops
    /\ worker[w] = IdleWorker
    /\ i \in store \ Sites

RequestStart(w, i) ==
    /\ MayRequest(w, "start", i)
    /\ Begin(w, "start", i, "start")
    /\ inst' = [inst EXCEPT ![i].state = "provisioning"]
    /\ UNCHANGED <<machine, store, scan>>

\* StopInstance and Restart change nothing in the instance before they act.
RequestStop(w, i) ==
    /\ MayRequest(w, "stop", i)
    /\ Begin(w, "stop", i, "acpi")
    /\ UNCHANGED <<machine, inst, store, scan>>

RequestRestart(w, i) ==
    /\ MayRequest(w, "restart", i)
    /\ Begin(w, "restart", i, "halt")
    /\ UNCHANGED <<machine, inst, store, scan>>

\* Delete of an imported instance: the entry goes, the machine stays.
Delete(w, i) ==
    /\ MayRequest(w, "delete", i)
    /\ store' = store \ {i}
    /\ UNCHANGED <<machine, scan, worker>>
    /\ inst' = Referenced(inst)

Finish(w, objects) ==
    /\ worker' = [worker EXCEPT ![w] = IdleWorker]
    /\ inst' = Referenced(objects)

\* startvm: done; refused or failed, which makes the instance failed; or given
\* up after 30 seconds with the machine on its way, which does so too.
StartVM(w) ==
    LET v == VmOf(w)
        failed == [inst EXCEPT ![worker[w].id].state = "failed"]
    IN  /\ worker[w].pc = "start"
        /\ UNCHANGED <<store, scan>>
        /\ \/ /\ Off(v)
              /\ machine' = [machine EXCEPT ![v].power = "running"]
              /\ Finish(w, inst)
           \/ /\ ~Off(v) \/ "start" \in Failures
              /\ UNCHANGED machine
              /\ Finish(w, failed)
           \/ /\ Off(v) /\ "slow" \in Failures
              /\ machine' = [machine EXCEPT ![v].power = "starting"]
              /\ Finish(w, failed)

\* Slip: no deadline.
StopAcpiPatiently(w) ==
    LET v == VmOf(w)
    IN  /\ worker[w].pc = "acpi"
        /\ UNCHANGED <<store, scan>>
        /\ \/ /\ machine[v].power = "running"
              /\ machine' = [machine EXCEPT ![v] = [power |-> "poweroff", addr |-> FALSE]]
           \/ /\ Off(v)
              /\ UNCHANGED machine
        /\ Finish(w, inst)

\* The power button and twenty seconds of polling: the machine goes off, is off
\* already, or PowerOffVM follows.
StopAcpi(w) ==
    LET v == VmOf(w)
    IN  /\ worker[w].pc = "acpi"
        /\ UNCHANGED <<store, scan>>
        /\ \/ /\ machine[v].power = "running"
              /\ machine' = [machine EXCEPT ![v] = [power |-> "poweroff", addr |-> FALSE]]
              /\ Finish(w, inst)
           \/ /\ Off(v)
              /\ UNCHANGED machine
              /\ Finish(w, inst)
           \/ /\ ~Off(v)
              /\ UNCHANGED <<machine, inst>>
              /\ Continue(w, "halt")

\* PowerOffVM; a stop ends here, a restart goes on whatever the outcome.
PowerOffVM(w) ==
    LET v == VmOf(w)
    IN  /\ worker[w].pc = "halt"
        /\ UNCHANGED <<store, scan>>
        /\ \/ /\ machine[v].power \in {"running", "paused"}
              /\ machine' = [machine EXCEPT ![v] = [power |-> "poweroff", addr |-> FALSE]]
           \/ /\ machine[v].power \notin {"running", "paused"} \/ "poweroff" \in Failures
              /\ UNCHANGED machine
        /\ IF worker[w].op = "restart"
           THEN Continue(w, "start") /\ UNCHANGED inst
           ELSE Finish(w, inst)

WorkerStep(w) == StartVM(w) \/ StopAcpi(w) \/ PowerOffVM(w)

-----------------------------------------------------------------------------
(* What happens to machines outside HTTPaaS. *)

Becomes(v, from, to) ==
    /\ machine[v].power = from
    /\ machine' = [machine EXCEPT ![v] = [power |-> to,
                                          addr |-> IF to = "running" THEN @.addr ELSE FALSE]]
    /\ UNCHANGED <<inst, store, scan, worker>>

\* A machine on its way comes up.
ComesUp(v) == Becomes(v, "starting", "running")

\* The guest reports an address.
GetsAddress(v) ==
    /\ machine[v] = [power |-> "running", addr |-> FALSE]
    /\ machine' = [machine EXCEPT ![v].addr = TRUE]
    /\ UNCHANGED <<inst, store, scan, worker>>

MachineEvent(v) ==
    \/ \E from, to \in Power \cup {"future", "gone"} :
          <<v, from, to>> \in MachineEvents /\ Becomes(v, from, to)
    \/ ComesUp(v)
    \/ GetsAddress(v)

-----------------------------------------------------------------------------
Request ==
    \E w \in Workers, i \in Ids :
        RequestStart(w, i) \/ RequestStop(w, i) \/ RequestRestart(w, i) \/ Delete(w, i)

Next ==
    \/ SyncInventory
    \/ Request
    \/ \E w \in Workers : WorkerStep(w)
    \/ \E v \in Vms : MachineEvent(v)

Spec == Init /\ [][Next]_vars

\* The ticker goes on, goroutines are scheduled, a machine on its way comes up,
\* and VBoxManage does not fail for one machine for ever.
Fairness ==
    /\ WF_vars(SyncInventory)
    /\ \A w \in Workers : WF_vars(WorkerStep(w))
    /\ \A v \in Vms : /\ WF_vars(ComesUp(v))
                      /\ SF_vars(ScanInspect(v) /\ Registered(v)
                                 /\ scan'.found[v] = machine[v])

FairSpec == Spec /\ Fairness

-----------------------------------------------------------------------------
(* Properties. *)

\* Every variable holds a value of its kind.
TypeOK ==
    /\ machine \in [Vms -> Machine]
    /\ inst \in [Ids -> Instance]
    /\ store \subseteq Ids
    /\ scan \in Scan
    /\ worker \in [Workers -> Worker]

\* A machine has at most one entry, however scans, operations and removals of
\* entries interleave.
OneEntryPerMachine == \A v \in Vms : \A i, j \in Entries(v) : i = j

\* An entry goes when a user removes it or its machine is gone, and not because
\* VirtualBox could not be asked for a moment.
EntriesGoWithMachines ==
    [][\A i \in store \ store' : ~Registered(inst[i].uuid) \/ scan' = scan]_vars

\* The inventory converges: a machine that stays as it is comes to be shown with
\* its power state and its address, again and again if users remove its entry.
MachinesAreShown ==
    \A v \in Shown, m \in [power : Power, addr : BOOLEAN] :
        <>[](machine[v] = m) =>
            []<>(\E i \in Entries(v) : inst[i].vbox = m.power /\ inst[i].addr = m.addr)

\* A machine that is gone is not shown for ever.
GoneMachinesGo == \A v \in Vms : machine[v].power = "gone" ~> [](Entries(v) = {})

\* An operation ends.
OperationsEnd == \A w \in Workers : worker[w].pc # "idle" ~> worker[w].pc = "idle"

\* The dashboard shows what a machine does, once nobody operates it any more
\* (Orchestrator: it keeps the store in step with VirtualBox "para que el
\* dashboard refleje lo que pasa").
StatesAreShown ==
    \A v \in Shown, p \in Power :
        <>[](machine[v].power = p /\ worker = [w \in Workers |-> IdleWorker]) =>
            []<>(\E i \in Entries(v) : inst[i].state = MapVBoxState(p))

=============================================================================
