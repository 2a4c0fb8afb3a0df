----------------------------- MODULE DBInstances -----------------------------
(***************************************************************************)
(* The databases of HTTPaaS: DBOrchestrator and its store, the machines in *)
(* VirtualBox and the DNS zone as external services, and, as far as the    *)
(* shared address range is concerned, the web instances and the inventory. *)
(*                                                                         *)
(* A request to provision leaves runProvision behind on a goroutine that   *)
(* creates a machine, boots it, waits for SSH and sets the database up.  A *)
(* request to delete runs on a goroutine of its own, and a ticker copies   *)
(* every five seconds what VirtualBox says of the machines onto the        *)
(* instances.  All three assign the same fields, one after another and     *)
(* without a lock: each assignment is a step of its own.                   *)
(***************************************************************************)
EXTENDS Integers, FiniteSets

CONSTANTS
    Ids,            \* instance UUIDs, each drawn at most once
    Workers,        \* goroutines started by DBaaSDelete
    None,           \* no instance
    Web,            \* some web instance, as the owner of a PTR record
    Pool,           \* addresses IP_RANGE_START..IP_RANGE_END
    MachineEvents,  \* what happens to machines by themselves or by an operator:
                    \* "halt", "abort", "pause", "boot"
    Failures,       \* what may fail: "template", "create", "props", "start",
                    \* "slow", "ssh", "dns", "poweroff", "unregister",
                    \* "inspect", "save"
    WebRequests,    \* web instances come and go, in the same address range,
                    \* one request at a time
    Crashes,        \* the service may be killed and started again
    OverlappingProvisions, \* two requests for databases may run at once
    OverlappingOps  \* a deletion may be asked for during provisioning

NoIP == 0

ASSUME NoneAssumption == None \notin Ids
ASSUME WebAssumption == Web \notin Ids \cup {None}
ASSUME PoolAssumption == Pool \subseteq Nat \ {NoIP}
ASSUME SwitchesAssumption ==
    /\ WebRequests \in BOOLEAN
    /\ Crashes \in BOOLEAN
    /\ OverlappingProvisions \in BOOLEAN
    /\ OverlappingOps \in BOOLEAN
    /\ MachineEvents \subseteq {"halt", "abort", "pause", "boot"}

VARIABLES
    inst,     \* the DBInstance objects, alive as long as a goroutine has them
    store,    \* ids in DBInstanceStore.Instances
    file,     \* what db_instances.json holds
    pc,       \* where Provision and runProvision of an id are
    worker,   \* what each Delete goroutine is doing
    sync,     \* the instance SyncVBoxState looks at, and what it saw
    vm,       \* the machines, by the instance they are named after
    dnsA,     \* A records, by the instance whose VMName they bear
    dnsPtr,   \* PTR records
    web,      \* pool addresses of managed web instances
    webAsk,   \* the address of the web instance being provisioned
    webSeen,  \* what Provision of an id read of the web store
    imported  \* address column of the machine's entry in the web inventory

vars == <<inst, store, file, pc, worker, sync, vm, dnsA, dnsPtr, web, webAsk, webSeen, imported>>

-----------------------------------------------------------------------------
(* Data. *)

State == {"none", "pending", "provisioning", "deploying", "running",
          "failed", "stopped", "deleting"}

Power == {"poweroff", "starting", "running", "paused", "aborted"}

DBInstance == [ip : Pool \cup {NoIP}, state : State, vbox : Power \cup {"none"}]

NoInstance == [ip |-> NoIP, state |-> "none", vbox |-> "none"]

\* disk: the template disk is attached; ip: the address first-boot will take;
\* dbs: the instances whose database, user and grants were made there.
Machine   == [power : Power \cup {"absent"}, disk : BOOLEAN,
              ip : Pool \cup {NoIP}, dbs : SUBSET Ids]
NoMachine == [power |-> "absent", disk |-> FALSE, ip |-> NoIP, dbs |-> {}]

HandlerPhases == {"asked", "allocated"}
GoroutinePhases == {"queued", "creating", "configuring", "injecting", "starting",
                    "booting", "waiting", "settingup", "loading", "loaded", "registering",
                    "registered", "failing"}
Phases == {"new", "done"} \cup HandlerPhases \cup GoroutinePhases

Worker     == [id : Ids \cup {None},
               pc : {"idle", "look", "halt", "unregister", "undns", "erase"}]
IdleWorker == [id |-> None, pc |-> "idle"]

Sync     == [id : Ids \cup {None}, seen : Power \cup {"none"},
             pc : {"idle", "seen", "differs", "shown"}]
IdleSync == [id |-> None, seen |-> "none", pc |-> "idle"]

\* Slip: what VirtualBox says is shown as it is.
MapVBoxStateRaw(power) == power

MapVBoxState(power) ==
    CASE power = "running"  -> "running"
      [] power = "starting" -> "provisioning"
      [] power = "aborted"  -> "failed"
      [] OTHER              -> "stopped"

Exists(i) == vm[i].power # "absent"

\* Who would answer an SSH connection to the address.
Answering(ip) == {j \in Ids : vm[j].power = "running" /\ vm[j].ip = ip}

Snapshot(ids, objects) ==
    [ids |-> ids, inst |-> [i \in Ids |-> IF i \in ids THEN objects[i] ELSE NoInstance]]

\* DBInstanceStore.Save after an assignment to a field.  That it may fail is left
\* to WebInstances; here only the saves of Put and Delete may.
Save == file' = Snapshot(store', inst')

Busy(i) == \E w \in Workers : worker[w].id = i

-----------------------------------------------------------------------------
(* The address range. *)

\* InstanceStore.UsedIPs: web instances, and machines as the inventory has them.
WebUsedIPs == (web \cup {imported[i] : i \in Ids}) \ {NoIP}

\* Slip: of the databases only those count that run.
UsedIPsOfRunning(i) ==
    (webSeen[i] \cup {inst[j].ip : j \in {k \in store : inst[k].state = "running"}}) \ {NoIP}

\* Slip: a stopped instance's address is up for grabs.
UsedIPsOfActive(i) ==
    (webSeen[i] \cup {inst[j].ip : j \in {k \in store : inst[k].state # "stopped"}}) \ {NoIP}

\* What DBInstanceStore.AllocateIP excludes, called for i: extraUsed as it was
\* read before the call, and the own store as it is now.
UsedIPs(i) == (webSeen[i] \cup {inst[j].ip : j \in store}) \ {NoIP}

FreeIPs(i) == Pool \ UsedIPs(i)

-----------------------------------------------------------------------------
Init ==
    /\ inst = [i \in Ids |-> NoInstance]
    /\ store = {}
    /\ file = Snapshot({}, inst)
    /\ pc = [i \in Ids |-> "new"]
    /\ worker = [w \in Workers |-> IdleWorker]
    /\ sync = IdleSync
    /\ vm = [i \in Ids |-> NoMachine]
    /\ dnsA = [i \in Ids |-> NoIP]
    /\ dnsPtr = [ip \in Pool |-> None]
    /\ web = {}
    /\ webAsk = NoIP
    /\ webSeen = [i \in Ids |-> {}]
    /\ imported = [i \in Ids |-> NoIP]

records == <<inst, store, file>>
dns     == <<dnsA, dnsPtr>>
range   == <<web, webAsk, webSeen, imported>>

Goto(i, phase) == pc' = [pc EXCEPT ![i] = phase]

\* The closure mark of runProvision: the logical state changes, VBoxState does not.
Mark(i, state) ==
    /\ inst' = [inst EXCEPT ![i].state = state]
    /\ store' = store
    /\ Save

\* The closure fail begins with State, which it does not save.
Fail(i) ==
    /\ inst' = [inst EXCEPT ![i].state = "failed"]
    /\ Goto(i, "failing")
    /\ UNCHANGED <<store, file, worker, sync, dns, range>>

-----------------------------------------------------------------------------
(* Provision, on the handler's goroutine. *)

\* InstanceStore.UsedIPs, the last argument of AllocateIP, is evaluated first.
ReadWebIPs(i) ==
    /\ pc[i] = "new"
    /\ OverlappingProvisions \/ \A j \in Ids : pc[j] \notin HandlerPhases
    /\ webSeen' = [webSeen EXCEPT ![i] = WebUsedIPs]
    /\ Goto(i, "asked")
    /\ UNCHANGED <<records, worker, sync, vm, dns, web, webAsk, imported>>

\* Nothing reserves the address.  A request that finds none free is refused and
\* leaves no trace.
AllocateIP(i) ==
    /\ pc[i] = "asked"
    /\ \/ \E ip \in FreeIPs(i) :
            /\ \A other \in FreeIPs(i) : ip =< other
            /\ inst' = [inst EXCEPT ![i] = [ip |-> ip, state |-> "pending", vbox |-> "starting"]]
            /\ Goto(i, "allocated")
       \/ FreeIPs(i) = {} /\ UNCHANGED inst /\ Goto(i, "new")
    /\ webSeen' = [webSeen EXCEPT ![i] = {}]
    /\ UNCHANGED <<store, file, worker, sync, vm, dns, web, webAsk, imported>>

\* On an error of Put the entry stays in the map and runProvision never runs.
PutInstance(i) ==
    /\ pc[i] = "allocated"
    /\ store' = store \cup {i}
    /\ \/ file' = Snapshot(store', inst) /\ Goto(i, "queued")
       \/ "save" \in Failures /\ UNCHANGED file /\ Goto(i, "done")
    /\ UNCHANGED <<inst, worker, sync, vm, dns, range>>

-----------------------------------------------------------------------------
(* runProvision, on its own goroutine. *)

\* No template disk configured for the engine.
TemplateMissing(i) ==
    /\ pc[i] = "queued"
    /\ "template" \in Failures
    /\ Fail(i)
    /\ UNCHANGED vm

MarkProvisioning(i) ==
    /\ pc[i] = "queued"
    /\ Mark(i, "provisioning")
    /\ Goto(i, "creating")
    /\ UNCHANGED <<worker, sync, vm, dns, range>>

\* createvm --register, the first of the five commands of CreateDBInstance.
CreateVM(i) ==
    /\ pc[i] = "creating"
    /\ \/ /\ vm' = [vm EXCEPT ![i] = [NoMachine EXCEPT !.power = "poweroff"]]
          /\ Goto(i, "configuring")
          /\ UNCHANGED <<records, worker, sync, dns, range>>
       \/ "create" \in Failures /\ Fail(i) /\ UNCHANGED vm

\* The other four; what was made stays when one fails.
ConfigureVM(i) ==
    /\ pc[i] = "configuring"
    /\ \/ /\ Exists(i)
          /\ vm' = [vm EXCEPT ![i].disk = TRUE]
          /\ Goto(i, "injecting")
          /\ UNCHANGED <<records, worker, sync, dns, range>>
       \/ (~Exists(i) \/ "create" \in Failures) /\ Fail(i) /\ UNCHANGED vm

\* Guest properties, their errors only logged, then the next mark.
InjectProperties(i) ==
    /\ pc[i] = "injecting"
    /\ \/ Exists(i) /\ vm' = [vm EXCEPT ![i].ip = inst[i].ip]
       \/ (~Exists(i) \/ "props" \in Failures) /\ UNCHANGED vm
    /\ Mark(i, "provisioning")
    /\ Goto(i, "starting")
    /\ UNCHANGED <<worker, sync, dns, range>>

\* startvm: done, failed, or given up after 30 seconds with the machine on its way.
StartVM(i) ==
    /\ pc[i] = "starting"
    /\ \/ /\ vm[i].power \in {"poweroff", "aborted"}
          /\ vm' = [vm EXCEPT ![i].power = "running"]
          /\ Goto(i, "booting")
          /\ UNCHANGED <<records, worker, sync, dns, range>>
       \/ /\ vm[i].power \notin {"poweroff", "aborted"} \/ "start" \in Failures
          /\ Fail(i) /\ UNCHANGED vm
       \/ /\ vm[i].power \in {"poweroff", "aborted"} /\ "slow" \in Failures
          /\ Fail(i) /\ vm' = [vm EXCEPT ![i].power = "starting"]

\* Slip: no deadline.
WaitForVMRunningForever(i) ==
    /\ pc[i] = "booting"
    /\ vm[i].power = "running"
    /\ Mark(i, "deploying")
    /\ Goto(i, "waiting")
    /\ UNCHANGED <<worker, sync, dns, range, vm>>

\* WaitForVMRunning sees the machine run, or two minutes pass in which it did
\* not run or could not be inspected.
WaitForVMRunning(i) ==
    /\ pc[i] = "booting"
    /\ \/ /\ vm[i].power = "running"
          /\ Mark(i, "deploying")
          /\ Goto(i, "waiting")
          /\ UNCHANGED <<worker, sync, dns, range>>
       \/ (vm[i].power # "running" \/ "inspect" \in Failures) /\ Fail(i)
    /\ UNCHANGED vm

\* WaitForSSH: whoever answers at the address, or eight minutes pass.
WaitForSSH(i) ==
    /\ pc[i] = "waiting"
    /\ \/ /\ Answering(inst[i].ip) # {}
          /\ Mark(i, "deploying")
          /\ Goto(i, "settingup")
          /\ UNCHANGED <<worker, sync, dns, range>>
       \/ (Answering(inst[i].ip) = {} \/ "ssh" \in Failures) /\ Fail(i)
    /\ UNCHANGED vm

\* setupDatabase on the machine that answers; a command fails with the
\* connection or in the machine, and ends the provision.
SetupDatabase(i) ==
    /\ pc[i] = "settingup"
    /\ \/ \E j \in Answering(inst[i].ip) :
            /\ vm' = [vm EXCEPT ![j].dbs = @ \cup {i}]
            /\ Goto(i, "loading")
            /\ UNCHANGED <<records, worker, sync, dns, range>>
       \/ /\ Answering(inst[i].ip) = {} \/ "ssh" \in Failures
          /\ Fail(i) /\ UNCHANGED vm

\* With an SQL file one more mark comes first; whether it loads is only logged.
RunSQLFile(i) ==
    /\ pc[i] = "loading"
    /\ Mark(i, "deploying")
    /\ Goto(i, "loaded")
    /\ UNCHANGED <<worker, sync, vm, dns, range>>

MarkRegistering(i) ==
    /\ pc[i] \in {"loading", "loaded"}
    /\ Mark(i, "deploying")
    /\ Goto(i, "registering")
    /\ UNCHANGED <<worker, sync, vm, dns, range>>

\* Slip: the reverse record is written only where there is none.
AddRecordOnce(i) ==
    /\ dnsA' = [dnsA EXCEPT ![i] = inst[i].ip]
    /\ dnsPtr' = [dnsPtr EXCEPT ![inst[i].ip] = IF @ = None THEN i ELSE @]

\* The A record, then the PTR record on a best-effort basis.
AddRecord(i) ==
    \/ /\ dnsA' = [dnsA EXCEPT ![i] = inst[i].ip]
       /\ \/ dnsPtr' = [dnsPtr EXCEPT ![inst[i].ip] = i]
          \/ "dns" \in Failures /\ UNCHANGED dnsPtr
    \/ "dns" \in Failures /\ UNCHANGED dns

\* VBoxState is assigned whatever DNS said, and not saved.
RegisterDNS(i) ==
    /\ pc[i] = "registering"
    /\ AddRecord(i)
    /\ inst' = [inst EXCEPT ![i].vbox = "running"]
    /\ Goto(i, "registered")
    /\ UNCHANGED <<store, file, worker, sync, vm, range>>

\* The last mark.
MarkRunning(i) ==
    /\ pc[i] = "registered"
    /\ Mark(i, "running")
    /\ Goto(i, "done")
    /\ UNCHANGED <<worker, sync, vm, dns, range>>

\* The rest of fail, after which runProvision returns.
FailColumn(i) ==
    /\ pc[i] = "failing"
    /\ inst' = [inst EXCEPT ![i].vbox = "aborted"]
    /\ store' = store
    /\ Save
    /\ Goto(i, "done")
    /\ UNCHANGED <<worker, sync, vm, dns, range>>

RunProvision(i) ==
    \/ TemplateMissing(i) \/ MarkProvisioning(i)
    \/ CreateVM(i) \/ ConfigureVM(i) \/ InjectProperties(i)
    \/ StartVM(i) \/ WaitForVMRunning(i) \/ WaitForSSH(i)
    \/ SetupDatabase(i) \/ RunSQLFile(i) \/ MarkRegistering(i) \/ RegisterDNS(i)
    \/ MarkRunning(i) \/ FailColumn(i)

-----------------------------------------------------------------------------
(* Delete, each on a worker. *)

Continue(w, step) == worker' = [worker EXCEPT ![w].pc = step]

\* Get finds the instance; with OverlappingOps FALSE users wait for the work
\* on an instance to end before they delete it.
RequestDelete(w, i) ==
    /\ worker[w] = IdleWorker
    /\ i \in store
    /\ OverlappingOps \/ (pc[i] = "done" /\ ~Busy(i))
    /\ worker' = [worker EXCEPT ![w] = [id |-> i, pc |-> "look"]]
    /\ Mark(i, "deleting")
    /\ UNCHANGED <<pc, sync, vm, dns, range>>

\* Slip: the machine is not turned off first.
DeleteLookPast(w) ==
    /\ worker[w].pc = "look"
    /\ Continue(w, "unregister")
    /\ UNCHANGED <<records, pc, sync, vm, dns, range>>

\* VMState: only a machine that runs is turned off.
DeleteLook(w) ==
    /\ worker[w].pc = "look"
    /\ \/ vm[worker[w].id].power = "running" /\ Continue(w, "halt")
       \/ /\ vm[worker[w].id].power # "running" \/ "inspect" \in Failures
          /\ Continue(w, "unregister")
    /\ UNCHANGED <<records, pc, sync, vm, dns, range>>

\* The power button, five seconds, and PowerOffVM unless the machine is off by
\* then; the errors of both are dropped.
DeleteHalt(w) ==
    LET i == worker[w].id
    IN  /\ worker[w].pc = "halt"
        /\ \/ /\ vm[i].power \in {"running", "paused"}
              /\ vm' = [vm EXCEPT ![i].power = "poweroff"]
           \/ /\ vm[i].power \notin {"running", "paused"} \/ "poweroff" \in Failures
              /\ UNCHANGED vm
        /\ Continue(w, "unregister")
        /\ UNCHANGED <<records, pc, sync, dns, range>>

\* Slip: an error of UnregisterVM ends the deletion.
DeleteUnregisterOrQuit(w) ==
    LET i == worker[w].id
    IN  /\ worker[w].pc = "unregister"
        /\ IF vm[i].power \in {"poweroff", "aborted"}
           THEN vm' = [vm EXCEPT ![i] = NoMachine] /\ Continue(w, "undns")
           ELSE UNCHANGED vm /\ worker' = [worker EXCEPT ![w] = IdleWorker]
        /\ UNCHANGED <<records, pc, sync, dns, range>>

\* unregistervm --delete: VirtualBox refuses a machine that is not off.
DeleteUnregister(w) ==
    LET i == worker[w].id
    IN  /\ worker[w].pc = "unregister"
        /\ \/ /\ vm[i].power \in {"poweroff", "aborted"}
              /\ vm' = [vm EXCEPT ![i] = NoMachine]
           \/ /\ vm[i].power \notin {"poweroff", "aborted"} \/ "unregister" \in Failures
              /\ UNCHANGED vm
        /\ Continue(w, "undns")
        /\ UNCHANGED <<records, pc, sync, dns, range>>

\* RemoveRecord knows the name and not the address: the A record goes.
DeleteRecord(w) ==
    /\ worker[w].pc = "undns"
    /\ \/ dnsA' = [dnsA EXCEPT ![worker[w].id] = NoIP]
       \/ "dns" \in Failures /\ UNCHANGED dnsA
    /\ Continue(w, "erase")
    /\ UNCHANGED <<records, pc, sync, vm, dnsPtr, range>>

\* DBInstanceStore.Delete; its error reaches the log only.
EraseInstance(w) ==
    /\ worker[w].pc = "erase"
    /\ store' = store \ {worker[w].id}
    /\ inst' = inst
    /\ Save \/ ("save" \in Failures /\ UNCHANGED file)
    /\ worker' = [worker EXCEPT ![w] = IdleWorker]
    /\ UNCHANGED <<pc, sync, vm, dns, range>>

WorkerStep(w) ==
    \/ DeleteLook(w) \/ DeleteHalt(w) \/ DeleteUnregister(w)
    \/ DeleteRecord(w) \/ EraseInstance(w)

-----------------------------------------------------------------------------
(* SyncVBoxState, on the ticker's goroutine: one instance after another is   *)
(* looked at, and what VBoxManage said of its machine is applied later.      *)

\* Pending and deleting instances are left alone, and so is one whose machine
\* cannot be inspected (it stays as it is: no step).
SyncLook(i) ==
    /\ sync = IdleSync
    /\ i \in store
    /\ inst[i].state \notin {"deleting", "pending"}
    /\ Exists(i)
    /\ sync' = [id |-> i, seen |-> vm[i].power, pc |-> "seen"]
    /\ UNCHANGED <<records, pc, worker, vm, dns, range>>

\* An instance that shows VBoxState as it was seen is left as it is.
SyncCompare(i) ==
    /\ sync.id = i /\ sync.pc = "seen"
    /\ sync' = IF inst[i].vbox = sync.seen THEN IdleSync ELSE [sync EXCEPT !.pc = "differs"]
    /\ UNCHANGED <<records, pc, worker, vm, dns, range>>

SyncColumn(i) ==
    /\ sync.id = i /\ sync.pc = "differs"
    /\ inst' = [inst EXCEPT ![i].vbox = sync.seen]
    /\ sync' = [sync EXCEPT !.pc = "shown"]
    /\ UNCHANGED <<store, file, pc, worker, vm, dns, range>>

\* Slip: the logical state is left to the orchestrator.
SyncStateNot(i) ==
    /\ sync.id = i /\ sync.pc = "shown"
    /\ inst' = inst /\ store' = store
    /\ Save
    /\ sync' = IdleSync
    /\ UNCHANGED <<pc, worker, vm, dns, range>>

\* The logical state follows, whatever it is by now, and both are saved.
SyncState(i) ==
    /\ sync.id = i /\ sync.pc = "shown"
    /\ Mark(i, MapVBoxState(sync.seen))
    /\ sync' = IdleSync
    /\ UNCHANGED <<pc, worker, vm, dns, range>>

SyncStep(i) == SyncCompare(i) \/ SyncColumn(i) \/ SyncState(i)

-----------------------------------------------------------------------------
(* Around the databases. *)

\* Machines halt, crash, are paused or booted; one on its way comes up.
MachineEvent(i) ==
    /\ \/ /\ vm[i].power = "running" /\ "halt" \in MachineEvents
          /\ vm' = [vm EXCEPT ![i].power = "poweroff"]
       \/ /\ vm[i].power = "running" /\ "abort" \in MachineEvents
          /\ vm' = [vm EXCEPT ![i].power = "aborted"]
       \/ /\ vm[i].power = "running" /\ "pause" \in MachineEvents
          /\ vm' = [vm EXCEPT ![i].power = "paused"]
       \/ /\ vm[i].power \in {"poweroff", "aborted", "paused"} /\ vm[i].disk
          /\ "boot" \in MachineEvents
          /\ vm' = [vm EXCEPT ![i].power = "running"]
       \/ /\ vm[i].power = "starting"
          /\ vm' = [vm EXCEPT ![i].power = "running"]
    /\ UNCHANGED <<records, pc, worker, sync, dns, range>>

\* SyncInventory as far as this machine goes: its entry in the web store shows
\* the address of its guest properties, none if they cannot be read, and goes
\* with the machine.
ImportMachine(i) ==
    /\ \/ imported' = [imported EXCEPT ![i] = vm[i].ip]
       \/ Exists(i) /\ "inspect" \in Failures /\ imported' = [imported EXCEPT ![i] = NoIP]
    /\ imported' # imported
    /\ UNCHANGED <<records, pc, worker, sync, vm, dns, web, webAsk, webSeen>>

\* InstanceStore.AllocateIP for a web instance: the inventory is part of its
\* store, the database store is not.
WebAllocate ==
    /\ WebRequests
    /\ webAsk = NoIP
    /\ \E ip \in Pool \ WebUsedIPs :
         /\ \A other \in Pool \ WebUsedIPs : ip =< other
         /\ webAsk' = ip
    /\ UNCHANGED <<records, pc, worker, sync, vm, dns, web, webSeen, imported>>

WebPut ==
    /\ webAsk \in Pool \ web
    /\ web' = web \cup {webAsk}
    /\ UNCHANGED <<records, pc, worker, sync, vm, dns, webAsk, webSeen, imported>>

\* The end of its runProvision: the PTR record of its address names it, or DNS
\* gets another address (of the Apache machine, which it then has for its own,
\* or of the dispatcher) or none at all.
WebRegister ==
    /\ webAsk \in web
    /\ \/ dnsPtr' = [dnsPtr EXCEPT ![webAsk] = Web] /\ UNCHANGED web
       \/ UNCHANGED dnsPtr /\ web' \in {web, web \ {webAsk}}
    /\ webAsk' = NoIP
    /\ UNCHANGED <<records, pc, worker, sync, vm, dnsA, webSeen, imported>>

WebDelete ==
    /\ WebRequests
    /\ \E ip \in web \ {webAsk} : web' = web \ {ip}
    /\ UNCHANGED <<records, pc, worker, sync, vm, dns, webAsk, webSeen, imported>>

\* The process ends at any step and starts with what the file holds; nothing
\* resumes a provision or a deletion.  Machines and records stay.
Crash ==
    /\ Crashes
    /\ store' = file.ids
    /\ inst' = file.inst
    /\ pc' = [i \in Ids |-> IF pc[i] \in {"new"} \cup HandlerPhases THEN "new" ELSE "done"]
    /\ worker' = [w \in Workers |-> IdleWorker]
    /\ sync' = IdleSync
    /\ webAsk' = NoIP
    /\ webSeen' = [i \in Ids |-> {}]
    /\ UNCHANGED <<file, vm, dns, web, imported>>

-----------------------------------------------------------------------------
Next ==
    \/ \E i \in Ids : \/ ReadWebIPs(i) \/ AllocateIP(i) \/ PutInstance(i) \/ RunProvision(i)
                      \/ SyncLook(i) \/ SyncStep(i)
                      \/ MachineEvent(i) \/ ImportMachine(i)
    \/ \E w \in Workers : WorkerStep(w) \/ \E i \in Ids : RequestDelete(w, i)
    \/ WebAllocate \/ WebPut \/ WebRegister \/ WebDelete
    \/ Crash

Spec == Init /\ [][Next]_vars

\* Goroutines are scheduled and the ticker looks at every instance again; what
\* users and machines do is not owed, except that a machine on its way comes up.
Fairness ==
    /\ \A i \in Ids : /\ WF_vars(AllocateIP(i)) /\ WF_vars(PutInstance(i))
                      /\ WF_vars(RunProvision(i))
                      /\ SF_vars(SyncLook(i)) /\ WF_vars(SyncStep(i))
                      /\ WF_vars(vm[i].power = "starting" /\ MachineEvent(i))
    /\ \A w \in Workers : WF_vars(WorkerStep(w))

FairSpec == Spec /\ Fairness

-----------------------------------------------------------------------------
(* Properties. *)

\* Every variable holds a value of its kind (models.DBInstance, the store, and
\* what VirtualBox and Bind9 keep).
TypeOK ==
    /\ inst \in [Ids -> DBInstance]
    /\ store \subseteq Ids
    /\ file \in [ids : SUBSET Ids, inst : [Ids -> DBInstance]]
    /\ pc \in [Ids -> Phases]
    /\ worker \in [Workers -> Worker]
    /\ sync \in Sync
    /\ vm \in [Ids -> Machine]
    /\ dnsA \in [Ids -> Pool \cup {NoIP}]
    /\ dnsPtr \in [Pool -> Ids \cup {None, Web}]
    /\ web \subseteq Pool
    /\ webAsk \in Pool \cup {NoIP}
    /\ webSeen \in [Ids -> SUBSET Pool]
    /\ imported \in [Ids -> Pool \cup {NoIP}]

\* Nothing outlives its instance: neither the machine nor the A record (Delete:
\* "apaga y elimina la VM ... También borra el registro DNS").
NothingLeft ==
    \A i \in Ids \ store : ~Exists(i) /\ dnsA[i] = NoIP

\* No two stored databases share an address, in memory or in the file.
UniqueAddressesIn(ids, objects) ==
    \A i, j \in ids : objects[i].ip = objects[j].ip => i = j

UniqueAddresses == UniqueAddressesIn(store, inst) /\ UniqueAddressesIn(file.ids, file.inst)

\* No two machines were given one address, whether their databases are still
\* stored or not (Provision: the address comes from a pool that excludes those of
\* the databases there are; Delete removes the machine before the instance).
MachineHasOwnAddress ==
    \A i, j \in Ids : vm[i].ip # NoIP /\ vm[i].ip = vm[j].ip => i = j

\* An address is leased as long as the database is stored, and a restart finds
\* what the last save that did not fail wrote (AllocateIP, Put, Delete).
AddressesIn(ids, objects) == [i \in Ids |-> IF i \in ids THEN objects[i].ip ELSE NoIP]

AddressLeases == INSTANCE Leases WITH
    Holders <- Ids, Resources <- Pool, Nothing <- NoIP,
    Lossy <- "save" \in Failures, Restarts <- Crashes,
    held <- AddressesIn(store, inst), saved <- AddressesIn(file.ids, file.inst)

AddressesAreLeased == AddressLeases!Spec

\* A database is set up on its own machine and on no other: the commands go to
\* an address, and it is the machine's.
DatabaseAtHome == \A i, j \in Ids : i \in vm[j].dbs => i = j

\* The address a database's name leads to leads back to that name, or to a web
\* instance that was given the same address, and never to another database, a
\* deleted one whose reverse record was left included.
ReverseMatchesForward ==
    \A i \in Ids : dnsA[i] # NoIP => dnsPtr[dnsA[i]] \in {i, Web}

\* A provision that was accepted ends.
ProvisionEnds == \A i \in Ids : pc[i] \in GoroutinePhases ~> pc[i] = "done"

\* So does a deletion, whatever VirtualBox and DNS answer.
DeleteEnds == \A i \in Ids : (i \in store /\ inst[i].state = "deleting") ~> i \notin store

\* The dashboard converges: once the provision has ended and the instance shows
\* another state of the machine than the one it stays in, it will show that one
\* from some moment on.  (While the provision lasts, its assignments and those of
\* the synchronisation can leave a State that belongs to an earlier VBoxState;
\* it stays until the machine changes its state again.)
ChangesAreShown ==
    \A i \in Ids, p \in Power :
        <>(pc[i] = "done" /\ inst[i].vbox # p) /\ <>[](vm[i].power = p /\ i \in store)
            => <>[](inst[i].state = MapVBoxState(p))

\* Once a provision has ended, its instance is running only if the database was
\* set up (runProvision: "Si cualquier paso falla, marca la instancia como
\* StateFailed").
RunningIsSetUp ==
    \A i \in store : pc[i] = "done" /\ inst[i].state = "running" => i \in vm[i].dbs

=============================================================================
