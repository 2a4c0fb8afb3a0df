---------------------------- MODULE WebInstances ----------------------------
(***************************************************************************)
(* The managed web instances of HTTPaaS: the orchestrator's goroutines,    *)
(* the instance store with its JSON file, the per-host static servers,     *)
(* and, as external services, the DNS zone and the Apache template VM.     *)
(*                                                                         *)
(* An HTTP request to provision runs on a handler goroutine and leaves a   *)
(* background goroutine behind (runProvision); every start, stop, restart  *)
(* or delete request runs on a goroutine of its own, a worker here.  None  *)
(* of them holds a lock across steps: a step below is what the code does   *)
(* between two points where another goroutine may run.                     *)
(*                                                                         *)
(* Addresses and ports are numbers; 0 stands for the empty address, the    *)
(* port not yet assigned and the record that does not exist.               *)
(***************************************************************************)
EXTENDS Integers, FiniteSets

CONSTANTS
    Ids,            \* instance UUIDs, each drawn at most once
    Hostnames,      \* valid short names (isValidHostname)
    Workers,        \* goroutines started by the operation handlers
    None,           \* no owner, no name
    Pool,           \* addresses IP_RANGE_START..IP_RANGE_END
    Gateway,        \* the host's own address
    TemplateIP,     \* the Apache template VM, 0 when none is configured
    Ports,          \* portFrom..portTo of the site server
    ForeignPorts,   \* ports some other process of the host listens on
    VHostBinds,     \* outcomes of binding <gateway>:80 when the service starts
    Ops,            \* operations users ask for
    Failures,       \* what may fail: "deploy", "apache", "dns", "save"
    Crashes,        \* the service may be killed and started again
    OverlappingProvisions, \* two provision handlers may run at once
    OverlappingOps  \* an operation may start on an instance under work

NoIP == 0
NoPort == 0

ASSUME NoneAssumption == None \notin Ids \cup Hostnames
ASSUME PoolAssumption == Pool \subseteq Nat \ {NoIP, Gateway, TemplateIP}
ASSUME AddressAssumption ==
    Gateway \in Nat \ {NoIP} /\ TemplateIP \in Nat \ {Gateway}
ASSUME PortsAssumption == Ports \subseteq Nat \ {NoPort}
ASSUME SwitchesAssumption ==
    /\ VHostBinds \subseteq BOOLEAN
    /\ Crashes \in BOOLEAN
    /\ OverlappingProvisions \in BOOLEAN
    /\ OverlappingOps \in BOOLEAN
    /\ Ops \subseteq {"start", "stop", "restart", "delete"}

VARIABLES
    inst,       \* the Instance objects, alive as long as a goroutine has them
    store,      \* ids in InstanceStore.Instances
    file,       \* what instances.json holds
    pc,         \* where the provision handler and runProvision of an id are
    worker,     \* what each operation goroutine is doing
    sites,      \* SiteServer.sites
    detached,   \* ports of servers that listen but are no longer in sites
    dir,        \* the instance whose content sits in <rootDir>/<hostname>
    vhostBound, \* the dispatcher listens on <gateway>:80
    dnsA,       \* A records
    dnsPtr,     \* PTR records
    www,        \* the instance whose content sits in /var/www/<hostname>
    toRestore   \* ids RestoreSites still has to visit after a start

vars == <<inst, store, file, pc, worker, sites, detached, dir, vhostBound,
          dnsA, dnsPtr, www, toRestore>>

-----------------------------------------------------------------------------
(* Data. *)

State == {"none", "pending", "provisioning", "deploying", "running",
          "failed", "stopped", "deleting"}

VBoxState == {"none", "starting", "running", "poweroff", "aborted"}

InstanceIPs == Pool \cup {NoIP, TemplateIP}
Addresses   == Pool \cup {Gateway, TemplateIP}

Instance == [hostname : Hostnames \cup {None},
             ip       : InstanceIPs,
             state    : State,
             vbox     : VBoxState,
             port     : Ports \cup {NoPort},
             url      : {"none", "fqdn", "local"}]

NoInstance == [hostname |-> None, ip |-> NoIP, state |-> "none",
               vbox |-> "none", port |-> NoPort, url |-> "none"]

Site   == [port : Ports \cup {NoPort}, live : BOOLEAN]
NoSite == [port |-> NoPort, live |-> FALSE]

WorkerPhases == {"idle", "unmap", "shutdown", "rmdir", "settle", "halted",
                 "start", "restore", "online", "up", "broken", "down",
                 "undns", "unwww", "erase"}

Worker == [op   : {"none", "start", "stop", "restart", "delete"},
           id   : Ids \cup {None},
           pc   : WorkerPhases,
           port : Ports \cup {NoPort}]

IdleWorker == [op |-> "none", id |-> None, pc |-> "idle", port |-> NoPort]

HandlerPhases == {"checked", "allocated"}
GoroutinePhases == {"queued", "announced", "networked", "deploying",
                    "failing", "deployed", "copying", "registering",
                    "registered"}
Phases == {"new", "done"} \cup HandlerPhases \cup GoroutinePhases

Snapshot(ids, objects) ==
    [ids  |-> ids,
     inst |-> [i \in Ids |-> IF i \in ids THEN objects[i] ELSE NoInstance]]

\* InstanceStore.save after a change of the map or of an object in it.  Its
\* error is dropped by every caller but Put and the last line of an operation.
Save == \/ file' = Snapshot(store', inst')
        \/ "save" \in Failures /\ UNCHANGED file

Host(i) == inst[i].hostname
Busy(i) == \E w \in Workers : worker[w].id = i
Booting == toRestore # {}

-----------------------------------------------------------------------------
(* What the code looks up before it acts. *)

\* Get compares the key; the two scans below look at every stored instance.
HostnameTaken(h) == \E i \in store : inst[i].hostname = h

\* Slip: only what runs counts as used.
UsedIPsOfRunning == {inst[i].ip : i \in {j \in store : inst[j].state = "running"}}

UsedIPs == {inst[i].ip : i \in store} \ {NoIP}

\* Slip: the scan runs one past the end of the range.
FreeIPsPastEnd == (Pool \cup {ip + 1 : ip \in Pool}) \ UsedIPs

FreeIPs == Pool \ UsedIPs

\* Sockets that make net.Listen fail, given the site table.
Listening(table) == {table[h].port : h \in {g \in Hostnames : table[g].live}}
                    \cup detached \cup ForeignPorts

\* Slip: the probe is left out.
FreePortsUnprobed(table) == Ports \ {table[h].port : h \in Hostnames}

\* allocPortLocked: not in the table, and a probe could listen on it.
FreePorts(table) == Ports \ ({table[h].port : h \in Hostnames} \cup Listening(table))

HasSite(h) == sites[h] # NoSite

\* Slip: the dispatcher's case is missing from the switch.
DnsTargetLogical(i) == IF inst[i].ip = TemplateIP THEN TemplateIP ELSE inst[i].ip

\* The address runProvision registers.
DnsTarget(i) == IF inst[i].ip = TemplateIP THEN TemplateIP
                ELSE IF vhostBound THEN Gateway
                ELSE inst[i].ip

-----------------------------------------------------------------------------
Init ==
    /\ inst = [i \in Ids |-> NoInstance]
    /\ store = {}
    /\ file = Snapshot({}, [i \in Ids |-> NoInstance])
    /\ pc = [i \in Ids |-> "new"]
    /\ worker = [w \in Workers |-> IdleWorker]
    /\ sites = [h \in Hostnames |-> NoSite]
    /\ detached = {}
    /\ dir = [h \in Hostnames |-> None]
    /\ vhostBound \in VHostBinds
    /\ dnsA = [h \in Hostnames |-> NoIP]
    /\ dnsPtr = [a \in Addresses |-> None]
    /\ www = [h \in Hostnames |-> None]
    /\ toRestore = {}

served   == <<sites, detached, dir, vhostBound>>
external == <<dnsA, dnsPtr, www>>

Goto(i, phase) == pc' = [pc EXCEPT ![i] = phase]

\* Slip: Put where Save is meant.
MarkByPut(i, state) ==
    /\ inst' = [inst EXCEPT ![i].state = state]
    /\ store' = store \cup {i}
    /\ Save

\* The closure mark of runProvision: set the state, log, save.
Mark(i, state) ==
    /\ inst' = [inst EXCEPT ![i].state = state]
    /\ store' = store
    /\ Save

-----------------------------------------------------------------------------
(* Provision, on the handler's goroutine. *)

\* Slip: the name is not looked up.
CheckHostnameBlindly(i, h) ==
    /\ pc[i] = "new"
    /\ ~Booting
    /\ inst' = [inst EXCEPT ![i].hostname = h]
    /\ Goto(i, "checked")
    /\ UNCHANGED <<store, file, worker, served, external, toRestore>>

\* The check reads the store; nothing reserves the name.
CheckHostname(i, h) ==
    /\ pc[i] = "new"
    /\ ~Booting
    /\ OverlappingProvisions \/ \A j \in Ids : pc[j] \notin HandlerPhases
    /\ ~HostnameTaken(h)
    /\ inst' = [inst EXCEPT ![i].hostname = h]
    /\ Goto(i, "checked")
    /\ UNCHANGED <<store, file, worker, served, external, toRestore>>

\* The first free address; the read lock is released before the scan, and
\* nothing reserves the address either.
AllocateIP(i) ==
    /\ pc[i] = "checked"
    /\ \/ \E ip \in FreeIPs :
            /\ \A other \in FreeIPs : ip =< other
            /\ inst' = [inst EXCEPT ![i] = [@ EXCEPT !.ip = ip, !.state = "pending",
                                                     !.vbox = "starting", !.url = "fqdn"]]
            /\ Goto(i, "allocated")
       \/ /\ FreeIPs = {}
          /\ inst' = [inst EXCEPT ![i] = NoInstance]
          /\ Goto(i, "new")
    /\ UNCHANGED <<store, file, worker, served, external, toRestore>>

\* On an error of Put the entry stays in the map, and runProvision never runs.
PutInstance(i) ==
    /\ pc[i] = "allocated"
    /\ store' = store \cup {i}
    /\ \/ file' = Snapshot(store', inst) /\ Goto(i, "queued")
       \/ "save" \in Failures /\ UNCHANGED file /\ Goto(i, "done")
    /\ UNCHANGED <<inst, worker, served, external, toRestore>>

-----------------------------------------------------------------------------
(* runProvision, on its own goroutine. *)

MarkProvisioning(i) ==
    /\ \/ pc[i] = "queued" /\ Goto(i, "announced")
       \/ pc[i] = "announced" /\ Goto(i, "networked")
    /\ Mark(i, "provisioning")
    /\ UNCHANGED <<worker, served, external, toRestore>>

MarkDeploying(i) ==
    /\ pc[i] = "networked"
    /\ Goto(i, "deploying")
    /\ Mark(i, "deploying")
    /\ UNCHANGED <<worker, served, external, toRestore>>

\* SiteServer.Deploy under its lock: the old server is closed, the content
\* replaced, the first free port taken.  Port and URL are not saved yet.
Deploy(i) ==
    LET closed == [sites EXCEPT ![Host(i)] = NoSite]
    IN  /\ pc[i] = "deploying"
        /\ \E p \in FreePorts(closed) :
             /\ \A other \in FreePorts(closed) : p =< other
             /\ sites' = [sites EXCEPT ![Host(i)] = [port |-> p, live |-> p \notin Listening(closed)]]
             /\ inst' = [inst EXCEPT ![i] = [@ EXCEPT !.port = p, !.url = "local"]]
        /\ dir' = [dir EXCEPT ![Host(i)] = i]
        /\ Goto(i, "deployed")
        /\ UNCHANGED <<store, file, worker, detached, vhostBound, external, toRestore>>

\* Slip: fail forgets the state.
DeployFailsSilently(i) ==
    /\ pc[i] = "deploying"
    /\ "deploy" \in Failures
    /\ sites' = [sites EXCEPT ![Host(i)] = NoSite]
    /\ Goto(i, "failing")
    /\ UNCHANGED <<inst, store, file, worker, detached, dir, vhostBound, external, toRestore>>

\* A directory that cannot be cleared or made, a bad archive, or no port left:
\* fail sets the state, not saved yet, ...
DeployFails(i) ==
    LET closed == [sites EXCEPT ![Host(i)] = NoSite]
    IN  /\ pc[i] = "deploying"
        /\ \/ FreePorts(closed) = {} /\ dir' = [dir EXCEPT ![Host(i)] = i]
           \/ /\ "deploy" \in Failures
              /\ \E left \in {i, None, dir[Host(i)]} : dir' = [dir EXCEPT ![Host(i)] = left]
        /\ sites' = closed
        /\ inst' = [inst EXCEPT ![i].state = "failed"]
        /\ Goto(i, "failing")
        /\ UNCHANGED <<store, file, worker, detached, vhostBound, external, toRestore>>

\* ... then VirtualBox's column, and saves both.  Another goroutine may write
\* the same object, or save it, between the two.
FailColumn(i) ==
    /\ pc[i] = "failing"
    /\ inst' = [inst EXCEPT ![i].vbox = "aborted"]
    /\ store' = store
    /\ Save
    /\ Goto(i, "done")
    /\ UNCHANGED <<worker, served, external, toRestore>>

\* Slip: the copy waits for the local site to be up.
MarkCopyingOnceServed(i) ==
    /\ pc[i] = "deployed"
    /\ TemplateIP # NoIP
    /\ HasSite(Host(i))
    /\ Goto(i, "copying")
    /\ Mark(i, "deploying")
    /\ UNCHANGED <<worker, served, external, toRestore>>

\* With a template VM configured, scp and the remote script come first.
MarkCopying(i) ==
    /\ pc[i] = "deployed"
    /\ TemplateIP # NoIP
    /\ Goto(i, "copying")
    /\ Mark(i, "deploying")
    /\ UNCHANGED <<worker, served, external, toRestore>>

\* Apache serves the site: the template's address replaces the pool's.
UseApache(i) ==
    /\ pc[i] = "copying"
    /\ www' = [www EXCEPT ![Host(i)] = i]
    /\ inst' = [inst EXCEPT ![i] = [@ EXCEPT !.ip = TemplateIP, !.url = "fqdn",
                                             !.state = "provisioning"]]
    /\ store' = store
    /\ Save
    /\ Goto(i, "registering")
    /\ UNCHANGED <<worker, served, dnsA, dnsPtr, toRestore>>

\* No template VM, or scp or the script failed (perhaps after the unzip).
UseFallback(i) ==
    /\ \/ pc[i] = "deployed" /\ TemplateIP = NoIP /\ UNCHANGED www
       \/ /\ pc[i] = "copying" /\ "apache" \in Failures
          /\ UNCHANGED www \/ www' = [www EXCEPT ![Host(i)] = i]
    /\ inst' = [inst EXCEPT ![i] = [@ EXCEPT !.state = "provisioning",
                                             !.url = IF vhostBound THEN "fqdn"
                                                             ELSE inst[i].url]]
    /\ store' = store
    /\ Save
    /\ Goto(i, "registering")
    /\ UNCHANGED <<worker, served, dnsA, dnsPtr, toRestore>>

\* The A record, then the PTR record on a best-effort basis.
AddRecord(h, ip) ==
    \/ /\ dnsA' = [dnsA EXCEPT ![h] = ip]
       /\ \/ dnsPtr' = [dnsPtr EXCEPT ![ip] = h]
          \/ "dns" \in Failures /\ UNCHANGED dnsPtr
    \/ "dns" \in Failures /\ UNCHANGED <<dnsA, dnsPtr>>

\* Whatever the outcome, VirtualBox's column is set, not saved yet, ...
RegisterDNS(i) ==
    /\ pc[i] = "registering"
    /\ AddRecord(Host(i), DnsTarget(i))
    /\ inst' = [inst EXCEPT ![i].vbox = "running"]
    /\ Goto(i, "registered")
    /\ UNCHANGED <<store, file, worker, served, www, toRestore>>

\* ... and then the state.
MarkRunning(i) ==
    /\ pc[i] = "registered"
    /\ Mark(i, "running")
    /\ Goto(i, "done")
    /\ UNCHANGED <<worker, served, external, toRestore>>

RunProvision(i) ==
    \/ MarkProvisioning(i) \/ MarkDeploying(i)
    \/ Deploy(i) \/ DeployFails(i) \/ FailColumn(i)
    \/ MarkCopying(i) \/ UseApache(i) \/ UseFallback(i)
    \/ RegisterDNS(i) \/ MarkRunning(i)

Handler(i) == AllocateIP(i) \/ PutInstance(i)

-----------------------------------------------------------------------------
(* Start, stop, restart and delete, each on a worker. *)

Working(w, op, i, step) ==
    worker' = [worker EXCEPT ![w] = [op |-> op, id |-> i, pc |-> step, port |-> NoPort]]

Finish(w) == worker' = [worker EXCEPT ![w] = IdleWorker]

Continue(w, step) == worker' = [worker EXCEPT ![w].pc = step]

\* Get finds the instance; with OverlappingOps FALSE users wait for the work
\* on an instance to end before they ask for more.
MayRequest(w, op, i) ==
    /\ op \in Ops
    /\ worker[w] = IdleWorker
    /\ ~Booting
    /\ i \in store
    /\ OverlappingOps \/ (pc[i] = "done" /\ ~Busy(i))

\* Slip: no check that the site is already up.
StartInstanceAgain(w, op, i) ==
    IF inst[i].port = NoPort
    THEN Finish(w) /\ UNCHANGED <<inst, store, file>>
    ELSE Working(w, op, i, "restore") /\ Mark(i, "provisioning")

\* Slip: no check that a port was ever assigned.
StartInstanceUnassigned(w, op, i) ==
    IF HasSite(Host(i))
    THEN Finish(w) /\ UNCHANGED <<inst, store, file>>
    ELSE Working(w, op, i, "restore") /\ Mark(i, "provisioning")

\* StartInstance up to the call of Restore; it returns at once when there is
\* no port or the site is already up.
StartInstance(w, op, i) ==
    IF inst[i].port = NoPort \/ HasSite(Host(i))
    THEN Finish(w) /\ UNCHANGED <<inst, store, file>>
    ELSE Working(w, op, i, "restore") /\ Mark(i, "provisioning")

RequestStart(w, i) ==
    /\ MayRequest(w, "start", i)
    /\ StartInstance(w, "start", i)
    /\ UNCHANGED <<pc, served, external, toRestore>>

\* Without a site only the state changes, and so does its saved copy.
RequestStop(w, i) ==
    /\ MayRequest(w, "stop", i)
    /\ Working(w, "stop", i, IF HasSite(Host(i)) THEN "unmap" ELSE "settle")
    /\ UNCHANGED <<inst, store>>
    /\ Save
    /\ UNCHANGED <<pc, served, external, toRestore>>

RequestRestart(w, i) ==
    /\ MayRequest(w, "restart", i)
    /\ Working(w, "restart", i, IF HasSite(Host(i)) THEN "unmap" ELSE "start")
    /\ UNCHANGED <<inst, store>>
    /\ Save
    /\ UNCHANGED <<pc, served, external, toRestore>>

\* Slip: Delete drops the instance first and cleans up afterwards.
RequestDeleteEarly(w, i) ==
    /\ MayRequest(w, "delete", i)
    /\ Working(w, "delete", i, "unmap")
    /\ inst' = [inst EXCEPT ![i].state = "deleting"]
    /\ store' = store \ {i}
    /\ Save
    /\ UNCHANGED <<pc, served, external, toRestore>>

\* Delete stops the site whether it exists or not.
RequestDelete(w, i) ==
    /\ MayRequest(w, "delete", i)
    /\ Working(w, "delete", i, "unmap")
    /\ Mark(i, "deleting")
    /\ UNCHANGED <<pc, served, external, toRestore>>

\* SiteServer.Stop: under the lock the entry goes, ...
StopUnmap(w) ==
    LET h == Host(worker[w].id)
    IN  /\ worker[w].pc = "unmap"
        /\ sites' = [sites EXCEPT ![h] = NoSite]
        /\ IF sites[h].live
           THEN /\ detached' = detached \cup {sites[h].port}
                /\ worker' = [worker EXCEPT ![w].pc = "shutdown", ![w].port = sites[h].port]
           ELSE UNCHANGED detached /\ Continue(w, "rmdir")
        /\ UNCHANGED <<inst, store, file, pc, dir, vhostBound, external, toRestore>>

\* ... outside it the server closes its socket and drains, ...
StopShutdown(w) ==
    /\ worker[w].pc = "shutdown"
    /\ detached' = detached \ {worker[w].port}
    /\ worker' = [worker EXCEPT ![w].pc = "rmdir", ![w].port = NoPort]
    /\ UNCHANGED <<inst, store, file, pc, sites, dir, vhostBound, external, toRestore>>

\* ... and the content is removed, whoever it belongs to by now.
StopRemoveDir(w) ==
    /\ worker[w].pc = "rmdir"
    /\ dir' = [dir EXCEPT ![Host(worker[w].id)] = None]
    /\ Continue(w, CASE worker[w].op = "stop"    -> "settle"
                     [] worker[w].op = "restart" -> "start"
                     [] OTHER                    -> "undns")
    /\ UNCHANGED <<inst, store, file, pc, sites, detached, vhostBound, external, toRestore>>

\* StopInstance ends: stopped, which is not saved yet.
SettleStopped(w) ==
    /\ worker[w].pc = "settle"
    /\ inst' = [inst EXCEPT ![worker[w].id].state = "stopped"]
    /\ Continue(w, "halted")
    /\ UNCHANGED <<store, file, pc, served, external, toRestore>>

\* Restart calls StartInstance, which looks the instance up again.
RestartStart(w) ==
    LET i == worker[w].id
    IN  /\ worker[w].pc = "start"
        /\ IF i \in store
           THEN StartInstance(w, "restart", i)
           ELSE Finish(w) /\ UNCHANGED <<inst, store, file>>
        /\ UNCHANGED <<pc, served, external, toRestore>>

\* SiteServer.Restore of host h on port p: the table entry is replaced without
\* closing a server it may hold, and the new one may fail to listen.
PutSite(h, p) ==
    /\ sites' = [sites EXCEPT ![h] = [port |-> p, live |-> p \notin Listening(sites)]]
    /\ detached' = IF sites[h].live THEN detached \cup {sites[h].port} ELSE detached

RestoreForStart(w) ==
    LET i == worker[w].id
        h == Host(i)
    IN  /\ worker[w].pc = "restore"
        /\ IF dir[h] # None
           THEN PutSite(h, inst[i].port) /\ Continue(w, "online")
           ELSE UNCHANGED <<sites, detached>> /\ Continue(w, "broken")
        /\ UNCHANGED <<inst, store, file, pc, dir, vhostBound, external, toRestore>>

\* StartInstance ends: running or failed, not saved yet.
SettleStarted(w) ==
    LET i == worker[w].id
    IN  /\ \/ /\ worker[w].pc = "online"
              /\ inst' = [inst EXCEPT ![i].state = "running"]
              /\ Continue(w, "up")
           \/ /\ worker[w].pc = "broken"
              /\ inst' = [inst EXCEPT ![i].state = "failed"]
              /\ Continue(w, "down")
        /\ UNCHANGED <<store, file, pc, served, external, toRestore>>

\* What StopInstance and StartInstance write to VirtualBox's column.
ColumnOf(phase) == CASE phase = "halted" -> "poweroff"
                     [] phase = "up"     -> "running"
                     [] phase = "down"   -> "aborted"

\* The column follows the state, and both are saved.
SettleColumn(w) ==
    /\ worker[w].pc \in {"halted", "up", "down"}
    /\ inst' = [inst EXCEPT ![worker[w].id].vbox = ColumnOf(worker[w].pc)]
    /\ store' = store
    /\ Save
    /\ Finish(w)
    /\ UNCHANGED <<pc, served, external, toRestore>>

\* Slip: a DNS error ends the deletion.
DeleteRecordOrQuit(w) ==
    /\ worker[w].pc = "undns"
    /\ \/ /\ dnsA' = [dnsA EXCEPT ![Host(worker[w].id)] = NoIP]
          /\ Continue(w, IF TemplateIP # NoIP THEN "unwww" ELSE "erase")
       \/ "dns" \in Failures /\ UNCHANGED dnsA /\ Finish(w)
    /\ UNCHANGED <<inst, store, file, pc, served, dnsPtr, www, toRestore>>

\* It deletes the A record only.
RemoveRecord(h) ==
    /\ \/ dnsA' = [dnsA EXCEPT ![h] = NoIP]
       \/ "dns" \in Failures /\ UNCHANGED dnsA
    /\ UNCHANGED dnsPtr

DeleteRecord(w) ==
    /\ worker[w].pc = "undns"
    /\ RemoveRecord(Host(worker[w].id))
    /\ Continue(w, IF TemplateIP # NoIP THEN "unwww" ELSE "erase")
    /\ UNCHANGED <<inst, store, file, pc, served, www, toRestore>>

\* rm -rf on the template VM, its outcome ignored.
DeleteRemoteDir(w) ==
    /\ worker[w].pc = "unwww"
    /\ \/ www' = [www EXCEPT ![Host(worker[w].id)] = None]
       \/ "apache" \in Failures /\ UNCHANGED www
    /\ Continue(w, "erase")
    /\ UNCHANGED <<inst, store, file, pc, served, dnsA, dnsPtr, toRestore>>

\* Slip: the deletion is not saved.
EraseInstanceUnsaved(w) ==
    /\ worker[w].pc = "erase"
    /\ store' = store \ {worker[w].id}
    /\ Finish(w)
    /\ UNCHANGED <<inst, file, pc, served, external, toRestore>>

\* InstanceStore.Delete.
EraseInstance(w) ==
    /\ worker[w].pc = "erase"
    /\ store' = store \ {worker[w].id}
    /\ inst' = inst
    /\ Save
    /\ Finish(w)
    /\ UNCHANGED <<pc, served, external, toRestore>>

WorkerStep(w) ==
    \/ StopUnmap(w) \/ StopShutdown(w) \/ StopRemoveDir(w)
    \/ SettleStopped(w) \/ RestartStart(w)
    \/ RestoreForStart(w) \/ SettleStarted(w) \/ SettleColumn(w)
    \/ DeleteRecord(w) \/ DeleteRemoteDir(w) \/ EraseInstance(w)

-----------------------------------------------------------------------------
(* The process ends, killed or on a signal (main waits for HTTP requests, not *)
(* for the goroutines above), and starts again with what the file holds.      *)

\* Slip: RestoreSites takes instances without a port, too.
CrashRestoringAll ==
    /\ Crashes
    /\ store' = file.ids
    /\ inst' = file.inst
    /\ pc' = [i \in Ids |-> IF pc[i] \in {"new"} \cup HandlerPhases THEN "new" ELSE "done"]
    /\ worker' = [w \in Workers |-> IdleWorker]
    /\ sites' = [h \in Hostnames |-> NoSite]
    /\ detached' = {}
    /\ vhostBound' \in VHostBinds
    /\ toRestore' = file.ids
    /\ UNCHANGED <<file, dir, external>>

Crash ==
    /\ Crashes
    /\ store' = file.ids
    /\ inst' = file.inst
    /\ pc' = [i \in Ids |-> IF pc[i] \in {"new"} \cup HandlerPhases THEN "new" ELSE "done"]
    /\ worker' = [w \in Workers |-> IdleWorker]
    /\ sites' = [h \in Hostnames |-> NoSite]
    /\ detached' = {}
    /\ vhostBound' \in VHostBinds
    /\ toRestore' = {i \in file.ids : file.inst[i].port # NoPort}
    /\ UNCHANGED <<file, dir, external>>

\* Slip: the restored site gets its state back, and not its column.
RestoreSiteHalf(i) ==
    LET h == Host(i)
    IN  /\ i \in toRestore
        /\ toRestore' = toRestore \ {i}
        /\ IF dir[h] # None
           THEN PutSite(h, inst[i].port) /\ inst' = [inst EXCEPT ![i].state = "running"]
           ELSE /\ UNCHANGED <<sites, detached>>
                /\ inst' = [inst EXCEPT ![i].state = "stopped"]
        /\ store' = store
        /\ Save
        /\ UNCHANGED <<pc, worker, dir, vhostBound, external>>

\* One turn of RestoreSites, before the HTTP server accepts requests and any
\* other goroutine runs: its two writes and the save are one step.
RestoreSite(i) ==
    LET h == Host(i)
    IN  /\ i \in toRestore
        /\ toRestore' = toRestore \ {i}
        /\ IF dir[h] # None
           THEN /\ PutSite(h, inst[i].port)
                /\ inst' = [inst EXCEPT ![i] = [@ EXCEPT !.state = "running",
                                                         !.vbox = "running"]]
           ELSE /\ UNCHANGED <<sites, detached>>
                /\ inst' = [inst EXCEPT ![i].state = "stopped"]
        /\ store' = store
        /\ Save
        /\ UNCHANGED <<pc, worker, dir, vhostBound, external>>

-----------------------------------------------------------------------------
Request ==
    \/ \E i \in Ids, h \in Hostnames : CheckHostname(i, h)
    \/ \E w \in Workers, i \in Ids :
         \/ RequestStart(w, i) \/ RequestStop(w, i)
         \/ RequestRestart(w, i) \/ RequestDelete(w, i)

Next ==
    \/ Request
    \/ \E i \in Ids : Handler(i) \/ RunProvision(i) \/ RestoreSite(i)
    \/ \E w \in Workers : WorkerStep(w)
    \/ Crash

Spec == Init /\ [][Next]_vars

\* Goroutines are scheduled; users may stop asking, and no crash is owed.
Fairness ==
    /\ \A i \in Ids : WF_vars(Handler(i)) /\ WF_vars(RunProvision(i))
                      /\ WF_vars(RestoreSite(i))
    /\ \A w \in Workers : WF_vars(WorkerStep(w))

FairSpec == Spec /\ Fairness

-----------------------------------------------------------------------------
(* Properties. *)

\* Every variable holds a value of its kind (struct types of models, Site and
\* the store; the records the DNS server and the template VM keep).
TypeOK ==
    /\ inst \in [Ids -> Instance]
    /\ store \subseteq Ids
    /\ file \in [ids : SUBSET Ids, inst : [Ids -> Instance]]
    /\ pc \in [Ids -> Phases]
    /\ worker \in [Workers -> Worker]
    /\ sites \in [Hostnames -> Site]
    /\ detached \subseteq Ports
    /\ dir \in [Hostnames -> Ids \cup {None}]
    /\ vhostBound \in BOOLEAN
    /\ dnsA \in [Hostnames -> Addresses \cup {NoIP}]
    /\ dnsPtr \in [Addresses -> Hostnames \cup {None}]
    /\ www \in [Hostnames -> Ids \cup {None}]
    /\ toRestore \subseteq Ids

\* An instance shown as running was deployed: it has a port, in memory and in
\* the file, whatever goroutines and crashes did in between.
RunningIsDeployed ==
    /\ \A i \in store : inst[i].state = "running" => inst[i].port # NoPort
    /\ \A i \in file.ids : file.inst[i].state = "running" => file.inst[i].port # NoPort

\* No two stored instances share a name (Provision refuses a taken one).
UniqueHostnamesIn(ids, objects) ==
    \A i, j \in ids : objects[i].hostname = objects[j].hostname => i = j

UniqueHostnames == UniqueHostnamesIn(store, inst) /\ UniqueHostnamesIn(file.ids, file.inst)

\* No two stored instances share an address of the pool (AllocateIP).
UniqueAddressesIn(ids, objects) ==
    \A i, j \in ids : objects[i].ip = objects[j].ip /\ objects[i].ip \in Pool => i = j

UniqueAddresses == UniqueAddressesIn(store, inst) /\ UniqueAddressesIn(file.ids, file.inst)

\* Only Put brings an instance into the store: a deleted one does not come
\* back through a goroutine that still holds it, nor through a restart.
NoResurrection ==
    [][\A i \in store' \ store : pc[i] = "allocated"]_vars

\* Nobody works on the instance.
Settled(i) == pc[i] = "done" /\ ~Busy(i) /\ ~Booting

\* Once nobody works on it, a running instance shows VirtualBox's column as
\* running too: a save by another goroutine between the two writes puts half of
\* them in the file (store.go, save), and a restart from it must mend that.
RunningShowsColumn ==
    \A i \in store : Settled(i) /\ inst[i].state = "running" => inst[i].vbox = "running"

\* The server of the instance, with its content, is the one its name leads to.
Serves(i) == /\ sites[Host(i)].live
             /\ sites[Host(i)].port = inst[i].port
             /\ dir[Host(i)] = i

\* A running instance nobody works on is served, from its content, on a port
\* no other site has (siteserver.go: one site per local port).
RunningIsServed ==
    \A i \in store : Settled(i) /\ inst[i].state = "running" =>
        /\ Serves(i)
        /\ \A h \in Hostnames \ {Host(i)} : sites[h].port # inst[i].port

\* The link the dashboard shows for it leads to its content: through localhost
\* and the port, or through the A record to Apache or to the dispatcher.
UrlReachesContent ==
    \A i \in store : Settled(i) /\ inst[i].state = "running" =>
        \/ inst[i].url = "local" /\ Serves(i)
        \/ /\ inst[i].url = "fqdn"
           /\ \/ dnsA[Host(i)] = TemplateIP /\ www[Host(i)] = i
              \/ dnsA[Host(i)] = Gateway /\ vhostBound /\ Serves(i)

\* A name no stored instance has leaves nothing behind: no server, content, A
\* record or remote directory (README: Graceful tear-down).
NothingLeft ==
    \A h \in Hostnames : ~HostnameTaken(h) =>
        sites[h] = NoSite /\ dir[h] = None /\ dnsA[h] = NoIP /\ www[h] = None

\* No server listens on once its site is out of the table and no Stop is about
\* to close it.
NoLeakedServer ==
    \A p \in detached : \E w \in Workers : worker[w].pc = "shutdown" /\ worker[w].port = p

\* A provision that was accepted ends: its instance runs, fails or is gone.
ProvisionEnds ==
    \A i \in Ids : pc[i] \in GoroutinePhases ~> pc[i] = "done"

\* So does every state the dashboard shows as under way.
StateSettles ==
    \A i \in Ids : (i \in store /\ inst[i].state \in {"pending", "provisioning", "deploying"})
                   ~> (i \notin store \/ inst[i].state \in {"running", "failed", "stopped"})

\* An instance being deleted disappears.
DeleteEnds ==
    \A i \in Ids : (i \in store /\ inst[i].state = "deleting") ~> i \notin store

-----------------------------------------------------------------------------
(* Names and addresses as leases: an instance holds its name as long as it  *)
(* is stored, and an address of the pool until Apache's replaces it.        *)

NamesIn(ids, objects) == [i \in Ids |-> IF i \in ids THEN objects[i].hostname ELSE None]

AddressesIn(ids, objects) ==
    [i \in Ids |-> IF i \in ids /\ objects[i].ip \in Pool THEN objects[i].ip ELSE NoIP]

NameLeases == INSTANCE Leases WITH
    Holders <- Ids, Resources <- Hostnames, Nothing <- None,
    Lossy <- "save" \in Failures, Restarts <- Crashes,
    held <- NamesIn(store, inst), saved <- NamesIn(file.ids, file.inst)

AddressLeases == INSTANCE Leases WITH
    Holders <- Ids, Resources <- Pool, Nothing <- NoIP,
    Lossy <- "save" \in Failures, Restarts <- Crashes,
    held <- AddressesIn(store, inst), saved <- AddressesIn(file.ids, file.inst)

\* Provision, runProvision and Delete, run by several goroutines, hand out
\* names the way Leases says.
NamesAreLeased == NameLeases!Spec

\* And the addresses of the pool.
AddressesAreLeased == AddressLeases!Spec

-----------------------------------------------------------------------------
(* What the dashboard shows, and who works on it.                           *)

StatesIn(ids, objects) == [i \in Ids |-> IF i \in ids THEN objects[i].state ELSE "absent"]

\* A restart that gets as far as StartInstance's Restore is a start.
TaskOf(w) == IF worker[w].pc \in {"restore", "online", "up", "broken", "down"}
             THEN "start" ELSE worker[w].op

Tasks == [i \in Ids |->
    IF pc[i] \in GoroutinePhases THEN "provision"
    ELSE IF Busy(i) THEN TaskOf(CHOOSE w \in Workers : worker[w].id = i)
    ELSE "none"]

Life == INSTANCE Lifecycle WITH
    Instances <- Ids, Lossy <- "save" \in Failures, Restarts <- Crashes,
    shown <- StatesIn(store, inst), saved <- StatesIn(file.ids, file.inst),
    task <- Tasks, found <- toRestore

\* Provision, runProvision, the operations and RestoreSites take an instance
\* through the life Lifecycle describes, if users wait for one to end.
FollowsLifecycle == Life!Spec

=============================================================================
