# HTTPaaS in TLA+

Specifications, model checks and proofs for the HTTPaaS service
(`src/webapp`): a Go process that takes a zip file and a host name over HTTP,
gives the site an address and a port, serves it locally, copies it to an Apache
virtual machine, registers it in a Bind9 zone and keeps its inventory in JSON
files. It also runs databases on VirtualBox machines and shows machines created
by hand.

## 1. Inventory

| Component | State it keeps | Operations | Talks to |
|---|---|---|---|
| Web orchestrator (`services/orchestrator.go`) | none of its own; it mutates `Instance` objects it got from the store | `Provision` (handler) and `runProvision` (goroutine), `StartInstance`, `StopInstance`, `Restart`, `Delete`, `RestoreSites`, `SyncInventory` | store, site server, DNS, SSH, VirtualBox |
| Instance store (`services/store.go`) | map id -> `*Instance`, a lock, `instances.json` | `Put`, `Save`, `Get`, `Delete`, `All`, `HostnameTaken`, `UsedIPs`, `AllocateIP` | file system |
| Site server (`services/siteserver.go`) | `sites` by host name, listening sockets, content directories | `Deploy`, `Restore`, `Stop`, `Get`, `allocPortLocked`, the dispatcher on `<gateway>:80` | file system, sockets |
| DNS client (`services/dns.go`) | none; the zone lives in Bind9 | `AddRecord` (A, then PTR), `RemoveRecord` (A) | `nsupdate` |
| SSH client (`services/ssh.go`) | none; `/var/www` lives in the template VM | `UploadFile`, `Run`, `WaitForSSH` | `ssh`, `scp` |
| Database orchestrator and store (`db_orchestrator.go`, `db_store.go`) | map id -> `*DBInstance`, `db_instances.json` | `Provision`, `runProvision`, `Delete`, `SyncVBoxState`, `AllocateIP` | VirtualBox, SSH, DNS, instance store |
| VirtualBox adapter (`virtualbox.go`, `exec.go`) | none; machines live in VirtualBox | create, start, stop, unregister, inspect | `VBoxManage` |
| Process (`cmd/httpaas/main.go`, `handlers/`) | none | load, restore, first sync, then HTTP handlers and two 5-second tickers | everything above |
| Scripts, VM images, pages | - | run by hand, or presentation | - |

How they interact: a provision request runs `Provision` on its handler's
goroutine and leaves `runProvision` on another; start, stop, restart and delete
requests each start a goroutine and redirect at once. The goroutines share the
`Instance` objects without a lock and assign their fields one after another; the
store's lock covers its map and the file write, so it may save an object between
two assignments of another goroutine; the site server's lock covers its table.
Nothing is held from one step to the
next, nothing reserves a name or an address between the look-up and `Put`, and
`main` ends without waiting for any goroutine.

What is hard here: overlapping requests on one instance or for one name; look-up
and later use (name, address, port, "is it already up"); `Stop`, which drops the
lock half-way; failures that are logged and passed over (DNS, Apache, saves);
ends of the process at any step and what `RestoreSites` makes of the file.

What makes each part correct:

* orchestrator: what is shown as running is deployed, served and reached by its
  link; every provision, and every deletion, ends; a deleted instance stays
  deleted and leaves nothing;
* store: names and pool addresses are unique, in memory and in the file; the file
  is always one version or the next;
* site server: one site per port, no server that nobody can close, no port handed
  out that is taken;
* DNS: a record leads to whoever serves the name, and goes with the instance;
* databases: running means set up; no machine survives its instance; no two
  databases share an address, and one is made on its own machine;
* inventory: it converges to what VirtualBox has.

`PROJECT.json` lists under "hazards" the places where these can fail in this
code, with the properties that cover each, and a note where none does or where
they hold on a condition only.

## 2. Modules

| Module | What it is |
|---|---|
| `WebInstances` | managed web instances: `Provision`, `runProvision`, the four operations, `RestoreSites`, the store and its file, the site server, and the DNS zone and Apache VM as external services |
| `Leases` | abstract: holders take a resource nobody has and give it back; what is written down survives a restart; proves that no resource has two holders |
| `Lifecycle` | abstract: what an instance goes through as the dashboard shows it, and who works on it |
| `MCWebInstances` | model values, the symmetry set |
| `WebInstances_proofs` | type correctness, the inductive invariant, `RunningIsDeployed` |
| `WebLeases_proofs` | exclusive names and addresses, no resurrection, and `WebInstances` implements `Leases` |
| `WebServers_proofs` | no server left that nobody can close, nothing left of an instance whose name is free, agreeing columns of what runs, and `WebInstances` implements `Lifecycle` |
| `WebLinks_proofs` | running instances are served, and their links lead to their content |
| `JsonStore` | how both stores keep their map in a file: mutex, encoding, temporary file, rename, load, crash |
| `DurableMap` | abstract: a map whose file never holds anything older than it did or than was acknowledged |
| `MCJsonStore` | model values |
| `JsonStore_proofs` | its inductive invariant, durability, and that `JsonStore` implements `DurableMap` |
| `DBInstances` | databases: `Provision`, `runProvision`, `Delete`, `SyncVBoxState`, over machines and a zone that are external, and the address range they share with web instances and the inventory |
| `MCDBInstances` | model values, the symmetry set |
| `DBInstances_proofs` | types, exclusive addresses of databases and machines, `DBInstances` implements `Leases`, databases on their own machines, nothing left after a deletion, reverse records, databases shown as running without having been set up only by the synchronisation |
| `Inventory` | `SyncInventory` and `upsertFromVBox` against machines that come, change and go, and the operations on imported instances |
| `MCInventory` | model values, the events of the machines |
| `Inventory_proofs` | types, one entry per machine, entries that go only with their machine |

`WebInstances` and `DBInstances` refine nothing of each other: they meet in
`DBInstances` through `web` (pool addresses of web instances), `webAsk` (the
address of the web request under way) and `imported` (what the inventory has as a
machine's address). `web` and `imported` are all the database allocator sees of
the web side, and `imported` is all the web allocator sees of the databases:
`DBInstanceStore.UsedIPs`, which is there to keep the two apart, has no caller.

### WebInstances

State. `inst` are the `Instance` objects, by id: they exist as long as a
goroutine holds them, which is why an object may live on after `store` (the keys
of `InstanceStore.Instances`) has lost it. `file` is `instances.json`. `sites` is
the site server's table with, per entry, the port and whether its server could
bind; `detached` are the ports of servers that listen while no entry leads to
them; `dir[h]` is the id whose content is in `<rootDir>/h`. `vhostBound` says whether
the dispatcher could bind `<gateway>:80`, drawn from `VHostBinds` at every start.
`dnsA`, `dnsPtr` and `www` are the external records. `pc[i]` is where the provision of `i` is
(handler, then goroutine), `worker[w]` what an operation goroutine is doing,
`toRestore` what `RestoreSites` has left to visit.

Actions. One per stretch of code between two points where another goroutine may
run:

| Code | Actions |
|---|---|
| `Provision` | `CheckHostname`, `AllocateIP`, `PutInstance` |
| `runProvision` | `MarkProvisioning` (twice), `MarkDeploying`, `Deploy` / `DeployFails`, `MarkCopying`, `UseApache` / `UseFallback`, `RegisterDNS` (which ends with `VBoxState`), `MarkRunning`; `FailColumn` after a failure |
| `StopInstance`, `Restart`, `Delete` up to `SiteServer.Stop` | `RequestStop`, `RequestRestart`, `RequestDelete` |
| `SiteServer.Stop` | `StopUnmap`, `StopShutdown`, `StopRemoveDir` (the lock is given up after the first) |
| the rest of each | `SettleStopped` (`State`), `SettleColumn` (`VBoxState`, saved), `RestartStart`, `DeleteRecord`, `DeleteRemoteDir`, `EraseInstance` |
| `StartInstance` | `RequestStart` (or `RestartStart`), `RestoreForStart`, `SettleStarted` (`State`), `SettleColumn` (`VBoxState`, saved) |
| end and start of the process | `Crash`, then `RestoreSite` until `toRestore` is empty; requests wait (`Booting`) |

Switches. `Failures` names what may fail ("deploy", "apache", "dns", "save"),
`Crashes` lets the process end at any step, `OverlappingProvisions` lets two
`Provision` handlers run at once, `OverlappingOps` lets an operation start on an
instance that is under work. The code excludes none of these: the switches
separate the promises that hold always from those that hold when users wait, and
every property below says under which it is checked. Operators commented "Slip"
are plausible mistakes, used to see that a property notices them.

Abstractions. Ids are used once, as UUIDs are. Of an `Instance` only the fields a
decision or property depends on are kept (name, address, state, VirtualBox column,
port, kind of link); texts, logs, times and owners are not. `State` and
`VBoxState` are assigned one after the other in the code, and by two steps here:
whoever overlaps may write, save or crash between them. The second assignment of
such a pair and the save that follows it are one step, as in `mark`; the address
and link of `UseApache` and `UseFallback` are set with the mark behind them, and
the port and link after `Deploy` together and unsaved, as in the code. The two
assignments of `RestoreSites` are one step: no request is served and no other
goroutine runs yet. The extraction of an archive and the removal of a directory
are single steps with partial outcomes where they can fail. The socket is bound
with the `Deploy` or `Restore` that starts the server; in the code the server's
goroutine binds a moment later. A save is one step, which `JsonStore` takes apart.
`RestoreSites` visits instances newest first; the model takes any order. Imported
machines are the subject of `Inventory`, the databases' use of the address range
that of `DBInstances`, and a host name is already valid when it arrives.

### JsonStore

`load`, `save`, `Save`, `Put` and `Delete` of `store.go` and `db_store.go`, whose
code is the same. An entry is the number of changes it has seen and whether it is
in the map; `Mutate` is any assignment to a field of a stored object, which the
orchestrators make without the mutex, so it may fall between two `MarshalEntry`
steps. `os.WriteFile` is two steps, `OpenTmp` (truncated) and `FillTmp`, each of
which may fail, as may `RenameTmp`; every error goes through `EndSave`, the
deferred unlock. `todo` and `data` are the encoder's progress, `need` and `acked`
are bookkeeping for the properties. `Load` parses the file or creates it; an error
there ends the process (`log.Fatalf` in `main`). The encoder cannot fail on these
structs, and an entry is encoded as a whole here. That a save stores an object
between two assignments of its goroutine, and what a restart makes of it, is the
subject of `RunningShowsColumn` in `WebInstances`.

### DBInstances

State. `inst`, `store`, `file` and `pc` are as in `WebInstances`. `worker` are the
goroutines of deletions, `sync` is the instance `SyncVBoxState` is looking at with
what it saw there. `vm[i]` is the machine named after instance `i` in VirtualBox:
its power, whether it got its disk, the address its first boot will take, and the
databases that were made on it. `dnsA` and `dnsPtr` are the zone, where `Web` stands
for any web instance. `webSeen[i]` is what `Provision` of `i` has read of the web
store and not used yet.

| Code | Actions |
|---|---|
| `DBOrchestrator.Provision` | `ReadWebIPs` (the argument `o.main.UsedIPs()`), `AllocateIP` (the own store, read later), `PutInstance` |
| `runProvision` | `TemplateMissing` or `MarkProvisioning`, `CreateVM`, `ConfigureVM` (the five commands of `CreateDBInstance`, with what an error leaves), `InjectProperties`, `StartVM`, `WaitForVMRunning`, `WaitForSSH`, `SetupDatabase`, `RunSQLFile`, `MarkRegistering`, `RegisterDNS` (which ends with `VBoxState`), `MarkRunning`; after a failure `FailColumn` |
| `Delete` | `RequestDelete`, `DeleteLook`, `DeleteHalt`, `DeleteUnregister`, `DeleteRecord`, `EraseInstance` |
| `SyncVBoxState` | `SyncLook`, `SyncCompare`, `SyncColumn` (`VBoxState`), `SyncState` (`State`, saved): what VirtualBox said, applied when it may no longer be true |
| end and start of the process | `Crash`: nothing resumes what was under way |
| `Orchestrator.Provision`, `runProvision` and `Delete`, as far as the range and the zone go | `WebAllocate`, `WebPut`, `WebRegister` (the PTR record, or Apache's address instead), `WebDelete` |
| outside | `MachineEvent`, `ImportMachine` |

SSH goes to an address, so `WaitForSSH` and `SetupDatabase` reach whichever
machine answers there (`Answering`), not the one the goroutine created. Timeouts
are the disjunct of a wait in which the awaited thing is not there; that of
`WaitForVMRunning` may also find the machine running, if it could not be inspected
all that time ("inspect" among `Failures`).

Switches are those of `WebInstances`, and `WebRequests`: web instances come and
go, one request at a time, between any two steps of a request for a database. The
web allocator never looks at the databases, so a web instance can be given the
address of a database at any time that its machine is not imported, and a database
that of a web instance put between the two reads. No property forbids it; the
properties say what holds all the same.

Abstractions. A save after a change of a field always succeeds here (that it may
not is checked in `WebInstances`); those of `Put` and `Delete` may fail. A web
request gets its address, stores it, and registers it; what happens to its site in
between is `WebInstances`' subject. Machines made by hand are left to `Inventory`:
the inventory's entries here are those of the databases' machines. `SyncVBoxState`
visits the stored instances in any order. `setupDatabase` is one step; its last command
for PostgreSQL ends in `|| true`, so a grant may be missing without an error, and
no property speaks of grants. The states "saving" and "restoring" of a machine
are left out (`MapVBoxState` shows them as stopped).

### Inventory

State. `machine[v]` is what VirtualBox has, with "future" and "gone" for a machine
that is not registered; `addr` says whether an address of it is known. `inst` and
`store` are the entries, `Sites` the managed ones among them. `scan` is how far
`SyncInventory` is: the machines still to inspect or to update, those seen, and
what was found. `worker` are the goroutines of start, stop and restart.

| Code | Actions |
|---|---|
| `ListVMs` | `ScanList` (`VBoxManage list vms`), `ScanInspect` per machine: all of it, the state without the address, or neither |
| `SyncInventory` after it | `ScanFilter` (`VMNameFilter`), `Upsert` per machine, `Purge` |
| `StartInstance`, `StopInstance`, `Restart`, `Delete` of an instance with a `VMUUID` | `RequestStart` / `RequestStop` / `RequestRestart`, then `StartVM`, `StopAcpi`, `PowerOffVM`; `Delete` |
| outside | `MachineEvent`: made, halted, booted, aborted, paused, removed, an address |

Abstractions. `Upsert` and `Purge` are atomic: only the scan adds entries, and one
goroutine runs scans one after the other. A list that fails gives the scan up with
nothing changed and is no step. Managed sites take part in no scan: the code skips
them (`orchestrator.go:102-104`), and so does the model. Columns that nothing else
writes (memory, CPUs, OS type, names) are left out. An object that neither the
store nor a goroutine refers to is forgotten (`Referenced`), as the garbage
collector does, so that ids can be drawn again. A machine that was removed is not
registered again under the same UUID, and `VMNameFilter` does not change, so
entries of machines the filter hides do not arise.

## 3. Runs

Ids, names, workers, machines, entries and callers are model values. Where the
properties are about safety only, ids, names and workers are interchangeable
(`MCSymmetry`); runs that check liveness use no symmetry. `CHECK_DEADLOCK FALSE`
in the runs of `WebInstances` and `DBInstances`: ids are used once, so a behaviour
in which everything was provisioned and deleted ends. Scans and saves never end, so
deadlock is checked in the others.

| Run | Instance | Shows |
|---|---|---|
| `WebCalm` | 3 ids, 2 names, 2 workers, 2 pool addresses, ports 9100-9102 of which 9100 is foreign, Apache failing, dispatcher bound or not | `RunningIsServed`, `UrlReachesContent` on each of the three routes, `NoLeakedServer`; implements `Leases` for addresses |
| `WebCrash` | 2 ids, 2 names, 2 workers, crashes, one pool address | `TypeOK`, `RunningIsDeployed`, `RunningShowsColumn`, `NothingLeft`; implements `Lifecycle` |
| `WebBroken` | 2 ids, 2 names, one port, crashes, lost saves, failing DNS | `UniqueHostnames`, `UniqueAddresses`, in memory and in the file; implements `Leases` for names and `Lifecycle`, both with writes that are lost; the second deployment finds no port |
| `WebLive` | 1 id, 2 workers: every overlap of two operations and the provision; failing deployment and DNS; fairness | `ProvisionEnds`, `StateSettles`, `DeleteEnds`, and `RunningIsDeployed`, `NoResurrection` under overlaps |
| `JsonStore` | 2 entries, 2 callers, 2 changes per entry and start, failing writes and renames, crashes, fairness | `FileIsWhole`, `AckedIsDurable`, `FileNeverGoesBack`, `CallsReturn`; implements `DurableMap` |
| `DbCalm` | 2 databases, 1 worker, 2 addresses, machines that halt, failing creation and SSH | `TypeOK`, `UniqueAddresses`, `MachineHasOwnAddress`, `DatabaseAtHome` |
| `DbReuse` | 2 databases and web instances over 1 address, 1 worker, machines that abort, failing template, creation, properties, SSH and saves, crashes | `NothingLeft`, `ReverseMatchesForward`; implements `Leases` for the databases' addresses |
| `DbLive` | 1 database, 1 worker, deletion at any moment, every failure but lost saves, machines that halt, pause and boot, fairness | `ProvisionEnds`, `DeleteEnds`, `ChangesAreShown` |
| `Inventory` | 2 machines of which one passes the filter, 1 site and 2 ids for entries, 1 worker, all four operations, every failure, fairness | `TypeOK`, `OneEntryPerMachine`, `EntriesGoWithMachines`, `MachinesAreShown`, `GoneMachinesGo`, `OperationsEnd` |

Bounds. Two names and three ids let a name be released and taken again while a
third instance competes; two pool addresses (one in `WebCrash`) reach exhaustion
and reuse; one to three ports reach reuse, exhaustion and a foreign listener; two
workers give every pair of overlapping operations, and a provision beside them.
More ids repeat these patterns: instances interact only through names, addresses,
ports and the file. In `JsonStore` two versions tell an older entry from a newer
one, two entries let the encoder stop in between, and a crash starts the counting
again from the file. In `DBInstances` two databases with two addresses put two
machines side by side, and with one address (`DbReuse`) make every provision after
the first a reuse, by the other database or by the web side, of an address whose
machine, record or reverse record may still be there; liveness needs one database,
since goroutines of different ones never wait for each other. In `Inventory` two
ids for entries let an entry be removed while a goroutine still holds it and its
machine be imported again; the second machine is one the filter hides.

Fairness (`FairSpec`). Weak fairness of the handler after its first step, of
`runProvision`, of every worker and of `RestoreSite`: they are goroutines of one
process, each external call has a timeout, and locks are held for bounded work, so
a step that stays possible is taken. Nothing is assumed of users (no request is
owed), and no crash or failure is owed. `JsonStore` assumes strong fairness of
getting the mutex, which other callers may take again and again: `sync.RWMutex`
queues its writers on a `sync.Mutex`, which hands itself over to whoever has waited
a millisecond. `DBInstances` assumes that the ticker comes back to every stored
instance (strong fairness of `SyncLook`, which other instances' visits disable) and
that a machine on its way comes up. `Inventory` assumes that scans go on, that a
machine on its way comes up, and that `VBoxManage` does not fail for one machine
for ever; the first two are the ticker and VirtualBox, the third is the only
assumption about failures, and without it a machine may stay shown as stopped.

Disagreements between the code and what is said of it that a run shows:

| Run | Property | What happens |
|---|---|---|
| `WebAddressRace` | `UniqueAddresses` | two simultaneous provisions get one address |
| `DbRevived` | `RunningIsSetUp` | a provision that failed after its machine booted is shown as running some seconds later, without a database |
| `InventoryStuck` | `StatesAreShown` | a start that VirtualBox refuses because the machine runs is shown as failed for as long as it runs |

And some that need no run, as the code does them every time:

* `StopInstance` keeps no content: `SiteServer.Stop` removes the directory, and the
  comment at `orchestrator.go:236` says it is kept; the one at line 241 knows. A start
  after a stop ends as failed.
* `SyncInventory` marks no Managed instance as failed when its VM is gone, as the
  comment at `orchestrator.go:79-81` says; it skips them (lines 102-104), which is
  what the comment at lines 98-99 says.
* `DBInstanceStore.UsedIPs` is "used together with `InstanceStore.UsedIPs` to avoid
  collisions in the pool" (`db_store.go:106-107`), and nobody calls it: web and
  database addresses do collide.

The switches have their reason in behaviours that break a property when they are
set, and that nothing written about the code excludes. Each can be reproduced
with one line of a configuration:

* `WebCrash` with `OverlappingOps = TRUE`: a deletion during provisioning leaves
  server, content and record behind (`NothingLeft`), because `runProvision` keeps
  the object and deploys it after it is gone. The same holds of `DbReuse`: the
  machine is created after the deletion looked for it.
* `WebCrash` with `OverlappingOps = TRUE` also leaves `Lifecycle`: two parties write
  the state of one instance. They write its two columns one by one, so that it may
  end as running with column poweroff for good (`RunningShowsColumn`).
* `WebLive` with `Crashes = TRUE`: a provision cut by the end of the process stays
  under way for good (`StateSettles`): `RestoreSites` takes up sites, not work.
* `WebCalm` with `OverlappingOps = TRUE`: a start that found its site down replaces
  the server of a new instance of the same name, which listens on (`NoLeakedServer`),
  and a second deletion removes the new instance's content (`RunningIsServed`).
* `WebCalm` with `Crashes = TRUE`: a crash inside a stop or restart
  leaves a saved port that another site has been given meanwhile, and both are
  restored to it (`RunningIsServed`).
* `DbReuse` with "inspect" or "unregister" among `Failures`, or "pause" among
  `MachineEvents`: a machine that cannot be looked at, unregistered or turned off at
  the moment of the deletion stays (`NothingLeft`).

One behaviour is set off by no switch. While a provision lasts, the synchronisation
may see its machine off before `runProvision` assigns `VBoxState` at line 213 of
`db_orchestrator.go`, assign "poweroff" after that and "stopped" before the last
mark sets "running". The instance is then shown as running over a machine that is
off, and since `VBoxState` is what the machine is, no later synchronisation mends
it. `ChangesAreShown` therefore asks what the dashboard shows of changes that come
after the provision.

## 4. Proofs

The theorems hold for every set of ids, names, workers, machines, addresses and
ports that satisfies the named assumptions of its module: the empty marks are no
ids, addresses or ports; the pool contains neither the gateway nor the template
VM, as in the configuration's defaults (`config.go:101-109`); switches are
Booleans; sites are ids, hidden machines are machines, and events turn a
registered or future machine into a registered or gone one. What a theorem assumes
beyond them stands in its statement.

| Theorem | Assumes | Shows |
|---|---|---|
| `TypeCorrect` (each module) | - | `TypeOK` |
| `RunningDeployed` | - | `RunningIsDeployed`, with every failure, crash and overlap of single assignments |
| `HostnamesUnique`, `AddressesUnique` | no two provision handlers at once | `UniqueHostnames`, `UniqueAddresses`, with every failure, crash and overlap of operations |
| `NoneResurrected` | no failing save | `NoResurrection` |
| `NamesLeased`, `AddressesLeased` | no two provision handlers at once | `WebInstances` implements `Leases`, for names and for pool addresses, with lost saves and crashes |
| `NoneShared` (`Leases`) | - | no resource has two holders, whichever writes are lost and however often there is a restart |
| `NoServerLeaked` | `Waiting`: neither two provision handlers at once nor an operation on an instance under work | `NoLeakedServer`, with every failure and crash |
| `NothingStays` | `Waiting`, no failing save, DNS call or remote removal | `NothingLeft`, with failing deployments and crashes |
| `ColumnShown` | operations wait for the work on their instance | `RunningShowsColumn`, with every failure, lost save, crash, and save of another goroutine between two assignments |
| `LifecycleFollowed` | operations wait for the work on their instance | `WebInstances` implements `Lifecycle`, with every failure, lost save, crash and overlap of provisions |
| `NobodyStuck` | the same as `LifecycleFollowed`, no crash | nothing is shown as under way or being deleted that nobody works on, but for a request refused for a failed save |
| `NothingLost` | the same as `LifecycleFollowed`, no failing save | an instance leaves the store only from the state "deleting", restarts included |
| `RunningServed` | `Waiting`, no crash | `RunningIsServed`, with every failure |
| `LinksReach` | `Waiting`, no crash, no failing DNS call | `UrlReachesContent`, with every other failure |
| `FileWhole`, `AckedDurable`, `NeverGoesBack` | - | `FileIsWhole`, `AckedIsDurable`, `FileNeverGoesBack` of `JsonStore` |
| `Implements` | - | `JsonStore` implements `DurableMap` |
| `AddressesUnique`, `AddressesLeased` (`DBInstances`) | no two provision handlers of databases at once | `UniqueAddresses` of databases; `DBInstances` implements `Leases`; with web requests between any two steps |
| `NothingSurvives` | `Careful`: no overlapping deletion, the calls of a deletion succeed, a start is done or refused and never given up half-way ("slow"), machines halt and abort only | `NothingLeft` of `DBInstances`, with crashes, lost saves and every other failure of a creation |
| `MachinesApart`, `DatabasesAtHome` | `Careful`, no two provision handlers of databases at once | `MachineHasOwnAddress`, `DatabaseAtHome` |
| `ReverseCorrect` | the same | `ReverseMatchesForward` |
| `OnlySyncRevives` | the same | a step that makes a database running finds it set up on its own machine, or is `SyncState` or a restart |
| `OneEntry`, `EntriesGo` | - | `OneEntryPerMachine`, `EntriesGoWithMachines` of `Inventory` |

`WebAddressRace` shows the assumption of the uniqueness theorems to be necessary;
`NoneResurrected` needs its own because a deletion whose save fails is undone by a
restart, and those of the database theorems are the behaviours listed at the end
of section 3, as are those of the theorems on servers, columns, life and links. `Waiting` is a
name for this table only: the theorems say `~OverlappingProvisions` and
`~OverlappingOps`.

*The invariant.* `RunningIsDeployed` is not inductive: `SettleStarted` or `MarkRunning` sets an
instance to running because an earlier step of the same goroutine saw its port, and
`StopUnmap` is well typed only if the worker's instance has a name. `IInv` adds
that every id a goroutine, the store, the file or `toRestore` refers to has its
name (`NamesKnown`), that whoever is about to show an instance as running found
its port assigned (`PortsKnown`), and that what `Put` stores is still pending
(`FreshIsPending`). It needs no assumption on overlaps because no step ever takes
a name or a port from an object: a goroutine may act on an instance that was
deleted, never on one that lost what it relies on.

*The frame.* Most actions do the same to that invariant: one object changes,
keeps its name, changes its address at most to Apache's, and the result is saved
or the save fails. `Steady` says so once; a lemma per action shows it is such a
step, and one lemma that such a step keeps `IInv`. What is left are the three
actions that do more: `CheckHostname`, `AllocateIP` and `Crash`.

*Exclusiveness.* `UniqueHostnames` is not inductive either: `Put` stores what two
earlier steps looked up. `UInv` states what keeps the look-ups valid: the request
under way is alone (`Alone`), and no stored instance has its name or address
(`FreshName`, `FreshAddress`). Steady steps preserve it since names stay and
addresses only leave the pool; file and memory are exclusive separately, because
a failing save leaves an older version that was.

*Leases.* The file holds an older store, so `saved` is a second mapping, of the file:
what a step writes is what is held now (`Write`), or a save was lost and the file
stays. `Put` is `Acquire`, exclusive by `UInv`; `EraseInstance`, and for addresses
`UseApache`, is `Release` or, on an object already gone, a `Rewrite`, as is every step
that saves something else: it makes up for a lost write. `Crash` is `Restart`. The
abstract `NoneShared` is what makes the refinement worth having: from `Init` and
these four actions alone, no resource is ever shared, in memory or after a restart.

*Lifecycle.* The mapping shows of each instance its state, or "absent" if it is not
stored; its task is read off the program counters (`TaskOf`, `Tasks`): the provision
it is in, or the operation of the one worker that is busy with it. It exists only
while users wait: with `OverlappingOps = TRUE` TLC finds `FollowsLifecycle`
violated by a deletion asked for during the provision. Two invariants carry the proof.
`Attended` (below) says that one party works on an instance; `OInv`, that what
the party has reached fits what is shown: a provision that has got to a phase shows
that phase, a deletion past its first step shows "deleting", and a step of a deletion
belongs to a deletion. The lemmas `ProvisionTurn`, `RequestTurn` and `WorkerTurn` say what
each group of actions shows, and one lemma per action of `Lifecycle` (`PutLife`,
`ProvisionLife`, `AskLife`, `WorkerLife`, `RestoreLife`, `CrashLife`) that such a step
is that action. `NobodyStuck` is then a property of `Lifecycle` alone (`SteeredStep` is an
induction over its `Next`): it is the safety half of `StateSettles` and `DeleteEnds`,
every state that must not last has a task, and that the task goes on is what the
runs check under fairness. A crash has to be excluded, since nothing resumes a
provision that was cut.

*Columns.* `RunningShowsColumn` fails between the two assignments of a start, and in
the file for longer: a save for another instance writes the first without the
second, and a crash then brings the half-written object back. `CInv` says that the
column of a running instance is running or still due (`ColumnDue`): from the worker
that has just set the state, or from `RestoreSites`, which visits every instance with a
port before anything else runs. `RunningIsDeployed` is what makes it visit them all.

*Servers and what is left.* `Attended` says that one party works on an instance:
its provision, one goroutine of an operation, or `RestoreSites`, and none once it is
deleted. With exclusive names (`UInv`) that makes the entries of a name in the site
table, the directories and the zone private to that party. `SInv` then follows a
`Stop` through its phases: from the removal of the entry until the instance is done
with, the name has no entry, so that `Restore` never replaces a server that listens,
the one place where a server could be lost. `KInv` says what a deletion has removed
by each of its later phases (`Cleared`); `EraseInstance` gives the name back when all
of it is gone. A crash keeps `KInv` only if the file knows the same names as the
store (`Saved`), hence no failing save.

*What runs is served.* `VInv` follows a site from `Deploy` on (`ServedAlone`) and
states what is odd about this code: whenever a site is down, its content is gone or
it never had a port (`Gone`). `Restore` therefore never brings a site up again while
the process lives, a restart of a running site always ends in failed, and no two
sites compete for a saved port. Only `RestoreSites`, after a crash, restores
anything, and there `RunningIsServed` can fail (end of section 3). `LInv` follows the
link and the address along the three routes from `Deploy` to `RegisterDNS`.

*JsonStore.* Nothing in `AckedIsDurable` mentions the mutex or the temporary file.
`IInv` of `JsonStore_proofs` does: one goroutine is inside `save`, and only main
while the store is loaded (`Mutex`, `Loading`); what is in the file was once in
memory (`Ordered`); and, entry by entry, file, versions needed, what was encoded
and memory are in this order (`Encoded`). `RenameTmp` is then `Flush`, `Put`,
`Delete` and `Mutate` are `Change`, `Crash` is `Restart`, and the rest stutters.
The bound on versions occurs in guards only and the proofs do not use it.

*DBInstances, records.* `Steady` plays the same part here: a step assigns fields of
objects whose provision got as far as `Put` and leaves their addresses alone, only
`Put` adds to the store, and what is saved is what is stored. The three parties that
write the columns (`runProvision`, `Delete`, `SyncVBoxState`) only take steady
steps; `StoredBegun`, that whatever the store or the file has got as far as `Put`,
keeps a crash within bounds. `UInv` is that of the web side: the request under way
is alone, and its address is no stored database's. The web side does not occur in it.

*DBInstances, what is left.* `NothingLeft` speaks of deleted instances, its
invariant `KInv` of the ones on their way there: a machine or record exists only
for an instance that is stored, in memory and in the file (`Tracked`), and a
deletion that got to a certain step has undone what that step undoes (`Deleting`).
A crash in the middle of a deletion brings the instance back, so `Tracked` has to
hold of the file too, and it is why the record is erased last. `RInv`, for reverse
records, says of an instance with an A record that the address is still its own;
it needs `UInv` because the reverse record of an address is overwritten by whoever
gets that address next. If that is a web instance, its name is what the record
says, hence `Web` in the property.

*DBInstances, machines.* Addresses of databases are exclusive among those stored,
and machines outlive them or not: that they do not is `KInv`. `MInv` adds that a
machine knows no address but its instance's, and that memory and file agree on the
address of what both hold (`OwnInv`), so that a restart leaves nobody with an address
of before. A step is `Homely` if it tells a machine at most its instance's address and
makes it at most the home of its own database. Two machines with one address would
then belong to two stored databases with one address (`Apart`), and whoever answers
at an address is the instance's own machine, which is `DatabaseAtHome`. Web instances
are no machines of VirtualBox and run no `sshd` at a pool address, so that one of
them has the same address changes nothing here. `OnlySyncRevives` builds on it: from
`SetupDatabase` to the last mark the database is on its machine (`SetUp`), since there
is no other it can have been made on and no deletion takes that one away meanwhile
(`DeletionsWait`). It confines the disagreement that `DbRevived` shows to one place, the
synchronisation.

*Inventory.* The properties are about what a scan does with findings that are
old. `ScanKnows` says what stays true of them: every entry's machine is among those
listed or seen, or is gone, and what was listed is no machine of the future.
Machines only go onward (`Onward`), which makes it stable. `EntriesKnown` says that
an object in use is a site or the entry of a shown machine: it keeps the workers'
machines well defined, and it makes the scan's list cover every entry. `ObjectsStep`
is the frame here, for the steps that put no object to use; `Upsert` is the only
other one. `OneEntry` then needs that no step gives an entry another machine.

Only model-checked: the liveness properties (`ProvisionEnds`, `StateSettles`,
`DeleteEnds`, `CallsReturn`, `ChangesAreShown`, `MachinesAreShown`, `GoneMachinesGo`,
`OperationsEnd`), which are outside the prover's reach. Every other property of the
passing runs is the subject of a theorem.

## 5. Plan

Done: `WebInstances` with `Leases` and `Lifecycle`; `JsonStore` with `DurableMap`,
which justifies `Save`; `DBInstances`, with the address range shared by the three
allocators; and `Inventory`, each with its proofs.

Left, in the order of what matters most:

1. The socket of a site bound a moment after `Deploy` returns, by the goroutine
   that serves it (`siteserver.go:170`).
2. The range scan of both allocators over bytes, with the wrap-around at
   255.255.255.255 (`store.go:148`); the models take the least free address.
3. `slugify` and `isValidHostname` as operators on names.

## 6. Not modelled

Configuration, middleware, UUID generation and the pages keep no state that
changes. The shell scripts and VM images are run by hand outside the service.
`VBoxService.CreateInstance` and `StartVMByName`, `DNSService.Lookup` and `Ping`
have no caller. `GenerateMAC` hashes the id to 24 bits; that two machines may get
the same is not modelled. Of the data race between the JSON encoder and the
goroutines that set fields without a lock the interleavings of single assignments
of the state columns are modelled, torn values are not. The log of an instance,
which keeps its last 200 lines, is read by no decision. The process owes nothing
to work that its end interrupted, in the code as in the models.
