------------------------ MODULE WebInstances_proofs ------------------------
(* Theorems about WebInstances, for every value of its constants. *)
EXTENDS WebInstances, TLAPS

\* The provision of i got as far as Put.
Begun(i) == pc[i] \notin {"new"} \cup HandlerPhases

\* Every id some goroutine or table refers to has its name.
NamesKnown ==
    /\ \A i \in Ids : pc[i] \in HandlerPhases \cup GoroutinePhases => Host(i) \in Hostnames
    /\ \A i \in store : Begun(i) /\ Host(i) \in Hostnames
    /\ \A i \in file.ids : Begun(i) /\ file.inst[i].hostname \in Hostnames
    /\ \A w \in Workers : worker[w].pc # "idle" =>
         worker[w].id \in Ids /\ Begun(worker[w].id) /\ Host(worker[w].id) \in Hostnames
    /\ \A i \in toRestore : Begun(i) /\ Host(i) \in Hostnames

\* Whoever is about to show an instance as running found its port assigned.
PortsKnown ==
    /\ \A i \in Ids : pc[i] \in {"deployed", "copying", "registering", "registered"} =>
                          inst[i].port # NoPort
    /\ \A w \in Workers : worker[w].pc \in {"restore", "online"} =>
                              inst[worker[w].id].port # NoPort
    /\ \A i \in toRestore : inst[i].port # NoPort
    /\ \A h \in Hostnames : sites[h].live => sites[h].port # NoPort

\* What Put is about to store has just been created.
FreshIsPending ==
    \A i \in Ids : pc[i] = "allocated" => inst[i].state = "pending"

IInv == TypeOK /\ NamesKnown /\ PortsKnown /\ FreshIsPending /\ RunningIsDeployed

-----------------------------------------------------------------------------
(* Types of what the actions build. *)

\* An instance with some fields replaced is an instance.
LEMMA StateUpdate ==
    ASSUME NEW r \in Instance, NEW s \in State
    PROVE  [r EXCEPT !.state = s] \in Instance
  BY DEF Instance

LEMMA ColumnUpdate ==
    ASSUME NEW r \in Instance, NEW v \in VBoxState
    PROVE  [r EXCEPT !.vbox = v] \in Instance
  BY DEF Instance

LEMMA StatesUpdate ==
    ASSUME NEW r \in Instance, NEW s \in State, NEW v \in VBoxState
    PROVE  [r EXCEPT !.state = s, !.vbox = v] \in Instance
  BY DEF Instance

LEMMA HostnameUpdate ==
    ASSUME NEW r \in Instance, NEW h \in Hostnames
    PROVE  [r EXCEPT !.hostname = h] \in Instance
  BY DEF Instance

LEMMA AddressUpdate ==
    ASSUME NEW r \in Instance, NEW ip \in Pool
    PROVE  [r EXCEPT !.ip = ip, !.state = "pending", !.vbox = "starting", !.url = "fqdn"]
             \in Instance
  BY DEF Instance, InstanceIPs, State, VBoxState

LEMMA PortUpdate ==
    ASSUME NEW r \in Instance, NEW p \in Ports
    PROVE  [r EXCEPT !.port = p, !.url = "local"] \in Instance
  BY DEF Instance

LEMMA ApacheUpdate ==
    ASSUME NEW r \in Instance
    PROVE  [r EXCEPT !.ip = TemplateIP, !.url = "fqdn", !.state = "provisioning"] \in Instance
  BY DEF Instance, InstanceIPs, State

LEMMA FallbackUpdate ==
    ASSUME NEW r \in Instance
    PROVE  [r EXCEPT !.state = "provisioning",
                    !.url = IF vhostBound THEN "fqdn" ELSE r.url]
             \in Instance
  BY DEF Instance, State

LEMMA NoInstanceType == NoInstance \in Instance
  BY DEF NoInstance, Instance, InstanceIPs, State, VBoxState

\* A snapshot of well-typed objects is what the file may hold.
LEMMA SnapshotType ==
    ASSUME NEW ids \in SUBSET Ids, NEW objects \in [Ids -> Instance]
    PROVE  Snapshot(ids, objects) \in [ids : SUBSET Ids, inst : [Ids -> Instance]]
<1>1. [i \in Ids |-> IF i \in ids THEN objects[i] ELSE NoInstance] \in [Ids -> Instance]
  BY NoInstanceType
<1> QED
  BY <1>1 DEF Snapshot

\* Saving keeps the file well-typed.
LEMMA SaveType ==
    ASSUME TypeOK, Save, store' \subseteq Ids, inst' \in [Ids -> Instance]
    PROVE  file' \in [ids : SUBSET Ids, inst : [Ids -> Instance]]
<1>1. CASE file' = Snapshot(store', inst')
  BY <1>1, SnapshotType
<1>2. CASE UNCHANGED file
  BY <1>2 DEF TypeOK
<1> QED
  BY <1>1, <1>2 DEF Save

\* Ports handed out are ports, and a site on one is a site.
LEMMA FreePortsType == \A table : FreePorts(table) \subseteq Ports
  BY DEF FreePorts

LEMMA SiteType ==
    ASSUME NEW p \in Ports \cup {NoPort}, NEW busy
    PROVE  [port |-> p, live |-> p \notin busy] \in Site
  BY DEF Site

LEMMA NoSiteType == NoSite \in Site
  BY DEF NoSite, Site

\* What is registered is an address.
LEMMA DnsTargetType ==
    ASSUME TypeOK, NEW i \in Ids
    PROVE  DnsTarget(i) \in Addresses \cup {NoIP}
<1>1. inst[i].ip \in InstanceIPs
  BY DEF TypeOK, Instance
<1> QED
  BY <1>1 DEF DnsTarget, InstanceIPs, Addresses

\* A worker that moves on is a worker.
LEMMA ContinueType ==
    ASSUME TypeOK, NEW w \in Workers, NEW step \in WorkerPhases, Continue(w, step)
    PROVE  worker' \in [Workers -> Worker]
<1>1. [worker[w] EXCEPT !.pc = step] \in Worker
  BY DEF TypeOK, Worker
<1> QED
  BY <1>1 DEF TypeOK, Continue

LEMMA WorkerUpdate ==
    ASSUME NEW r \in Worker, NEW step \in WorkerPhases, NEW p \in Ports \cup {NoPort}
    PROVE  [r EXCEPT !.pc = step, !.port = p] \in Worker
  BY DEF Worker

LEMMA WorkingType ==
    ASSUME TypeOK, NEW w \in Workers, NEW i \in Ids, NEW step \in WorkerPhases,
           NEW op \in {"start", "stop", "restart", "delete"}, Working(w, op, i, step)
    PROVE  worker' \in [Workers -> Worker]
<1>1. [op |-> op, id |-> i, pc |-> step, port |-> NoPort] \in Worker
  BY DEF Worker
<1> QED
  BY <1>1 DEF TypeOK, Working

LEMMA FinishType ==
    ASSUME TypeOK, NEW w \in Workers, Finish(w)
    PROVE  worker' \in [Workers -> Worker]
<1>1. IdleWorker \in Worker
  BY DEF Worker, IdleWorker, WorkerPhases
<1> QED
  BY <1>1 DEF TypeOK, Finish

\* A phase is entered.
LEMMA GotoType ==
    ASSUME TypeOK, NEW i \in Ids, NEW phase \in Phases, Goto(i, phase)
    PROVE  pc' \in [Ids -> Phases]
  BY DEF TypeOK, Goto

\* mark keeps the objects, the store and the file well-typed.
LEMMA MarkType ==
    ASSUME TypeOK, NEW i \in Ids, NEW s \in State, Mark(i, s)
    PROVE  /\ inst' \in [Ids -> Instance]
           /\ store' \subseteq Ids
           /\ file' \in [ids : SUBSET Ids, inst : [Ids -> Instance]]
<1>1. inst' \in [Ids -> Instance]
  BY StateUpdate DEF Mark, TypeOK
<1>2. store' \subseteq Ids
  BY DEF Mark, TypeOK
<1> QED
  BY <1>1, <1>2, SaveType DEF Mark

\* StartInstance, by itself or within a restart.
LEMMA StartInstanceType ==
    ASSUME TypeOK, NEW w \in Workers, NEW i \in Ids, NEW op \in {"start", "restart"},
           StartInstance(w, op, i)
    PROVE  /\ inst' \in [Ids -> Instance]
           /\ store' \subseteq Ids
           /\ file' \in [ids : SUBSET Ids, inst : [Ids -> Instance]]
           /\ worker' \in [Workers -> Worker]
<1>1. CASE Finish(w) /\ UNCHANGED <<inst, store, file>>
  BY <1>1, FinishType DEF TypeOK
<1>2. CASE Working(w, op, i, "restore") /\ Mark(i, "provisioning")
  BY <1>2, WorkingType, MarkType DEF WorkerPhases, State
<1> QED
  BY <1>1, <1>2 DEF StartInstance

\* The site table after a Restore.
LEMMA PutSiteType ==
    ASSUME TypeOK, NEW h \in Hostnames, NEW p \in Ports, PutSite(h, p),
           sites[h].live => sites[h].port # NoPort
    PROVE  sites' \in [Hostnames -> Site] /\ detached' \subseteq Ports
<1>1. sites' \in [Hostnames -> Site]
  BY SiteType DEF TypeOK, PutSite
<1>2. sites[h].live => sites[h].port \in Ports
  BY DEF TypeOK, Site
<1> QED
  BY <1>1, <1>2 DEF TypeOK, PutSite

-----------------------------------------------------------------------------
(* Every step keeps the types. *)

\* The objects, the tables and the records keep their kinds in every step.
LEMMA TypeStep ==
    ASSUME IInv, [Next]_vars
    PROVE  TypeOK'
<1>0. TypeOK /\ NamesKnown /\ PortsKnown
  BY DEF IInv
<1> USE <1>0
<1>1. ASSUME NEW i \in Ids, NEW h \in Hostnames, CheckHostname(i, h) PROVE TypeOK'
  <2>1. inst' \in [Ids -> Instance]
    BY <1>1, HostnameUpdate DEF TypeOK, CheckHostname
  <2>2. pc' \in [Ids -> Phases]
    BY <1>1, GotoType DEF CheckHostname, Phases, HandlerPhases, GoroutinePhases
  <2> QED
    BY <1>1, <2>1, <2>2 DEF TypeOK, CheckHostname, served, external
<1>2. ASSUME NEW i \in Ids, AllocateIP(i) PROVE TypeOK'
  <2>1. \A ip \in Pool : [inst[i] EXCEPT !.ip = ip, !.state = "pending", !.vbox = "starting",
                                     !.url = "fqdn"] \in Instance
    BY AddressUpdate DEF TypeOK
  <2>2. inst' \in [Ids -> Instance]
    <3>1. CASE \E ip \in FreeIPs : inst' = [inst EXCEPT ![i] =
                 [@ EXCEPT !.ip = ip, !.state = "pending", !.vbox = "starting", !.url = "fqdn"]]
      BY <2>1, <3>1 DEF TypeOK, FreeIPs
    <3>2. CASE inst' = [inst EXCEPT ![i] = NoInstance]
      BY <3>2, NoInstanceType DEF TypeOK
    <3> QED
      BY <1>2, <3>1, <3>2 DEF AllocateIP
  <2>3. pc' \in [Ids -> Phases]
    BY <1>2, GotoType DEF AllocateIP, Phases, HandlerPhases, GoroutinePhases
  <2> QED
    BY <1>2, <2>1, <2>2, <2>3 DEF TypeOK, AllocateIP, served, external
<1>3. ASSUME NEW i \in Ids, PutInstance(i) PROVE TypeOK'
  <2>1. store' \subseteq Ids
    BY <1>3 DEF TypeOK, PutInstance
  <2>2. Snapshot(store', inst) \in [ids : SUBSET Ids, inst : [Ids -> Instance]]
    BY <2>1, SnapshotType DEF TypeOK
  <2>3. file' \in [ids : SUBSET Ids, inst : [Ids -> Instance]]
    BY <1>3, <2>2 DEF TypeOK, PutInstance
  <2>4. pc' \in [Ids -> Phases]
    BY <1>3, GotoType DEF PutInstance, Phases, HandlerPhases, GoroutinePhases
  <2> QED
    BY <1>3, <2>1, <2>2, <2>3, <2>4 DEF TypeOK, PutInstance, served, external
<1>4. ASSUME NEW i \in Ids, MarkProvisioning(i) PROVE TypeOK'
  <2>1. inst' \in [Ids -> Instance] /\ store' \subseteq Ids
         /\ file' \in [ids : SUBSET Ids, inst : [Ids -> Instance]]
    BY <1>4, MarkType DEF MarkProvisioning, State
  <2>2. pc' \in [Ids -> Phases]
    BY <1>4, GotoType DEF MarkProvisioning, Phases, HandlerPhases, GoroutinePhases
  <2> QED
    BY <1>4, <2>1, <2>2 DEF TypeOK, MarkProvisioning, served, external
<1>5. ASSUME NEW i \in Ids, MarkDeploying(i) PROVE TypeOK'
  <2>1. inst' \in [Ids -> Instance] /\ store' \subseteq Ids
         /\ file' \in [ids : SUBSET Ids, inst : [Ids -> Instance]]
    BY <1>5, MarkType DEF MarkDeploying, State
  <2>2. pc' \in [Ids -> Phases]
    BY <1>5, GotoType DEF MarkDeploying, Phases, HandlerPhases, GoroutinePhases
  <2> QED
    BY <1>5, <2>1, <2>2 DEF TypeOK, MarkDeploying, served, external
<1>6. ASSUME NEW i \in Ids, Deploy(i) PROVE TypeOK'
  <2>1. PICK p \in Ports :
         /\ sites' = [sites EXCEPT ![Host(i)] =
                       [port |-> p, live |-> p \notin Listening([sites EXCEPT ![Host(i)] = NoSite])]]
         /\ inst' = [inst EXCEPT ![i] = [@ EXCEPT !.port = p, !.url = "local"]]
    BY <1>6, FreePortsType DEF Deploy
  <2>2. [inst[i] EXCEPT !.port = p, !.url = "local"] \in Instance
    BY PortUpdate DEF TypeOK
  <2>3. [port |-> p, live |-> p \notin Listening([sites EXCEPT ![Host(i)] = NoSite])] \in Site
    BY SiteType
  <2>4. inst' \in [Ids -> Instance] /\ sites' \in [Hostnames -> Site]
    BY <2>1, <2>2, <2>3 DEF TypeOK
  <2>5. dir' \in [Hostnames -> Ids \cup {None}]
    BY <1>6 DEF TypeOK, Deploy
  <2>6. pc' \in [Ids -> Phases]
    BY <1>6, GotoType DEF Deploy, Phases, HandlerPhases, GoroutinePhases
  <2> QED
    BY <1>6, <2>1, <2>2, <2>3, <2>4, <2>5, <2>6 DEF TypeOK, Deploy, served, external
<1>7. ASSUME NEW i \in Ids, DeployFails(i) PROVE TypeOK'
  <2>1. inst' \in [Ids -> Instance]
    BY <1>7, StateUpdate DEF TypeOK, DeployFails, State
  <2>3. sites' \in [Hostnames -> Site]
    BY <1>7, NoSiteType DEF TypeOK, DeployFails
  <2>4. pc' \in [Ids -> Phases]
    BY <1>7, GotoType DEF DeployFails, Phases, HandlerPhases, GoroutinePhases
  <2>5. \E left \in {i, None, dir[Host(i)]} : dir' = [dir EXCEPT ![Host(i)] = left]
    BY <1>7 DEF DeployFails
  <2>6. dir' \in [Hostnames -> Ids \cup {None}]
    BY <2>5 DEF TypeOK
  <2> QED
    BY <1>7, <2>1, <2>3, <2>4, <2>6 DEF TypeOK, DeployFails, served, external
<1>8. ASSUME NEW i \in Ids, MarkCopying(i) PROVE TypeOK'
  <2>1. inst' \in [Ids -> Instance] /\ store' \subseteq Ids
         /\ file' \in [ids : SUBSET Ids, inst : [Ids -> Instance]]
    BY <1>8, MarkType DEF MarkCopying, State
  <2>2. pc' \in [Ids -> Phases]
    BY <1>8, GotoType DEF MarkCopying, Phases, HandlerPhases, GoroutinePhases
  <2> QED
    BY <1>8, <2>1, <2>2 DEF TypeOK, MarkCopying, served, external
<1>9. ASSUME NEW i \in Ids, UseApache(i) PROVE TypeOK'
  <2>1. inst' \in [Ids -> Instance]
    BY <1>9, ApacheUpdate DEF TypeOK, UseApache
  <2>2. file' \in [ids : SUBSET Ids, inst : [Ids -> Instance]]
    BY <1>9, <2>1, SaveType DEF TypeOK, UseApache
  <2>3. pc' \in [Ids -> Phases]
    BY <1>9, GotoType DEF UseApache, Phases, HandlerPhases, GoroutinePhases
  <2> QED
    BY <1>9, <2>1, <2>2, <2>3 DEF TypeOK, UseApache, served, external
<1>10. ASSUME NEW i \in Ids, UseFallback(i) PROVE TypeOK'
  <2>1. [inst[i] EXCEPT !.state = "provisioning",
                          !.url = IF vhostBound THEN "fqdn" ELSE inst[i].url]
         \in Instance
    BY FallbackUpdate DEF TypeOK
  <2>2. inst' \in [Ids -> Instance]
    BY <1>10, <2>1 DEF TypeOK, UseFallback
  <2>3. file' \in [ids : SUBSET Ids, inst : [Ids -> Instance]]
    BY <1>10, <2>2, SaveType DEF TypeOK, UseFallback
  <2>4. pc' \in [Ids -> Phases]
    BY <1>10, GotoType DEF UseFallback, Phases, HandlerPhases, GoroutinePhases
  <2> QED
    BY <1>10, <2>1, <2>2, <2>3, <2>4 DEF TypeOK, UseFallback, served, external
<1>11. ASSUME NEW i \in Ids, RegisterDNS(i) PROVE TypeOK'
  <2>1. inst' \in [Ids -> Instance]
    BY <1>11, ColumnUpdate DEF TypeOK, RegisterDNS, VBoxState
  <2>3. Host(i) \in Hostnames
    BY <1>11 DEF RegisterDNS, NamesKnown, Phases, HandlerPhases, GoroutinePhases
  <2>4. /\ dnsA' \in [Hostnames -> Addresses \cup {NoIP}]
         /\ dnsPtr' \in [Addresses -> Hostnames \cup {None}]
    BY <1>11, <2>3, DnsTargetType DEF TypeOK, RegisterDNS, AddRecord
  <2>5. pc' \in [Ids -> Phases]
    BY <1>11, GotoType DEF RegisterDNS, Phases, HandlerPhases, GoroutinePhases
  <2> QED
    BY <1>11, <2>1, <2>3, <2>4, <2>5 DEF TypeOK, RegisterDNS, served, external
<1>12. ASSUME NEW w \in Workers, NEW i \in Ids, RequestStart(w, i) PROVE TypeOK'
  <2>1. inst' \in [Ids -> Instance] /\ store' \subseteq Ids
         /\ file' \in [ids : SUBSET Ids, inst : [Ids -> Instance]]
         /\ worker' \in [Workers -> Worker]
    BY <1>12, StartInstanceType DEF RequestStart
  <2> QED
    BY <1>12, <2>1 DEF TypeOK, RequestStart, served, external
<1>13. ASSUME NEW w \in Workers, NEW i \in Ids, RequestStop(w, i) PROVE TypeOK'
  <2>1. file' \in [ids : SUBSET Ids, inst : [Ids -> Instance]]
    BY <1>13, SaveType DEF TypeOK, RequestStop
  <2>2. worker' \in [Workers -> Worker]
    BY <1>13, WorkingType DEF WorkerPhases, RequestStop
  <2> QED
    BY <1>13, <2>1, <2>2 DEF TypeOK, RequestStop, served, external
<1>14. ASSUME NEW w \in Workers, NEW i \in Ids, RequestRestart(w, i) PROVE TypeOK'
  <2>1. file' \in [ids : SUBSET Ids, inst : [Ids -> Instance]]
    BY <1>14, SaveType DEF TypeOK, RequestRestart
  <2>2. worker' \in [Workers -> Worker]
    BY <1>14, WorkingType DEF WorkerPhases, RequestRestart
  <2> QED
    BY <1>14, <2>1, <2>2 DEF TypeOK, RequestRestart, served, external
<1>15. ASSUME NEW w \in Workers, NEW i \in Ids, RequestDelete(w, i) PROVE TypeOK'
  <2>1. inst' \in [Ids -> Instance] /\ store' \subseteq Ids
         /\ file' \in [ids : SUBSET Ids, inst : [Ids -> Instance]]
    BY <1>15, MarkType DEF RequestDelete, State
  <2>2. worker' \in [Workers -> Worker]
    BY <1>15, WorkingType DEF WorkerPhases, RequestDelete
  <2> QED
    BY <1>15, <2>1, <2>2 DEF TypeOK, RequestDelete, served, external
<1>16. ASSUME NEW w \in Workers, StopUnmap(w) PROVE TypeOK'
  <2>1. worker[w].id \in Ids /\ Host(worker[w].id) \in Hostnames
    BY <1>16 DEF StopUnmap, NamesKnown
  <2>2. sites[Host(worker[w].id)].live => sites[Host(worker[w].id)].port \in Ports
    BY <1>16, <2>1 DEF TypeOK, Site, PortsKnown
  <2>3. sites' \in [Hostnames -> Site] /\ detached' \subseteq Ports
    BY <1>16, <2>1, <2>2, NoSiteType DEF TypeOK, StopUnmap
  <2>4. \A p \in Ports : [worker[w] EXCEPT !.pc = "shutdown", !.port = p] \in Worker
    BY WorkerUpdate DEF TypeOK, WorkerPhases
  <2>5. worker' \in [Workers -> Worker]
    BY <1>16, <2>2, <2>4, ContinueType DEF TypeOK, StopUnmap, WorkerPhases
  <2> QED
    BY <1>16, <2>1, <2>2, <2>3, <2>4, <2>5 DEF TypeOK, StopUnmap, external
<1>17. ASSUME NEW w \in Workers, StopShutdown(w) PROVE TypeOK'
  <2>1. [worker[w] EXCEPT !.pc = "rmdir", !.port = NoPort] \in Worker
    BY WorkerUpdate DEF TypeOK, WorkerPhases
  <2>2. worker' \in [Workers -> Worker]
    BY <1>17, <2>1 DEF TypeOK, StopShutdown
  <2> QED
    BY <1>17, <2>1, <2>2 DEF TypeOK, StopShutdown, external
<1>18. ASSUME NEW w \in Workers, StopRemoveDir(w) PROVE TypeOK'
  <2>1. worker' \in [Workers -> Worker]
    BY <1>18, ContinueType DEF StopRemoveDir, WorkerPhases
  <2>2. dir' \in [Hostnames -> Ids \cup {None}]
    BY <1>18 DEF TypeOK, StopRemoveDir
  <2> QED
    BY <1>18, <2>1, <2>2 DEF TypeOK, StopRemoveDir, external
<1>19. ASSUME NEW w \in Workers, SettleStopped(w) PROVE TypeOK'
  <2>1. inst' \in [Ids -> Instance]
    BY <1>19, StateUpdate DEF TypeOK, NamesKnown, SettleStopped, State
  <2>3. worker' \in [Workers -> Worker]
    BY <1>19, ContinueType DEF SettleStopped, WorkerPhases
  <2> QED
    BY <1>19, <2>1, <2>3 DEF TypeOK, SettleStopped, served, external
<1>20. ASSUME NEW w \in Workers, RestartStart(w) PROVE TypeOK'
  <2>1. inst' \in [Ids -> Instance] /\ store' \subseteq Ids
         /\ file' \in [ids : SUBSET Ids, inst : [Ids -> Instance]]
         /\ worker' \in [Workers -> Worker]
    BY <1>20, StartInstanceType, FinishType DEF TypeOK, RestartStart
  <2> QED
    BY <1>20, <2>1 DEF TypeOK, RestartStart, served, external
<1>21. ASSUME NEW w \in Workers, RestoreForStart(w) PROVE TypeOK'
  <2>1. worker[w].id \in Ids /\ Host(worker[w].id) \in Hostnames
    BY <1>21 DEF RestoreForStart, NamesKnown
  <2>2. inst[worker[w].id].port \in Ports
    BY <1>21, <2>1 DEF TypeOK, Instance, PortsKnown, RestoreForStart
  <2>3. sites' \in [Hostnames -> Site] /\ detached' \subseteq Ports
    BY <1>21, <2>1, <2>2, PutSiteType DEF TypeOK, PortsKnown, RestoreForStart
  <2>4. worker' \in [Workers -> Worker]
    BY <1>21, ContinueType DEF RestoreForStart, WorkerPhases
  <2> QED
    BY <1>21, <2>1, <2>2, <2>3, <2>4 DEF TypeOK, RestoreForStart, external
<1>22. ASSUME NEW w \in Workers, SettleStarted(w) PROVE TypeOK'
  <2>1. worker[w].id \in Ids
    BY <1>22 DEF NamesKnown, SettleStarted
  <2>2. /\ [inst[worker[w].id] EXCEPT !.state = "running"] \in Instance
        /\ [inst[worker[w].id] EXCEPT !.state = "failed"] \in Instance
    BY <2>1, StateUpdate DEF TypeOK, State
  <2>3. inst' \in [Ids -> Instance]
    BY <1>22, <2>1, <2>2 DEF TypeOK, SettleStarted
  <2>5. worker' \in [Workers -> Worker]
    BY <1>22, ContinueType DEF SettleStarted, WorkerPhases
  <2> QED
    BY <1>22, <2>1, <2>2, <2>3, <2>5 DEF TypeOK, SettleStarted, served, external
<1>23. ASSUME NEW w \in Workers, DeleteRecord(w) PROVE TypeOK'
  <2>1. worker' \in [Workers -> Worker]
    BY <1>23, ContinueType DEF DeleteRecord, WorkerPhases
  <2>2. /\ dnsA' \in [Hostnames -> Addresses \cup {NoIP}]
         /\ dnsPtr' \in [Addresses -> Hostnames \cup {None}]
    BY <1>23 DEF TypeOK, DeleteRecord, RemoveRecord
  <2> QED
    BY <1>23, <2>1, <2>2 DEF TypeOK, DeleteRecord, served
<1>24. ASSUME NEW w \in Workers, DeleteRemoteDir(w) PROVE TypeOK'
  <2>1. worker' \in [Workers -> Worker]
    BY <1>24, ContinueType DEF DeleteRemoteDir, WorkerPhases
  <2>2. www' \in [Hostnames -> Ids \cup {None}]
    BY <1>24 DEF TypeOK, DeleteRemoteDir
  <2> QED
    BY <1>24, <2>1, <2>2 DEF TypeOK, DeleteRemoteDir, served
<1>25. ASSUME NEW w \in Workers, EraseInstance(w) PROVE TypeOK'
  <2>1. file' \in [ids : SUBSET Ids, inst : [Ids -> Instance]]
    BY <1>25, SaveType DEF TypeOK, EraseInstance
  <2>2. worker' \in [Workers -> Worker]
    BY <1>25, FinishType DEF EraseInstance
  <2> QED
    BY <1>25, <2>1, <2>2 DEF TypeOK, EraseInstance, served, external
<1>26. ASSUME NEW i \in Ids, RestoreSite(i) PROVE TypeOK'
  <2>1. /\ [inst[i] EXCEPT !.state = "running", !.vbox = "running"] \in Instance
         /\ [inst[i] EXCEPT !.state = "stopped"] \in Instance
    BY StateUpdate, StatesUpdate DEF TypeOK, State, VBoxState
  <2>2. inst' \in [Ids -> Instance]
    BY <1>26, <2>1 DEF TypeOK, RestoreSite
  <2>3. file' \in [ids : SUBSET Ids, inst : [Ids -> Instance]]
    BY <1>26, <2>2, SaveType DEF TypeOK, RestoreSite
  <2>4. Host(i) \in Hostnames /\ inst[i].port \in Ports
    BY <1>26 DEF RestoreSite, NamesKnown, PortsKnown, TypeOK, Instance
  <2>5. sites' \in [Hostnames -> Site] /\ detached' \subseteq Ports
    BY <1>26, <2>4, PutSiteType DEF TypeOK, PortsKnown, RestoreSite
  <2> QED
    BY <1>26, <2>1, <2>2, <2>3, <2>4, <2>5 DEF TypeOK, RestoreSite, external
<1>27. ASSUME Crash PROVE TypeOK'
  <2>1. inst' \in [Ids -> Instance] /\ store' \subseteq Ids /\ toRestore' \subseteq Ids
    BY <1>27 DEF TypeOK, Crash
  <2>2. pc' \in [Ids -> Phases]
    BY <1>27 DEF TypeOK, Crash, Phases
  <2>3. IdleWorker \in Worker
    BY DEF IdleWorker, Worker, WorkerPhases
  <2> QED
    BY <1>27, <2>1, <2>2, <2>3, NoSiteType, SwitchesAssumption DEF TypeOK, Crash, external
<1>28. ASSUME NEW i \in Ids, FailColumn(i) PROVE TypeOK'
  <2>1. inst' \in [Ids -> Instance]
    BY <1>28, ColumnUpdate DEF TypeOK, FailColumn, VBoxState
  <2>2. file' \in [ids : SUBSET Ids, inst : [Ids -> Instance]]
    BY <1>28, <2>1, SaveType DEF TypeOK, FailColumn
  <2>3. pc' \in [Ids -> Phases]
    BY <1>28, GotoType DEF FailColumn, Phases
  <2> QED
    BY <1>28, <2>1, <2>2, <2>3 DEF TypeOK, FailColumn, served, external
<1>29. ASSUME NEW i \in Ids, MarkRunning(i) PROVE TypeOK'
  <2>1. inst' \in [Ids -> Instance] /\ store' \subseteq Ids
         /\ file' \in [ids : SUBSET Ids, inst : [Ids -> Instance]]
    BY <1>29, MarkType DEF MarkRunning, State
  <2>2. pc' \in [Ids -> Phases]
    BY <1>29, GotoType DEF MarkRunning, Phases
  <2> QED
    BY <1>29, <2>1, <2>2 DEF TypeOK, MarkRunning, served, external
<1>30. ASSUME NEW w \in Workers, SettleColumn(w) PROVE TypeOK'
  <2>1. worker[w].id \in Ids
    BY <1>30 DEF NamesKnown, SettleColumn
  <2>2. ColumnOf(worker[w].pc) \in VBoxState
    BY <1>30 DEF SettleColumn, ColumnOf, VBoxState
  <2>3. inst' \in [Ids -> Instance]
    BY <1>30, <2>1, <2>2, ColumnUpdate DEF TypeOK, SettleColumn
  <2>4. file' \in [ids : SUBSET Ids, inst : [Ids -> Instance]]
    BY <1>30, <2>3, SaveType DEF TypeOK, SettleColumn
  <2>5. worker' \in [Workers -> Worker]
    BY <1>30, FinishType DEF SettleColumn
  <2> QED
    BY <1>30, <2>3, <2>4, <2>5 DEF TypeOK, SettleColumn, served, external
<1>31. ASSUME UNCHANGED vars PROVE TypeOK'
  BY <1>31 DEF TypeOK, vars
<1> QED
  BY <1>1, <1>2, <1>3, <1>4, <1>5, <1>6, <1>7, <1>8, <1>9,
     <1>10, <1>11, <1>12, <1>13, <1>14, <1>15, <1>16, <1>17, <1>18,
     <1>19, <1>20, <1>21, <1>22, <1>23, <1>24, <1>25, <1>26, <1>27,
     <1>28, <1>29, <1>30, <1>31
     DEF Next, Request, Handler, RunProvision, WorkerStep

-----------------------------------------------------------------------------
(* What most steps leave alone. *)

DeployedPhases == {"deployed", "copying", "registering", "registered"}
RestoringPhases == {"restore", "online"}

\* The object keeps its name and its port, becomes running only with one, and
\* may change its address for Apache's.
Sound(j) ==
    /\ inst'[j].hostname = inst[j].hostname
    /\ inst'[j].ip \in {inst[j].ip, TemplateIP}
    /\ inst[j].port # NoPort => inst'[j].port # NoPort
    /\ inst'[j].state = "running" => inst[j].state = "running" \/ inst'[j].port # NoPort
    /\ ~Begun(j) => inst'[j] = inst[j]

SoundObjects ==
    /\ \A j \in Ids : Sound(j)
    /\ \A j \in store' : j \in store \/ (pc[j] = "allocated" /\ pc'[j] \in {"queued", "done"})
    /\ \/ UNCHANGED <<inst, store>>
       \/ \E i \in Ids : \A j \in Ids \ {i} : inst'[j] = inst[j] /\ (j \in store' <=> j \in store)
    /\ \/ Save
       \/ UNCHANGED <<store, file>> /\ \A j \in Ids : inst'[j].ip = inst[j].ip

\* The provision of an id goes on, or stays where it is.
SoundPhase(j) ==
    \/ pc'[j] = pc[j]
    \/ /\ pc[j] \in {"allocated"} \cup GoroutinePhases
       /\ pc'[j] \in {"done"} \cup GoroutinePhases
       /\ pc'[j] \in DeployedPhases => pc[j] \in DeployedPhases \/ inst'[j].port # NoPort

SoundPhases == \A j \in Ids : SoundPhase(j)

\* A worker goes on with its instance, or takes one from the store.
SoundWorker(w) ==
    worker'[w].pc # "idle" =>
      /\ \/ worker[w].pc # "idle" /\ worker'[w].id = worker[w].id
         \/ worker'[w].id \in store
      /\ worker'[w].pc \in RestoringPhases =>
           \/ worker[w].pc \in RestoringPhases /\ worker'[w].id = worker[w].id
           \/ inst[worker'[w].id].port # NoPort

SoundWorkers == \A w \in Workers : SoundWorker(w)

SoundSites ==
    /\ toRestore' \subseteq toRestore
    /\ \A h \in Hostnames : sites'[h].live => sites'[h].port # NoPort

Steady == SoundObjects /\ SoundPhases /\ SoundWorkers /\ SoundSites

Rest == NamesKnown /\ PortsKnown /\ FreshIsPending /\ RunningIsDeployed

\* Whatever saves, the file holds what the store held, or what it held before.
LEMMA FileAfterSave ==
    ASSUME Save \/ UNCHANGED file, TypeOK, store' \subseteq Ids, NEW i \in file'.ids
    PROVE  \/ i \in store' /\ file'.inst[i] = inst'[i]
           \/ i \in file.ids /\ file'.inst[i] = file.inst[i]
  BY DEF Save, Snapshot, TypeOK

\* A steady step keeps what is known of names and ports.
LEMMA SteadyStep ==
    ASSUME IInv, TypeOK', Steady
    PROVE  Rest'
<1> USE DEF IInv, Steady
<1>1. \A j \in Ids : Begun(j) => Begun(j)'
  BY DEF SoundPhases, SoundPhase, Begun, HandlerPhases, GoroutinePhases, TypeOK
<1>2. \A j \in store' : Begun(j)' /\ inst'[j].hostname \in Hostnames
  BY <1>1 DEF SoundObjects, Sound, NamesKnown, TypeOK, Begun, Host, HandlerPhases
<1>3. \A j \in Ids : inst'[j].hostname = inst[j].hostname
  BY DEF SoundObjects, Sound
<1>4. \A j \in Ids : inst[j].port # NoPort => inst'[j].port # NoPort
  BY DEF SoundObjects, Sound
<1>5. NamesKnown'
  <2>1. \A i \in Ids : pc'[i] \in HandlerPhases \cup GoroutinePhases => inst'[i].hostname \in Hostnames
    BY <1>3 DEF SoundPhases, SoundPhase, NamesKnown, Host, HandlerPhases, GoroutinePhases
  <2>2. \A i \in file'.ids : Begun(i)' /\ file'.inst[i].hostname \in Hostnames
    BY <1>1, <1>2, FileAfterSave DEF SoundObjects, NamesKnown, TypeOK
  <2>3. \A w \in Workers : worker'[w].pc # "idle" =>
          /\ worker'[w].id \in Ids /\ pc'[worker'[w].id] \notin {"new"} \cup HandlerPhases
          /\ inst'[worker'[w].id].hostname \in Hostnames
    BY <1>1, <1>2, <1>3 DEF SoundWorkers, SoundWorker, NamesKnown, Host, Begun, TypeOK
  <2>4. \A i \in toRestore' : Begun(i)' /\ inst'[i].hostname \in Hostnames
    BY <1>1, <1>3 DEF SoundSites, NamesKnown, Host, TypeOK
  <2> QED
    BY <1>2, <2>1, <2>2, <2>3, <2>4 DEF NamesKnown, Host, Begun
<1>6. PortsKnown'
  <2>1. \A i \in Ids : pc'[i] \in DeployedPhases => inst'[i].port # NoPort
    BY <1>4 DEF SoundPhases, SoundPhase, PortsKnown, DeployedPhases
  <2>2. \A w \in Workers : worker'[w].pc \in RestoringPhases => inst'[worker'[w].id].port # NoPort
    BY <1>4 DEF SoundWorkers, SoundWorker, PortsKnown, NamesKnown, TypeOK, RestoringPhases
  <2>3. \A i \in toRestore' : inst'[i].port # NoPort
    BY <1>4 DEF SoundSites, PortsKnown, TypeOK
  <2> QED
    BY <2>1, <2>2, <2>3 DEF PortsKnown, SoundSites, DeployedPhases, RestoringPhases
<1>7. FreshIsPending'
  BY DEF FreshIsPending, SoundPhases, SoundPhase, SoundObjects, Sound, Begun, HandlerPhases, GoroutinePhases
<1>8. RunningIsDeployed'
  <2>1. \A j \in store' : inst'[j].state = "running" => inst'[j].port # NoPort
    BY <1>4 DEF SoundObjects, Sound, RunningIsDeployed, FreshIsPending, Begun, HandlerPhases, TypeOK
  <2> QED
    BY <2>1, FileAfterSave DEF SoundObjects, RunningIsDeployed, TypeOK
<1> QED
  BY <1>5, <1>6, <1>7, <1>8 DEF Rest

-----------------------------------------------------------------------------
(* Every action but three is steady. *)

LEMMA KeptObjects == ASSUME UNCHANGED <<inst, store, file>> PROVE SoundObjects
  BY DEF SoundObjects, Sound

LEMMA KeptPhases == ASSUME UNCHANGED pc PROVE SoundPhases
  BY DEF SoundPhases, SoundPhase

LEMMA KeptWorkers == ASSUME UNCHANGED worker PROVE SoundWorkers
  BY DEF SoundWorkers, SoundWorker

LEMMA KeptSites == ASSUME IInv, UNCHANGED <<sites, toRestore>> PROVE SoundSites
  BY DEF SoundSites, IInv, PortsKnown

\* One object changes, and the change is saved.
LEMMA OneObject ==
    ASSUME TypeOK, NEW i \in Ids, NEW r, inst' = [inst EXCEPT ![i] = r],
           store' = store, Begun(i),
           Save \/ (UNCHANGED file /\ r.ip = inst[i].ip),
           r.hostname = inst[i].hostname, r.ip \in {inst[i].ip, TemplateIP},
           inst[i].port # NoPort => r.port # NoPort,
           r.state = "running" => inst[i].state = "running" \/ r.port # NoPort
    PROVE  SoundObjects
  BY DEF SoundObjects, Sound, TypeOK, Begun

\* A state is written, saved or not.
LEMMA ShowSound ==
    ASSUME TypeOK, NEW i \in Ids, NEW state, inst' = [inst EXCEPT ![i].state = state],
           store' = store, Save \/ UNCHANGED file, Begun(i),
           state = "running" => inst[i].port # NoPort
    PROVE  SoundObjects
<1>1. inst[i] \in Instance
  BY DEF TypeOK
<1> DEFINE r == [inst[i] EXCEPT !.state = state]
<1>2. /\ r.hostname = inst[i].hostname /\ r.port = inst[i].port /\ r.ip = inst[i].ip
      /\ r.state = state
  BY <1>1 DEF Instance
<1>3. inst' = [inst EXCEPT ![i] = r]
  OBVIOUS
<1> HIDE DEF r
<1> QED
  BY <1>2, <1>3, OneObject

\* mark.
LEMMA MarkSound ==
    ASSUME TypeOK, NEW i \in Ids, NEW state \in State, Mark(i, state), Begun(i),
           state = "running" => inst[i].port # NoPort
    PROVE  SoundObjects
  BY ShowSound DEF Mark

\* VirtualBox's column is written, saved or not.
LEMMA ColumnSound ==
    ASSUME TypeOK, NEW i \in Ids, NEW vbox, inst' = [inst EXCEPT ![i].vbox = vbox],
           store' = store, Save \/ UNCHANGED file, Begun(i)
    PROVE  SoundObjects
<1>1. inst[i] \in Instance
  BY DEF TypeOK
<1> DEFINE r == [inst[i] EXCEPT !.vbox = vbox]
<1>2. /\ r.hostname = inst[i].hostname /\ r.port = inst[i].port /\ r.ip = inst[i].ip
      /\ r.state = inst[i].state
  BY <1>1 DEF Instance
<1>3. inst' = [inst EXCEPT ![i] = r]
  OBVIOUS
<1> HIDE DEF r
<1> QED
  BY <1>2, <1>3, OneObject

\* RestoreSites writes both.
LEMMA SettleSound ==
    ASSUME TypeOK, NEW i \in Ids, NEW state, NEW vbox,
           inst' = [inst EXCEPT ![i] = [@ EXCEPT !.state = state, !.vbox = vbox]],
           store' = store, Save, Begun(i),
           state = "running" => inst[i].port # NoPort
    PROVE  SoundObjects
<1>1. inst[i] \in Instance
  BY DEF TypeOK
<1> DEFINE r == [inst[i] EXCEPT !.state = state, !.vbox = vbox]
<1>2. /\ r.hostname = inst[i].hostname /\ r.port = inst[i].port /\ r.ip = inst[i].ip
      /\ r.state = state
  BY <1>1 DEF Instance
<1>3. inst' = [inst EXCEPT ![i] = r]
  OBVIOUS
<1> HIDE DEF r
<1> QED
  BY <1>2, <1>3, OneObject

\* The step of one provision from one phase to another.
LEMMA GotoSound ==
    ASSUME TypeOK, NEW i \in Ids, NEW phase \in {"done"} \cup GoroutinePhases, Goto(i, phase),
           pc[i] \in {"allocated"} \cup GoroutinePhases,
           phase \in DeployedPhases => pc[i] \in DeployedPhases \/ inst'[i].port # NoPort
    PROVE  SoundPhases
  BY DEF SoundPhases, SoundPhase, Goto, TypeOK

\* The steps of one worker.
LEMMA FinishSound == ASSUME TypeOK, NEW w \in Workers, Finish(w) PROVE SoundWorkers
  BY DEF SoundWorkers, SoundWorker, Finish, IdleWorker, TypeOK

LEMMA ContinueSound ==
    ASSUME TypeOK, NEW w \in Workers, NEW step, Continue(w, step), worker[w].pc # "idle",
           step \in RestoringPhases => worker[w].pc \in RestoringPhases
    PROVE  SoundWorkers
<1>1. worker[w] \in Worker
  BY DEF TypeOK
<1>2. [worker[w] EXCEPT !.pc = step].id = worker[w].id /\ [worker[w] EXCEPT !.pc = step].pc = step
  BY <1>1 DEF Worker
<1> QED
  BY <1>2 DEF SoundWorkers, SoundWorker, Continue, TypeOK

LEMMA WorkingSound ==
    ASSUME TypeOK, NEW w \in Workers, NEW i, NEW op, NEW step, Working(w, op, i, step),
           i \in store \/ (worker[w].pc # "idle" /\ worker[w].id = i),
           step \in RestoringPhases => inst[i].port # NoPort
    PROVE  SoundWorkers
  BY DEF SoundWorkers, SoundWorker, Working, TypeOK

LEMMA StartInstanceSound ==
    ASSUME TypeOK, NEW w \in Workers, NEW i \in Ids, NEW op, StartInstance(w, op, i), Begun(i),
           i \in store
    PROVE  SoundObjects /\ SoundWorkers
<1>1. CASE Finish(w) /\ UNCHANGED <<inst, store, file>>
  BY <1>1, FinishSound, KeptObjects
<1>2. CASE inst[i].port # NoPort /\ Working(w, op, i, "restore") /\ Mark(i, "provisioning")
  BY <1>2, WorkingSound, MarkSound DEF State
<1> QED
  BY <1>1, <1>2 DEF StartInstance

\* Restore on an assigned port keeps live sites on assigned ports.
LEMMA PutSiteSound ==
    ASSUME IInv, NEW h \in Hostnames, NEW p, p # NoPort, PutSite(h, p), toRestore' \subseteq toRestore
    PROVE  SoundSites
  BY DEF SoundSites, IInv, PortsKnown, PutSite, TypeOK

LEMMA SteadyActions ==
    ASSUME IInv, Next
    PROVE  \/ Steady
           \/ \E i \in Ids : AllocateIP(i) \/ \E h \in Hostnames : CheckHostname(i, h)
           \/ Crash
<1>0. TypeOK /\ NamesKnown /\ PortsKnown
  BY DEF IInv
<1> USE <1>0
<1>1. ASSUME NEW i \in Ids, PutInstance(i) PROVE Steady
  <2>1. SoundObjects
    BY <1>1 DEF SoundObjects, Sound, PutInstance, Save, Goto, TypeOK
  <2>2. SoundPhases
    BY <1>1, GotoSound DEF PutInstance, DeployedPhases, GoroutinePhases
  <2> QED
    BY <1>1, <2>1, <2>2, KeptWorkers, KeptSites DEF Steady, PutInstance, served
<1>2. ASSUME NEW i \in Ids, MarkProvisioning(i) PROVE Steady
  <2>1. Begun(i)
    BY <1>2 DEF Begun, MarkProvisioning, HandlerPhases, GoroutinePhases
  <2>2. SoundObjects
    BY <1>2, <2>1, MarkSound DEF State, MarkProvisioning
  <2>3. SoundPhases
    BY <1>2, GotoSound DEF MarkProvisioning, DeployedPhases, GoroutinePhases
  <2> QED
    BY <1>2, <2>1, <2>2, <2>3, KeptWorkers, KeptSites DEF Steady, MarkProvisioning, served
<1>3. ASSUME NEW i \in Ids, MarkDeploying(i) PROVE Steady
  <2>1. Begun(i)
    BY <1>3 DEF Begun, MarkDeploying, HandlerPhases, GoroutinePhases
  <2>2. SoundObjects
    BY <1>3, <2>1, MarkSound DEF State, MarkDeploying
  <2>3. SoundPhases
    BY <1>3, GotoSound DEF MarkDeploying, DeployedPhases, GoroutinePhases
  <2> QED
    BY <1>3, <2>1, <2>2, <2>3, KeptWorkers, KeptSites DEF Steady, MarkDeploying, served
<1>4. ASSUME NEW i \in Ids, MarkCopying(i) PROVE Steady
  <2>1. Begun(i)
    BY <1>4 DEF Begun, MarkCopying, HandlerPhases, GoroutinePhases
  <2>2. SoundObjects
    BY <1>4, <2>1, MarkSound DEF State, MarkCopying
  <2>3. SoundPhases
    BY <1>4, GotoSound DEF MarkCopying, DeployedPhases, GoroutinePhases
  <2> QED
    BY <1>4, <2>1, <2>2, <2>3, KeptWorkers, KeptSites DEF Steady, MarkCopying, served
<1>5. ASSUME NEW i \in Ids, Deploy(i) PROVE Steady
  <2>1. Begun(i)
    BY <1>5 DEF Begun, Deploy, HandlerPhases, GoroutinePhases
  <2>2. PICK p \in Ports :
         /\ sites' = [sites EXCEPT ![Host(i)] =
                       [port |-> p, live |-> p \notin Listening([sites EXCEPT ![Host(i)] = NoSite])]]
         /\ inst' = [inst EXCEPT ![i] = [@ EXCEPT !.port = p, !.url = "local"]]
    BY <1>5, FreePortsType DEF Deploy
  <2>3. p # NoPort
    BY PortsAssumption
  <2>4. /\ [inst[i] EXCEPT !.port = p, !.url = "local"].hostname = inst[i].hostname
         /\ [inst[i] EXCEPT !.port = p, !.url = "local"].ip = inst[i].ip
         /\ [inst[i] EXCEPT !.port = p, !.url = "local"].state = inst[i].state
         /\ [inst[i] EXCEPT !.port = p, !.url = "local"].vbox = inst[i].vbox
         /\ [inst[i] EXCEPT !.port = p, !.url = "local"].port = p
    BY DEF TypeOK, Instance
  <2>5. SoundObjects
    BY <1>5, <2>1, <2>2, <2>3, <2>4, OneObject DEF Deploy
  <2>6. inst'[i].port # NoPort
    BY <2>2, <2>3, <2>4 DEF TypeOK
  <2>7. SoundPhases
    BY <1>5, <2>6, GotoSound DEF Deploy, GoroutinePhases
  <2>8. SoundSites
    BY <1>5, <2>2, <2>3 DEF SoundSites, PortsKnown, Deploy, TypeOK
  <2> QED
    BY <1>5, <2>1, <2>2, <2>3, <2>4, <2>5, <2>6, <2>7, <2>8, KeptWorkers DEF Steady, Deploy, served
<1>6. ASSUME NEW i \in Ids, DeployFails(i) PROVE Steady
  <2>1. Begun(i)
    BY <1>6 DEF Begun, DeployFails, HandlerPhases, GoroutinePhases
  <2>2. SoundObjects
    BY <1>6, <2>1, ShowSound DEF DeployFails
  <2>3. SoundPhases
    BY <1>6, GotoSound DEF DeployFails, DeployedPhases, GoroutinePhases
  <2>4. SoundSites
    BY <1>6 DEF SoundSites, PortsKnown, DeployFails, NoSite, TypeOK
  <2> QED
    BY <1>6, <2>1, <2>2, <2>3, <2>4, KeptWorkers DEF Steady, DeployFails, served
<1>7. ASSUME NEW i \in Ids, UseApache(i) PROVE Steady
  <2>1. Begun(i)
    BY <1>7 DEF Begun, UseApache, HandlerPhases, GoroutinePhases
  <2> DEFINE r == [inst[i] EXCEPT !.ip = TemplateIP, !.url = "fqdn", !.state = "provisioning"]
  <2>2. /\ r.hostname = inst[i].hostname /\ r.ip = TemplateIP /\ r.port = inst[i].port
        /\ r.state = "provisioning"
    BY DEF TypeOK, Instance
  <2>3. inst' = [inst EXCEPT ![i] = r] /\ store' = store /\ Save
    BY <1>7 DEF UseApache
  <2> HIDE DEF r
  <2>4. SoundObjects
    BY <2>1, <2>2, <2>3, OneObject
  <2>5. SoundPhases
    BY <1>7, GotoSound DEF UseApache, DeployedPhases, GoroutinePhases
  <2> QED
    BY <1>7, <2>4, <2>5, KeptWorkers, KeptSites DEF Steady, UseApache, served
<1>8. ASSUME NEW i \in Ids, UseFallback(i) PROVE Steady
  <2>1. Begun(i)
    BY <1>8 DEF Begun, UseFallback, HandlerPhases, GoroutinePhases
  <2>2. /\ [inst[i] EXCEPT !.state = "provisioning",
                             !.url = IF vhostBound THEN "fqdn" ELSE inst[i].url].hostname = inst[i].hostname
         /\ [inst[i] EXCEPT !.state = "provisioning",
                             !.url = IF vhostBound THEN "fqdn" ELSE inst[i].url].ip = inst[i].ip
         /\ [inst[i] EXCEPT !.state = "provisioning",
                             !.url = IF vhostBound THEN "fqdn" ELSE inst[i].url].port = inst[i].port
         /\ [inst[i] EXCEPT !.state = "provisioning",
                             !.url = IF vhostBound THEN "fqdn" ELSE inst[i].url].state = "provisioning"
    BY DEF TypeOK, Instance
  <2>3. SoundObjects
    BY <1>8, <2>1, <2>2, OneObject DEF UseFallback
  <2>4. SoundPhases
    BY <1>8, GotoSound DEF UseFallback, DeployedPhases, GoroutinePhases
  <2> QED
    BY <1>8, <2>1, <2>2, <2>3, <2>4, KeptWorkers, KeptSites DEF Steady, UseFallback, served
<1>9. ASSUME NEW i \in Ids, RegisterDNS(i) PROVE Steady
  <2>1. Begun(i)
    BY <1>9 DEF Begun, RegisterDNS, HandlerPhases, GoroutinePhases
  <2>2. inst[i].port # NoPort
    BY <1>9 DEF PortsKnown, RegisterDNS
  <2>3. SoundObjects
    BY <1>9, <2>1, ColumnSound DEF RegisterDNS
  <2>4. SoundPhases
    BY <1>9, GotoSound DEF RegisterDNS, DeployedPhases, GoroutinePhases
  <2> QED
    BY <1>9, <2>1, <2>2, <2>3, <2>4, KeptWorkers, KeptSites DEF Steady, RegisterDNS, served
<1>10. ASSUME NEW i \in Ids, RestoreSite(i) PROVE Steady
  <2>1. Begun(i) /\ Host(i) \in Hostnames /\ inst[i].port # NoPort
    BY <1>10 DEF RestoreSite, NamesKnown, PortsKnown
  <2>2. /\ [inst[i] EXCEPT !.state = "stopped"].hostname = inst[i].hostname
         /\ [inst[i] EXCEPT !.state = "stopped"].ip = inst[i].ip
         /\ [inst[i] EXCEPT !.state = "stopped"].port = inst[i].port
         /\ [inst[i] EXCEPT !.state = "stopped"].state = "stopped"
    BY DEF TypeOK, Instance
  <2>3. SoundObjects
    BY <1>10, <2>1, <2>2, OneObject, SettleSound DEF RestoreSite
  <2>4. SoundSites
    BY <1>10, <2>1, PutSiteSound DEF SoundSites, PortsKnown, RestoreSite
  <2> QED
    BY <1>10, <2>1, <2>2, <2>3, <2>4, KeptWorkers, KeptPhases DEF Steady, RestoreSite
<1>11. ASSUME NEW w \in Workers, NEW i \in Ids, RequestStart(w, i) PROVE Steady
  <2>1. Begun(i) /\ i \in store
    BY <1>11 DEF RequestStart, MayRequest, NamesKnown
  <2>2. SoundObjects /\ SoundWorkers
    BY <1>11, <2>1, StartInstanceSound DEF RequestStart
  <2> QED
    BY <1>11, <2>1, <2>2, KeptPhases, KeptSites DEF Steady, RequestStart, served
<1>12. ASSUME NEW w \in Workers, NEW i \in Ids, RequestStop(w, i) PROVE Steady
  <2>1. SoundObjects
    BY <1>12 DEF SoundObjects, Sound, RequestStop
  <2>2. SoundWorkers
    BY <1>12, WorkingSound DEF RequestStop, MayRequest, RestoringPhases
  <2> QED
    BY <1>12, <2>1, <2>2, KeptPhases, KeptSites DEF Steady, RequestStop, served
<1>13. ASSUME NEW w \in Workers, NEW i \in Ids, RequestRestart(w, i) PROVE Steady
  <2>1. SoundObjects
    BY <1>13 DEF SoundObjects, Sound, RequestRestart
  <2>2. SoundWorkers
    BY <1>13, WorkingSound DEF RequestRestart, MayRequest, RestoringPhases
  <2> QED
    BY <1>13, <2>1, <2>2, KeptPhases, KeptSites DEF Steady, RequestRestart, served
<1>14. ASSUME NEW w \in Workers, NEW i \in Ids, RequestDelete(w, i) PROVE Steady
  <2>1. Begun(i) /\ i \in store
    BY <1>14 DEF RequestDelete, MayRequest, NamesKnown
  <2>2. SoundObjects
    BY <1>14, <2>1, MarkSound DEF RequestDelete, State
  <2>3. SoundWorkers
    BY <1>14, <2>1, WorkingSound DEF RequestDelete, RestoringPhases
  <2> QED
    BY <1>14, <2>1, <2>2, <2>3, KeptPhases, KeptSites DEF Steady, RequestDelete, served
<1>15. ASSUME NEW w \in Workers, StopUnmap(w) PROVE Steady
  <2> DEFINE moved == [worker[w] EXCEPT !.pc = "shutdown",
                                        !.port = sites[Host(worker[w].id)].port]
  <2>1. moved.id = worker[w].id /\ moved.pc = "shutdown"
    BY DEF TypeOK, Worker
  <2>2. SoundWorkers
    <3>1. CASE sites[Host(worker[w].id)].live
      <4>1. worker' = [worker EXCEPT ![w] = moved]
        BY <1>15, <3>1 DEF StopUnmap
      <4>2. worker[w].pc # "idle"
        BY <1>15 DEF StopUnmap
      <4> HIDE DEF moved
      <4> QED
        BY <4>1, <4>2, <2>1 DEF SoundWorkers, SoundWorker, RestoringPhases, TypeOK
    <3>2. CASE ~sites[Host(worker[w].id)].live
      BY <1>15, <3>2, ContinueSound DEF StopUnmap, RestoringPhases
    <3> QED
      BY <3>1, <3>2
  <2>3. SoundSites
    BY <1>15 DEF StopUnmap, SoundSites, PortsKnown, NoSite, TypeOK
  <2> QED
    BY <1>15, <2>2, <2>3, KeptObjects, KeptPhases DEF Steady, StopUnmap
<1>16. ASSUME NEW w \in Workers, StopShutdown(w) PROVE Steady
  <2>1. /\ [worker[w] EXCEPT !.pc = "rmdir", !.port = NoPort].id = worker[w].id
        /\ [worker[w] EXCEPT !.pc = "rmdir", !.port = NoPort].pc = "rmdir"
    BY DEF TypeOK, Worker
  <2>2. SoundWorkers
    BY <1>16, <2>1 DEF StopShutdown, SoundWorkers, SoundWorker, RestoringPhases, TypeOK
  <2> QED
    BY <1>16, <2>2, KeptObjects, KeptPhases, KeptSites DEF Steady, StopShutdown
<1>17. ASSUME NEW w \in Workers, StopRemoveDir(w) PROVE Steady
  <2>1. SoundWorkers
    BY <1>17, ContinueSound DEF StopRemoveDir, RestoringPhases
  <2> QED
    BY <1>17, <2>1, KeptObjects, KeptPhases, KeptSites DEF Steady, StopRemoveDir
<1>18. ASSUME NEW w \in Workers, SettleStopped(w) PROVE Steady
  <2>1. PICK i \in Ids : i = worker[w].id /\ Begun(i)
    BY <1>18 DEF SettleStopped, NamesKnown
  <2>2. inst' = [inst EXCEPT ![i].state = "stopped"] /\ UNCHANGED <<store, file>>
    BY <1>18, <2>1 DEF SettleStopped
  <2>3. SoundObjects
    BY <2>1, <2>2, ShowSound
  <2>4. SoundWorkers
    BY <1>18, ContinueSound DEF SettleStopped, RestoringPhases
  <2> QED
    BY <1>18, <2>1, <2>2, <2>3, <2>4, KeptPhases, KeptSites DEF Steady, SettleStopped, served
<1>19. ASSUME NEW w \in Workers, RestartStart(w) PROVE Steady
  <2>1. worker[w].id \in Ids /\ Begun(worker[w].id)
    BY <1>19 DEF RestartStart, NamesKnown
  <2>2. SoundObjects /\ SoundWorkers
    BY <1>19, <2>1, StartInstanceSound, FinishSound, KeptObjects DEF RestartStart
  <2> QED
    BY <1>19, <2>1, <2>2, KeptPhases, KeptSites DEF Steady, RestartStart, served
<1>20. ASSUME NEW w \in Workers, RestoreForStart(w) PROVE Steady
  <2>1. Host(worker[w].id) \in Hostnames /\ inst[worker[w].id].port # NoPort
    BY <1>20 DEF RestoreForStart, NamesKnown, PortsKnown
  <2>2. SoundWorkers
    BY <1>20, ContinueSound DEF RestoreForStart, RestoringPhases
  <2>3. SoundSites
    BY <1>20, <2>1, PutSiteSound, KeptSites DEF RestoreForStart
  <2> QED
    BY <1>20, <2>1, <2>2, <2>3, KeptObjects, KeptPhases DEF Steady, RestoreForStart
<1>21. ASSUME NEW w \in Workers, SettleStarted(w) PROVE Steady
  <2>1. PICK i \in Ids : i = worker[w].id /\ Begun(i)
    BY <1>21 DEF SettleStarted, NamesKnown
  <2>2. worker[w].pc = "online" => inst[i].port # NoPort
    BY <2>1 DEF PortsKnown
  <2>3. UNCHANGED <<store, file>>
    BY <1>21 DEF SettleStarted
  <2>4. \/ worker[w].pc = "online" /\ inst' = [inst EXCEPT ![i].state = "running"]
        \/ inst' = [inst EXCEPT ![i].state = "failed"]
    BY <1>21, <2>1 DEF SettleStarted
  <2>5. SoundObjects
    BY <2>1, <2>2, <2>3, <2>4, ShowSound
  <2>6. SoundWorkers
    BY <1>21, ContinueSound DEF SettleStarted, RestoringPhases
  <2> QED
    BY <1>21, <2>1, <2>2, <2>3, <2>4, <2>5, <2>6, KeptPhases, KeptSites DEF Steady, SettleStarted, served
<1>22. ASSUME NEW w \in Workers, DeleteRecord(w) PROVE Steady
  <2>1. SoundWorkers
    BY <1>22, ContinueSound DEF DeleteRecord, RestoringPhases
  <2> QED
    BY <1>22, <2>1, KeptObjects, KeptPhases, KeptSites DEF Steady, DeleteRecord, served
<1>23. ASSUME NEW w \in Workers, DeleteRemoteDir(w) PROVE Steady
  <2>1. SoundWorkers
    BY <1>23, ContinueSound DEF DeleteRemoteDir, RestoringPhases
  <2> QED
    BY <1>23, <2>1, KeptObjects, KeptPhases, KeptSites DEF Steady, DeleteRemoteDir, served
<1>24. ASSUME NEW w \in Workers, EraseInstance(w) PROVE Steady
  <2>1. PICK i \in Ids : i = worker[w].id
    BY <1>24 DEF EraseInstance, NamesKnown
  <2>2. inst' = inst /\ store' = store \ {i} /\ Save
    BY <1>24, <2>1 DEF EraseInstance
  <2>3. \A j \in Ids \ {i} : inst'[j] = inst[j] /\ (j \in store' <=> j \in store)
    BY <2>2
  <2>4. SoundObjects
    BY <2>2, <2>3 DEF SoundObjects, Sound
  <2>5. SoundWorkers
    BY <1>24, FinishSound DEF EraseInstance
  <2> QED
    BY <1>24, <2>4, <2>5, KeptPhases, KeptSites DEF Steady, EraseInstance, served
<1>25. ASSUME NEW i \in Ids, FailColumn(i) PROVE Steady
  <2>1. Begun(i)
    BY <1>25 DEF Begun, FailColumn, HandlerPhases
  <2>2. SoundObjects
    BY <1>25, <2>1, ColumnSound DEF FailColumn
  <2>3. SoundPhases
    BY <1>25, GotoSound DEF FailColumn, DeployedPhases, GoroutinePhases
  <2> QED
    BY <1>25, <2>2, <2>3, KeptWorkers, KeptSites DEF Steady, FailColumn, served
<1>26. ASSUME NEW i \in Ids, MarkRunning(i) PROVE Steady
  <2>1. Begun(i) /\ inst[i].port # NoPort
    BY <1>26 DEF Begun, MarkRunning, HandlerPhases, PortsKnown
  <2>2. SoundObjects
    BY <1>26, <2>1, MarkSound DEF State, MarkRunning
  <2>3. SoundPhases
    BY <1>26, GotoSound DEF MarkRunning, DeployedPhases, GoroutinePhases
  <2> QED
    BY <1>26, <2>2, <2>3, KeptWorkers, KeptSites DEF Steady, MarkRunning, served
<1>27. ASSUME NEW w \in Workers, SettleColumn(w) PROVE Steady
  <2>1. PICK i \in Ids : i = worker[w].id /\ Begun(i)
    BY <1>27 DEF SettleColumn, NamesKnown
  <2>2. SoundObjects
    BY <1>27, <2>1, ColumnSound DEF SettleColumn
  <2>3. SoundWorkers
    BY <1>27, FinishSound DEF SettleColumn
  <2> QED
    BY <1>27, <2>2, <2>3, KeptPhases, KeptSites DEF Steady, SettleColumn, served
<1> QED
  BY <1>1, <1>2, <1>3, <1>4, <1>5, <1>6, <1>7, <1>8, <1>9,
     <1>10, <1>11, <1>12, <1>13, <1>14, <1>15, <1>16, <1>17, <1>18,
     <1>19, <1>20, <1>21, <1>22, <1>23, <1>24, <1>25, <1>26, <1>27
     DEF Next, Request, Handler, RunProvision, WorkerStep

-----------------------------------------------------------------------------
(* The three others, and the theorems. *)

\* A request under way touches an object nobody else has seen.
LEMMA HandlerStep ==
    ASSUME IInv, NEW i \in Ids, NEW r,
           inst' = [inst EXCEPT ![i] = r], ~Begun(i),
           pc' \in [Ids -> Phases],
           \A j \in Ids \ {i} : pc'[j] = pc[j],
           \/ pc'[i] = "checked" /\ r.hostname \in Hostnames
           \/ pc'[i] = "allocated" /\ r.hostname \in Hostnames /\ r.state = "pending"
           \/ pc'[i] = "new",
           UNCHANGED <<store, file, worker, sites, toRestore>>
    PROVE  Rest'
<1> USE DEF IInv
<1>1. \A j \in Ids \ {i} : inst'[j] = inst[j] /\ (Begun(j) => Begun(j)')
  BY DEF TypeOK, Begun
<1>2. inst'[i] = r
  BY DEF TypeOK
<1>3. i \notin store /\ i \notin file.ids /\ i \notin toRestore
  BY DEF NamesKnown
<1>4. \A w \in Workers : worker[w].pc # "idle" => worker[w].id \in Ids \ {i}
  BY DEF NamesKnown
<1>5. NamesKnown'
  <2>1. \A j \in Ids : pc'[j] \in HandlerPhases \cup GoroutinePhases => inst'[j].hostname \in Hostnames
    BY <1>1, <1>2 DEF NamesKnown, Host, HandlerPhases, GoroutinePhases
  <2>2. \A j \in store : Begun(j)' /\ inst'[j].hostname \in Hostnames
    BY <1>1, <1>3 DEF NamesKnown, Host, TypeOK
  <2>3. \A j \in file.ids : Begun(j)'
    BY <1>1, <1>3 DEF NamesKnown, TypeOK
  <2>4. \A w \in Workers : worker[w].pc # "idle" =>
          Begun(worker[w].id)' /\ inst'[worker[w].id].hostname \in Hostnames
    BY <1>1, <1>4 DEF NamesKnown, Host, Begun
  <2>5. \A j \in toRestore : Begun(j)' /\ inst'[j].hostname \in Hostnames
    BY <1>1, <1>3 DEF NamesKnown, Host, TypeOK
  <2> QED
    BY <2>1, <2>2, <2>3, <2>4, <2>5 DEF NamesKnown, Host, Begun
<1>6. PortsKnown'
  BY <1>1, <1>3, <1>4 DEF PortsKnown, TypeOK
<1>7. FreshIsPending'
  BY <1>1, <1>2 DEF FreshIsPending
<1>8. RunningIsDeployed'
  BY <1>1, <1>3 DEF RunningIsDeployed, TypeOK
<1> QED
  BY <1>5, <1>6, <1>7, <1>8 DEF Rest

LEMMA CheckHostnameStep ==
    ASSUME IInv, TypeOK', NEW i \in Ids, NEW h \in Hostnames, CheckHostname(i, h)
    PROVE  Rest'
<1> DEFINE r == [inst[i] EXCEPT !.hostname = h]
<1>1. r.hostname = h
  BY DEF IInv, TypeOK, Instance
<1>2. inst' = [inst EXCEPT ![i] = r] /\ ~Begun(i)
  BY DEF CheckHostname, Begun
<1>3. pc' \in [Ids -> Phases] /\ pc'[i] = "checked" /\ \A j \in Ids \ {i} : pc'[j] = pc[j]
  BY DEF CheckHostname, Goto, IInv, TypeOK
<1>4. UNCHANGED <<store, file, worker, sites, toRestore>>
  BY DEF CheckHostname, served
<1> HIDE DEF r
<1> QED
  BY <1>1, <1>2, <1>3, <1>4, HandlerStep

LEMMA AllocateIPStep ==
    ASSUME IInv, TypeOK', NEW i \in Ids, AllocateIP(i)
    PROVE  Rest'
<1>1. UNCHANGED <<store, file, worker, sites, toRestore>> /\ ~Begun(i)
  BY DEF AllocateIP, Begun, served, HandlerPhases
<1>2. pc' \in [Ids -> Phases] /\ \A j \in Ids \ {i} : pc'[j] = pc[j]
  BY DEF AllocateIP, Goto, IInv, TypeOK
<1>3. CASE \E ip \in FreeIPs : inst' = [inst EXCEPT ![i] =
             [@ EXCEPT !.ip = ip, !.state = "pending", !.vbox = "starting", !.url = "fqdn"]]
           /\ Goto(i, "allocated")
  <2>1. PICK ip \in FreeIPs : inst' = [inst EXCEPT ![i] =
             [@ EXCEPT !.ip = ip, !.state = "pending", !.vbox = "starting", !.url = "fqdn"]]
    BY <1>3
  <2> DEFINE r == [inst[i] EXCEPT !.ip = ip, !.state = "pending", !.vbox = "starting",
                                  !.url = "fqdn"]
  <2>2. inst[i].hostname \in Hostnames
    BY DEF AllocateIP, IInv, NamesKnown, Host, HandlerPhases
  <2>3. r.hostname \in Hostnames /\ r.state = "pending"
    BY <2>2 DEF IInv, TypeOK, Instance
  <2>4. inst' = [inst EXCEPT ![i] = r]
    BY <2>1
  <2>5. pc'[i] = "allocated"
    BY <1>3 DEF Goto, IInv, TypeOK
  <2> HIDE DEF r
  <2> QED
    BY <1>1, <1>2, <2>3, <2>4, <2>5, HandlerStep
<1>4. CASE inst' = [inst EXCEPT ![i] = NoInstance] /\ Goto(i, "new")
  <2>1. pc'[i] = "new"
    BY <1>4 DEF Goto, IInv, TypeOK
  <2> QED
    BY <1>1, <1>2, <1>4, <2>1, HandlerStep
<1> QED
  BY <1>3, <1>4 DEF AllocateIP

\* A restart finds in the file what it needs to go on.
LEMMA CrashStep ==
    ASSUME IInv, TypeOK', Crash
    PROVE  Rest'
<1> USE DEF IInv
<1>1. \A i \in file.ids : Begun(i)' /\ inst'[i].hostname \in Hostnames
  BY DEF Crash, NamesKnown, Begun, HandlerPhases, TypeOK
<1>2. \A i \in Ids : pc'[i] \in {"new", "done"}
  BY DEF Crash, TypeOK
<1>3. \A w \in Workers : worker'[w].pc = "idle"
  BY DEF Crash, IdleWorker
<1>4. NamesKnown'
  BY <1>1, <1>2, <1>3 DEF NamesKnown, Host, Crash, HandlerPhases, GoroutinePhases
<1>5. PortsKnown'
  BY <1>2, <1>3 DEF PortsKnown, Crash, NoSite
<1>6. FreshIsPending' /\ RunningIsDeployed'
  BY <1>2 DEF FreshIsPending, RunningIsDeployed, Crash
<1> QED
  BY <1>4, <1>5, <1>6 DEF Rest

\* Nothing is known of anything yet.
LEMMA InitIInv == Init => IInv
<1> SUFFICES ASSUME Init PROVE IInv
  OBVIOUS
<1>1. TypeOK
  <2>1. file \in [ids : SUBSET Ids, inst : [Ids -> Instance]]
    BY SnapshotType, NoInstanceType DEF Init
  <2>2. IdleWorker \in Worker
    BY DEF IdleWorker, Worker, WorkerPhases
  <2> QED
    BY <2>1, <2>2, NoInstanceType, NoSiteType, SwitchesAssumption DEF Init, TypeOK, Phases
<1>2. NamesKnown /\ PortsKnown
  BY DEF Init, NamesKnown, PortsKnown, Snapshot, IdleWorker, NoSite, HandlerPhases, GoroutinePhases
<1>3. FreshIsPending /\ RunningIsDeployed
  BY DEF Init, FreshIsPending, RunningIsDeployed, Snapshot
<1> QED
  BY <1>1, <1>2, <1>3 DEF IInv

\* The invariant is inductive.
LEMMA NextIInv == IInv /\ [Next]_vars => IInv'
<1> SUFFICES ASSUME IInv, [Next]_vars PROVE IInv'
  OBVIOUS
<1>1. TypeOK'
  BY TypeStep
<1>2. CASE UNCHANGED vars
  BY <1>2 DEF IInv, vars, TypeOK, NamesKnown, PortsKnown, FreshIsPending, RunningIsDeployed,
              Begun, Host
<1>3. CASE Next
  <2>1. Rest'
    BY <1>1, <1>3, SteadyActions, SteadyStep, AllocateIPStep, CheckHostnameStep, CrashStep
  <2> QED
    BY <1>1, <2>1 DEF IInv, Rest
<1> QED
  BY <1>2, <1>3

\* IInv holds in every behaviour.
THEOREM Invariance == Spec => []IInv
  BY InitIInv, NextIInv, PTL DEF Spec

\* Every variable keeps its type, for any sets of ids, names and workers, with
\* crashes, failing saves and any overlap of requests.
THEOREM TypeCorrect == Spec => []TypeOK
<1>1. IInv => TypeOK
  BY DEF IInv
<1> QED
  BY <1>1, Invariance, PTL

\* What is shown as running, now or after a restart, has been deployed.
THEOREM RunningDeployed == Spec => []RunningIsDeployed
<1>1. IInv => RunningIsDeployed
  BY DEF IInv
<1> QED
  BY <1>1, Invariance, PTL

=============================================================================
