-------------------------- MODULE WebServers_proofs --------------------------
(* Servers, content and records of WebInstances, and the life of an        *)
(* instance, when users wait for the work on an instance to end before they *)
(* ask for more: no server is left that nobody can close, a name that is    *)
(* free has nothing of the last instance that had it, and what the          *)
(* dashboard shows goes with what is being done (Lifecycle).                *)
EXTENDS WebLeases_proofs

\* What an instance is worked on by: its provision, one goroutine of an
\* operation, or RestoreSites; and only while it is stored.
Attended ==
    /\ \A i \in Ids : pc[i] \in GoroutinePhases => i \in store
    /\ \A w \in Workers : worker[w].pc # "idle" =>
         /\ worker[w].id \in store
         /\ pc[worker[w].id] = "done"
         /\ ~Booting
         /\ \A x \in Workers : worker[x].pc # "idle" /\ worker[x].id = worker[w].id => x = w
    /\ \A i \in toRestore : i \in store /\ pc[i] = "done"

\* From the time an entry left the table, or was found not to be there, until
\* its instance is done with, the name has none.
Unmapped == {"restore", "shutdown", "rmdir", "settle", "start", "undns", "unwww", "erase"}

SInv ==
    /\ NoLeakedServer
    /\ \A w \in Workers : worker[w].pc \in Unmapped => sites[Host(worker[w].id)] = NoSite
    /\ \A i \in toRestore : sites[Host(i)] = NoSite

Deleting == {"undns", "unwww", "erase"}

\* A deletion has removed what the steps behind it remove.
Cleared ==
    \A w \in Workers :
        /\ worker[w].pc \in Deleting => dir[Host(worker[w].id)] = None
        /\ worker[w].pc \in {"unwww", "erase"} => dnsA[Host(worker[w].id)] = NoIP
        /\ worker[w].pc = "erase" => www[Host(worker[w].id)] = None

KInv ==
    /\ NothingLeft
    /\ Cleared
    /\ TemplateIP = NoIP => /\ \A h \in Hostnames : www[h] = None
                           /\ \A i \in Ids : pc[i] # "copying"

-----------------------------------------------------------------------------
(* One party at a time works on an instance.                                *)

\* No step but a crash renames what is stored.
LEMMA HostsStay ==
    ASSUME IInv, Next, ~Crash
    PROVE  \A j \in store : inst'[j].hostname = inst[j].hostname
<1>1. store \subseteq Ids
  BY DEF IInv, TypeOK
<1>2. CASE Steady
  BY <1>1, <1>2 DEF Steady, SoundObjects, Sound
<1>3. ASSUME NEW i \in Ids, AllocateIP(i) \/ \E h \in Hostnames : CheckHostname(i, h)
      PROVE  \A j \in store : inst'[j] = inst[j]
  <2>1. i \notin store
    BY <1>3 DEF IInv, NamesKnown, Begun, HandlerPhases, AllocateIP, CheckHostname
  <2> QED
    BY <1>1, <1>3, <2>1 DEF AllocateIP, CheckHostname, IInv, TypeOK
<1> QED
  BY <1>2, <1>3, SteadyActions

\* A goroutine goes on, ends, or is started on an instance nobody works on.
LEMMA OneWorker ==
    ASSUME IInv, Attended, NEW w \in Workers, UNCHANGED <<store, pc, toRestore>>,
           \A x \in Workers \ {w} : worker'[x] = worker[x],
           \/ worker'[w].pc = "idle"
           \/ worker[w].pc # "idle" /\ worker'[w].id = worker[w].id
           \/ /\ worker'[w].id \in store
              /\ pc[worker'[w].id] = "done"
              /\ ~Booting
              /\ \A x \in Workers : worker[x].id # worker'[w].id
    PROVE  Attended'
<1>1. ASSUME NEW x \in Workers, worker'[x].pc # "idle"
      PROVE  /\ worker'[x].id \in store
             /\ pc[worker'[x].id] = "done"
             /\ ~Booting
             /\ \A y \in Workers : worker'[y].pc # "idle" /\ worker'[y].id = worker'[x].id => y = x
  BY <1>1 DEF Attended
<1> QED
  BY <1>1 DEF Attended, Booting

\* The provision of one instance goes on.
LEMMA OneProvision ==
    ASSUME IInv, Attended, NEW i \in Ids, UNCHANGED <<worker, toRestore>>,
           store \subseteq store', pc[i] # "done",
           \A j \in Ids \ {i} : pc'[j] = pc[j],
           pc'[i] \in GoroutinePhases => i \in store'
    PROVE  Attended'
<1>1. store \subseteq Ids
  BY DEF IInv, TypeOK
<1>2. \A j \in store : pc[j] = "done" => pc'[j] = "done"
  BY <1>1
<1> QED
  BY <1>1, <1>2 DEF Attended, Booting

\* What a goroutine does to its own record.
LEMMA ContinueWorker ==
    ASSUME TypeOK, NEW w \in Workers, NEW step, Continue(w, step)
    PROVE  /\ worker'[w].id = worker[w].id /\ worker'[w].pc = step
           /\ \A x \in Workers \ {w} : worker'[x] = worker[x]
  BY DEF TypeOK, Continue, Worker

LEMMA FinishWorker ==
    ASSUME TypeOK, NEW w \in Workers, Finish(w)
    PROVE  /\ worker'[w].pc = "idle"
           /\ \A x \in Workers \ {w} : worker'[x] = worker[x]
  BY DEF TypeOK, Finish, IdleWorker

LEMMA WorkingWorker ==
    ASSUME TypeOK, NEW w \in Workers, NEW op, NEW i, NEW step, Working(w, op, i, step)
    PROVE  /\ worker'[w].id = i /\ worker'[w].pc = step
           /\ \A x \in Workers \ {w} : worker'[x] = worker[x]
  BY DEF TypeOK, Working

LEMMA StartWorker ==
    ASSUME TypeOK, NEW w \in Workers, NEW i, NEW op, StartInstance(w, op, i)
    PROVE  /\ \/ worker'[w].pc = "idle"
              \/ worker'[w].id = i /\ worker'[w].pc = "restore" /\ sites[Host(i)] = NoSite
           /\ \A x \in Workers \ {w} : worker'[x] = worker[x]
           /\ store' = store
  BY FinishWorker, WorkingWorker DEF StartInstance, HasSite, Mark

LEMMA UnmapWorker ==
    ASSUME TypeOK, NEW w \in Workers, StopUnmap(w)
    PROVE  /\ worker'[w].id = worker[w].id
           /\ \A x \in Workers \ {w} : worker'[x] = worker[x]
           /\ \/ /\ sites[Host(worker[w].id)].live
                 /\ worker'[w].pc = "shutdown"
                 /\ worker'[w].port = sites[Host(worker[w].id)].port
                 /\ detached' = detached \cup {sites[Host(worker[w].id)].port}
              \/ worker'[w].pc = "rmdir" /\ detached' = detached
<1>1. CASE sites[Host(worker[w].id)].live
  BY <1>1 DEF StopUnmap, TypeOK, Worker
<1>2. CASE ~sites[Host(worker[w].id)].live
  BY <1>2, ContinueWorker DEF StopUnmap
<1> QED
  BY <1>1, <1>2

LEMMA ShutdownWorker ==
    ASSUME TypeOK, NEW w \in Workers, StopShutdown(w)
    PROVE  /\ worker'[w].id = worker[w].id /\ worker'[w].pc = "rmdir"
           /\ \A x \in Workers \ {w} : worker'[x] = worker[x]
  BY DEF StopShutdown, TypeOK, Worker

LEMMA AttendedStep ==
    ASSUME ~OverlappingOps, IInv, Attended, Next
    PROVE  Attended'
<1>0. TypeOK /\ NamesKnown /\ store \subseteq Ids
  BY DEF IInv, TypeOK
<1> USE <1>0
<1>1. ASSUME NEW i \in Ids, AllocateIP(i) \/ \E h \in Hostnames : CheckHostname(i, h)
      PROVE  Attended'
  <2>1. UNCHANGED <<store, worker, toRestore>> /\ i \notin store
    BY <1>1 DEF AllocateIP, CheckHostname, Begun, HandlerPhases, NamesKnown
  <2>2. \A j \in Ids \ {i} : pc'[j] = pc[j]
    BY <1>1 DEF AllocateIP, CheckHostname, Goto, TypeOK
  <2>3. pc'[i] \notin GoroutinePhases
    BY <1>1 DEF AllocateIP, CheckHostname, Goto, TypeOK, GoroutinePhases
  <2>4. \A j \in Ids : pc'[j] \in GoroutinePhases => j \in store
    BY <2>2, <2>3 DEF Attended
  <2>5. \A j \in store : pc'[j] = pc[j]
    BY <2>1, <2>2
  <2> QED
    BY <2>1, <2>4, <2>5 DEF Attended, Booting
<1>2. ASSUME NEW i \in Ids, PutInstance(i) PROVE Attended'
  <2>1. \A j \in Ids \ {i} : pc'[j] = pc[j]
    BY <1>2 DEF PutInstance, Goto, TypeOK
  <2> QED
    BY <1>2, <2>1, OneProvision DEF PutInstance
<1>3. ASSUME NEW i \in Ids, RunProvision(i) PROVE Attended'
  <2>1. UNCHANGED <<store, worker, toRestore>> /\ pc[i] \in GoroutinePhases
    BY <1>3 DEF RunProvision, MarkProvisioning, MarkDeploying, Deploy, DeployFails, FailColumn,
                MarkCopying, UseApache, UseFallback, RegisterDNS, MarkRunning, Mark, GoroutinePhases
  <2>2. \A j \in Ids \ {i} : pc'[j] = pc[j]
    BY <1>3 DEF RunProvision, MarkProvisioning, MarkDeploying, Deploy, DeployFails, FailColumn,
                MarkCopying, UseApache, UseFallback, RegisterDNS, MarkRunning, Goto, TypeOK
  <2>3. i \in store /\ pc[i] # "done"
    BY <2>1 DEF Attended, GoroutinePhases
  <2> QED
    BY <2>1, <2>2, <2>3, OneProvision
<1>4. ASSUME NEW w \in Workers, NEW i \in Ids,
             RequestStart(w, i) \/ RequestStop(w, i) \/ RequestRestart(w, i) \/ RequestDelete(w, i)
      PROVE  Attended'
  <2>1. /\ UNCHANGED <<store, pc, toRestore>>
        /\ i \in store /\ pc[i] = "done" /\ ~Booting /\ \A x \in Workers : worker[x].id # i
    BY <1>4, StartWorker DEF RequestStart, RequestStop, RequestRestart, RequestDelete,
                MayRequest, Busy, Mark
  <2>2. /\ worker'[w].pc = "idle" \/ worker'[w].id = i
        /\ \A x \in Workers \ {w} : worker'[x] = worker[x]
    BY <1>4, StartWorker, WorkingWorker DEF RequestStart, RequestStop, RequestRestart, RequestDelete
  <2> QED
    BY <2>1, <2>2, OneWorker
<1>5. ASSUME NEW w \in Workers, WorkerStep(w), ~EraseInstance(w) PROVE Attended'
  <2>1. UNCHANGED <<store, pc, toRestore>> /\ worker[w].pc # "idle"
    BY <1>5, StartWorker DEF WorkerStep, StopUnmap, StopShutdown, StopRemoveDir, SettleStopped,
                RestartStart, RestoreForStart, SettleStarted, SettleColumn, DeleteRecord,
                DeleteRemoteDir
  <2>2. \A x \in Workers \ {w} : worker'[x] = worker[x]
    BY <1>5, ContinueWorker, FinishWorker, StartWorker, UnmapWorker, ShutdownWorker
       DEF WorkerStep, StopRemoveDir, SettleStopped,
           RestartStart, RestoreForStart, SettleStarted, SettleColumn, DeleteRecord,
           DeleteRemoteDir
  <2>3. worker'[w].pc = "idle" \/ worker'[w].id = worker[w].id
    BY <1>5, ContinueWorker, FinishWorker, StartWorker, UnmapWorker, ShutdownWorker
       DEF WorkerStep, StopRemoveDir, SettleStopped,
           RestartStart, RestoreForStart, SettleStarted, SettleColumn, DeleteRecord,
           DeleteRemoteDir
  <2> QED
    BY <2>1, <2>2, <2>3, OneWorker
<1>6. ASSUME NEW w \in Workers, EraseInstance(w) PROVE Attended'
  <2>1. UNCHANGED <<pc, toRestore>> /\ store' = store \ {worker[w].id} /\ worker[w].pc # "idle"
    BY <1>6 DEF EraseInstance
  <2>2. worker'[w].pc = "idle" /\ \A x \in Workers \ {w} : worker'[x] = worker[x]
    BY <1>6, FinishWorker DEF EraseInstance
  <2>3. pc[worker[w].id] = "done" /\ ~Booting
    BY <2>1 DEF Attended
  <2>4. \A x \in Workers : worker'[x].pc # "idle" => worker'[x] = worker[x] /\ worker[x].id # worker[w].id
    BY <2>1, <2>2 DEF Attended
  <2> QED
    BY <2>1, <2>3, <2>4 DEF Attended, Booting, GoroutinePhases
<1>7. ASSUME NEW i \in Ids, RestoreSite(i) PROVE Attended'
  BY <1>7 DEF RestoreSite, Attended, Booting
<1>8. CASE Crash
  <2>1. \A w \in Workers : worker'[w].pc = "idle"
    BY <1>8 DEF Crash, IdleWorker
  <2>2. \A i \in Ids : pc'[i] \notin GoroutinePhases
    BY <1>8 DEF Crash, GoroutinePhases
  <2>3. \A i \in toRestore' : i \in store' /\ pc'[i] = "done"
    BY <1>8 DEF Crash, NamesKnown, Begun, HandlerPhases, TypeOK
  <2> QED
    BY <2>1, <2>2, <2>3 DEF Attended
<1> QED
  BY <1>1, <1>2, <1>3, <1>4, <1>5, <1>6, <1>7, <1>8 DEF Next, Request, Handler

-----------------------------------------------------------------------------
(* No server is left that nobody can close.                                 *)

\* Two parties that work, or wait to be restored, have names of their own.
LEMMA OwnName ==
    ASSUME IInv, UInv, NEW i \in store, NEW j \in store, i # j
    PROVE  inst[i].hostname # inst[j].hostname
  BY DEF UInv, Exclusive, UniqueHostnames, UniqueHostnamesIn

\* A step that touches neither the table nor a server to be closed.
LEMMA QuietStep ==
    ASSUME IInv, Attended, SInv, UNCHANGED <<sites, detached>>, toRestore' \subseteq toRestore,
           \A j \in store : inst'[j].hostname = inst[j].hostname,
           \A w \in Workers : worker[w].pc = "shutdown" => worker'[w] = worker[w],
           \A w \in Workers : worker'[w].pc \in Unmapped =>
             /\ worker'[w].id \in store
             /\ \/ worker[w].pc \in Unmapped /\ worker'[w].id = worker[w].id
                \/ sites[inst[worker'[w].id].hostname] = NoSite
    PROVE  SInv'
<1>1. NoLeakedServer'
  BY DEF SInv, NoLeakedServer
<1>2. \A w \in Workers : worker'[w].pc \in Unmapped => sites'[inst'[worker'[w].id].hostname] = NoSite
  BY DEF SInv, Host
<1>3. \A i \in toRestore' : sites'[inst'[i].hostname] = NoSite
  BY DEF SInv, Host, Attended
<1> QED
  BY <1>1, <1>2, <1>3 DEF SInv, Host

\* The entry of one name, whose instance i is worked on, is replaced, and no
\* server it had is left behind.
LEMMA OneSite ==
    ASSUME IInv, UInv, Attended, SInv, NEW i \in store,
           \A j \in store : inst'[j].hostname = inst[j].hostname,
           \A h \in Hostnames \ {inst[i].hostname} : sites'[h] = sites[h],
           UNCHANGED detached, toRestore' \subseteq toRestore \ {i},
           \A w \in Workers :
             \/ worker'[w] = worker[w] /\ (worker[w].pc \in Unmapped => worker[w].id # i)
             \/ worker[w].pc # "shutdown" /\ worker'[w].pc \notin Unmapped
    PROVE  SInv'
<1>1. NoLeakedServer'
  BY DEF SInv, NoLeakedServer
<1>2. \A j \in store \ {i} : sites'[inst'[j].hostname] = sites[inst[j].hostname]
  BY OwnName DEF IInv, NamesKnown, Host
<1>3. \A w \in Workers : worker'[w].pc \in Unmapped => sites'[inst'[worker'[w].id].hostname] = NoSite
  BY <1>2 DEF SInv, Host, Attended, Unmapped
<1>4. \A j \in toRestore' : sites'[inst'[j].hostname] = NoSite
  BY <1>2 DEF SInv, Host, Attended
<1> QED
  BY <1>1, <1>3, <1>4 DEF SInv, Host

LEMMA ServerStep ==
    ASSUME IInv, UInv, Attended, SInv, Next
    PROVE  SInv'
<1>0. TypeOK /\ NamesKnown /\ store \subseteq Ids
  BY DEF IInv, TypeOK
<1> USE <1>0
<1>1. CASE Crash
  <2>1. /\ detached' = {} /\ toRestore' \subseteq file.ids
        /\ \A h \in Hostnames : sites'[h] = NoSite
        /\ \A i \in file.ids : inst'[i].hostname \in Hostnames
        /\ \A w \in Workers : worker'[w].pc = "idle"
    BY <1>1 DEF Crash, NamesKnown, IdleWorker
  <2> QED
    BY <2>1 DEF SInv, NoLeakedServer, Host, Unmapped
<1> SUFFICES ASSUME ~Crash PROVE SInv'
  BY <1>1
<1>2. \A j \in store : inst'[j].hostname = inst[j].hostname
  BY HostsStay
<1>3. ASSUME NEW i \in Ids,
             \/ AllocateIP(i) \/ PutInstance(i) \/ \E h \in Hostnames : CheckHostname(i, h)
             \/ MarkProvisioning(i) \/ MarkDeploying(i) \/ MarkCopying(i)
             \/ UseApache(i) \/ UseFallback(i) \/ RegisterDNS(i) \/ MarkRunning(i) \/ FailColumn(i)
      PROVE  SInv'
  <2>1. UNCHANGED <<sites, detached, worker, toRestore>>
    BY <1>3 DEF AllocateIP, PutInstance, CheckHostname, MarkProvisioning, MarkDeploying,
                MarkCopying, UseApache, UseFallback, RegisterDNS, MarkRunning, FailColumn, served
  <2>2. \A w \in Workers : worker[w].pc \in Unmapped => worker[w].id \in store
    BY DEF Attended, Unmapped
  <2> QED
    BY <1>2, <2>1, <2>2, QuietStep
<1>4. ASSUME NEW i \in Ids, Deploy(i) \/ DeployFails(i) PROVE SInv'
  <2>1. i \in store /\ i \notin toRestore /\ pc[i] # "done"
    BY <1>4 DEF Deploy, DeployFails, Attended, GoroutinePhases
  <2>2. UNCHANGED <<detached, worker, toRestore>>
    BY <1>4 DEF Deploy, DeployFails
  <2>3. \A h \in Hostnames \ {inst[i].hostname} : sites'[h] = sites[h]
    BY <1>4 DEF Deploy, DeployFails, Host, TypeOK
  <2>4. \A w \in Workers : worker[w].pc \in Unmapped => worker[w].id # i
    BY <2>1 DEF Attended, Unmapped
  <2> QED
    BY <1>2, <2>1, <2>2, <2>3, <2>4, OneSite
<1>5. ASSUME NEW w \in Workers, NEW i \in Ids,
             RequestStart(w, i) \/ RequestStop(w, i) \/ RequestRestart(w, i) \/ RequestDelete(w, i)
      PROVE  SInv'
  <2>1. UNCHANGED <<sites, detached, toRestore>> /\ i \in store /\ worker[w].pc = "idle"
    BY <1>5 DEF RequestStart, RequestStop, RequestRestart, RequestDelete, MayRequest, served, IdleWorker
  <2>2. /\ \A x \in Workers \ {w} : worker'[x] = worker[x]
        /\ \/ worker'[w].pc \notin Unmapped
           \/ worker'[w].id = i /\ sites[inst[i].hostname] = NoSite
    <3>1. CASE RequestStart(w, i)
      BY <3>1, StartWorker DEF RequestStart, Unmapped, Host
    <3>2. CASE RequestStop(w, i)
      BY <3>2, WorkingWorker DEF RequestStop, HasSite, Unmapped, Host
    <3>3. CASE RequestRestart(w, i)
      BY <3>3, WorkingWorker DEF RequestRestart, HasSite, Unmapped, Host
    <3>4. CASE RequestDelete(w, i)
      BY <3>4, WorkingWorker DEF RequestDelete, Unmapped
    <3> QED
      BY <1>5, <3>1, <3>2, <3>3, <3>4
  <2>3. \A x \in Workers : worker[x].pc \in Unmapped => worker[x].id \in store
    BY DEF Attended, Unmapped
  <2> QED
    BY <1>2, <2>1, <2>2, <2>3, QuietStep
<1>6. ASSUME NEW w \in Workers, StopUnmap(w) PROVE SInv'
  <2>1. /\ worker[w].pc = "unmap" /\ worker[w].id \in store /\ toRestore' = toRestore
        /\ toRestore = {}
        /\ sites' = [sites EXCEPT ![Host(worker[w].id)] = NoSite]
    BY <1>6 DEF StopUnmap, Attended, Booting
  <2>2. \A h \in Hostnames : sites'[h] = NoSite \/ sites'[h] = sites[h]
    BY <2>1 DEF TypeOK
  <2>3. sites'[inst'[worker[w].id].hostname] = NoSite
    BY <1>2, <2>1 DEF TypeOK, Host, NamesKnown
  <2>4. \A x \in Workers : worker'[x].pc \in Unmapped => sites'[inst'[worker'[x].id].hostname] = NoSite
    BY <1>2, <1>6, <2>1, <2>2, <2>3, UnmapWorker DEF SInv, Host, Attended, Unmapped, NamesKnown
  <2>5. NoLeakedServer'
    BY <1>6, <2>1, UnmapWorker DEF SInv, NoLeakedServer
  <2> QED
    BY <2>1, <2>4, <2>5 DEF SInv, Host
<1>7. ASSUME NEW w \in Workers, StopShutdown(w) PROVE SInv'
  <2>1. /\ worker[w].pc = "shutdown" /\ UNCHANGED <<sites, toRestore>>
        /\ detached' = detached \ {worker[w].port}
    BY <1>7 DEF StopShutdown
  <2>2. NoLeakedServer'
    BY <1>7, <2>1, ShutdownWorker DEF SInv, NoLeakedServer
  <2>3. \A x \in Workers : worker'[x].pc \in Unmapped => sites'[inst'[worker'[x].id].hostname] = NoSite
    BY <1>2, <1>7, <2>1, ShutdownWorker DEF SInv, Host, Attended, Unmapped
  <2>4. \A j \in toRestore' : sites'[inst'[j].hostname] = NoSite
    BY <1>2, <2>1 DEF SInv, Host, Attended
  <2> QED
    BY <2>2, <2>3, <2>4 DEF SInv, Host
<1>8. ASSUME NEW w \in Workers, RestoreForStart(w) PROVE SInv'
  <2>1. worker[w].pc = "restore" /\ worker[w].id \in store /\ UNCHANGED toRestore
    BY <1>8 DEF RestoreForStart, Attended
  <2>2. sites[Host(worker[w].id)] = NoSite /\ toRestore = {}
    BY <2>1 DEF SInv, Unmapped, Attended, Booting
  <2>3. UNCHANGED detached
    BY <1>8, <2>2 DEF RestoreForStart, PutSite, NoSite
  <2>4. \A h \in Hostnames \ {inst[worker[w].id].hostname} : sites'[h] = sites[h]
    BY <1>8 DEF RestoreForStart, PutSite, Host, TypeOK
  <2>5. /\ worker'[w].pc \notin Unmapped
        /\ \A x \in Workers \ {w} : worker'[x] = worker[x]
    BY <1>8, ContinueWorker DEF RestoreForStart, Unmapped
  <2>6. \A x \in Workers \ {w} : worker[x].pc \in Unmapped => worker[x].id # worker[w].id
    BY <2>1 DEF Attended, Unmapped
  <2> QED
    BY <1>2, <2>1, <2>2, <2>3, <2>4, <2>5, <2>6, OneSite
<1>9. ASSUME NEW w \in Workers,
             \/ StopRemoveDir(w) \/ SettleStopped(w) \/ RestartStart(w)
             \/ SettleStarted(w) \/ SettleColumn(w)
             \/ DeleteRecord(w) \/ DeleteRemoteDir(w) \/ EraseInstance(w)
      PROVE  SInv'
  <2>1. /\ UNCHANGED <<sites, detached, toRestore>>
        /\ worker[w].pc \notin {"idle", "shutdown"}
    BY <1>9 DEF StopRemoveDir, SettleStopped, RestartStart, SettleStarted, SettleColumn,
                DeleteRecord, DeleteRemoteDir, EraseInstance, served
  <2>2. \A x \in Workers \ {w} : worker'[x] = worker[x]
    BY <1>9, ContinueWorker, FinishWorker, StartWorker
       DEF StopRemoveDir, SettleStopped, RestartStart, SettleStarted, SettleColumn,
           DeleteRecord, DeleteRemoteDir, EraseInstance
  <2>3. \/ worker'[w].pc \notin Unmapped
        \/ /\ worker'[w].id = worker[w].id
           /\ worker[w].pc \in Unmapped \/ sites[inst[worker[w].id].hostname] = NoSite
    BY <1>9, ContinueWorker, FinishWorker, StartWorker
       DEF StopRemoveDir, SettleStopped, RestartStart, SettleStarted, SettleColumn,
           DeleteRecord, DeleteRemoteDir, EraseInstance, Unmapped, Host
  <2>4. \A x \in Workers : worker[x].pc # "idle" => worker[x].id \in store
    BY DEF Attended
  <2> QED
    BY <1>2, <2>1, <2>2, <2>3, <2>4, QuietStep DEF Unmapped
<1>10. ASSUME NEW i \in Ids, RestoreSite(i) PROVE SInv'
  <2>1. i \in toRestore /\ i \in store /\ toRestore' = toRestore \ {i} /\ UNCHANGED worker
    BY <1>10 DEF RestoreSite, Attended
  <2>2. sites[Host(i)] = NoSite /\ \A w \in Workers : worker[w].pc = "idle"
    BY <2>1 DEF SInv, Attended, Booting
  <2>3. UNCHANGED detached
    BY <1>10, <2>2 DEF RestoreSite, PutSite, NoSite
  <2>4. \A h \in Hostnames \ {inst[i].hostname} : sites'[h] = sites[h]
    BY <1>10 DEF RestoreSite, PutSite, Host, TypeOK
  <2> QED
    BY <1>2, <2>1, <2>2, <2>3, <2>4, OneSite DEF Unmapped
<1> QED
  BY <1>3, <1>4, <1>5, <1>6, <1>7, <1>8, <1>9, <1>10
     DEF Next, Request, Handler, RunProvision, WorkerStep

LEMMA InitServers == Init => Attended /\ SInv
  BY DEF Init, Attended, SInv, NoLeakedServer, Unmapped, IdleWorker, GoroutinePhases, Booting

LEMMA NextServers ==
    ASSUME ~OverlappingOps
    PROVE  IInv /\ UInv /\ Attended /\ SInv /\ [Next]_vars => Attended' /\ SInv'
<1> SUFFICES ASSUME IInv, UInv, Attended, SInv, [Next]_vars PROVE Attended' /\ SInv'
  OBVIOUS
<1>1. CASE Next
  BY <1>1, AttendedStep, ServerStep
<1>2. CASE UNCHANGED vars
  BY <1>2 DEF vars, Attended, SInv, NoLeakedServer, Host, Booting
<1> QED
  BY <1>1, <1>2

\* Servers: when provision requests come one at a time and nobody asks for an
\* operation on an instance under work, every server that listens is in the
\* table or about to be closed, whatever fails and wherever the process ends.
THEOREM NoServerLeaked ==
    ASSUME ~OverlappingProvisions, ~OverlappingOps
    PROVE  Spec => []NoLeakedServer
<1>1. SInv => NoLeakedServer
  BY DEF SInv
<1> QED
  BY <1>1, InitIInv, NextIInv, InitExclusive, NextExclusive, InitServers, NextServers, PTL DEF Spec

-----------------------------------------------------------------------------
(* Nothing is left of an instance whose name is free again.                 *)

\* Nothing changes that is kept under a name.
LEMMA KeptNames ==
    ASSUME TypeOK, KInv, store \subseteq store', UNCHANGED <<sites, dir, dnsA, www>>,
           \A j \in store : inst'[j].hostname = inst[j].hostname,
           \A w \in Workers : worker'[w].pc \in Deleting =>
               worker'[w] = worker[w] /\ worker[w].id \in store,
           \A j \in Ids : pc'[j] = "copying" => pc[j] = "copying" \/ TemplateIP # NoIP
    PROVE  KInv'
<1>1. NothingLeft'
  BY DEF KInv, NothingLeft, HostnameTaken
<1>2. Cleared'
  BY DEF KInv, Cleared, Host, Deleting
<1> QED
  BY <1>1, <1>2 DEF KInv

\* What changes is kept under the name of i, and i is not being deleted.
LEMMA OneName ==
    ASSUME IInv, UInv, Attended, KInv, NEW i \in store, UNCHANGED store,
           \A j \in store : inst'[j].hostname = inst[j].hostname,
           \A h \in Hostnames \ {inst[i].hostname} :
               sites'[h] = sites[h] /\ dir'[h] = dir[h] /\ dnsA'[h] = dnsA[h] /\ www'[h] = www[h],
           \A w \in Workers : worker'[w].pc \in Deleting =>
               worker'[w] = worker[w] /\ worker[w].id # i,
           TemplateIP = NoIP => UNCHANGED www /\ \A j \in Ids : pc'[j] = "copying" => pc[j] = "copying"
    PROVE  KInv'
<1>1. NothingLeft'
  BY DEF KInv, NothingLeft, HostnameTaken
<1>2. Cleared'
  <2> SUFFICES ASSUME NEW w \in Workers, worker'[w].pc \in Deleting
               PROVE  LET h == inst'[worker'[w].id].hostname
                      IN  /\ dir'[h] = None
                          /\ worker'[w].pc \in {"unwww", "erase"} => dnsA'[h] = NoIP
                          /\ worker'[w].pc = "erase" => www'[h] = None
    BY DEF Cleared, Host, Deleting
  <2>1. worker'[w] = worker[w] /\ worker[w].id \in store /\ worker[w].id # i
    BY DEF Attended, Deleting
  <2>2. /\ inst'[worker[w].id].hostname = inst[worker[w].id].hostname
        /\ inst[worker[w].id].hostname \in Hostnames \ {inst[i].hostname}
    BY <2>1, OwnName DEF IInv, NamesKnown, Host
  <2> QED
    BY <2>1, <2>2 DEF KInv, Cleared, Host
<1> QED
  BY <1>1, <1>2 DEF KInv

\* A deletion removes something of its instance.
LEMMA OneRemoved ==
    ASSUME IInv, Attended, KInv, NEW w \in Workers, worker[w].pc # "idle",
           UNCHANGED <<inst, store, pc, sites>>,
           \A h \in Hostnames : /\ dir'[h] \in {dir[h], None}
                                /\ dnsA'[h] \in {dnsA[h], NoIP}
                                /\ www'[h] \in {www[h], None},
           \A x \in Workers \ {w} : worker'[x] = worker[x],
           worker'[w].id = worker[w].id,
           worker'[w].pc \in Deleting => dir'[Host(worker[w].id)] = None,
           worker'[w].pc \in {"unwww", "erase"} => dnsA'[Host(worker[w].id)] = NoIP,
           worker'[w].pc = "erase" => www'[Host(worker[w].id)] = None
    PROVE  KInv'
<1>1. NothingLeft'
  BY DEF KInv, NothingLeft, HostnameTaken
<1>2. \A x \in Workers : worker[x].pc # "idle" => Host(worker[x].id) \in Hostnames
  BY DEF IInv, NamesKnown
<1>3. Cleared'
  BY <1>2 DEF KInv, Cleared, Host, Deleting
<1> QED
  BY <1>1, <1>3 DEF KInv

LEMMA ClearStep ==
    ASSUME Failures \cap {"save", "dns", "apache"} = {},
           IInv, UInv, Saved, Attended, SInv, KInv, Next
    PROVE  KInv'
<1>0. TypeOK /\ NamesKnown /\ store \subseteq Ids
  BY DEF IInv, TypeOK
<1> USE <1>0
<1>1. CASE Crash
  <2>1. /\ UNCHANGED <<dir, dnsA, www>> /\ store' = store
        /\ \A h \in Hostnames : sites'[h] = NoSite
        /\ \A j \in store : inst'[j].hostname = inst[j].hostname
        /\ \A w \in Workers : worker'[w].pc \notin Deleting
        /\ \A j \in Ids : pc'[j] # "copying"
    BY <1>1 DEF Crash, Saved, external, IdleWorker, Deleting
  <2>2. NothingLeft'
    BY <2>1 DEF KInv, NothingLeft, HostnameTaken
  <2> QED
    BY <2>1, <2>2 DEF KInv, Cleared, Deleting
<1> SUFFICES ASSUME ~Crash PROVE KInv'
  BY <1>1
<1>2. \A j \in store : inst'[j].hostname = inst[j].hostname
  BY HostsStay
<1>3. \A w \in Workers : worker[w].pc \in Deleting => worker[w].id \in store
  BY DEF Attended, Deleting
<1>4. ASSUME NEW i \in Ids,
             \/ AllocateIP(i) \/ PutInstance(i) \/ \E h \in Hostnames : CheckHostname(i, h)
             \/ MarkProvisioning(i) \/ MarkDeploying(i) \/ MarkCopying(i)
             \/ MarkRunning(i) \/ FailColumn(i)
      PROVE  KInv'
  <2>1. UNCHANGED <<sites, dir, dnsA, www, worker>> /\ store \subseteq store'
    BY <1>4 DEF AllocateIP, PutInstance, CheckHostname, MarkProvisioning, MarkDeploying,
                MarkCopying, MarkRunning, FailColumn, Mark, served, external
  <2>2. \A j \in Ids : pc'[j] = "copying" => pc[j] = "copying" \/ TemplateIP # NoIP
    BY <1>4 DEF AllocateIP, PutInstance, CheckHostname, MarkProvisioning, MarkDeploying,
                MarkCopying, MarkRunning, FailColumn, Goto, TypeOK
  <2> QED
    BY <1>2, <1>3, <2>1, <2>2, KeptNames
<1>5. ASSUME NEW i \in Ids,
             Deploy(i) \/ DeployFails(i) \/ UseApache(i) \/ UseFallback(i) \/ RegisterDNS(i)
      PROVE  KInv'
  <2>1. i \in store /\ pc[i] # "done"
    BY <1>5 DEF Deploy, DeployFails, UseApache, UseFallback, RegisterDNS, Attended, GoroutinePhases
  <2>2. UNCHANGED <<store, worker>>
    BY <1>5 DEF Deploy, DeployFails, UseApache, UseFallback, RegisterDNS
  <2>3. \A h \in Hostnames \ {inst[i].hostname} :
          sites'[h] = sites[h] /\ dir'[h] = dir[h] /\ dnsA'[h] = dnsA[h] /\ www'[h] = www[h]
    BY <1>5 DEF Deploy, DeployFails, UseApache, UseFallback, RegisterDNS, AddRecord,
                served, external, Host, TypeOK
  <2>4. \A w \in Workers : worker[w].pc \in Deleting => worker[w].id # i
    BY <2>1 DEF Attended, Deleting
  <2>5. TemplateIP = NoIP => UNCHANGED www /\ \A j \in Ids : pc'[j] = "copying" => pc[j] = "copying"
    BY <1>5 DEF Deploy, DeployFails, UseApache, UseFallback, RegisterDNS, Goto, KInv,
                external, TypeOK
  <2> QED
    BY <1>2, <2>1, <2>2, <2>3, <2>4, <2>5, OneName
<1>6. ASSUME NEW w \in Workers, NEW i \in Ids,
             RequestStart(w, i) \/ RequestStop(w, i) \/ RequestRestart(w, i) \/ RequestDelete(w, i)
      PROVE  KInv'
  <2>1. UNCHANGED <<store, pc, sites, dir, dnsA, www>>
    BY <1>6, StartWorker DEF RequestStart, RequestStop, RequestRestart, RequestDelete, Mark, served, external
  <2>2. /\ \A x \in Workers \ {w} : worker'[x] = worker[x]
        /\ worker'[w].pc \notin Deleting
    BY <1>6, StartWorker, WorkingWorker
       DEF RequestStart, RequestStop, RequestRestart, RequestDelete, Deleting
  <2> QED
    BY <1>2, <1>3, <2>1, <2>2, KeptNames
<1>7. ASSUME NEW w \in Workers, StopUnmap(w) \/ RestoreForStart(w) PROVE KInv'
  <2>1. worker[w].id \in store /\ worker[w].pc # "idle"
    BY <1>7 DEF StopUnmap, RestoreForStart, Attended
  <2>2. /\ UNCHANGED <<store, pc, dir, dnsA, www>>
        /\ \A h \in Hostnames \ {inst[worker[w].id].hostname} : sites'[h] = sites[h]
    BY <1>7 DEF StopUnmap, RestoreForStart, PutSite, external, Host, TypeOK
  <2>3. /\ \A x \in Workers \ {w} : worker'[x] = worker[x]
        /\ worker'[w].pc \notin Deleting
    BY <1>7, UnmapWorker, ContinueWorker DEF RestoreForStart, Deleting
  <2>4. \A x \in Workers \ {w} : worker[x].pc \in Deleting => worker[x].id # worker[w].id
    BY <2>1 DEF Attended, Deleting
  <2> QED
    BY <1>2, <2>1, <2>2, <2>3, <2>4, OneName
<1>8. ASSUME NEW w \in Workers,
             \/ StopShutdown(w) \/ SettleStopped(w) \/ RestartStart(w)
             \/ SettleStarted(w) \/ SettleColumn(w)
      PROVE  KInv'
  <2>1. UNCHANGED <<store, pc, sites, dir, dnsA, www>>
    BY <1>8, StartWorker DEF StopShutdown, SettleStopped, RestartStart, SettleStarted, SettleColumn,
                             served, external
  <2>2. /\ \A x \in Workers \ {w} : worker'[x] = worker[x]
        /\ worker'[w].pc \notin Deleting
    BY <1>8, ShutdownWorker, ContinueWorker, FinishWorker, StartWorker
       DEF SettleStopped, RestartStart, SettleStarted, SettleColumn, Deleting
  <2> QED
    BY <1>2, <1>3, <2>1, <2>2, KeptNames
<1>9. ASSUME NEW w \in Workers, StopRemoveDir(w) PROVE KInv'
  <2>1. /\ worker[w].pc = "rmdir" /\ UNCHANGED <<inst, store, pc, sites, dnsA, www>>
        /\ Host(worker[w].id) \in Hostnames
        /\ dir' = [dir EXCEPT ![Host(worker[w].id)] = None]
    BY <1>9 DEF StopRemoveDir, external, NamesKnown
  <2>2. /\ worker'[w].id = worker[w].id /\ worker'[w].pc \notin {"unwww", "erase"}
        /\ \A x \in Workers \ {w} : worker'[x] = worker[x]
    BY <1>9, ContinueWorker DEF StopRemoveDir
  <2>3. dir'[Host(worker[w].id)] = None /\ \A h \in Hostnames : dir'[h] \in {dir[h], None}
    BY <2>1 DEF TypeOK
  <2> QED
    BY <2>1, <2>2, <2>3, OneRemoved
<1>10. ASSUME NEW w \in Workers, DeleteRecord(w) PROVE KInv'
  <2>1. /\ worker[w].pc = "undns" /\ UNCHANGED <<inst, store, pc, sites, dir, www>>
        /\ Host(worker[w].id) \in Hostnames
        /\ dnsA' = [dnsA EXCEPT ![Host(worker[w].id)] = NoIP]
    BY <1>10 DEF DeleteRecord, RemoveRecord, served, NamesKnown
  <2>2. /\ worker'[w].id = worker[w].id
        /\ worker'[w].pc = IF TemplateIP # NoIP THEN "unwww" ELSE "erase"
        /\ \A x \in Workers \ {w} : worker'[x] = worker[x]
    BY <1>10, ContinueWorker DEF DeleteRecord
  <2>3. dnsA'[Host(worker[w].id)] = NoIP /\ \A h \in Hostnames : dnsA'[h] \in {dnsA[h], NoIP}
    BY <2>1 DEF TypeOK
  <2>4. dir[Host(worker[w].id)] = None
    BY <2>1 DEF KInv, Cleared, Deleting
  <2>5. worker'[w].pc = "erase" => www[Host(worker[w].id)] = None
    BY <2>1, <2>2 DEF KInv
  <2> QED
    BY <2>1, <2>2, <2>3, <2>4, <2>5, OneRemoved
<1>11. ASSUME NEW w \in Workers, DeleteRemoteDir(w) PROVE KInv'
  <2>1. /\ worker[w].pc = "unwww" /\ UNCHANGED <<inst, store, pc, sites, dir, dnsA>>
        /\ Host(worker[w].id) \in Hostnames
        /\ www' = [www EXCEPT ![Host(worker[w].id)] = None]
    BY <1>11 DEF DeleteRemoteDir, served, NamesKnown
  <2>2. /\ worker'[w].id = worker[w].id
        /\ \A x \in Workers \ {w} : worker'[x] = worker[x]
    BY <1>11, ContinueWorker DEF DeleteRemoteDir
  <2>3. www'[Host(worker[w].id)] = None /\ \A h \in Hostnames : www'[h] \in {www[h], None}
    BY <2>1 DEF TypeOK
  <2>4. dir[Host(worker[w].id)] = None /\ dnsA[Host(worker[w].id)] = NoIP
    BY <2>1 DEF KInv, Cleared, Deleting
  <2> QED
    BY <2>1, <2>2, <2>3, <2>4, OneRemoved
<1>12. ASSUME NEW w \in Workers, EraseInstance(w) PROVE KInv'
  <2> DEFINE i == worker[w].id
  <2>1. /\ worker[w].pc = "erase" /\ UNCHANGED <<inst, pc, sites, dir, dnsA, www>>
        /\ store' = store \ {i}
    BY <1>12 DEF EraseInstance, served, external
  <2>2. sites[Host(i)] = NoSite /\ dir[Host(i)] = None /\ dnsA[Host(i)] = NoIP /\ www[Host(i)] = None
    BY <2>1 DEF SInv, Unmapped, KInv, Cleared, Deleting
  <2>3. NothingLeft'
    BY <2>1, <2>2 DEF KInv, NothingLeft, HostnameTaken, Host
  <2>4. Cleared'
    BY <1>12, <2>1, FinishWorker DEF EraseInstance, KInv, Cleared, Host, Deleting
  <2> QED
    BY <2>1, <2>3, <2>4 DEF KInv
<1>13. ASSUME NEW i \in Ids, RestoreSite(i) PROVE KInv'
  <2>1. i \in store /\ UNCHANGED <<store, pc, worker, dir, dnsA, www>>
    BY <1>13 DEF RestoreSite, Attended, external
  <2>2. \A h \in Hostnames \ {inst[i].hostname} : sites'[h] = sites[h]
    BY <1>13 DEF RestoreSite, PutSite, Host, TypeOK
  <2>3. \A w \in Workers : worker[w].pc \notin Deleting
    BY <1>13 DEF RestoreSite, Attended, Booting, Deleting
  <2> QED
    BY <1>2, <2>1, <2>2, <2>3, OneName
<1> QED
  BY <1>4, <1>5, <1>6, <1>7, <1>8, <1>9, <1>10, <1>11, <1>12, <1>13
     DEF Next, Request, Handler, RunProvision, WorkerStep

LEMMA InitClear == Init => KInv
  BY DEF Init, KInv, NothingLeft, Cleared, Deleting, IdleWorker

LEMMA NextClear ==
    ASSUME Failures \cap {"save", "dns", "apache"} = {}
    PROVE  IInv /\ UInv /\ Saved /\ Attended /\ SInv /\ KInv /\ [Next]_vars => KInv'
<1> SUFFICES ASSUME IInv, UInv, Saved, Attended, SInv, KInv, [Next]_vars PROVE KInv'
  OBVIOUS
<1>1. CASE Next
  BY <1>1, ClearStep
<1>2. CASE UNCHANGED vars
  BY <1>2 DEF vars, KInv, NothingLeft, HostnameTaken, Cleared, Host
<1> QED
  BY <1>1, <1>2

\* Tear-down is complete: a name no stored instance has is a name without
\* server, content, record and remote directory, through deployments that fail
\* and restarts, as long as the store, the DNS server and the template VM answer.
THEOREM NothingStays ==
    ASSUME ~OverlappingProvisions, ~OverlappingOps, Failures \cap {"save", "dns", "apache"} = {}
    PROVE  Spec => []NothingLeft
<1>1. KInv => NothingLeft
  BY DEF KInv
<1>2. "save" \notin Failures
  OBVIOUS
<1> QED
  BY <1>1, <1>2, InitIInv, NextIInv, InitExclusive, NextExclusive, InitSaved, NextSaved,
     InitServers, NextServers, InitClear, NextClear, PTL DEF Spec

-----------------------------------------------------------------------------
(* The life of an instance.                                                 *)

\* What a provision shows goes with the phase it is in.
OrderedPhase(i) ==
    /\ pc[i] \in GoroutinePhases \ {"failing"} =>
         inst[i].state \in {"pending", "provisioning", "deploying"}
    /\ pc[i] = "failing" => inst[i].state = "failed"
    /\ pc[i] = "registered" => inst[i].vbox = "running"

\* A goroutine takes the steps of its operation, and shows what it is about.
OrderedWorker(w) ==
    /\ worker[w].pc = "idle" => worker[w].id = None
    /\ worker[w].pc \in {"unmap", "shutdown", "rmdir"} => worker[w].op \in {"stop", "restart", "delete"}
    /\ worker[w].pc = "settle" => worker[w].op = "stop"
    /\ worker[w].pc = "start" => worker[w].op = "restart"
    /\ worker[w].pc \in {"restore", "online", "broken"} =>
         worker[w].op # "delete" /\ inst[worker[w].id].state = "provisioning"
    /\ worker[w].pc = "up" => worker[w].op # "delete" /\ inst[worker[w].id].state = "running"
    /\ worker[w].pc = "down" => worker[w].op # "delete" /\ inst[worker[w].id].state = "failed"
    /\ worker[w].pc = "halted" => worker[w].op = "stop" /\ inst[worker[w].id].state = "stopped"
    /\ worker[w].pc \in Deleting => worker[w].op = "delete"
    /\ worker[w].pc # "idle" /\ worker[w].op = "delete" => inst[worker[w].id].state = "deleting"

OInv == (\A i \in Ids : OrderedPhase(i)) /\ (\A w \in Workers : OrderedWorker(w))

\* The step shows state s of i, and saves.
Shows(i, s) == /\ store' = store
               /\ inst'[i].state = s
               /\ \A j \in Ids \ {i} : inst'[j] = inst[j]
               /\ Save

\* The step lets the state s of i be seen, and does not save.
Reaches(i, s) == /\ UNCHANGED <<store, file>>
                 /\ inst'[i].state = s
                 /\ \A j \in Ids \ {i} : inst'[j] = inst[j]

LEMMA StateReaches ==
    ASSUME TypeOK, NEW i \in Ids, NEW s,
           inst' = [inst EXCEPT ![i].state = s], UNCHANGED <<store, file>>
    PROVE  Reaches(i, s)
  BY DEF Reaches, TypeOK, Instance

LEMMA ColumnShows ==
    ASSUME TypeOK, NEW i \in Ids, NEW v,
           inst' = [inst EXCEPT ![i].vbox = v], store' = store, Save
    PROVE  Shows(i, inst[i].state)
<1>1. inst[i] \in Instance
  BY DEF TypeOK
<1>2. inst'[i].state = inst[i].state
  BY <1>1 DEF TypeOK, Instance
<1> QED
  BY <1>2 DEF Shows, TypeOK

LEMMA MarkShows ==
    ASSUME TypeOK, NEW i \in Ids, NEW s, Mark(i, s)
    PROVE  Shows(i, s)
  BY DEF Mark, Shows, TypeOK, Instance

\* The steps of a provision.
LEMMA ProvisionTurn ==
    ASSUME IInv, Attended, OInv, NEW i \in Ids, RunProvision(i)
    PROVE  /\ i \in store /\ pc[i] \in GoroutinePhases /\ UNCHANGED <<store, worker, toRestore>>
           /\ \A j \in Ids \ {i} : pc'[j] = pc[j] /\ inst'[j] = inst[j]
           /\ OrderedPhase(i)'
           /\ \/ /\ pc'[i] \in GoroutinePhases /\ UNCHANGED file
                 /\ inst'[i].state = inst[i].state
              \/ /\ pc'[i] \in GoroutinePhases
                 /\ \E s \in {"provisioning", "deploying"} : Shows(i, s)
              \/ /\ pc'[i] \in GoroutinePhases /\ pc[i] # "failing"
                 /\ Reaches(i, "failed")
              \/ /\ pc'[i] = "done"
                 /\ \/ pc[i] = "failing" /\ Shows(i, inst[i].state)
                    \/ pc[i] # "failing" /\ Shows(i, "running")
<1>0. TypeOK
  BY DEF IInv
<1>1. UNCHANGED <<store, worker, toRestore>> /\ pc[i] \in GoroutinePhases
  BY DEF RunProvision, MarkProvisioning, MarkDeploying, Deploy, DeployFails, FailColumn,
         MarkCopying, UseApache, UseFallback, RegisterDNS, MarkRunning, Mark, GoroutinePhases
<1>2. \A j \in Ids \ {i} : pc'[j] = pc[j]
  BY <1>0 DEF RunProvision, MarkProvisioning, MarkDeploying, Deploy, DeployFails, FailColumn,
              MarkCopying, UseApache, UseFallback, RegisterDNS, MarkRunning, Goto, TypeOK
<1>3. \A j \in Ids \ {i} : inst'[j] = inst[j]
  BY <1>0 DEF RunProvision, MarkProvisioning, MarkDeploying, Deploy, DeployFails, FailColumn,
              MarkCopying, UseApache, UseFallback, RegisterDNS, MarkRunning, Mark, TypeOK
<1>4. i \in store
  BY <1>1 DEF Attended
<1>5. CASE MarkProvisioning(i)
  <2>1. Shows(i, "provisioning") /\ pc'[i] \in {"announced", "networked"}
    BY <1>0, <1>5, MarkShows DEF MarkProvisioning, Goto, TypeOK
  <2> QED
    BY <1>1, <1>2, <1>3, <1>4, <2>1 DEF Shows, OrderedPhase, GoroutinePhases
<1>6. CASE MarkDeploying(i) \/ MarkCopying(i)
  <2>1. Shows(i, "deploying") /\ pc'[i] \in {"deploying", "copying"}
    BY <1>0, <1>6, MarkShows DEF MarkDeploying, MarkCopying, Goto, TypeOK
  <2> QED
    BY <1>1, <1>2, <1>3, <1>4, <2>1 DEF Shows, OrderedPhase, GoroutinePhases
<1>7. CASE Deploy(i)
  <2>1. inst'[i].state = inst[i].state
    BY <1>0, <1>7 DEF Deploy, TypeOK, Instance
  <2>2. pc[i] = "deploying" /\ pc'[i] = "deployed" /\ UNCHANGED file
    BY <1>0, <1>7 DEF Deploy, Goto, TypeOK
  <2> QED
    BY <1>1, <1>2, <1>3, <1>4, <2>1, <2>2 DEF OInv, OrderedPhase, GoroutinePhases
<1>8. CASE DeployFails(i) \/ FailColumn(i)
  <2>1. CASE DeployFails(i)
    <3>1. pc[i] = "deploying" /\ pc'[i] = "failing"
      BY <1>0, <2>1 DEF DeployFails, Goto, TypeOK
    <3>2. Reaches(i, "failed")
      BY <1>0, <2>1, StateReaches DEF DeployFails
    <3> QED
      BY <1>1, <1>2, <1>3, <1>4, <3>1, <3>2 DEF Reaches, OrderedPhase, GoroutinePhases
  <2>2. CASE FailColumn(i)
    <3>1. pc[i] = "failing" /\ pc'[i] = "done"
      BY <1>0, <2>2 DEF FailColumn, Goto, TypeOK
    <3>2. Shows(i, inst[i].state)
      BY <1>0, <2>2, ColumnShows DEF FailColumn
    <3> QED
      BY <1>1, <1>2, <1>3, <1>4, <3>1, <3>2 DEF OrderedPhase, GoroutinePhases
  <2> QED
    BY <1>8, <2>1, <2>2
<1>9. CASE UseApache(i) \/ UseFallback(i)
  <2>1. inst'[i].state = "provisioning"
    <3>1. CASE UseApache(i)
      BY <1>0, <3>1 DEF UseApache, TypeOK, Instance
    <3>2. CASE UseFallback(i)
      BY <1>0, <3>2 DEF UseFallback, TypeOK, Instance
    <3> QED
      BY <1>9, <3>1, <3>2
  <2>2. pc'[i] = "registering" /\ Save
    BY <1>0, <1>9 DEF UseApache, UseFallback, Goto, TypeOK
  <2> QED
    BY <1>1, <1>2, <1>3, <1>4, <2>1, <2>2 DEF Shows, OrderedPhase, GoroutinePhases
<1>10. CASE RegisterDNS(i)
  <2>1. pc[i] = "registering" /\ pc'[i] = "registered" /\ UNCHANGED file
    BY <1>0, <1>10 DEF RegisterDNS, Goto, TypeOK
  <2>2. inst[i] \in Instance /\ inst' = [inst EXCEPT ![i].vbox = "running"]
    BY <1>0, <1>10 DEF RegisterDNS, TypeOK
  <2>3. inst'[i].state = inst[i].state /\ inst'[i].vbox = "running"
    BY <1>0, <2>2 DEF TypeOK, Instance
  <2> QED
    BY <1>1, <1>2, <1>3, <1>4, <2>1, <2>3 DEF OInv, OrderedPhase, GoroutinePhases
<1>11. CASE MarkRunning(i)
  <2>1. pc[i] = "registered" /\ pc'[i] = "done" /\ Shows(i, "running")
    BY <1>0, <1>11, MarkShows DEF MarkRunning, Goto, TypeOK
  <2> QED
    BY <1>1, <1>2, <1>3, <1>4, <2>1 DEF OrderedPhase, GoroutinePhases
<1> QED
  BY <1>5, <1>6, <1>7, <1>8, <1>9, <1>10, <1>11 DEF RunProvision

\* Requests: a goroutine is started, or StartInstance finds nothing to do.
LEMMA StartTurn ==
    ASSUME TypeOK, NEW w \in Workers, NEW i \in Ids, NEW op \in {"start", "restart"},
           StartInstance(w, op, i)
    PROVE  \/ Finish(w) /\ UNCHANGED <<inst, store, file>>
           \/ /\ worker'[w].id = i /\ OrderedWorker(w)'
              /\ TaskOf(w)' = "start" /\ Shows(i, "provisioning")
<1>1. CASE Working(w, op, i, "restore") /\ Mark(i, "provisioning")
  <2>1. worker'[w] = [op |-> op, id |-> i, pc |-> "restore", port |-> NoPort]
    BY <1>1 DEF Working, TypeOK
  <2>2. Shows(i, "provisioning")
    BY <1>1, MarkShows
  <2>3. OrderedWorker(w)'
    BY <2>1, <2>2 DEF Shows, OrderedWorker, Deleting
  <2>4. TaskOf(w)' = "start"
    BY <2>1 DEF TaskOf
  <2> QED
    BY <2>1, <2>2, <2>3, <2>4
<1> QED
  BY <1>1 DEF StartInstance

LEMMA RequestTurn ==
    ASSUME ~OverlappingOps, IInv, Attended, OInv, NEW w \in Workers, NEW i \in Ids,
           RequestStart(w, i) \/ RequestStop(w, i) \/ RequestRestart(w, i) \/ RequestDelete(w, i)
    PROVE  /\ UNCHANGED <<store, pc, toRestore>> /\ ~Booting
           /\ i \in store /\ pc[i] = "done" /\ ~Busy(i) /\ worker[w] = IdleWorker
           /\ \A x \in Workers \ {w} : worker'[x] = worker[x]
           /\ \/ worker' = worker /\ UNCHANGED <<inst, store, file>>
              \/ /\ worker'[w].id = i /\ OrderedWorker(w)'
                 /\ \/ TaskOf(w)' = "start" /\ Shows(i, "provisioning")
                    \/ TaskOf(w)' = "delete" /\ Shows(i, "deleting")
                    \/ TaskOf(w)' \in {"stop", "restart"} /\ Shows(i, inst[i].state)
<1>0. TypeOK
  BY DEF IInv
<1>1. /\ UNCHANGED <<store, pc, toRestore>> /\ ~Booting
      /\ i \in store /\ pc[i] = "done" /\ ~Busy(i) /\ worker[w] = IdleWorker
  BY <1>0, StartWorker DEF RequestStart, RequestStop, RequestRestart, RequestDelete,
              MayRequest, Mark
<1>2. \A x \in Workers \ {w} : worker'[x] = worker[x]
  BY <1>0, StartWorker, WorkingWorker
     DEF RequestStart, RequestStop, RequestRestart, RequestDelete
<1>3. CASE RequestStart(w, i)
  <2>1. Finish(w) => worker' = worker
    BY <1>0, <1>1 DEF Finish, TypeOK
  <2> QED
    BY <1>0, <1>1, <1>2, <1>3, <2>1, StartTurn DEF RequestStart
<1>4. CASE RequestDelete(w, i)
  <2>1. worker'[w] = [op |-> "delete", id |-> i, pc |-> "unmap", port |-> NoPort]
    BY <1>0, <1>4 DEF RequestDelete, Working, TypeOK
  <2>2. Shows(i, "deleting")
    BY <1>0, <1>4, MarkShows DEF RequestDelete
  <2>3. OrderedWorker(w)'
    BY <2>1, <2>2 DEF Shows, OrderedWorker, Deleting
  <2> QED
    BY <1>1, <1>2, <2>1, <2>2, <2>3 DEF TaskOf
<1>5. CASE RequestStop(w, i) \/ RequestRestart(w, i)
  <2>1. PICK op \in {"stop", "restart"}, step \in {"unmap", "settle", "start"} :
          /\ worker'[w] = [op |-> op, id |-> i, pc |-> step, port |-> NoPort]
          /\ step = "settle" => op = "stop"
          /\ step = "start" => op = "restart"
    BY <1>0, <1>5 DEF RequestStop, RequestRestart, Working, TypeOK
  <2>2. Shows(i, inst[i].state)
    BY <1>5 DEF RequestStop, RequestRestart, Shows
  <2>3. OrderedWorker(w)'
    BY <2>1 DEF OrderedWorker, Deleting
  <2> QED
    BY <1>1, <1>2, <2>1, <2>2, <2>3 DEF TaskOf
<1> QED
  BY <1>3, <1>4, <1>5

\* RestoreSites writes the state and the column.
LEMMA RestoreShows ==
    ASSUME TypeOK, NEW i \in Ids, NEW s, NEW v,
           inst' = [inst EXCEPT ![i] = [@ EXCEPT !.state = s, !.vbox = v]], store' = store, Save
    PROVE  Shows(i, s)
  BY DEF Shows, TypeOK, Instance

\* The steps of an operation.
LEMMA WorkerTurn ==
    ASSUME IInv, Attended, OInv, NEW w \in Workers, NEW i, i = worker[w].id, WorkerStep(w)
    PROVE  /\ i \in store /\ pc[i] = "done" /\ worker[w].pc # "idle"
           /\ UNCHANGED <<pc, toRestore>>
           /\ \A x \in Workers \ {w} : worker'[x] = worker[x]
           /\ \/ /\ worker'[w].id = i /\ OrderedWorker(w)'
                 /\ TaskOf(w)' = TaskOf(w) /\ UNCHANGED <<inst, store, file>>
              \/ /\ worker'[w].id = i /\ OrderedWorker(w)'
                 /\ TaskOf(w) = "restart" /\ TaskOf(w)' = "start" /\ Shows(i, "provisioning")
              \/ /\ worker'[w].id = i /\ OrderedWorker(w)' /\ TaskOf(w)' = TaskOf(w)
                 /\ \/ TaskOf(w) = "stop" /\ Reaches(i, "stopped")
                    \/ /\ TaskOf(w) = "start" /\ inst[i].state = "provisioning"
                       /\ \E s \in {"running", "failed"} : Reaches(i, s)
              \/ /\ worker'[w] = IdleWorker
                 /\ \/ TaskOf(w) = "restart" /\ UNCHANGED <<inst, store, file>>
                    \/ /\ \/ TaskOf(w) = "stop" /\ inst[i].state = "stopped"
                          \/ TaskOf(w) = "start" /\ inst[i].state \in {"running", "failed"}
                       /\ Shows(i, inst[i].state)
                    \/ /\ TaskOf(w) = "delete" /\ inst[i].state = "deleting"
                       /\ store' = store \ {i} /\ inst' = inst /\ Save
<1>0. TypeOK /\ store \subseteq Ids
  BY DEF IInv, TypeOK
<1>1. worker[w].pc # "idle"
  BY DEF WorkerStep, StopUnmap, StopShutdown, StopRemoveDir, SettleStopped,
         RestartStart, RestoreForStart, SettleStarted, SettleColumn, DeleteRecord,
         DeleteRemoteDir, EraseInstance
<1>2. i \in store /\ pc[i] = "done" /\ i \in Ids
  BY <1>0, <1>1 DEF Attended
<1>3. UNCHANGED <<pc, toRestore>>
  BY DEF WorkerStep, StopUnmap, StopShutdown, StopRemoveDir, SettleStopped,
         RestartStart, RestoreForStart, SettleStarted, SettleColumn, DeleteRecord,
         DeleteRemoteDir, EraseInstance
<1>4. \A x \in Workers \ {w} : worker'[x] = worker[x]
  BY <1>0, ContinueWorker, FinishWorker, StartWorker, UnmapWorker, ShutdownWorker
     DEF WorkerStep, StopRemoveDir, SettleStopped, RestartStart, RestoreForStart,
         SettleStarted, SettleColumn, DeleteRecord, DeleteRemoteDir, EraseInstance
<1>5. Finish(w) => worker'[w] = IdleWorker
  BY <1>0 DEF Finish, TypeOK
<1>6. OrderedWorker(w)
  BY DEF OInv
<1>7. ASSUME NEW step \in WorkerPhases, Continue(w, step)
      PROVE  worker'[w].id = i /\ worker'[w].op = worker[w].op /\ worker'[w].pc = step
  BY <1>0, <1>7 DEF Continue, TypeOK, Worker
<1>8. CASE StopUnmap(w) \/ StopShutdown(w)
  <2>1. /\ worker'[w].id = i /\ worker'[w].op = worker[w].op
        /\ worker[w].pc \in {"unmap", "shutdown"}
        /\ worker'[w].pc \in {"shutdown", "rmdir"}
    <3>1. CASE StopUnmap(w) /\ sites[Host(i)].live
      BY <1>0, <3>1 DEF StopUnmap, TypeOK, Worker
    <3>2. CASE StopUnmap(w) /\ ~sites[Host(i)].live
      BY <1>7, <3>2 DEF StopUnmap, WorkerPhases
    <3>3. CASE StopShutdown(w)
      BY <1>0, <3>3 DEF StopShutdown, TypeOK, Worker
    <3> QED
      BY <1>8, <3>1, <3>2, <3>3
  <2>2. UNCHANGED <<inst, store, file>>
    BY <1>8 DEF StopUnmap, StopShutdown
  <2>3. OrderedWorker(w)' /\ TaskOf(w)' = TaskOf(w)
    BY <1>6, <2>1, <2>2 DEF OrderedWorker, TaskOf, Deleting
  <2> QED
    BY <1>1, <1>2, <1>3, <1>4, <2>1, <2>2, <2>3
<1>9. CASE StopRemoveDir(w)
  <2>1. /\ worker'[w].id = i /\ worker'[w].op = worker[w].op /\ worker[w].pc = "rmdir"
        /\ \/ worker[w].op = "stop" /\ worker'[w].pc = "settle"
           \/ worker[w].op = "restart" /\ worker'[w].pc = "start"
           \/ worker[w].op = "delete" /\ worker'[w].pc = "undns"
    BY <1>6, <1>7, <1>9 DEF StopRemoveDir, OrderedWorker, WorkerPhases
  <2>2. UNCHANGED <<inst, store, file>>
    BY <1>9 DEF StopRemoveDir
  <2>3. OrderedWorker(w)' /\ TaskOf(w)' = TaskOf(w)
    BY <1>6, <2>1, <2>2 DEF OrderedWorker, TaskOf, Deleting
  <2> QED
    BY <1>1, <1>2, <1>3, <1>4, <2>1, <2>2, <2>3
<1>10. CASE RestoreForStart(w)
  <2>1. /\ worker'[w].id = i /\ worker'[w].op = worker[w].op /\ worker[w].pc = "restore"
        /\ worker'[w].pc \in {"online", "broken"}
    BY <1>7, <1>10 DEF RestoreForStart, WorkerPhases
  <2>2. UNCHANGED <<inst, store, file>>
    BY <1>10 DEF RestoreForStart
  <2>3. OrderedWorker(w)' /\ TaskOf(w)' = TaskOf(w)
    BY <1>6, <2>1, <2>2 DEF OrderedWorker, TaskOf, Deleting
  <2> QED
    BY <1>1, <1>2, <1>3, <1>4, <2>1, <2>2, <2>3
<1>11. CASE DeleteRecord(w) \/ DeleteRemoteDir(w)
  <2>1. /\ worker'[w].id = i /\ worker'[w].op = worker[w].op
        /\ worker[w].pc \in {"undns", "unwww"} /\ worker'[w].pc \in {"unwww", "erase"}
    BY <1>7, <1>11 DEF DeleteRecord, DeleteRemoteDir, WorkerPhases
  <2>2. UNCHANGED <<inst, store, file>>
    BY <1>11 DEF DeleteRecord, DeleteRemoteDir
  <2>3. OrderedWorker(w)' /\ TaskOf(w)' = TaskOf(w)
    BY <1>6, <2>1, <2>2 DEF OrderedWorker, TaskOf, Deleting
  <2> QED
    BY <1>1, <1>2, <1>3, <1>4, <2>1, <2>2, <2>3
<1>12. CASE RestartStart(w)
  <2>1. TaskOf(w) = "restart" /\ StartInstance(w, "restart", i)
    BY <1>2, <1>6, <1>12 DEF RestartStart, OrderedWorker, TaskOf
  <2> QED
    BY <1>0, <1>1, <1>2, <1>3, <1>4, <1>5, <2>1, StartTurn
<1>13. CASE SettleStopped(w) \/ SettleStarted(w)
  <2>1. PICK step \in {"halted", "up", "down"}, s \in {"stopped", "running", "failed"} :
          /\ Continue(w, step) /\ inst' = [inst EXCEPT ![i].state = s]
          /\ \/ step = "halted" /\ s = "stopped" /\ worker[w].pc = "settle"
             \/ step = "up" /\ s = "running" /\ worker[w].pc = "online"
             \/ step = "down" /\ s = "failed" /\ worker[w].pc = "broken"
    BY <1>13 DEF SettleStopped, SettleStarted
  <2>2. worker'[w].id = i /\ worker'[w].op = worker[w].op /\ worker'[w].pc = step
    BY <1>7, <2>1 DEF WorkerPhases
  <2>3. Reaches(i, s)
    BY <1>0, <1>2, <1>13, <2>1, StateReaches DEF SettleStopped, SettleStarted
  <2>4. OrderedWorker(w)'
    BY <1>6, <2>1, <2>2, <2>3 DEF OrderedWorker, Reaches, Deleting
  <2>5. TaskOf(w)' = TaskOf(w)
    BY <1>6, <2>1, <2>2 DEF OrderedWorker, TaskOf
  <2>6. \/ TaskOf(w) = "stop" /\ s = "stopped"
        \/ TaskOf(w) = "start" /\ inst[i].state = "provisioning" /\ s \in {"running", "failed"}
    BY <1>6, <2>1 DEF OrderedWorker, TaskOf
  <2> QED
    BY <1>1, <1>2, <1>3, <1>4, <2>2, <2>3, <2>4, <2>5, <2>6
<1>14. CASE SettleColumn(w)
  <2>1. \/ TaskOf(w) = "stop" /\ inst[i].state = "stopped"
        \/ TaskOf(w) = "start" /\ inst[i].state \in {"running", "failed"}
    BY <1>6, <1>14 DEF SettleColumn, OrderedWorker, TaskOf
  <2>2. Shows(i, inst[i].state)
    BY <1>0, <1>2, <1>14, ColumnShows DEF SettleColumn
  <2> QED
    BY <1>1, <1>2, <1>3, <1>4, <1>5, <1>14, <2>1, <2>2 DEF SettleColumn
<1>15. CASE EraseInstance(w)
  <2>1. TaskOf(w) = "delete" /\ inst[i].state = "deleting"
    BY <1>6, <1>15 DEF EraseInstance, OrderedWorker, TaskOf, Deleting
  <2> QED
    BY <1>1, <1>2, <1>3, <1>4, <1>5, <1>15, <2>1 DEF EraseInstance
<1> QED
  BY <1>8, <1>9, <1>10, <1>11, <1>12, <1>13, <1>14, <1>15 DEF WorkerStep

\* Others are not disturbed by a goroutine that works on i.
LEMMA OneOrdered ==
    ASSUME IInv, OInv, NEW i \in store, NEW w \in Workers, UNCHANGED pc, pc[i] = "done",
           \A x \in Workers \ {w} :
             worker'[x] = worker[x] /\ (worker[x].pc # "idle" => worker[x].id \in store \ {i}),
           \A j \in Ids \ {i} : inst'[j] = inst[j],
           OrderedWorker(w)'
    PROVE  OInv'
<1>0. store \subseteq Ids
  BY DEF IInv, TypeOK
<1>1. \A x \in Workers \ {w} : OrderedWorker(x)'
  BY <1>0 DEF OInv, OrderedWorker, Deleting
<1>2. \A j \in Ids : OrderedPhase(j)'
  BY DEF OInv, OrderedPhase, GoroutinePhases
<1> QED
  BY <1>1, <1>2 DEF OInv

\* Nor by a provision of i, or RestoreSites on i.
LEMMA NoneOrdered ==
    ASSUME IInv, OInv, NEW i \in Ids, UNCHANGED worker,
           \A x \in Workers : worker[x].pc # "idle" => worker[x].id \in Ids \ {i},
           \A j \in Ids \ {i} : inst'[j] = inst[j] /\ pc'[j] = pc[j],
           OrderedPhase(i)'
    PROVE  OInv'
<1>1. \A x \in Workers : OrderedWorker(x)'
  BY DEF OInv, OrderedWorker, Deleting
<1>2. \A j \in Ids \ {i} : OrderedPhase(j)'
  BY DEF OInv, OrderedPhase
<1> QED
  BY <1>1, <1>2 DEF OInv

LEMMA OrderedStep ==
    ASSUME ~OverlappingOps, IInv, Attended, OInv, Next
    PROVE  OInv'
<1>0. TypeOK /\ NamesKnown /\ store \subseteq Ids
  BY DEF IInv, TypeOK
<1>1. \A x \in Workers : worker[x].pc # "idle" => worker[x].id \in store /\ pc[worker[x].id] = "done"
  BY DEF Attended
<1>2. ASSUME NEW i \in Ids, AllocateIP(i) \/ PutInstance(i) \/ \E h \in Hostnames : CheckHostname(i, h)
      PROVE  OInv'
  <2>1. pc[i] # "done" /\ UNCHANGED worker
    BY <1>2 DEF AllocateIP, PutInstance, CheckHostname
  <2>2. \A j \in Ids \ {i} : inst'[j] = inst[j] /\ pc'[j] = pc[j]
    BY <1>0, <1>2 DEF AllocateIP, PutInstance, CheckHostname, Goto, TypeOK
  <2>3. OrderedPhase(i)'
    <3>1. CASE PutInstance(i)
      BY <1>0, <3>1 DEF PutInstance, Goto, TypeOK, IInv, FreshIsPending, OrderedPhase
    <3>2. CASE ~PutInstance(i)
      <4>1. pc'[i] \in {"new", "checked", "allocated"}
        BY <1>0, <1>2, <3>2 DEF AllocateIP, CheckHostname, Goto, TypeOK
      <4> QED
        BY <4>1 DEF OrderedPhase, GoroutinePhases
    <3> QED
      BY <3>1, <3>2
  <2> QED
    BY <1>0, <1>1, <2>1, <2>2, <2>3, NoneOrdered
<1>3. ASSUME NEW i \in Ids, RunProvision(i) PROVE OInv'
  <2>1. pc[i] # "done"
    BY <1>3, ProvisionTurn DEF GoroutinePhases
  <2> QED
    BY <1>0, <1>1, <1>3, <2>1, ProvisionTurn, NoneOrdered
<1>4. ASSUME NEW w \in Workers, NEW i \in Ids,
             RequestStart(w, i) \/ RequestStop(w, i) \/ RequestRestart(w, i) \/ RequestDelete(w, i)
      PROVE  OInv'
  <2>1. \A x \in Workers \ {w} :
          worker'[x] = worker[x] /\ (worker[x].pc # "idle" => worker[x].id \in store \ {i})
    BY <1>1, <1>4, RequestTurn DEF Busy
  <2>2. CASE worker' = worker /\ UNCHANGED inst
    BY <1>4, <2>2, RequestTurn DEF OInv, OrderedPhase, OrderedWorker
  <2> QED
    BY <1>4, <2>1, <2>2, RequestTurn, OneOrdered DEF Shows
<1>5. ASSUME NEW w \in Workers, WorkerStep(w) PROVE OInv'
  <2>1. PICK i \in store : i = worker[w].id
    BY <1>5, WorkerTurn
  <2>2. \A x \in Workers \ {w} :
          worker'[x] = worker[x] /\ (worker[x].pc # "idle" => worker[x].id \in store \ {i})
    BY <1>5, <2>1, WorkerTurn DEF Attended
  <2>3. \A j \in Ids \ {i} : inst'[j] = inst[j]
    BY <1>5, <2>1, WorkerTurn DEF Shows, Reaches
  <2>4. worker'[w] = IdleWorker => OrderedWorker(w)'
    BY DEF OrderedWorker, IdleWorker, Deleting
  <2> QED
    BY <1>5, <2>1, <2>2, <2>3, <2>4, WorkerTurn, OneOrdered
<1>6. ASSUME NEW i \in Ids, RestoreSite(i) PROVE OInv'
  <2>1. \A x \in Workers : worker[x].pc = "idle"
    BY <1>6 DEF RestoreSite, Attended, Booting
  <2>2. UNCHANGED <<worker, pc>> /\ pc[i] = "done"
    BY <1>6 DEF RestoreSite, Attended
  <2>3. \A j \in Ids \ {i} : inst'[j] = inst[j]
    BY <1>0, <1>6 DEF RestoreSite, TypeOK
  <2>4. OrderedPhase(i)'
    BY <2>2 DEF OrderedPhase, GoroutinePhases
  <2> QED
    BY <2>1, <2>2, <2>3, <2>4, NoneOrdered
<1>7. CASE Crash
  BY <1>7 DEF Crash, OInv, OrderedPhase, OrderedWorker, IdleWorker, GoroutinePhases, Deleting
<1> QED
  BY <1>2, <1>3, <1>4, <1>5, <1>6, <1>7 DEF Next, Request, Handler

LEMMA InitOrdered == Init => OInv
  BY DEF Init, OInv, OrderedPhase, OrderedWorker, IdleWorker, GoroutinePhases, Deleting

LEMMA NextOrdered ==
    ASSUME ~OverlappingOps
    PROVE  IInv /\ Attended /\ OInv /\ [Next]_vars => Attended' /\ OInv'
<1> SUFFICES ASSUME IInv, Attended, OInv, [Next]_vars PROVE Attended' /\ OInv'
  OBVIOUS
<1>1. CASE Next
  BY <1>1, AttendedStep, OrderedStep
<1>2. CASE UNCHANGED vars
  BY <1>2 DEF vars, Attended, Booting, OInv, OrderedPhase, OrderedWorker
<1> QED
  BY <1>1, <1>2

LEMMA InitAttended == Init => Attended
  BY DEF Init, Attended, IdleWorker, GoroutinePhases, Booting

\* A running instance shows VirtualBox's column as running, unless that is
\* still to be written by the goroutine that starts it, or by RestoreSites.
ColumnDue(i) == i \in toRestore \/ \E w \in Workers : worker[w].id = i /\ worker[w].pc = "up"

CInv == \A i \in store : inst[i].state = "running" => inst[i].vbox = "running" \/ ColumnDue(i)

\* The column of the others stays due.
LEMMA OneColumn ==
    ASSUME CInv, NEW i \in Ids, store' \subseteq store,
           \A j \in Ids \ {i} : inst'[j] = inst[j] /\ (ColumnDue(j) => ColumnDue(j)'),
           store \subseteq Ids,
           i \in store' /\ inst'[i].state = "running" => inst'[i].vbox = "running" \/ ColumnDue(i)'
    PROVE  CInv'
<1> SUFFICES ASSUME NEW j \in store', inst'[j].state = "running"
             PROVE  inst'[j].vbox = "running" \/ ColumnDue(j)'
  BY DEF CInv
<1> QED
  BY DEF CInv

LEMMA ColumnStep ==
    ASSUME ~OverlappingOps, IInv, Attended, OInv, CInv, Next
    PROVE  CInv'
<1>0. TypeOK /\ NamesKnown /\ store \subseteq Ids
  BY DEF IInv, TypeOK
<1>1. ASSUME NEW i \in Ids, AllocateIP(i) \/ \E h \in Hostnames : CheckHostname(i, h)
      PROVE  CInv'
  <2>1. i \notin store /\ UNCHANGED <<store, worker, toRestore>>
    BY <1>1 DEF AllocateIP, CheckHostname, IInv, NamesKnown, Begun, HandlerPhases
  <2>2. \A j \in Ids \ {i} : inst'[j] = inst[j]
    BY <1>0, <1>1 DEF AllocateIP, CheckHostname, TypeOK
  <2> QED
    BY <1>0, <2>1, <2>2, OneColumn DEF ColumnDue
<1>2. ASSUME NEW i \in Ids, PutInstance(i) PROVE CInv'
  <2>1. inst[i].state = "pending" /\ store' = store \cup {i} /\ UNCHANGED <<inst, worker, toRestore>>
    BY <1>2 DEF PutInstance, IInv, FreshIsPending
  <2> QED
    BY <2>1 DEF CInv, ColumnDue
<1>3. ASSUME NEW i \in Ids, RunProvision(i) PROVE CInv'
  <2>1. /\ UNCHANGED <<store, worker, toRestore>>
        /\ \A j \in Ids \ {i} : inst'[j] = inst[j]
    BY <1>3, ProvisionTurn
  <2>2. inst'[i].state = "running" => inst'[i].vbox = "running"
    <3>1. CASE MarkRunning(i)
      <4>1. inst[i] \in Instance /\ inst[i].vbox = "running"
        BY <1>0, <3>1 DEF MarkRunning, OInv, OrderedPhase, TypeOK
      <4> QED
        BY <1>0, <3>1, <4>1 DEF MarkRunning, Mark, TypeOK, Instance
    <3>2. CASE ~MarkRunning(i)
      <4>1. pc[i] # "registered"
        BY <1>0, <1>3, <3>2 DEF RunProvision, MarkProvisioning, MarkDeploying, Deploy, DeployFails,
                FailColumn, MarkCopying, UseApache, UseFallback, RegisterDNS
      <4>2. pc[i] = "registering" => inst'[i].vbox = "running"
        BY <1>0, <1>3, <3>2 DEF RunProvision, MarkProvisioning, MarkDeploying, Deploy, DeployFails,
                FailColumn, MarkCopying, UseApache, UseFallback, RegisterDNS, TypeOK, Instance
      <4>3. pc[i] # "registering" => inst'[i].state # "running"
        <5>1. Shows(i, "running") => inst'[i].state = "running" /\ pc[i] # "failing"
          BY <1>3, ProvisionTurn DEF OInv, OrderedPhase, Shows
        <5>2. pc'[i] = "done" /\ pc[i] # "failing" => FALSE
          BY <1>0, <1>3, <3>2, <4>1 DEF RunProvision, MarkProvisioning, MarkDeploying, Deploy,
                DeployFails, FailColumn, MarkCopying, UseApache, UseFallback, RegisterDNS,
                Goto, TypeOK
        <5>3. pc[i] = "failing" => inst[i].state = "failed"
          BY DEF OInv, OrderedPhase
        <5>4. pc[i] # "failing" => inst[i].state # "running"
          BY <1>3, ProvisionTurn DEF OInv, OrderedPhase
        <5> QED
          BY <1>3, <5>2, <5>3, <5>4, ProvisionTurn DEF Shows, Reaches
      <4> QED
        BY <4>2, <4>3
    <3> QED
      BY <3>1, <3>2
  <2> QED
    BY <1>0, <2>1, <2>2, OneColumn DEF ColumnDue
<1>4. ASSUME NEW w \in Workers, NEW i \in Ids,
             RequestStart(w, i) \/ RequestStop(w, i) \/ RequestRestart(w, i) \/ RequestDelete(w, i)
      PROVE  CInv'
  <2>1. /\ UNCHANGED <<store, toRestore>> /\ worker[w].pc = "idle"
        /\ \A x \in Workers \ {w} : worker'[x] = worker[x]
    BY <1>4, RequestTurn DEF IdleWorker
  <2>2. \A j \in Ids : ColumnDue(j) => ColumnDue(j)'
    BY <2>1 DEF ColumnDue
  <2>3. /\ \A j \in Ids \ {i} : inst'[j] = inst[j]
        /\ inst'[i] = inst[i] \/ inst'[i].state # "running"
    <3>1. CASE UNCHANGED inst
      BY <3>1
    <3>2. CASE Mark(i, "provisioning") \/ Mark(i, "deleting")
      BY <1>0, <3>2, MarkShows DEF Shows
    <3> QED
      BY <1>4, <3>1, <3>2 DEF RequestStart, RequestStop, RequestRestart, RequestDelete, StartInstance
  <2> QED
    BY <1>0, <2>1, <2>2, <2>3, OneColumn DEF CInv
<1>5. ASSUME NEW w \in Workers, WorkerStep(w) PROVE CInv'
  <2>1. PICK i \in store : i = worker[w].id
    BY <1>5, WorkerTurn
  <2>2. /\ store' \subseteq store /\ UNCHANGED toRestore
        /\ \A x \in Workers \ {w} : worker'[x] = worker[x]
        /\ \A j \in Ids \ {i} : inst'[j] = inst[j]
    BY <1>5, <2>1, WorkerTurn DEF Shows, Reaches
  <2>3. \A j \in Ids \ {i} : ColumnDue(j) => ColumnDue(j)'
    BY <2>1, <2>2 DEF ColumnDue
  <2>4. OrderedWorker(w)
    BY DEF OInv
  <2>5. i \in store' /\ inst'[i].state = "running" => inst'[i].vbox = "running" \/ ColumnDue(i)'
    <3>1. CASE SettleColumn(w)
      <4>1. inst[i] \in Instance /\ inst' = [inst EXCEPT ![i].vbox = ColumnOf(worker[w].pc)]
        BY <1>0, <2>1, <3>1 DEF SettleColumn, TypeOK
      <4>2. inst'[i].state = inst[i].state /\ inst'[i].vbox = ColumnOf(worker[w].pc)
        BY <1>0, <2>1, <4>1 DEF TypeOK, Instance
      <4> QED
        BY <2>1, <2>4, <3>1, <4>2 DEF SettleColumn, ColumnOf, OrderedWorker
    <3>2. CASE SettleStarted(w) /\ worker[w].pc = "online"
      <4>1. Continue(w, "up")
        BY <3>2 DEF SettleStarted
      <4> QED
        BY <1>0, <2>1, <4>1, ContinueWorker DEF ColumnDue
    <3>3. CASE SettleStopped(w) \/ (SettleStarted(w) /\ worker[w].pc # "online")
      <4>1. \E s \in {"stopped", "failed"} : inst' = [inst EXCEPT ![i].state = s]
        BY <2>1, <3>3 DEF SettleStopped, SettleStarted
      <4> QED
        BY <1>0, <2>1, <4>1 DEF TypeOK, Instance
    <3>4. CASE RestartStart(w)
      <4>1. (UNCHANGED inst /\ worker[w].pc = "start") \/ Mark(i, "provisioning")
        BY <2>1, <3>4 DEF RestartStart, StartInstance
      <4>2. UNCHANGED inst /\ worker[w].pc = "start" =>
              (ColumnDue(i) => ColumnDue(i)')
        BY <2>1, <2>2 DEF ColumnDue
      <4>3. Mark(i, "provisioning") => inst'[i].state = "provisioning"
        BY <1>0, <2>1, MarkShows DEF Shows
      <4> QED
        BY <2>1, <4>1, <4>2, <4>3 DEF CInv
    <3>5. CASE UNCHANGED inst /\ worker[w].pc # "up"
      BY <2>1, <2>2, <3>5 DEF CInv, ColumnDue
    <3> QED
      BY <1>5, <3>1, <3>2, <3>3, <3>4, <3>5
         DEF WorkerStep, StopUnmap, StopShutdown, StopRemoveDir, RestoreForStart, DeleteRecord,
             DeleteRemoteDir, EraseInstance
  <2> QED
    BY <1>0, <2>1, <2>2, <2>3, <2>5, OneColumn
<1>6. ASSUME NEW i \in Ids, RestoreSite(i) PROVE CInv'
  <2>1. i \in store /\ UNCHANGED <<store, worker>> /\ toRestore' = toRestore \ {i}
    BY <1>6 DEF RestoreSite, Attended
  <2>2. \A j \in Ids \ {i} : inst'[j] = inst[j] /\ (ColumnDue(j) => ColumnDue(j)')
    BY <1>0, <1>6, <2>1 DEF RestoreSite, TypeOK, ColumnDue
  <2>3. inst'[i].state = "running" => inst'[i].vbox = "running"
    <3>1. CASE inst' = [inst EXCEPT ![i].state = "stopped"]
      BY <1>0, <3>1 DEF TypeOK, Instance
    <3>2. CASE inst' = [inst EXCEPT ![i] = [@ EXCEPT !.state = "running", !.vbox = "running"]]
      <4>1. inst'[i] = [inst[i] EXCEPT !.state = "running", !.vbox = "running"] /\ inst[i] \in Instance
        BY <1>0, <3>2 DEF TypeOK
      <4> QED
        BY <4>1 DEF Instance
    <3> QED
      BY <1>6, <3>1, <3>2 DEF RestoreSite
  <2> QED
    BY <1>0, <2>1, <2>2, <2>3, OneColumn
<1>7. CASE Crash
  <2>1. \A i \in store' : inst'[i].state = "running" => i \in toRestore'
    BY <1>7 DEF Crash, IInv, RunningIsDeployed
  <2> QED
    BY <2>1 DEF CInv, ColumnDue
<1> QED
  BY <1>1, <1>2, <1>3, <1>4, <1>5, <1>6, <1>7 DEF Next, Request, Handler

LEMMA InitColumn == Init => CInv
  BY DEF Init, CInv

\* The two columns agree on what runs once the work on an instance is over, as
\* long as users wait for that: whatever other goroutines save between the two
\* writes, whatever fails, and whatever half of them a restart finds.
THEOREM ColumnShown ==
    ASSUME ~OverlappingOps
    PROVE  Spec => []RunningShowsColumn
<1>1. IInv /\ Attended /\ OInv /\ CInv /\ [Next]_vars => CInv'
  <2> SUFFICES ASSUME IInv, Attended, OInv, CInv, [Next]_vars PROVE CInv'
    OBVIOUS
  <2>1. CASE UNCHANGED vars
    BY <2>1 DEF vars, CInv, ColumnDue
  <2> QED
    BY <2>1, ColumnStep
<1>2. CInv => RunningShowsColumn
  BY DEF CInv, ColumnDue, RunningShowsColumn, Settled, Busy, Booting
<1> QED
  BY <1>1, <1>2, InitIInv, NextIInv, InitAttended, InitOrdered, NextOrdered, InitColumn,
     PTL DEF Spec

\* What the dashboard shows, in memory and in the file.
Shown      == StatesIn(store, inst)
ShownSaved == StatesIn(file.ids, file.inst)

LEMMA ShownOf ==
    ASSUME NEW i \in Ids
    PROVE  /\ Shown[i] = IF i \in store THEN inst[i].state ELSE "absent"
           /\ Shown'[i] = IF i \in store' THEN inst'[i].state ELSE "absent"
  BY DEF Shown, StatesIn

LEMMA SaveShows ==
    ASSUME Save
    PROVE  ShownSaved' = Shown' \/ ("save" \in Failures /\ UNCHANGED ShownSaved)
<1>1. CASE file' = Snapshot(store', inst')
  <2>1. file'.ids = store' /\ \A i \in Ids : i \in store' => file'.inst[i] = inst'[i]
    BY <1>1 DEF Snapshot
  <2>2. \A i \in Ids : (IF i \in file'.ids THEN file'.inst[i].state ELSE "absent")
                         = (IF i \in store' THEN inst'[i].state ELSE "absent")
    BY <2>1
  <2> QED
    BY <2>2 DEF Shown, ShownSaved, StatesIn
<1>2. CASE "save" \in Failures /\ UNCHANGED file
  BY <1>2 DEF ShownSaved
<1> QED
  BY <1>1, <1>2 DEF Save

\* A step that shows something else of one instance, and saves.
LEMMA ShowOne ==
    ASSUME NEW i \in Ids, NEW s, Save, Shown'[i] = s,
           \A j \in Ids \ {i} : inst'[j] = inst[j] /\ (j \in store' <=> j \in store)
    PROVE  Life!Show(i, s)
<1>1. \A j \in Ids \ {i} : Shown'[j] = Shown[j]
  BY ShownOf
<1>2. Shown = [x \in Ids |-> Shown[x]] /\ Shown' = [x \in Ids |-> Shown'[x]]
  BY DEF Shown, StatesIn
<1>3. Shown' = [Shown EXCEPT ![i] = s]
  BY <1>1, <1>2, OnePlace
<1> QED
  BY <1>3, SaveShows DEF Life!Show, Life!Write, Shown, ShownSaved

LEMMA ShowsOne ==
    ASSUME NEW i \in store, store \subseteq Ids, NEW s, Shows(i, s)
    PROVE  Life!Show(i, s)
<1>1. Shown'[i] = s
  BY ShownOf DEF Shows
<1> QED
  BY <1>1, ShowOne DEF Shows

\* A step that shows something else of one instance, and does not save.
LEMMA ReachesOne ==
    ASSUME NEW i \in store, store \subseteq Ids, NEW s, Reaches(i, s)
    PROVE  Shown' = [Shown EXCEPT ![i] = s] /\ ShownSaved' = ShownSaved
<1>1. Shown'[i] = s /\ \A j \in Ids \ {i} : Shown'[j] = Shown[j]
  BY ShownOf DEF Reaches
<1>2. Shown = [x \in Ids |-> Shown[x]] /\ Shown' = [x \in Ids |-> Shown'[x]]
  BY DEF Shown, StatesIn
<1>3. Shown' = [Shown EXCEPT ![i] = s]
  BY <1>1, <1>2, OnePlace
<1> QED
  BY <1>3 DEF Reaches, ShownSaved

\* A step that saves what is shown already.
LEMMA ShowsSame ==
    ASSUME NEW i \in store, store \subseteq Ids, Shows(i, inst[i].state)
    PROVE  Shown' = Shown /\ Life!Write
<1>1. \A j \in Ids : Shown'[j] = Shown[j]
  BY ShownOf DEF Shows
<1>2. Shown = [x \in Ids |-> Shown[x]] /\ Shown' = [x \in Ids |-> Shown'[x]]
  BY DEF Shown, StatesIn
<1> QED
  BY <1>1, <1>2, SaveShows DEF Shows, Life!Write, Shown, ShownSaved

\* A step that changes nothing that is shown.
LEMMA ShowSame ==
    ASSUME UNCHANGED <<store, file>>, \A j \in store : inst'[j].state = inst[j].state
    PROVE  Shown' = Shown /\ ShownSaved' = ShownSaved
<1>1. \A j \in Ids : Shown'[j] = Shown[j]
  BY ShownOf
<1>2. Shown = [x \in Ids |-> Shown[x]] /\ Shown' = [x \in Ids |-> Shown'[x]]
  BY DEF Shown, StatesIn
<1> QED
  BY <1>1, <1>2 DEF ShownSaved

\* The party that works on an instance is the only one.
LEMMA TaskIs ==
    ASSUME Attended, OInv, NEW w \in Workers, NEW i \in Ids, worker[w].id = i,
           pc[i] \notin GoroutinePhases
    PROVE  Tasks[i] = TaskOf(w)
<1>1. \A x \in Workers : worker[x].id = i => worker[x].pc # "idle"
  BY NoneAssumption DEF OInv, OrderedWorker
<1>2. \A x \in Workers : worker[x].id = i => x = w
  BY <1>1 DEF Attended
<1>3. (CHOOSE x \in Workers : worker[x].id = i) = w
  BY <1>2
<1> QED
  BY <1>3 DEF Tasks, Busy

LEMMA TaskIsThen ==
    ASSUME Attended', OInv', NEW w \in Workers, NEW i \in Ids, worker'[w].id = i,
           pc'[i] \notin GoroutinePhases
    PROVE  Tasks'[i] = TaskOf(w)'
<1>1. \A x \in Workers : worker'[x].id = i => worker'[x].pc # "idle"
  BY NoneAssumption DEF OInv, OrderedWorker
<1>2. \A x \in Workers : worker'[x].id = i => x = w
  BY <1>1 DEF Attended
<1>3. (CHOOSE x \in Workers : worker'[x].id = i) = w
  BY <1>2
<1> QED
  BY <1>3 DEF Tasks, Busy

LEMMA NoTask ==
    ASSUME NEW i \in Ids
    PROVE  /\ pc[i] \in GoroutinePhases => Tasks[i] = "provision"
           /\ pc'[i] \in GoroutinePhases => Tasks'[i] = "provision"
           /\ pc[i] \notin GoroutinePhases /\ ~Busy(i) => Tasks[i] = "none"
           /\ pc'[i] \notin GoroutinePhases /\ ~Busy(i)' => Tasks'[i] = "none"
  BY DEF Tasks, Busy

\* A step of a party that works on i changes the task of i only.
LEMMA OtherTasks ==
    ASSUME Attended, OInv, Attended', OInv', NEW i,
           \A j \in Ids \ {i} : pc'[j] \in GoroutinePhases <=> pc[j] \in GoroutinePhases,
           \A w \in Workers : \/ worker'[w] = worker[w]
                              \/ worker[w].id \in {i, None} /\ worker'[w].id \in {i, None}
    PROVE  \A j \in Ids \ {i} : Tasks'[j] = Tasks[j]
<1> SUFFICES ASSUME NEW j \in Ids \ {i} PROVE Tasks'[j] = Tasks[j]
  OBVIOUS
<1>1. CASE pc[j] \in GoroutinePhases
  BY <1>1, NoTask
<1>2. ASSUME pc[j] \notin GoroutinePhases, NEW w \in Workers, worker[w].id = j
      PROVE  Tasks'[j] = Tasks[j]
  <2>1. worker'[w] = worker[w]
    BY <1>2, NoneAssumption
  <2> QED
    BY <1>2, <2>1, TaskIs, TaskIsThen DEF TaskOf
<1>3. CASE pc[j] \notin GoroutinePhases /\ ~Busy(j)
  <2>1. ~Busy(j)'
    BY <1>3, NoneAssumption DEF Busy
  <2> QED
    BY <1>3, <2>1, NoTask DEF Busy
<1> QED
  BY <1>1, <1>2, <1>3 DEF Busy

LEMMA TakeOne ==
    ASSUME NEW i \in Ids, \A j \in Ids \ {i} : Tasks'[j] = Tasks[j]
    PROVE  Life!Take(i, Tasks'[i])
<1>1. Tasks = [x \in Ids |-> Tasks[x]] /\ Tasks' = [x \in Ids |-> Tasks'[x]]
  BY DEF Tasks, Busy, TaskOf
<1> QED
  BY <1>1, OnePlace DEF Life!Take

LEMMA SameTasks ==
    ASSUME \A j \in Ids : Tasks'[j] = Tasks[j]
    PROVE  Tasks' = Tasks
<1>1. Tasks = [x \in Ids |-> Tasks[x]] /\ Tasks' = [x \in Ids |-> Tasks'[x]]
  BY DEF Tasks, Busy, TaskOf
<1> QED
  BY <1>1

\* Every step is one of Lifecycle, or shows nothing.
LEMMA RequestLife ==
    ASSUME IInv, Attended, OInv, Attended', OInv', NEW i \in Ids,
           AllocateIP(i) \/ \E h \in Hostnames : CheckHostname(i, h)
    PROVE  UNCHANGED <<Shown, ShownSaved, Tasks, toRestore>>
<1>1. UNCHANGED <<worker, toRestore>>
  BY DEF AllocateIP, CheckHostname
<1>2. \A j \in Ids : pc'[j] \in GoroutinePhases <=> pc[j] \in GoroutinePhases
  BY DEF AllocateIP, CheckHostname, Goto, GoroutinePhases, IInv, TypeOK
<1>3. Tasks' = Tasks
  BY <1>1, <1>2, OtherTasks, SameTasks, NoneAssumption
<1> QED
  BY <1>1, <1>3, RequestKeepsStore, ShowSame

LEMMA PutLife ==
    ASSUME IInv, Attended, OInv, Attended', OInv', NEW i \in Ids, PutInstance(i)
    PROVE  Life!Accept(i)
<1>0. TypeOK /\ NamesKnown /\ store \subseteq Ids
  BY DEF IInv, TypeOK
<1>1. i \notin store /\ pc[i] = "allocated" /\ inst' = inst /\ store' = store \cup {i}
  BY <1>0 DEF PutInstance, NamesKnown, Begun, HandlerPhases
<1>2. UNCHANGED <<worker, toRestore>> /\ Save /\ inst[i].state = "pending"
  BY <1>1 DEF PutInstance, Save, IInv, FreshIsPending
<1>3. ~Busy(i)
  BY <1>1, NoneAssumption DEF Busy, Attended, OInv, OrderedWorker
<1>4. ~Busy(i)'
  BY <1>2, <1>3 DEF Busy
<1>5. Shown[i] = "absent" /\ Tasks[i] = "none" /\ Shown'[i] = "pending"
  BY <1>1, <1>2, <1>3, ShownOf, NoTask DEF GoroutinePhases
<1>6. Life!Show(i, "pending")
  BY <1>1, <1>2, <1>5, ShowOne
<1>7. \A j \in Ids \ {i} : Tasks'[j] = Tasks[j]
  <2>1. \A j \in Ids \ {i} : pc'[j] = pc[j]
    BY <1>0 DEF PutInstance, Goto, TypeOK
  <2> QED
    BY <1>2, <2>1, OtherTasks
<1>8. Life!Take(i, "provision") \/ ("save" \in Failures /\ UNCHANGED Tasks)
  <2>1. CASE Goto(i, "queued")
    <3>1. Tasks'[i] = "provision"
      BY <1>0, <2>1, NoTask DEF Goto, TypeOK, GoroutinePhases
    <3> QED
      BY <1>7, <3>1, TakeOne
  <2>2. CASE "save" \in Failures /\ Goto(i, "done")
    <3>1. Tasks'[i] = "none"
      BY <1>0, <1>4, <2>2, NoTask DEF Goto, TypeOK, GoroutinePhases
    <3> QED
      BY <1>5, <1>7, <2>2, <3>1, SameTasks
  <2> QED
    BY <2>1, <2>2 DEF PutInstance
<1> QED
  BY <1>2, <1>5, <1>6, <1>8 DEF Life!Accept, Shown, ShownSaved

LEMMA ProvisionLife ==
    ASSUME IInv, Attended, OInv, Attended', OInv', NEW i \in Ids, RunProvision(i)
    PROVE  \/ Life!Work(i) \/ Life!Reach(i) \/ Life!Finish(i)
           \/ UNCHANGED <<Shown, ShownSaved, Tasks, toRestore>>
<1>0. store \subseteq Ids
  BY DEF IInv, TypeOK
<1>1. /\ i \in store /\ pc[i] \in GoroutinePhases /\ UNCHANGED <<store, worker, toRestore>>
      /\ \A j \in Ids \ {i} : pc'[j] = pc[j] /\ inst'[j] = inst[j]
  BY ProvisionTurn
<1>2. \A j \in Ids \ {i} : Tasks'[j] = Tasks[j]
  BY <1>1, OtherTasks
<1>3. Tasks[i] = "provision" /\ Shown[i] = inst[i].state
  BY <1>1, NoTask, ShownOf
<1>4. /\ pc[i] # "failing" => inst[i].state \in {"pending", "provisioning", "deploying"}
      /\ pc[i] = "failing" => inst[i].state = "failed" /\ pc'[i] = "done"
  BY <1>1 DEF OInv, OrderedPhase, RunProvision, MarkProvisioning, MarkDeploying, Deploy,
              DeployFails, FailColumn, MarkCopying, UseApache, UseFallback, RegisterDNS,
              MarkRunning, Goto, IInv, TypeOK
<1>5. CASE pc'[i] \in GoroutinePhases
  <2>1. Tasks' = Tasks
    BY <1>2, <1>3, <1>5, NoTask, SameTasks
  <2>2. CASE UNCHANGED file /\ inst'[i].state = inst[i].state
    BY <1>0, <1>1, <2>1, <2>2, ShowSame
  <2>3. ASSUME NEW s \in {"provisioning", "deploying"}, Shows(i, s)
        PROVE  Life!Work(i)
    <3>1. pc[i] # "failing"
      BY <1>4, <1>5 DEF GoroutinePhases
    <3> QED
      BY <1>0, <1>1, <1>3, <1>4, <2>1, <2>3, <3>1, ShowsOne DEF Life!Work, Life!UnderWay, Shown
  <2>4. CASE pc[i] # "failing" /\ Reaches(i, "failed")
    BY <1>0, <1>1, <1>3, <1>4, <2>1, <2>4, ReachesOne
       DEF Life!Reach, Life!UnderWay, Shown, ShownSaved
  <2> QED
    BY <1>5, <2>2, <2>3, <2>4, ProvisionTurn DEF GoroutinePhases
<1>6. CASE pc'[i] = "done"
  <2>1. \/ pc[i] = "failing" /\ Shows(i, inst[i].state)
        \/ pc[i] # "failing" /\ Shows(i, "running")
    BY <1>6, ProvisionTurn DEF GoroutinePhases
  <2>2. ~Busy(i)'
    <3>1. ~Busy(i)
      BY <1>1, NoneAssumption DEF Busy, Attended, OInv, OrderedWorker, GoroutinePhases
    <3> QED
      BY <1>1, <3>1 DEF Busy
  <2>3. Tasks'[i] = "none"
    BY <1>6, <2>2, NoTask DEF GoroutinePhases
  <2>4. Life!Take(i, "none")
    BY <1>2, <2>3, TakeOne
  <2>5. CASE pc[i] = "failing" /\ Shows(i, inst[i].state)
    BY <1>0, <1>1, <1>3, <1>4, <2>4, <2>5, ShowsSame DEF Life!Finish, Shown
  <2>6. CASE pc[i] # "failing" /\ Shows(i, "running")
    BY <1>0, <1>1, <1>3, <1>4, <2>4, <2>6, ShowsOne DEF Life!Finish, Life!UnderWay, Shown
  <2> QED
    BY <2>1, <2>5, <2>6
<1> QED
  BY <1>5, <1>6, ProvisionTurn

LEMMA AskLife ==
    ASSUME ~OverlappingOps, IInv, Attended, OInv, Attended', OInv', NEW w \in Workers, NEW i \in Ids,
           RequestStart(w, i) \/ RequestStop(w, i) \/ RequestRestart(w, i) \/ RequestDelete(w, i)
    PROVE  Life!Ask(i) \/ UNCHANGED <<Shown, ShownSaved, Tasks, toRestore>>
<1>0. store \subseteq Ids
  BY DEF IInv, TypeOK
<1>1. /\ UNCHANGED <<store, pc, toRestore>> /\ ~Booting
      /\ i \in store /\ pc[i] = "done" /\ ~Busy(i) /\ worker[w].id = None
      /\ \A x \in Workers \ {w} : worker'[x] = worker[x]
  BY RequestTurn DEF IdleWorker
<1>2. Tasks[i] = "none" /\ Shown[i] = inst[i].state
  BY <1>1, NoTask, ShownOf DEF GoroutinePhases
<1>3. inst[i].state # "absent"
  BY <1>0, <1>1 DEF IInv, TypeOK, Instance, State
<1>4. CASE worker' = worker /\ UNCHANGED <<inst, store, file>>
  <2>1. Tasks' = Tasks
    BY <1>1, <1>4, OtherTasks, SameTasks, NoneAssumption
  <2> QED
    BY <1>1, <1>4, <2>1, ShowSame
<1>5. ASSUME worker'[w].id = i,
             \/ TaskOf(w)' = "start" /\ Shows(i, "provisioning")
             \/ TaskOf(w)' = "delete" /\ Shows(i, "deleting")
             \/ TaskOf(w)' \in {"stop", "restart"} /\ Shows(i, inst[i].state)
      PROVE  Life!Ask(i)
  <2>1. \A j \in Ids \ {i} : Tasks'[j] = Tasks[j]
    BY <1>1, <1>5, OtherTasks
  <2>2. Tasks'[i] = TaskOf(w)'
    BY <1>1, <1>5, TaskIsThen DEF GoroutinePhases
  <2>3. Life!Take(i, TaskOf(w)')
    BY <2>1, <2>2, TakeOne
  <2>4. \/ Life!Take(i, "start") /\ Life!Show(i, "provisioning")
        \/ Life!Take(i, "delete") /\ Life!Show(i, "deleting")
        \/ \E t \in {"stop", "restart"} : Life!Take(i, t) /\ Life!Show(i, Shown[i])
    BY <1>0, <1>1, <1>2, <1>5, <2>3, ShowsOne
  <2> QED
    BY <1>1, <1>2, <1>3, <2>4 DEF Life!Ask, Shown, Booting
<1> QED
  BY <1>4, <1>5, RequestTurn

LEMMA WorkerLife ==
    ASSUME IInv, Attended, OInv, Attended', OInv', NEW w \in Workers, WorkerStep(w)
    PROVE  \/ \E i \in Ids : Life!Work(i) \/ Life!Reach(i) \/ Life!Finish(i)
           \/ UNCHANGED <<Shown, ShownSaved, Tasks, toRestore>>
<1>0. store \subseteq Ids
  BY DEF IInv, TypeOK
<1>1. PICK i \in Ids : i = worker[w].id
  BY <1>0, WorkerTurn
<1>2. /\ i \in store /\ pc[i] = "done" /\ worker[w].pc # "idle" /\ UNCHANGED <<pc, toRestore>>
      /\ \A x \in Workers \ {w} : worker'[x] = worker[x]
  BY <1>1, WorkerTurn
<1>3. worker'[w].id \in {i, None}
  BY <1>1, WorkerTurn DEF IdleWorker
<1>4. \A j \in Ids \ {i} : Tasks'[j] = Tasks[j]
  BY <1>1, <1>2, <1>3, OtherTasks
<1>5. Tasks[i] = TaskOf(w) /\ Shown[i] = inst[i].state
  BY <1>1, <1>2, TaskIs, ShownOf DEF GoroutinePhases
<1>6. CASE worker'[w].id = i
  <2>1. Tasks'[i] = TaskOf(w)'
    BY <1>2, <1>6, TaskIsThen DEF GoroutinePhases
  <2>2. CASE TaskOf(w)' = TaskOf(w) /\ UNCHANGED <<inst, store, file>>
    BY <1>2, <1>4, <1>5, <2>1, <2>2, SameTasks, ShowSame
  <2>3. CASE TaskOf(w) = "restart" /\ TaskOf(w)' = "start" /\ Shows(i, "provisioning")
    <3>1. Life!Take(i, "start") /\ Life!Show(i, "provisioning")
      BY <1>0, <1>2, <1>4, <2>1, <2>3, TakeOne, ShowsOne
    <3> QED
      BY <1>2, <1>5, <2>3, <3>1 DEF Life!Work
  <2>4. CASE /\ TaskOf(w)' = TaskOf(w)
             /\ \/ TaskOf(w) = "stop" /\ Reaches(i, "stopped")
                \/ /\ TaskOf(w) = "start" /\ inst[i].state = "provisioning"
                   /\ \E s \in {"running", "failed"} : Reaches(i, s)
    <3>1. Tasks' = Tasks
      BY <1>4, <1>5, <2>1, <2>4, SameTasks
    <3> QED
      BY <1>0, <1>2, <1>5, <2>4, <3>1, ReachesOne DEF Life!Reach, Life!UnderWay, Shown, ShownSaved
  <2> QED
    BY <1>1, <1>6, <2>2, <2>3, <2>4, NoneAssumption, WorkerTurn DEF IdleWorker
<1>7. CASE worker'[w] = IdleWorker
  <2>1. ~Busy(i)'
    BY <1>1, <1>2, <1>7, NoneAssumption DEF Busy, IdleWorker, Attended, OInv, OrderedWorker
  <2>2. Tasks'[i] = "none"
    BY <1>2, <2>1, NoTask DEF GoroutinePhases
  <2>3. Life!Take(i, "none")
    BY <1>4, <2>2, TakeOne
  <2>4. CASE TaskOf(w) = "restart" /\ UNCHANGED <<inst, store, file>>
    BY <1>2, <1>5, <2>3, <2>4, ShowSame DEF Life!Finish, Shown, ShownSaved
  <2>5. CASE TaskOf(w) = "stop" /\ inst[i].state = "stopped" /\ Shows(i, inst[i].state)
    BY <1>0, <1>2, <1>5, <2>3, <2>5, ShowsSame DEF Life!Finish, Shown
  <2>6. CASE /\ TaskOf(w) = "start" /\ inst[i].state \in {"running", "failed"}
             /\ Shows(i, inst[i].state)
    BY <1>0, <1>2, <1>5, <2>3, <2>6, ShowsSame DEF Life!Finish, Shown
  <2>7. CASE /\ TaskOf(w) = "delete" /\ inst[i].state = "deleting"
             /\ store' = store \ {i} /\ inst' = inst /\ Save
    <3>1. Life!Show(i, "absent")
      BY <2>7, ShownOf, ShowOne
    <3> QED
      BY <1>2, <1>5, <2>3, <2>7, <3>1 DEF Life!Finish, Shown
  <2> QED
    BY <1>1, <1>7, <2>4, <2>5, <2>6, <2>7, NoneAssumption, WorkerTurn DEF IdleWorker
<1> QED
  BY <1>1, <1>6, <1>7, WorkerTurn

LEMMA RestoreLife ==
    ASSUME IInv, Attended, OInv, Attended', OInv', NEW i \in Ids, RestoreSite(i)
    PROVE  Life!Restore(i)
<1>0. TypeOK /\ store \subseteq Ids
  BY DEF IInv, TypeOK
<1>1. /\ UNCHANGED <<store, pc, worker>> /\ Save /\ i \in toRestore /\ toRestore' = toRestore \ {i}
      /\ i \in store
  BY DEF RestoreSite, Attended
<1>2. \A j \in Ids \ {i} : inst'[j] = inst[j]
  BY <1>0 DEF RestoreSite, TypeOK
<1>3. inst'[i].state \in {"running", "stopped"}
  <2>1. \/ inst' = [inst EXCEPT ![i] = [@ EXCEPT !.state = "running", !.vbox = "running"]]
        \/ inst' = [inst EXCEPT ![i].state = "stopped"]
    BY DEF RestoreSite
  <2>2. CASE inst' = [inst EXCEPT ![i].state = "stopped"]
    BY <1>0, <2>2 DEF TypeOK, Instance
  <2>3. CASE inst' = [inst EXCEPT ![i] = [@ EXCEPT !.state = "running", !.vbox = "running"]]
    BY <1>0, <1>1, <2>3, RestoreShows DEF Shows
  <2> QED
    BY <2>1, <2>2, <2>3
<1>4. Shows(i, inst'[i].state)
  BY <1>1, <1>2 DEF Shows
<1>5. \E s \in {"running", "stopped"} : Life!Show(i, s)
  <2>1. PICK s \in {"running", "stopped"} : inst'[i].state = s
    BY <1>3
  <2> QED
    BY <1>0, <1>1, <1>4, <2>1, ShowsOne
<1>6. Tasks' = Tasks
  BY <1>1, OtherTasks, SameTasks, NoneAssumption
<1> QED
  BY <1>1, <1>5, <1>6 DEF Life!Restore

LEMMA CrashLife ==
    ASSUME IInv, Crash
    PROVE  Life!Restart
<1>1. Shown' = ShownSaved /\ ShownSaved' = ShownSaved
  BY DEF Crash, Shown, ShownSaved
<1>2. \A i \in Ids : pc'[i] \notin GoroutinePhases
  BY DEF Crash, GoroutinePhases
<1>3. \A i \in Ids : ~Busy(i)'
  BY NoneAssumption DEF Crash, Busy, IdleWorker
<1>4. Tasks' = [i \in Ids |-> "none"]
  BY <1>2, <1>3 DEF Tasks, Busy, TaskOf
<1>5. toRestore' \subseteq {i \in Ids : ShownSaved[i] # "absent"}
  <2>1. toRestore' \subseteq file.ids /\ file.ids \subseteq Ids
    BY DEF Crash, IInv, TypeOK
  <2>2. \A i \in file.ids : ShownSaved[i] = file.inst[i].state /\ file.inst[i] \in Instance
    BY <2>1 DEF ShownSaved, StatesIn, IInv, TypeOK
  <2> QED
    BY <2>1, <2>2 DEF Instance, State
<1> QED
  BY <1>1, <1>4, <1>5 DEF Life!Restart, Crash, Shown, ShownSaved

LEMMA LifeStep ==
    ASSUME ~OverlappingOps, IInv, Attended, OInv, Attended', OInv', [Next]_vars
    PROVE  [Life!Next]_<<Shown, ShownSaved, Tasks, toRestore>>
<1>1. CASE Next
  <2>1. ASSUME NEW i \in Ids, AllocateIP(i) \/ \E h \in Hostnames : CheckHostname(i, h)
        PROVE  UNCHANGED <<Shown, ShownSaved, Tasks, toRestore>>
    BY <2>1, RequestLife
  <2>2. ASSUME NEW i \in Ids, PutInstance(i) \/ RestoreSite(i)
        PROVE  Life!Next
    BY <2>2, PutLife, RestoreLife DEF Life!Next
  <2>3. ASSUME NEW i \in Ids, RunProvision(i)
        PROVE  Life!Next \/ UNCHANGED <<Shown, ShownSaved, Tasks, toRestore>>
    BY <2>3, ProvisionLife DEF Life!Next
  <2>4. ASSUME NEW w \in Workers, NEW i \in Ids,
               RequestStart(w, i) \/ RequestStop(w, i) \/ RequestRestart(w, i) \/ RequestDelete(w, i)
        PROVE  Life!Next \/ UNCHANGED <<Shown, ShownSaved, Tasks, toRestore>>
    BY <2>4, AskLife DEF Life!Next
  <2>5. ASSUME NEW w \in Workers, WorkerStep(w)
        PROVE  Life!Next \/ UNCHANGED <<Shown, ShownSaved, Tasks, toRestore>>
    BY <2>5, WorkerLife DEF Life!Next
  <2>6. CASE Crash
    BY <2>6, CrashLife DEF Life!Next
  <2> QED
    BY <1>1, <2>1, <2>2, <2>3, <2>4, <2>5, <2>6 DEF Next, Request, Handler
<1>2. CASE UNCHANGED vars
  <2>1. \A j \in Ids : Tasks'[j] = Tasks[j]
    BY <1>2, OtherTasks, NoneAssumption DEF vars
  <2>2. Tasks' = Tasks
    BY <2>1, SameTasks
  <2> QED
    BY <1>2, <2>2, ShowSame DEF vars
<1> QED
  BY <1>1, <1>2

LEMMA InitLife == Init => Life!Init
<1> SUFFICES ASSUME Init PROVE Life!Init
  OBVIOUS
<1>1. \A i \in Ids : pc[i] \notin GoroutinePhases /\ ~Busy(i)
  BY NoneAssumption DEF Init, GoroutinePhases, Busy, IdleWorker
<1>2. Tasks = [i \in Ids |-> "none"]
  BY <1>1 DEF Tasks, Busy, TaskOf
<1>3. Shown = [i \in Ids |-> "absent"] /\ ShownSaved = Shown
  BY DEF Init, Shown, ShownSaved, StatesIn, Snapshot
<1> QED
  BY <1>2, <1>3 DEF Life!Init, Init, Shown, ShownSaved

\* The dashboard and whoever works behind it go through the life Lifecycle
\* describes, when nobody asks for an operation on an instance under work:
\* whatever fails to be done or to be saved, and wherever the process ends.
THEOREM LifecycleFollowed ==
    ASSUME ~OverlappingOps
    PROVE  Spec => FollowsLifecycle
<1>1. IInv /\ Attended /\ OInv /\ Attended' /\ OInv' /\ [Next]_vars
        => [Life!Next]_<<StatesIn(store, inst), StatesIn(file.ids, file.inst), Tasks, toRestore>>
  BY LifeStep DEF Shown, ShownSaved
<1> QED
  BY <1>1, InitIInv, NextIInv, InitAttended, InitOrdered, NextOrdered, InitLife,
     PTL DEF Spec, FollowsLifecycle, Life!Spec, Life!vars

\* Saved as shown; and only what is at rest is restarted.
Watched(i) ==
    Shown[i] \in {"pending", "provisioning", "deploying", "deleting"}
    /\ Tasks[i] \in {"none", "restart"} => "save" \in Failures /\ Shown[i] = "pending"

Steered == \A i \in Ids : Watched(i)

LEMMA SteeredStep ==
    ASSUME ~Crashes, Steered,
           [Life!Next]_<<Shown, ShownSaved, Tasks, toRestore>>
    PROVE  Steered'
<1>0. /\ Shown = [x \in Ids |-> Shown[x]] /\ Shown' = [x \in Ids |-> Shown'[x]]
      /\ Tasks = [x \in Ids |-> Tasks[x]] /\ Tasks' = [x \in Ids |-> Tasks'[x]]
  BY DEF Shown, StatesIn, Tasks, Busy, TaskOf
<1>1. ASSUME NEW i \in Ids, NEW s, NEW t, Life!Show(i, s), Life!Take(i, t)
      PROVE  /\ Shown'[i] = s /\ Tasks'[i] = t
             /\ \A j \in Ids \ {i} : Shown'[j] = Shown[j] /\ Tasks'[j] = Tasks[j]
  BY <1>0, <1>1 DEF Life!Show, Life!Write, Life!Take, Shown
<1>2. ASSUME NEW i \in Ids, NEW s, Life!Show(i, s)
      PROVE  /\ Shown'[i] = s
             /\ \A j \in Ids \ {i} : Shown'[j] = Shown[j]
  BY <1>0, <1>2 DEF Life!Show, Life!Write, Shown
<1>3. ASSUME NEW i \in Ids, NEW t, Life!Take(i, t)
      PROVE  /\ Tasks'[i] = t
             /\ \A j \in Ids \ {i} : Tasks'[j] = Tasks[j]
  BY <1>0, <1>3 DEF Life!Take
<1>4. Steered' <=> \A i \in Ids :
        Shown'[i] \in {"pending", "provisioning", "deploying", "deleting"}
        /\ Tasks'[i] \in {"none", "restart"}
            => "save" \in Failures /\ Shown'[i] = "pending"
  BY DEF Steered, Watched, Shown
<1>5. \A i \in Ids :
        Shown[i] \in {"pending", "provisioning", "deploying", "deleting"}
        /\ Tasks[i] \in {"none", "restart"}
            => "save" \in Failures /\ Shown[i] = "pending"
  BY DEF Steered, Watched, Shown
<1>6. ASSUME NEW i \in Ids, Life!Accept(i) PROVE Steered'
  <2>1. CASE Life!Take(i, "provision")
    BY <1>1, <1>4, <1>5, <1>6, <2>1 DEF Life!Accept
  <2>2. CASE "save" \in Failures /\ UNCHANGED Tasks
    BY <1>2, <1>4, <1>5, <1>6, <2>2 DEF Life!Accept
  <2> QED
    BY <1>6, <2>1, <2>2 DEF Life!Accept, Tasks, Busy, TaskOf
<1>7. ASSUME NEW i \in Ids, Life!Ask(i) PROVE Steered'
  <2>1. Shown[i] \in {"pending", "provisioning", "deploying", "deleting"}
            => "save" \in Failures /\ Shown[i] = "pending"
    BY <1>5, <1>7 DEF Life!Ask
  <2>2. PICK s, t : /\ Life!Show(i, s) /\ Life!Take(i, t)
                    /\ \/ t \in {"start", "delete"}
                       \/ s = Shown[i] /\ t \in {"stop", "restart"}
    BY <1>7 DEF Life!Ask, Shown
  <2> QED
    BY <1>1, <1>4, <1>5, <2>1, <2>2
<1>8. ASSUME NEW i \in Ids, Life!Work(i) PROVE Steered'
  BY <1>1, <1>2, <1>4, <1>5, <1>8 DEF Life!Work
<1>9. ASSUME NEW i \in Ids, Life!Finish(i) PROVE Steered'
  <2>1. Life!Take(i, "none")
    BY <1>9 DEF Life!Finish
  <2>2. CASE /\ \/ Tasks[i] = "restart"
                \/ Shown[i] \in {"running", "failed", "stopped"}
             /\ UNCHANGED Shown
    BY <1>3, <1>4, <1>5, <2>1, <2>2
  <2>3. ASSUME NEW s \in {"running", "failed", "stopped", "absent"}, Life!Show(i, s)
        PROVE  Steered'
    BY <1>1, <1>4, <1>5, <2>1, <2>3
  <2> QED
    BY <1>9, <2>2, <2>3 DEF Life!Finish, Shown
<1>10. ASSUME NEW i \in Ids, Life!Restore(i) PROVE Steered'
  BY <1>2, <1>4, <1>5, <1>10 DEF Life!Restore
<1>11. CASE UNCHANGED <<Shown, Tasks>>
  BY <1>4, <1>5, <1>11
<1>12. ASSUME NEW i \in Ids, Life!Reach(i) PROVE Steered'
  <2>1. UNCHANGED Tasks
    BY <1>12 DEF Life!Reach
  <2>2. PICK s \in {"running", "failed", "stopped"} : Shown' = [Shown EXCEPT ![i] = s]
    BY <1>12 DEF Life!Reach, Shown
  <2>3. Shown'[i] = s /\ \A j \in Ids \ {i} : Shown'[j] = Shown[j]
    BY <1>0, <2>2
  <2> QED
    BY <1>4, <1>5, <2>1, <2>3
<1> QED
  BY <1>6, <1>7, <1>8, <1>9, <1>10, <1>11, <1>12 DEF Life!Next, Life!Restart

\* What the dashboard shows as under way or as being deleted is being worked
\* on as long as the process lives, but for what a request refused for a failed
\* save left behind, which stays pending.  After the end of the process anything
\* may stay so for ever.
THEOREM NobodyStuck ==
    ASSUME ~OverlappingOps, ~Crashes
    PROVE  Spec => []Life!NobodyStuck
<1>1. Life!Init => Steered
  BY DEF Life!Init, Steered, Watched, Shown
<1>2. Steered /\ [Life!Next]_Life!vars => Steered'
  BY SteeredStep DEF Life!vars, Shown, ShownSaved
<1>3. Steered => Life!NobodyStuck
  BY DEF Steered, Watched, Life!NobodyStuck, Life!UnderWay, Shown
<1> QED
  BY <1>1, <1>2, <1>3, LifecycleFollowed, PTL DEF FollowsLifecycle, Life!Spec

\* An instance leaves the store only by a deletion under way, and a restart
\* brings back what was there: nothing that was accepted and saved is lost.
THEOREM NothingLost ==
    ASSUME ~OverlappingOps, "save" \notin Failures
    PROVE  Spec => [][\A i \in store \ store' : inst[i].state = "deleting"]_vars
<1>1. IInv /\ Attended /\ OInv /\ Saved /\ [Next]_vars
        => [\A i \in store \ store' : inst[i].state = "deleting"]_vars
  <2> SUFFICES ASSUME IInv, Attended, OInv, Saved, Next, NEW i \in store \ store'
               PROVE  inst[i].state = "deleting"
    OBVIOUS
  <2>1. ~Crash
    BY DEF Crash, Saved
  <2>2. CASE \E w \in Workers : WorkerStep(w)
    <3>1. PICK w \in Workers : WorkerStep(w)
      BY <2>2
    <3> QED
      BY <3>1, WorkerTurn DEF Shows, Reaches
  <2>3. ASSUME NEW j \in Ids, AllocateIP(j) \/ PutInstance(j) \/ RunProvision(j) \/ RestoreSite(j)
                              \/ \E h \in Hostnames : CheckHostname(j, h)
        PROVE  store \subseteq store'
    BY <2>3, ProvisionTurn, RequestKeepsStore DEF PutInstance, RestoreSite
  <2>4. ASSUME NEW w \in Workers, NEW j \in Ids,
               RequestStart(w, j) \/ RequestStop(w, j) \/ RequestRestart(w, j) \/ RequestDelete(w, j)
        PROVE  store' = store
    BY <2>4, RequestTurn
  <2> QED
    BY <2>1, <2>2, <2>3, <2>4 DEF Next, Request, Handler
<1> QED
  BY <1>1, InitIInv, NextIInv, InitAttended, InitOrdered, NextOrdered, InitSaved, NextSaved,
     PTL DEF Spec

=============================================================================
