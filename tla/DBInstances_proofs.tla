------------------------ MODULE DBInstances_proofs ------------------------
(* Theorems about DBInstances, for every value of its constants. *)
EXTENDS DBInstances, TLAPS

\* A goroutine that deletes has an instance.
WorkersHaveIds == \A w \in Workers : worker[w].pc # "idle" => worker[w].id \in Ids

TInv == TypeOK /\ WorkersHaveIds

-----------------------------------------------------------------------------
(* Types of what the actions build. *)

Objects  == [Ids -> DBInstance]
Machines == [Ids -> Machine]
Files    == [ids : SUBSET Ids, inst : [Ids -> DBInstance]]

LEMMA NoInstanceType == NoInstance \in DBInstance
  BY DEF NoInstance, DBInstance, State

LEMMA NoMachineType == NoMachine \in Machine
  BY DEF NoMachine, Machine, Power

LEMMA MapType == \A power : MapVBoxState(power) \in State
  BY DEF MapVBoxState, State

\* A snapshot of well-typed objects is what the file may hold.
LEMMA SnapshotType ==
    ASSUME NEW ids \in SUBSET Ids, NEW objects \in Objects
    PROVE  Snapshot(ids, objects) \in Files
<1>1. [i \in Ids |-> IF i \in ids THEN objects[i] ELSE NoInstance] \in Objects
  BY NoInstanceType DEF Objects
<1> QED
  BY <1>1 DEF Snapshot, Files, Objects

\* One instance replaced by another, one machine by another.
LEMMA ObjectUpdate ==
    ASSUME TypeOK, NEW i \in Ids, NEW r \in DBInstance
    PROVE  [inst EXCEPT ![i] = r] \in Objects
  BY DEF TypeOK, Objects

LEMMA MachineUpdate ==
    ASSUME TypeOK, NEW i \in Ids, NEW m \in Machine
    PROVE  [vm EXCEPT ![i] = m] \in Machines
  BY DEF TypeOK, Machines

LEMMA StateUpdate ==
    ASSUME NEW r \in DBInstance, NEW s \in State
    PROVE  [r EXCEPT !.state = s] \in DBInstance
  BY DEF DBInstance

LEMMA ColumnUpdate ==
    ASSUME NEW r \in DBInstance, NEW v \in Power \cup {"none"}
    PROVE  [r EXCEPT !.vbox = v] \in DBInstance
  BY DEF DBInstance

LEMMA PowerUpdate ==
    ASSUME NEW m \in Machine, NEW p \in Power
    PROVE  [m EXCEPT !.power = p] \in Machine
  BY DEF Machine

LEMMA DiskUpdate ==
    ASSUME NEW m \in Machine
    PROVE  [m EXCEPT !.disk = TRUE] \in Machine
  BY DEF Machine

LEMMA AddressUpdate ==
    ASSUME NEW m \in Machine, NEW ip \in Pool \cup {NoIP}
    PROVE  [m EXCEPT !.ip = ip] \in Machine
  BY DEF Machine

LEMMA DatabaseUpdate ==
    ASSUME NEW m \in Machine, NEW i \in Ids
    PROVE  [m EXCEPT !.dbs = @ \cup {i}] \in Machine
  BY DEF Machine

\* A phase is entered.
LEMMA GotoType ==
    ASSUME TypeOK, NEW i \in Ids, NEW phase \in Phases, Goto(i, phase)
    PROVE  pc' \in [Ids -> Phases]
  BY DEF TypeOK, Goto

\* mark and fail keep the objects, the store and the file well-typed.
RecordsOK == inst \in Objects /\ store \subseteq Ids /\ file \in Files

LEMMA RecordsType == TypeOK => RecordsOK
  BY DEF TypeOK, RecordsOK, Objects, Files

LEMMA MarkType ==
    ASSUME TypeOK, NEW i \in Ids, NEW s \in State, Mark(i, s)
    PROVE  RecordsOK'
<1>1. [inst[i] EXCEPT !.state = s] \in DBInstance
  BY StateUpdate DEF TypeOK
<1>2. inst' \in Objects /\ store' \subseteq Ids
  BY <1>1, ObjectUpdate DEF Mark, TypeOK
<1> QED
  BY <1>2, SnapshotType DEF Mark, Save, RecordsOK, Objects

\* The assignments to State and to VBoxState that save nothing.
LEMMA StateType ==
    ASSUME TypeOK, NEW i \in Ids, NEW s \in State
    PROVE  [inst EXCEPT ![i].state = s] \in Objects
  BY StateUpdate, ObjectUpdate DEF TypeOK

LEMMA ColumnType ==
    ASSUME TypeOK, NEW i \in Ids, NEW v \in Power \cup {"none"}
    PROVE  [inst EXCEPT ![i].vbox = v] \in Objects
  BY ColumnUpdate, ObjectUpdate DEF TypeOK

\* A worker that moves on is a worker.
LEMMA ContinueType ==
    ASSUME TInv, NEW w \in Workers, worker[w].pc # "idle",
           NEW step \in {"look", "halt", "unregister", "undns", "erase"}, Continue(w, step)
    PROVE  worker' \in [Workers -> Worker] /\ WorkersHaveIds'
<1>1. [worker[w] EXCEPT !.pc = step] \in Worker
  BY DEF TInv, TypeOK, Worker
<1>2. worker' \in [Workers -> Worker]
  BY <1>1 DEF TInv, TypeOK, Continue
<1>3. WorkersHaveIds'
  BY DEF TInv, TypeOK, Worker, Continue, WorkersHaveIds
<1> QED
  BY <1>2, <1>3

\* What the steps of runProvision that only mark and go on leave.
LEMMA MarkedType ==
    ASSUME TInv, NEW i \in Ids, NEW s \in State, NEW phase \in Phases, Mark(i, s), Goto(i, phase),
           UNCHANGED <<worker, sync, dns, range>>, vm' \in Machines
    PROVE  TInv'
<1>1. RecordsOK' /\ pc' \in [Ids -> Phases]
  BY MarkType, GotoType DEF TInv
<1> QED
  BY <1>1 DEF TInv, TypeOK, WorkersHaveIds, RecordsOK, Objects, Machines, Files, dns, range

LEMMA FailedType ==
    ASSUME TInv, NEW i \in Ids, Fail(i), vm' \in Machines
    PROVE  TInv'
<1>1. inst' \in Objects
  BY StateType DEF TInv, Fail, State
<1>2. pc' \in [Ids -> Phases]
  BY GotoType DEF TInv, Fail, Phases, GoroutinePhases
<1> QED
  BY <1>1, <1>2 DEF TInv, TypeOK, WorkersHaveIds, Objects, Machines, Fail, dns, range

LEMMA MachineStepType ==
    ASSUME TInv, NEW i \in Ids, NEW phase \in Phases, Goto(i, phase), vm' \in Machines,
           UNCHANGED <<records, worker, sync, dns, range>>
    PROVE  TInv'
<1>1. pc' \in [Ids -> Phases]
  BY GotoType DEF TInv
<1> QED
  BY <1>1 DEF TInv, TypeOK, WorkersHaveIds, Machines, records, dns, range

LEMMA ProvisionType ==
    ASSUME TInv, NEW i \in Ids,
           ReadWebIPs(i) \/ AllocateIP(i) \/ PutInstance(i) \/ RunProvision(i)
    PROVE  TInv'
<1> USE DEF TInv
<1>0. vm \in Machines /\ inst[i] \in DBInstance /\ inst[i].ip \in Pool \cup {NoIP}
  BY DEF TypeOK, Machines, DBInstance
<1>a. \A p \in Power : [vm EXCEPT ![i].power = p] \in Machines
  BY PowerUpdate, MachineUpdate DEF TypeOK
<1>1. CASE AllocateIP(i)
  <2>1. inst' \in Objects
    <3>1. ASSUME NEW ip \in FreeIPs(i)
          PROVE  [ip |-> ip, state |-> "pending", vbox |-> "starting"] \in DBInstance
      BY DEF DBInstance, FreeIPs, State, Power
    <3>2. inst \in Objects
      BY DEF TypeOK, Objects
    <3> QED
      BY <1>1, <3>1, <3>2, ObjectUpdate DEF AllocateIP
  <2>2. pc' \in [Ids -> Phases]
    BY <1>1, GotoType DEF AllocateIP, Phases, HandlerPhases
  <2>3. webSeen' \in [Ids -> SUBSET Pool]
    BY <1>1 DEF AllocateIP, TypeOK
  <2> QED
    BY <1>1, <2>1, <2>2, <2>3 DEF AllocateIP, TypeOK, WorkersHaveIds, Objects, dns
<1>14. CASE ReadWebIPs(i)
  <2>1. pc' \in [Ids -> Phases]
    BY <1>14, GotoType DEF ReadWebIPs, Phases, HandlerPhases
  <2>2. WebUsedIPs \subseteq Pool
    BY DEF WebUsedIPs, TypeOK
  <2>3. webSeen' \in [Ids -> SUBSET Pool]
    BY <1>14, <2>2 DEF ReadWebIPs, TypeOK
  <2> QED
    BY <1>14, <2>1, <2>3 DEF ReadWebIPs, TypeOK, WorkersHaveIds, records, dns
<1>2. CASE PutInstance(i)
  <2>1. store' \subseteq Ids /\ inst \in Objects
    BY <1>2 DEF PutInstance, TypeOK, Objects
  <2>2. file' \in Files
    <3>1. Snapshot(store', inst) \in Files
      BY <2>1, SnapshotType
    <3>2. file \in Files
      BY DEF TypeOK, Files
    <3> QED
      BY <1>2, <3>1, <3>2 DEF PutInstance
  <2>3. pc' \in [Ids -> Phases]
    BY <1>2, GotoType DEF PutInstance, Phases, HandlerPhases, GoroutinePhases
  <2> QED
    BY <1>2, <2>1, <2>2, <2>3 DEF PutInstance, TypeOK, WorkersHaveIds, Files, dns, range
<1>3. CASE TemplateMissing(i)
  BY <1>0, <1>3, FailedType DEF TemplateMissing
<1>4. CASE MarkProvisioning(i)
  BY <1>0, <1>4, MarkedType DEF MarkProvisioning, State, Phases, GoroutinePhases
<1>5. CASE CreateVM(i)
  <2>1. [NoMachine EXCEPT !.power = "poweroff"] \in Machine
    BY NoMachineType, PowerUpdate DEF Power
  <2>2. [vm EXCEPT ![i] = [NoMachine EXCEPT !.power = "poweroff"]] \in Machines
    BY <2>1, MachineUpdate
  <2> QED
    BY <1>0, <1>5, <2>2, FailedType, MachineStepType DEF CreateVM, Phases, GoroutinePhases
<1>6. CASE ConfigureVM(i)
  <2>1. [vm EXCEPT ![i].disk = TRUE] \in Machines
    BY DiskUpdate, MachineUpdate DEF TypeOK
  <2> QED
    BY <1>0, <1>6, <2>1, FailedType, MachineStepType DEF ConfigureVM, Phases, GoroutinePhases
<1>7. CASE InjectProperties(i)
  <2>1. [vm EXCEPT ![i].ip = inst[i].ip] \in Machines
    BY <1>0, AddressUpdate, MachineUpdate DEF TypeOK
  <2> QED
    BY <1>0, <1>7, <2>1, MarkedType DEF InjectProperties, State, Phases, GoroutinePhases
<1>8. CASE StartVM(i)
  <2>1. [vm EXCEPT ![i].power = "running"] \in Machines /\ [vm EXCEPT ![i].power = "starting"] \in Machines
    BY <1>a DEF Power
  <2> QED
    BY <1>0, <1>8, <2>1, FailedType, MachineStepType DEF StartVM, Phases, GoroutinePhases
<1>9. CASE WaitForVMRunning(i)
  BY <1>0, <1>9, FailedType, MarkedType DEF WaitForVMRunning, State, Phases, GoroutinePhases
<1>10. CASE WaitForSSH(i)
  BY <1>0, <1>10, FailedType, MarkedType DEF WaitForSSH, State, Phases, GoroutinePhases
<1>11. CASE SetupDatabase(i)
  <2>1. \A j \in Ids : [vm EXCEPT ![j].dbs = @ \cup {i}] \in Machines
    BY DatabaseUpdate, MachineUpdate DEF TypeOK
  <2> QED
    BY <1>0, <1>11, <2>1, FailedType, MachineStepType DEF SetupDatabase, Answering, Phases, GoroutinePhases
<1>12. CASE RunSQLFile(i) \/ MarkRegistering(i)
  BY <1>0, <1>12, MarkedType DEF RunSQLFile, MarkRegistering, State, Phases, GoroutinePhases
<1>13. CASE RegisterDNS(i)
  <2>1. inst' \in Objects
    BY <1>13, ColumnType DEF RegisterDNS, Power
  <2>2. dnsA' \in [Ids -> Pool \cup {NoIP}] /\ dnsPtr' \in [Pool -> Ids \cup {None, Web}]
    BY <1>0, <1>13 DEF RegisterDNS, AddRecord, TypeOK, dns
  <2>3. pc' \in [Ids -> Phases]
    BY <1>13, GotoType DEF RegisterDNS, Phases, GoroutinePhases
  <2> QED
    BY <1>13, <2>1, <2>2, <2>3 DEF RegisterDNS, TypeOK, WorkersHaveIds, Objects, range
<1>15. CASE MarkRunning(i)
  BY <1>0, <1>15, MarkedType DEF MarkRunning, State, Phases
<1>16. CASE FailColumn(i)
  <2>1. inst' \in Objects /\ store' \subseteq Ids
    BY <1>16, ColumnType DEF FailColumn, Power, TypeOK
  <2>2. file' \in Files
    BY <1>16, <2>1, SnapshotType DEF FailColumn, Save
  <2>3. pc' \in [Ids -> Phases]
    BY <1>16, GotoType DEF FailColumn, Phases
  <2> QED
    BY <1>16, <2>1, <2>2, <2>3 DEF FailColumn, TypeOK, WorkersHaveIds, Objects, Files, dns, range
<1> QED
  BY <1>1, <1>2, <1>3, <1>4, <1>5, <1>6, <1>7, <1>8, <1>9, <1>10, <1>11, <1>12, <1>13, <1>14, <1>15,
     <1>16 DEF RunProvision

LEMMA WorkerType ==
    ASSUME TInv, NEW w \in Workers, WorkerStep(w)
    PROVE  TInv'
<1> USE DEF TInv
<1>0. vm \in Machines /\ worker[w].pc # "idle" /\ worker[w].id \in Ids
  BY DEF TypeOK, Machines, WorkersHaveIds, WorkerStep, DeleteLook, DeleteHalt, DeleteUnregister,
         DeleteRecord, EraseInstance
<1> DEFINE i == worker[w].id
<1>1. CASE DeleteLook(w)
  <2>1. worker' \in [Workers -> Worker] /\ WorkersHaveIds'
    BY <1>0, <1>1, ContinueType DEF DeleteLook
  <2> QED
    BY <1>1, <2>1 DEF DeleteLook, TypeOK, records, dns, range
<1>2. CASE DeleteHalt(w)
  <2>1. worker' \in [Workers -> Worker] /\ WorkersHaveIds'
    BY <1>0, <1>2, ContinueType DEF DeleteHalt
  <2>2. [vm EXCEPT ![i].power = "poweroff"] \in Machines
    BY <1>0, PowerUpdate, MachineUpdate DEF TypeOK, Power
  <2>3. vm' \in Machines
    BY <1>0, <1>2, <2>2 DEF DeleteHalt
  <2> QED
    BY <1>2, <2>1, <2>3 DEF DeleteHalt, TypeOK, records, dns, range, Machines
<1>3. CASE DeleteUnregister(w)
  <2>1. worker' \in [Workers -> Worker] /\ WorkersHaveIds'
    BY <1>0, <1>3, ContinueType DEF DeleteUnregister
  <2>2. vm' \in Machines
    BY <1>0, <1>3, NoMachineType, MachineUpdate DEF DeleteUnregister
  <2> QED
    BY <1>3, <2>1, <2>2 DEF DeleteUnregister, TypeOK, records, dns, range, Machines
<1>4. CASE DeleteRecord(w)
  <2>1. worker' \in [Workers -> Worker] /\ WorkersHaveIds'
    BY <1>0, <1>4, ContinueType DEF DeleteRecord
  <2> QED
    BY <1>4, <2>1 DEF DeleteRecord, TypeOK, records, range
<1>5. CASE EraseInstance(w)
  <2>1. store' \subseteq Ids /\ inst' \in Objects
    BY <1>5 DEF EraseInstance, TypeOK, Objects
  <2>2. file' \in Files
    <3>1. Snapshot(store', inst') \in Files
      BY <2>1, SnapshotType
    <3>2. file \in Files
      BY DEF TypeOK, Files
    <3> QED
      BY <1>5, <3>1, <3>2 DEF EraseInstance, Save
  <2>3. IdleWorker \in Worker /\ IdleWorker.pc = "idle"
    BY DEF IdleWorker, Worker
  <2>4. worker' \in [Workers -> Worker] /\ WorkersHaveIds'
    BY <1>5, <2>3 DEF EraseInstance, TypeOK, WorkersHaveIds
  <2> QED
    BY <1>5, <2>1, <2>2, <2>4 DEF EraseInstance, TypeOK, Objects, Files, dns, range
<1> QED
  BY <1>1, <1>2, <1>3, <1>4, <1>5 DEF WorkerStep

LEMMA TypeStep ==
    ASSUME TInv, [Next]_vars
    PROVE  TInv'
<1> USE DEF TInv
<1>0. vm \in Machines /\ inst \in Objects /\ file \in Files
  BY DEF TypeOK, Machines, Objects, Files
<1>1. CASE UNCHANGED vars
  BY <1>1 DEF vars, TypeOK, WorkersHaveIds
<1>2. ASSUME NEW w \in Workers, NEW i \in Ids, RequestDelete(w, i) PROVE TInv'
  <2>1. RecordsOK'
    BY <1>2, MarkType DEF RequestDelete, State
  <2>2. [id |-> i, pc |-> "look"] \in Worker
    BY DEF Worker
  <2>3. worker' \in [Workers -> Worker] /\ WorkersHaveIds'
    BY <1>2, <2>2 DEF RequestDelete, TypeOK, WorkersHaveIds
  <2> QED
    BY <1>2, <2>1, <2>3 DEF RequestDelete, TypeOK, RecordsOK, Objects, Files, dns, range
<1>3. ASSUME NEW i \in Ids, SyncLook(i) PROVE TInv'
  <2>1. vm[i].power \in Power
    BY <1>3 DEF SyncLook, Exists, TypeOK, Machine
  <2>2. sync' \in Sync
    BY <1>3, <2>1 DEF SyncLook, Sync
  <2> QED
    BY <1>3, <2>2 DEF SyncLook, TypeOK, WorkersHaveIds, records, dns, range
<1>4. ASSUME NEW i \in Ids, SyncStep(i) PROVE TInv'
  <2>1. sync \in Sync /\ IdleSync \in Sync /\ sync.seen \in Power \cup {"none"}
    BY DEF TypeOK, IdleSync, Sync
  <2>2. sync' \in Sync
    BY <1>4, <2>1 DEF SyncStep, SyncCompare, SyncColumn, SyncState, Sync
  <2>3. CASE SyncCompare(i)
    BY <2>2, <2>3 DEF SyncCompare, TypeOK, WorkersHaveIds, records, dns, range
  <2>4. CASE SyncColumn(i)
    <3>1. inst' \in Objects
      BY <2>1, <2>4, ColumnType DEF SyncColumn
    <3> QED
      BY <2>2, <2>4, <3>1 DEF SyncColumn, TypeOK, WorkersHaveIds, Objects, dns, range
  <2>5. CASE SyncState(i)
    <3>1. RecordsOK'
      BY <2>5, MapType, MarkType DEF SyncState
    <3> QED
      BY <2>2, <2>5, <3>1 DEF SyncState, TypeOK, WorkersHaveIds, RecordsOK, Objects, Files, dns, range
  <2> QED
    BY <1>4, <2>3, <2>4, <2>5 DEF SyncStep
<1>5. ASSUME NEW i \in Ids, MachineEvent(i) PROVE TInv'
  <2>1. \A p \in Power : [vm EXCEPT ![i].power = p] \in Machines
    BY PowerUpdate, MachineUpdate DEF TypeOK
  <2>2. vm' \in Machines
    BY <1>5, <2>1 DEF MachineEvent, Power
  <2> QED
    BY <1>5, <2>2 DEF MachineEvent, TypeOK, WorkersHaveIds, Machines, records, dns, range
<1>6. ASSUME NEW i \in Ids, ImportMachine(i) PROVE TInv'
  <2>1. vm[i].ip \in Pool \cup {NoIP}
    BY DEF TypeOK, Machine
  <2>2. imported' \in [Ids -> Pool \cup {NoIP}]
    BY <1>6, <2>1 DEF ImportMachine, TypeOK
  <2> QED
    BY <1>6, <2>2 DEF ImportMachine, TypeOK, WorkersHaveIds, records, dns
<1>7. CASE WebAllocate \/ WebPut \/ WebRegister \/ WebDelete
  BY <1>7 DEF WebAllocate, WebPut, WebRegister, WebDelete, TypeOK, WorkersHaveIds, records, dns
<1>8. CASE Crash
  <2>1. store' \subseteq Ids /\ inst' \in Objects
    BY <1>0, <1>8 DEF Crash, Files, Objects
  <2>2. pc' \in [Ids -> Phases]
    BY <1>8 DEF Crash, Phases
  <2>3. IdleWorker \in Worker /\ IdleWorker.pc = "idle" /\ IdleSync \in Sync
    BY DEF IdleWorker, Worker, IdleSync, Sync
  <2>4. worker' \in [Workers -> Worker] /\ WorkersHaveIds' /\ sync' \in Sync
    BY <1>8, <2>3 DEF Crash, WorkersHaveIds
  <2> QED
    BY <1>8, <2>1, <2>2, <2>4 DEF Crash, TypeOK, Objects, dns, range
<1> QED
  BY <1>1, <1>2, <1>3, <1>4, <1>5, <1>6, <1>7, <1>8, ProvisionType, WorkerType DEF Next

LEMMA InitType == Init => TInv
<1> SUFFICES ASSUME Init PROVE TInv
  OBVIOUS
<1>1. inst \in Objects /\ vm \in Machines /\ store \subseteq Ids
  BY NoInstanceType, NoMachineType DEF Init, Objects, Machines
<1>2. file \in Files
  BY <1>1, SnapshotType DEF Init
<1>3. worker \in [Workers -> Worker] /\ WorkersHaveIds /\ sync \in Sync
  BY DEF Init, IdleWorker, Worker, WorkersHaveIds, IdleSync, Sync
<1> QED
  BY <1>1, <1>2, <1>3 DEF Init, TInv, TypeOK, Objects, Machines, Files, Phases

LEMMA TypeInvariance == Spec => []TInv
  BY InitType, TypeStep, PTL DEF Spec

\* Every variable keeps its kind, for any number of databases and deletions.
THEOREM TypeCorrect == Spec => []TypeOK
<1>1. TInv => TypeOK
  BY DEF TInv
<1> QED
  BY <1>1, TypeInvariance, PTL

-----------------------------------------------------------------------------
(* What every step but a handler's first two and a crash does to the        *)
(* records: objects keep their addresses and only those of begun provisions  *)
(* change, only Put adds to the store, and what is saved is what is stored.  *)

\* The provision of i got as far as Put.
Begun(i) == pc[i] \notin {"new"} \cup HandlerPhases

Steady ==
    /\ \A j \in Ids : inst'[j] = inst[j] \/ (inst'[j].ip = inst[j].ip /\ Begun(j))
    /\ \A j \in store' \ store : pc[j] = "allocated" /\ Begun(j)'
    /\ \/ file' = Snapshot(store', inst')
       \/ UNCHANGED file /\ ("save" \in Failures \/ store' = store)
    /\ \A j \in Ids : (Begun(j) => Begun(j)') /\ (~Begun(j)' => pc'[j] = pc[j])

\* The handler and goroutine of one instance.
Elsewhere(i) == \A j \in Ids \ {i} : inst'[j] = inst[j] /\ pc'[j] = pc[j]

\* One field of an object is assigned, saved or not.
LEMMA AssignmentSteady ==
    ASSUME TypeOK, NEW i \in Ids, Begun(i), Begun(i)', store' = store,
           \/ \E s : inst' = [inst EXCEPT ![i].state = s]
           \/ \E v : inst' = [inst EXCEPT ![i].vbox = v],
           file' = Snapshot(store', inst') \/ UNCHANGED file,
           \A j \in Ids \ {i} : pc'[j] = pc[j]
    PROVE  Steady /\ Elsewhere(i)
<1>1. inst'[i].ip = inst[i].ip /\ \A j \in Ids \ {i} : inst'[j] = inst[j]
  BY DEF TypeOK, DBInstance
<1> QED
  BY <1>1 DEF Steady, Elsewhere, Begun

LEMMA GotoBegun ==
    ASSUME TypeOK, NEW i \in Ids, NEW phase \in Phases, phase \notin {"new"} \cup HandlerPhases,
           Goto(i, phase)
    PROVE  Begun(i)' /\ \A j \in Ids \ {i} : pc'[j] = pc[j]
  BY DEF Goto, TypeOK, Begun

LEMMA MarkSteady ==
    ASSUME TypeOK, NEW i \in Ids, Begun(i), NEW s, NEW phase \in Phases,
           phase \notin {"new"} \cup HandlerPhases, Mark(i, s), Goto(i, phase)
    PROVE  Steady /\ Elsewhere(i)
  BY GotoBegun, AssignmentSteady DEF Mark, Save

LEMMA FailSteady ==
    ASSUME TypeOK, NEW i \in Ids, Begun(i), Fail(i)
    PROVE  Steady /\ Elsewhere(i)
<1>1. Begun(i)' /\ \A j \in Ids \ {i} : pc'[j] = pc[j]
  BY GotoBegun DEF Fail, Phases, GoroutinePhases, HandlerPhases
<1> QED
  BY <1>1, AssignmentSteady DEF Fail

LEMMA GotoSteady ==
    ASSUME TypeOK, NEW i \in Ids, Begun(i), NEW phase \in Phases,
           phase \notin {"new"} \cup HandlerPhases, UNCHANGED records, Goto(i, phase)
    PROVE  Steady /\ Elsewhere(i)
<1>1. Elsewhere(i) /\ Begun(i)'
  BY DEF records, Goto, TypeOK, Elsewhere, Begun
<1> QED
  BY <1>1 DEF Steady, Elsewhere, records, Begun

\* Nothing that concerns the records.
LEMMA StillSteady ==
    ASSUME UNCHANGED records, UNCHANGED pc
    PROVE  Steady
  BY DEF Steady, records, Begun

\* Phases of a goroutine at work.
LEMMA BegunPhases == \A i \in Ids : pc[i] \in GoroutinePhases \cup {"done"} => Begun(i)
  BY DEF Begun, GoroutinePhases, HandlerPhases

LEMMA RunProvisionSteady ==
    ASSUME TypeOK, NEW i \in Ids, RunProvision(i)
    PROVE  Steady /\ Elsewhere(i) /\ pc[i] \in GoroutinePhases
<1>0. pc[i] \in GoroutinePhases /\ Begun(i)
  BY BegunPhases
     DEF RunProvision, TemplateMissing, MarkProvisioning, CreateVM, ConfigureVM, InjectProperties,
         StartVM, WaitForVMRunning, WaitForSSH, SetupDatabase, RunSQLFile, MarkRegistering,
         RegisterDNS, MarkRunning, FailColumn, GoroutinePhases
<1>1. CASE TemplateMissing(i) \/ MarkProvisioning(i)
  BY <1>0, <1>1, FailSteady, MarkSteady
     DEF TemplateMissing, MarkProvisioning, Phases, GoroutinePhases, HandlerPhases
<1>2. CASE CreateVM(i) \/ ConfigureVM(i)
  BY <1>0, <1>2, FailSteady, GotoSteady
     DEF CreateVM, ConfigureVM, Phases, GoroutinePhases, HandlerPhases
<1>3. CASE InjectProperties(i) \/ RunSQLFile(i) \/ MarkRegistering(i)
  BY <1>0, <1>3, MarkSteady
     DEF InjectProperties, RunSQLFile, MarkRegistering, Phases, GoroutinePhases, HandlerPhases
<1>4. CASE StartVM(i) \/ SetupDatabase(i)
  BY <1>0, <1>4, FailSteady, GotoSteady
     DEF StartVM, SetupDatabase, Phases, GoroutinePhases, HandlerPhases
<1>5. CASE WaitForVMRunning(i) \/ WaitForSSH(i)
  BY <1>0, <1>5, FailSteady, MarkSteady
     DEF WaitForVMRunning, WaitForSSH, Phases, GoroutinePhases, HandlerPhases
<1>6. CASE RegisterDNS(i)
  <2>1. Begun(i)' /\ \A j \in Ids \ {i} : pc'[j] = pc[j]
    BY <1>6, GotoBegun DEF RegisterDNS, Phases, GoroutinePhases, HandlerPhases
  <2> QED
    BY <1>0, <1>6, <2>1, AssignmentSteady DEF RegisterDNS
<1>7. CASE MarkRunning(i)
  BY <1>0, <1>7, MarkSteady DEF MarkRunning, Phases, HandlerPhases
<1>8. CASE FailColumn(i)
  <2>1. Begun(i)' /\ \A j \in Ids \ {i} : pc'[j] = pc[j]
    BY <1>8, GotoBegun DEF FailColumn, Phases, HandlerPhases
  <2> QED
    BY <1>0, <1>8, <2>1, AssignmentSteady DEF FailColumn, Save
<1> QED
  BY <1>0, <1>1, <1>2, <1>3, <1>4, <1>5, <1>6, <1>7, <1>8 DEF RunProvision

\* What the deletions and the ticker touch was stored, and so begun.
StoredBegun ==
    /\ \A i \in store \cup file.ids : Begun(i)
    /\ \A w \in Workers : worker[w].pc # "idle" => Begun(worker[w].id)
    /\ sync.id \in Ids => Begun(sync.id)

LEMMA PutSteady ==
    ASSUME TypeOK, NEW i \in Ids, PutInstance(i)
    PROVE  Steady /\ Elsewhere(i) /\ pc[i] = "allocated" /\ store' = store \cup {i}
<1>1. pc'[i] \in {"queued", "done"} /\ UNCHANGED inst /\ store' = store \cup {i}
  BY DEF PutInstance, Goto, TypeOK
<1>2. \A j \in Ids \ {i} : pc'[j] = pc[j]
  BY DEF PutInstance, Goto, TypeOK
<1> QED
  BY <1>1, <1>2 DEF PutInstance, Steady, Elsewhere, Begun, HandlerPhases

\* Deletions, the ticker and the surroundings.
Others ==
    \/ \E w \in Workers : WorkerStep(w) \/ \E i \in Ids : RequestDelete(w, i)
    \/ \E i \in Ids : SyncLook(i) \/ SyncStep(i) \/ MachineEvent(i) \/ ImportMachine(i)
    \/ WebAllocate \/ WebPut \/ WebRegister \/ WebDelete
    \/ UNCHANGED vars

LEMMA OthersSteady ==
    ASSUME TInv, StoredBegun, Others
    PROVE  Steady /\ UNCHANGED pc
<1> USE DEF TInv
<1>1. ASSUME NEW w \in Workers,
             DeleteLook(w) \/ DeleteHalt(w) \/ DeleteUnregister(w) \/ DeleteRecord(w)
      PROVE  Steady /\ UNCHANGED pc
  BY <1>1, StillSteady DEF DeleteLook, DeleteHalt, DeleteUnregister, DeleteRecord
<1>2. ASSUME NEW w \in Workers, EraseInstance(w) PROVE Steady /\ UNCHANGED pc
  BY <1>2 DEF EraseInstance, Steady, Save, Begun
<1>3. ASSUME NEW w \in Workers, NEW i \in Ids, RequestDelete(w, i) PROVE Steady /\ UNCHANGED pc
  <2>1. Begun(i) /\ Begun(i)' /\ UNCHANGED pc
    BY <1>3 DEF RequestDelete, StoredBegun, Begun
  <2> QED
    BY <1>3, <2>1, AssignmentSteady DEF RequestDelete, Mark, Save
<1>4. ASSUME NEW i \in Ids, SyncStep(i) PROVE Steady /\ UNCHANGED pc
  <2>1. Begun(i) /\ Begun(i)' /\ UNCHANGED pc
    BY <1>4 DEF SyncStep, SyncCompare, SyncColumn, SyncState, StoredBegun, Begun
  <2> QED
    BY <1>4, <2>1, AssignmentSteady, StillSteady
       DEF SyncStep, SyncCompare, SyncColumn, SyncState, Mark, Save
<1>5. CASE \/ \E i \in Ids : SyncLook(i) \/ MachineEvent(i) \/ ImportMachine(i)
           \/ WebAllocate \/ WebPut \/ WebRegister \/ WebDelete \/ UNCHANGED vars
  BY <1>5, StillSteady DEF SyncLook, MachineEvent, ImportMachine, WebAllocate, WebPut, WebRegister,
     WebDelete, vars, records
<1> QED
  BY <1>1, <1>2, <1>3, <1>4, <1>5 DEF Others, WorkerStep

\* The first two steps of a request.
Opening(i) == ReadWebIPs(i) \/ AllocateIP(i)

\* Every step is steady, or opens a provision, or starts over.
LEMMA Steps ==
    ASSUME TInv, StoredBegun, [Next]_vars
    PROVE  Steady \/ Crash \/ \E i \in Ids : Opening(i)
  BY OthersSteady, PutSteady, RunProvisionSteady DEF TInv, Next, Others, Opening

\* An opening concerns a new instance only.
LEMMA OpeningEffect ==
    ASSUME TypeOK, NEW i \in Ids, Opening(i)
    PROVE  /\ ~Begun(i) /\ ~Begun(i)' /\ Elsewhere(i)
           /\ UNCHANGED <<store, file, worker, sync, vm, dns, web, webAsk, imported>>
           /\ \/ UNCHANGED inst /\ pc'[i] \in {"new", "asked"}
              \/ /\ pc[i] = "asked" /\ pc'[i] = "allocated"
                 /\ inst'[i].state = "pending" /\ inst'[i].ip \in FreeIPs(i)
           /\ pc[i] \notin HandlerPhases =>
                OverlappingProvisions \/ \A j \in Ids : pc[j] \notin HandlerPhases
  BY DEF Opening, ReadWebIPs, AllocateIP, Goto, TypeOK, Elsewhere, Begun, HandlerPhases, records

\* Deletions and the ticker take up what is stored.
LEMMA Handed ==
    ASSUME TInv, [Next]_vars
    PROVE  /\ \A w \in Workers : worker'[w].pc # "idle" =>
                worker'[w].id \in store \/ (worker[w].pc # "idle" /\ worker'[w].id = worker[w].id)
           /\ sync'.id \in Ids => sync'.id \in store \cup {sync.id}
<1> USE DEF TInv
<1>1. CASE UNCHANGED <<worker, sync>>
  BY <1>1
<1>2. ASSUME NEW v \in Workers, NEW i \in Ids, RequestDelete(v, i)
      PROVE  i \in store /\ UNCHANGED sync /\ worker' = [worker EXCEPT ![v] = [id |-> i, pc |-> "look"]]
  BY <1>2 DEF RequestDelete
<1>3. ASSUME NEW v \in Workers, WorkerStep(v)
      PROVE  /\ UNCHANGED sync /\ worker[v].pc # "idle"
             /\ \/ worker' = [worker EXCEPT ![v] = IdleWorker]
                \/ \E step \in {"halt", "unregister", "undns", "erase"} :
                     worker' = [worker EXCEPT ![v].pc = step]
  BY <1>3 DEF WorkerStep, DeleteLook, DeleteHalt, DeleteUnregister, DeleteRecord, EraseInstance, Continue
<1>4. ASSUME NEW v \in Workers, WorkerStep(v)
      PROVE  \A w \in Workers : worker'[w].pc # "idle" => (worker[w].pc # "idle" /\ worker'[w].id = worker[w].id)
  BY <1>3, <1>4 DEF TypeOK, Worker, IdleWorker
<1>5. ASSUME NEW v \in Workers, NEW i \in Ids, RequestDelete(v, i)
      PROVE  \A w \in Workers : worker'[w].pc # "idle" =>
                worker'[w].id \in store \/ (worker[w].pc # "idle" /\ worker'[w].id = worker[w].id)
  BY <1>2, <1>5 DEF TypeOK
<1>6. ASSUME NEW i \in Ids, SyncLook(i) \/ SyncStep(i)
      PROVE  UNCHANGED worker /\ (sync'.id \in Ids => sync'.id \in store \cup {sync.id})
  BY <1>6, NoneAssumption
     DEF SyncLook, SyncStep, SyncCompare, SyncColumn, SyncState, IdleSync, TypeOK, Sync
<1>7. CASE Crash
  BY <1>7, NoneAssumption DEF Crash, IdleWorker, IdleSync
<1>8. ASSUME NEW i \in Ids, ReadWebIPs(i) \/ AllocateIP(i) \/ PutInstance(i) \/ RunProvision(i)
             \/ MachineEvent(i) \/ ImportMachine(i) PROVE UNCHANGED <<worker, sync>>
  BY <1>8 DEF ReadWebIPs, AllocateIP, PutInstance, RunProvision, MachineEvent, ImportMachine,
         TemplateMissing, MarkProvisioning, CreateVM, ConfigureVM, InjectProperties, Fail,
         StartVM, WaitForVMRunning, WaitForSSH, SetupDatabase, RunSQLFile, MarkRegistering,
         RegisterDNS, MarkRunning, FailColumn
<1>9. CASE WebAllocate \/ WebPut \/ WebRegister \/ WebDelete \/ UNCHANGED vars
  BY <1>9 DEF WebAllocate, WebPut, WebRegister, WebDelete, vars
<1> QED
  BY <1>1, <1>2, <1>3, <1>4, <1>5, <1>6, <1>7, <1>8, <1>9 DEF Next

LEMMA InitBegun == Init => StoredBegun
  BY NoneAssumption DEF Init, Snapshot, StoredBegun, IdleWorker, IdleSync

LEMMA NextBegun ==
    ASSUME TInv, StoredBegun, [Next]_vars
    PROVE  StoredBegun'
<1> USE DEF TInv
<1>1. CASE \E i \in Ids : Opening(i)
  <2>1. PICK i \in Ids : Opening(i)
    BY <1>1
  <2>2. ~Begun(i) /\ UNCHANGED <<store, file, worker, sync>>
    BY <2>1, OpeningEffect
  <2>3. \A j \in Ids \ {i} : Begun(j) => Begun(j)'
    BY <2>1, OpeningEffect DEF Begun, Elsewhere
  <2>4. store \cup file.ids \subseteq Ids \ {i}
    BY <2>2 DEF StoredBegun, TypeOK
  <2>5. \A w \in Workers : worker[w].pc # "idle" => worker[w].id \in Ids \ {i}
    BY <2>2 DEF StoredBegun, WorkersHaveIds
  <2>6. sync.id \in Ids => sync.id # i
    BY <2>2 DEF StoredBegun
  <2> QED
    BY <2>2, <2>3, <2>4, <2>5, <2>6 DEF StoredBegun
<1>2. CASE Crash
  <2>1. \A i \in Ids : Begun(i) => Begun(i)'
    BY <1>2 DEF Crash, Begun, HandlerPhases
  <2>2. store' \cup file'.ids \subseteq file.ids /\ file.ids \subseteq Ids
    BY <1>2 DEF Crash, TypeOK
  <2>3. \A w \in Workers : worker'[w].pc = "idle"
    BY <1>2 DEF Crash, IdleWorker
  <2>4. sync'.id \notin Ids
    BY <1>2, NoneAssumption DEF Crash, IdleSync
  <2> QED
    BY <2>1, <2>2, <2>3, <2>4 DEF StoredBegun
<1>3. CASE Steady
  <2>1. store' \cup file'.ids \subseteq Ids /\ \A j \in store' \cup file'.ids : Begun(j)'
    <3>1. store' \subseteq Ids /\ file'.ids \subseteq Ids
      BY TypeStep DEF TypeOK
    <3>2. file'.ids \subseteq store' \cup file.ids
      BY <1>3 DEF Steady, Snapshot
    <3>3. \A j \in store' : Begun(j)'
      BY <1>3, <3>1 DEF Steady, StoredBegun
    <3> QED
      BY <1>3, <3>1, <3>2, <3>3 DEF Steady, StoredBegun
  <2>2. \A w \in Workers : worker'[w].pc # "idle" =>
             worker'[w].id \in store \/ (worker[w].pc # "idle" /\ worker'[w].id = worker[w].id)
    BY Handed
  <2>3. sync'.id \in Ids => sync'.id \in store \cup {sync.id}
    BY Handed
  <2>4. \A w \in Workers : worker[w].pc # "idle" => worker[w].id \in Ids
    BY DEF WorkersHaveIds
  <2>5. store \subseteq Ids
    BY DEF TypeOK
  <2> QED
    BY <1>3, <2>1, <2>2, <2>3, <2>4, <2>5 DEF Steady, StoredBegun
<1> QED
  BY <1>1, <1>2, <1>3, Steps

\* What the invariants below stand on.
BInv == TInv /\ StoredBegun

LEMMA BaseInvariance == Spec => []BInv
<1>1. Init => BInv
  BY InitType, InitBegun DEF BInv
<1>2. BInv /\ [Next]_vars => BInv'
  BY TypeStep, NextBegun DEF BInv
<1> QED
  BY <1>1, <1>2, PTL DEF Spec

-----------------------------------------------------------------------------
(* Stored databases have addresses of their own, when requests to provision *)
(* come one at a time.                                                      *)

Alone ==
    \A i, j \in Ids : pc[i] \in HandlerPhases /\ pc[j] \in HandlerPhases => i = j

FreshAddress ==
    \A i \in Ids : pc[i] = "allocated" =>
        inst[i].ip \in Pool /\ \A j \in store : inst[j].ip # inst[i].ip

Addressed == /\ \A i \in store : inst[i].ip \in Pool
             /\ \A i \in file.ids : file.inst[i].ip \in Pool

UInv == Alone /\ FreshAddress /\ Addressed /\ UniqueAddresses

LEMMA SnapshotUnique ==
    ASSUME NEW ids \in SUBSET Ids, NEW objects \in Objects, UniqueAddressesIn(ids, objects)
    PROVE  UniqueAddressesIn(Snapshot(ids, objects).ids, Snapshot(ids, objects).inst)
  BY DEF Snapshot, UniqueAddressesIn

LEMMA NextUnique ==
    ASSUME ~OverlappingProvisions, BInv, UInv, [Next]_vars
    PROVE  UInv'
<1>0. TypeOK /\ TypeOK' /\ store \subseteq Ids /\ store' \subseteq Ids
  BY TypeStep DEF BInv, TInv, TypeOK
<1>1. CASE Steady
  <2>1. \A j \in Ids : inst'[j].ip = inst[j].ip
    BY <1>1 DEF Steady
  <2>2. \A j \in Ids : pc'[j] \in HandlerPhases => pc'[j] = pc[j]
    BY <1>1 DEF Steady, Begun
  <2>3. \A j \in store' \ store : pc[j] = "allocated" /\ pc'[j] \notin HandlerPhases
    BY <1>1 DEF Steady, Begun
  <2>4. Alone'
    BY <2>2 DEF UInv, Alone
  <2>5. FreshAddress'
    BY <1>0, <2>1, <2>2, <2>3 DEF UInv, Alone, FreshAddress, HandlerPhases
  <2>6. UniqueAddressesIn(store', inst')
    <3> SUFFICES ASSUME NEW i \in store', NEW j \in store', inst[i].ip = inst[j].ip
                 PROVE  i = j
      BY <1>0, <2>1 DEF UniqueAddressesIn
    <3>1. CASE i \in store /\ j \in store
      BY <3>1 DEF UInv, UniqueAddresses, UniqueAddressesIn
    <3>2. CASE i \notin store \/ j \notin store
      BY <1>0, <2>3, <3>2 DEF UInv, Alone, FreshAddress, HandlerPhases
    <3> QED
      BY <3>1, <3>2
  <2>7. UniqueAddressesIn(Snapshot(store', inst').ids, Snapshot(store', inst').inst)
    BY <1>0, <2>6, SnapshotUnique DEF TypeOK, Objects
  <2>8. \A i \in store' : inst'[i].ip \in Pool
    BY <1>0, <2>1, <2>3 DEF UInv, Addressed, FreshAddress
  <2>9. Addressed'
    BY <1>0, <1>1, <2>8 DEF Steady, Snapshot, UInv, Addressed
  <2> QED
    BY <1>1, <2>4, <2>5, <2>6, <2>7, <2>9 DEF Steady, UInv, UniqueAddresses
<1>2. CASE \E i \in Ids : Opening(i)
  <2>1. PICK i \in Ids : Opening(i)
    BY <1>2
  <2>2. UNCHANGED <<store, file>> /\ i \notin store /\ \A j \in Ids \ {i} : inst'[j] = inst[j]
    BY <1>0, <2>1, OpeningEffect DEF BInv, StoredBegun, Elsewhere
  <2>3. \A j \in Ids \ {i} : pc'[j] = pc[j] /\ pc[j] \notin HandlerPhases
    BY <1>0, <2>1, OpeningEffect DEF Elsewhere, UInv, Alone
  <2>4. pc'[i] = "allocated" => inst'[i].ip \in Pool /\ \A j \in store : inst[j].ip # inst'[i].ip
    <3> SUFFICES ASSUME pc'[i] = "allocated"
                 PROVE  inst'[i].ip \in Pool /\ \A j \in store : inst[j].ip # inst'[i].ip
      OBVIOUS
    <3>1. inst'[i].ip \in FreeIPs(i)
      BY <1>0, <2>1, OpeningEffect
    <3> QED
      BY <3>1, PoolAssumption DEF FreeIPs, UsedIPs
  <2>5. Alone' /\ FreshAddress'
    BY <1>0, <2>2, <2>3, <2>4 DEF Alone, FreshAddress, HandlerPhases
  <2>6. UniqueAddresses' /\ Addressed'
    BY <1>0, <2>2 DEF UInv, UniqueAddresses, UniqueAddressesIn, Addressed
  <2> QED
    BY <2>5, <2>6 DEF UInv
<1>3. CASE Crash
  <2>1. \A i \in Ids : pc'[i] \notin HandlerPhases
    BY <1>3 DEF Crash, HandlerPhases
  <2>2. UniqueAddresses' /\ Addressed'
    BY <1>3 DEF Crash, UInv, UniqueAddresses, Addressed
  <2> QED
    BY <2>1, <2>2 DEF UInv, Alone, FreshAddress, HandlerPhases
<1> QED
  BY <1>1, <1>2, <1>3, Steps DEF BInv

LEMMA UniqueInvariance ==
    ASSUME ~OverlappingProvisions
    PROVE  Spec => []UInv
<1>1. Init => UInv
  BY DEF Init, Snapshot, UInv, Alone, FreshAddress, HandlerPhases, Addressed, UniqueAddresses,
         UniqueAddressesIn
<1>2. BInv /\ UInv /\ [Next]_vars => UInv'
  BY NextUnique
<1> QED
  BY <1>1, <1>2, BaseInvariance, PTL DEF Spec

\* No two stored databases share an address, whatever overlaps, fails or
\* crashes, as long as requests to provision do not.
THEOREM AddressesUnique ==
    ASSUME ~OverlappingProvisions
    PROVE  Spec => []UniqueAddresses
<1>1. UInv => UniqueAddresses
  BY DEF UInv
<1> QED
  BY <1>1, UniqueInvariance, PTL

-----------------------------------------------------------------------------
(* Their addresses are leased. *)

AddressHeld  == AddressesIn(store, inst)
AddressSaved == AddressesIn(file.ids, file.inst)

LEMMA HeldBy ==
    ASSUME NEW i \in Ids
    PROVE  /\ AddressHeld[i] = IF i \in store THEN inst[i].ip ELSE NoIP
           /\ AddressHeld'[i] = IF i \in store' THEN inst'[i].ip ELSE NoIP
  BY DEF AddressHeld, AddressesIn

\* What is saved is what is held.
LEMMA SnapshotHeld ==
    ASSUME file' = Snapshot(store', inst')
    PROVE  AddressSaved' = AddressHeld'
<1>1. file'.ids = store' /\ \A i \in Ids : i \in store' => file'.inst[i] = inst'[i]
  BY DEF Snapshot
<1>2. \A i \in Ids : (IF i \in file'.ids THEN file'.inst[i].ip ELSE NoIP)
                       = (IF i \in store' THEN inst'[i].ip ELSE NoIP)
  BY <1>1
<1> QED
  BY <1>2 DEF AddressHeld, AddressSaved, AddressesIn

\* Several databases never enter or leave the store at once.
LEMMA OneStored ==
    ASSUME TInv, Next, ~Crash
    PROVE  \/ store' = store
           \/ \E i \in Ids : store' = store \cup {i} /\ i \notin store
           \/ \E i \in Ids : store' = store \ {i} /\ i \in store
<1> USE DEF TInv
<1>1. ASSUME NEW i \in Ids, \/ ReadWebIPs(i) \/ AllocateIP(i) \/ RunProvision(i) \/ SyncLook(i)
                            \/ SyncStep(i) \/ MachineEvent(i) \/ ImportMachine(i)
      PROVE  store' = store
  BY <1>1 DEF ReadWebIPs, AllocateIP, RunProvision, TemplateMissing, MarkProvisioning, CreateVM,
              ConfigureVM, InjectProperties, StartVM, WaitForVMRunning, WaitForSSH, SetupDatabase,
              RunSQLFile, MarkRegistering, RegisterDNS, MarkRunning, FailColumn, Fail, Mark,
              SyncLook, SyncStep, SyncCompare, SyncColumn, SyncState, MachineEvent, ImportMachine,
              records
<1>2. ASSUME NEW i \in Ids, PutInstance(i) PROVE store' = store \cup {i}
  BY <1>2 DEF PutInstance
<1>3. ASSUME NEW w \in Workers, EraseInstance(w)
      PROVE  worker[w].id \in Ids /\ store' = store \ {worker[w].id}
  BY <1>3 DEF EraseInstance, WorkersHaveIds
<1>4. ASSUME NEW w \in Workers, WorkerStep(w), ~EraseInstance(w) PROVE store' = store
  BY <1>4 DEF WorkerStep, DeleteLook, DeleteHalt, DeleteUnregister, DeleteRecord, records
<1>5. ASSUME NEW w \in Workers, NEW i \in Ids, RequestDelete(w, i) PROVE store' = store
  BY <1>5 DEF RequestDelete, Mark
<1>6. CASE WebAllocate \/ WebPut \/ WebRegister \/ WebDelete
  BY <1>6 DEF WebAllocate, WebPut, WebRegister, WebDelete, records
<1>7. ASSUME NEW i \in Ids PROVE (i \notin store => store \ {i} = store) /\ (i \in store => store \cup {i} = store)
  OBVIOUS
<1> QED
  BY <1>1, <1>2, <1>3, <1>4, <1>5, <1>6, <1>7 DEF Next

\* A function that changes in one place.
LEMMA OnePlace ==
    ASSUME NEW S, NEW f, NEW g, f = [x \in S |-> f[x]], g = [x \in S |-> g[x]],
           NEW i \in S, \A j \in S \ {i} : g[j] = f[j]
    PROVE  g = [f EXCEPT ![i] = g[i]]
<1>1. [f EXCEPT ![i] = g[i]] = [x \in S |-> IF x = i THEN g[i] ELSE f[x]]
  OBVIOUS
<1>2. \A x \in S : (IF x = i THEN g[i] ELSE f[x]) = g[x]
  OBVIOUS
<1> QED
  BY <1>1, <1>2

LEMMA SteadyLeases ==
    ASSUME BInv, UInv, Steady, Next, ~Crash
    PROVE  [AddressLeases!Next]_<<AddressHeld, AddressSaved>>
<1>0. TypeOK /\ TInv /\ store \subseteq Ids
  BY DEF BInv, TInv, TypeOK
<1>1. \A j \in Ids : inst'[j].ip = inst[j].ip
  BY DEF Steady
<1>2. CASE AddressHeld' = AddressHeld
  <2>1. AddressSaved' = AddressHeld \/ UNCHANGED AddressSaved
    BY <1>2, SnapshotHeld DEF Steady, AddressSaved
  <2> QED
    BY <1>2, <2>1 DEF AddressLeases!Next, AddressLeases!Rewrite, AddressHeld, AddressSaved
<1>3. ASSUME AddressHeld' # AddressHeld, NEW i \in Ids,
             \A j \in Ids \ {i} : j \in store' <=> j \in store
      PROVE  [AddressLeases!Next]_<<AddressHeld, AddressSaved>>
  <2>1. \A j \in Ids \ {i} : AddressHeld'[j] = AddressHeld[j]
    BY <1>1, <1>3, HeldBy
  <2>2. /\ AddressHeld = [x \in Ids |-> AddressHeld[x]]
        /\ AddressHeld' = [x \in Ids |-> AddressHeld'[x]]
    BY DEF AddressHeld, AddressesIn
  <2>3. AddressHeld' = [AddressHeld EXCEPT ![i] = AddressHeld'[i]]
    BY <2>1, <2>2, OnePlace
  <2>4. AddressHeld'[i] # AddressHeld[i]
    BY <1>3, <2>2, <2>3
  <2>5. store' # store
    BY <1>1, <2>4, HeldBy
  <2>6. AddressLeases!Write
    BY <2>5, SnapshotHeld DEF Steady, AddressLeases!Write, AddressHeld, AddressSaved
  <2>7. CASE i \in store
    <3>1. AddressHeld'[i] = NoIP
      BY <1>1, <2>4, <2>7, HeldBy
    <3>2. AddressLeases!Release(i)
      BY <2>3, <2>4, <2>6, <3>1 DEF AddressLeases!Release, AddressHeld
    <3> QED
      BY <3>2 DEF AddressLeases!Next
  <2>8. CASE i \notin store
    <3>1. i \in store' \ store
      BY <2>4, <2>8, HeldBy
    <3>2. pc[i] = "allocated"
      BY <3>1 DEF Steady
    <3>3. inst[i].ip \in Pool /\ inst[i].ip # NoIP /\ \A j \in store : inst[j].ip # inst[i].ip
      BY <3>2, PoolAssumption DEF UInv, FreshAddress
    <3>4. AddressHeld[i] = NoIP /\ AddressHeld'[i] = inst[i].ip
      BY <1>1, <3>1, HeldBy
    <3>5. \A y \in Ids : AddressHeld[y] # inst[i].ip
      BY <3>3, HeldBy
    <3>6. AddressLeases!Acquire(i)
      BY <2>3, <2>6, <3>3, <3>4, <3>5 DEF AddressLeases!Acquire, AddressHeld
    <3> QED
      BY <3>6 DEF AddressLeases!Next
  <2> QED
    BY <2>7, <2>8
<1>4. CASE store' = store
  <2>1. AddressHeld' = AddressHeld
    BY <1>0, <1>1, <1>4 DEF AddressHeld, AddressesIn
  <2> QED
    BY <1>2, <2>1
<1> QED
  BY <1>0, <1>2, <1>3, <1>4, OneStored

LEMMA NextLeases ==
    ASSUME BInv, UInv, [Next]_vars
    PROVE  [AddressLeases!Next]_<<AddressHeld, AddressSaved>>
<1>0. TypeOK /\ TInv
  BY DEF BInv, TInv
<1>1. CASE UNCHANGED vars
  BY <1>1 DEF vars, AddressHeld, AddressSaved
<1>2. CASE Crash
  <2>1. Crashes /\ AddressHeld' = AddressSaved /\ UNCHANGED AddressSaved
    BY <1>2 DEF Crash, AddressHeld, AddressSaved
  <2> QED
    BY <2>1 DEF AddressLeases!Next, AddressLeases!Restart, AddressHeld, AddressSaved
<1>3. ASSUME NEW i \in Ids, Opening(i) PROVE UNCHANGED <<AddressHeld, AddressSaved>>
  <2>1. UNCHANGED <<store, file>> /\ i \notin store /\ \A j \in Ids \ {i} : inst'[j] = inst[j]
    BY <1>0, <1>3, OpeningEffect DEF BInv, StoredBegun, Elsewhere
  <2>2. \A j \in Ids : (IF j \in store' THEN inst'[j].ip ELSE NoIP)
                         = (IF j \in store THEN inst[j].ip ELSE NoIP)
    BY <2>1
  <2> QED
    BY <2>1, <2>2 DEF AddressHeld, AddressSaved, AddressesIn
<1> QED
  BY <1>0, <1>1, <1>2, <1>3, Steps, SteadyLeases DEF BInv

\* DBInstances hands out addresses the way Leases says, when provision requests
\* come one at a time: a failed Put or Delete, a crash and a deletion during the
\* provision included.
THEOREM AddressesLeased ==
    ASSUME ~OverlappingProvisions
    PROVE  Spec => AddressesAreLeased
<1>1. Init => AddressLeases!Init
  BY DEF Init, AddressLeases!Init, AddressesIn, Snapshot
<1>2. BInv /\ UInv /\ [Next]_vars
        => [AddressLeases!Next]_<<AddressesIn(store, inst), AddressesIn(file.ids, file.inst)>>
  BY NextLeases DEF AddressHeld, AddressSaved
<1> QED
  BY <1>1, <1>2, BaseInvariance, UniqueInvariance, PTL DEF Spec, AddressesAreLeased, AddressLeases!Spec

-----------------------------------------------------------------------------
(* A deleted database leaves nothing, when users wait for the work on an    *)
(* instance before they delete it and what a deletion asks for is done.     *)

\* Creation, the SSH connection and saves may fail, a start may be refused but not
\* be given up on its way; machines may halt or abort.
Careful ==
    /\ ~OverlappingOps
    /\ Failures \cap {"slow", "dns", "poweroff", "unregister", "inspect"} = {}
    /\ MachineEvents \subseteq {"halt", "abort"}

Calm == {"absent", "poweroff", "running", "aborted"}

\* Neither a machine nor an A record.
Clean(i) == ~Exists(i) /\ dnsA[i] = NoIP

\* Stored, and so after a restart.
Recorded(i) == i \in store /\ i \in file.ids

\* What is made is made for recorded instances, and their deletion waits.
Tracked ==
    \A i \in Ids : /\ vm[i].power \in Calm
                   /\ Recorded(i) \/ Clean(i)
                   /\ pc[i] \in GoroutinePhases => Recorded(i)

\* How far a deletion has come.  No two are on one instance.
Deleting(w) ==
    worker[w].pc # "idle" =>
        /\ pc[worker[w].id] = "done"
        /\ worker[w].pc = "unregister" => vm[worker[w].id].power # "running"
        /\ worker[w].pc = "undns" => ~Exists(worker[w].id)
        /\ worker[w].pc = "erase" => Clean(worker[w].id)
        /\ \A x \in Workers \ {w} : worker[x].pc # "idle" => worker[x].id # worker[w].id

KInv == Tracked /\ \A w \in Workers : Deleting(w)

\* A machine that is not being provisioned at most stops; its record stays.
Fades(i) == /\ \/ vm'[i].power = vm[i].power
               \/ vm[i].power = "running" /\ vm'[i].power \in {"poweroff", "aborted"}
            /\ dnsA'[i] = dnsA[i]

LEMMA RecordedStays ==
    ASSUME TypeOK, Steady, store \subseteq store', NEW i \in Ids, Recorded(i)
    PROVE  Recorded(i)'
  BY DEF Recorded, Steady, Snapshot

\* Steps of anybody but the deletions.
LEMMA TrackedStep ==
    ASSUME TInv, KInv, UNCHANGED worker,
           \A i \in Ids : \/ Fades(i)
                          \/ pc[i] \in GoroutinePhases /\ vm'[i].power \in Calm,
           \A i \in Ids : Recorded(i) => Recorded(i)',
           \A i \in Ids : pc[i] = "done" => pc'[i] = "done",
           \A i \in Ids : pc'[i] \in GoroutinePhases => Recorded(i)'
    PROVE  KInv'
<1>0. "done" \notin GoroutinePhases
  BY DEF GoroutinePhases
<1>1. Tracked'
  BY DEF KInv, Tracked, Clean, Exists, Fades, Calm
<1>2. \A w \in Workers : worker[w].pc # "idle" => worker[w].id \in Ids
  BY DEF TInv, WorkersHaveIds
<1>3. \A w \in Workers : worker[w].pc # "idle" => Fades(worker[w].id)
  BY <1>0, <1>2 DEF KInv, Deleting
<1>4. \A w \in Workers : Deleting(w)'
  BY <1>2, <1>3 DEF KInv, Deleting, Clean, Exists, Fades
<1> QED
  BY <1>1, <1>4 DEF KInv

LEMMA RunProvisionTracked ==
    ASSUME Careful, TInv, KInv, NEW i \in Ids, RunProvision(i)
    PROVE  KInv'
<1> USE DEF TInv
<1>0. Steady /\ Elsewhere(i) /\ pc[i] \in GoroutinePhases
  BY RunProvisionSteady
<1>a. \A j \in Ids : vm[j] \in Machine
  BY DEF TypeOK
<1>1. store' = store /\ UNCHANGED worker
  BY DEF RunProvision, TemplateMissing, MarkProvisioning, CreateVM, ConfigureVM, InjectProperties,
         StartVM, WaitForVMRunning, WaitForSSH, SetupDatabase, RunSQLFile, MarkRegistering,
         RegisterDNS, MarkRunning, FailColumn, Fail, Mark, records
<1>2. \A j \in Ids : Fades(j) \/ (j = i /\ vm'[j].power \in Calm)
  <2>1. CASE UNCHANGED <<vm, dnsA>>
    BY <2>1 DEF Fades
  <2>2. CASE CreateVM(i)
    <3>1. UNCHANGED dnsA /\ (UNCHANGED vm \/ vm' = [vm EXCEPT ![i] = [NoMachine EXCEPT !.power = "poweroff"]])
      BY <2>2 DEF CreateVM, Fail, dns
    <3> QED
      BY <3>1, <2>1, <1>a DEF TypeOK, NoMachine, Fades, Calm
  <2>3. CASE StartVM(i)
    <3>1. UNCHANGED dnsA /\ (UNCHANGED vm \/ vm' = [vm EXCEPT ![i].power = "running"])
      BY <2>3 DEF StartVM, Fail, dns, Careful
    <3> QED
      BY <3>1, <2>1, <1>a DEF TypeOK, Machine, Fades, Calm
  <2>4. CASE ConfigureVM(i) \/ InjectProperties(i) \/ SetupDatabase(i)
    <3>1. UNCHANGED dnsA
      BY <2>4 DEF ConfigureVM, InjectProperties, SetupDatabase, Fail, dns
    <3>2. \/ UNCHANGED vm \/ vm' = [vm EXCEPT ![i].disk = TRUE] \/ vm' = [vm EXCEPT ![i].ip = inst[i].ip]
          \/ \E k \in Ids : vm' = [vm EXCEPT ![k].dbs = @ \cup {i}]
      BY <2>4 DEF ConfigureVM, InjectProperties, SetupDatabase, Answering
    <3>3. \A j \in Ids : vm'[j].power = vm[j].power
      <4>1. ASSUME NEW k \in Ids, vm' = [vm EXCEPT ![k].dbs = @ \cup {i}]
            PROVE  \A j \in Ids : vm'[j].power = vm[j].power
        BY <4>1, <1>a DEF TypeOK, Machine
      <4>2. CASE vm' = [vm EXCEPT ![i].disk = TRUE] \/ vm' = [vm EXCEPT ![i].ip = inst[i].ip]
        BY <4>2, <1>a DEF TypeOK, Machine
      <4> QED
        BY <3>2, <4>1, <4>2
    <3> QED
      BY <3>1, <3>3 DEF Fades
  <2>5. CASE RegisterDNS(i)
    <3>1. UNCHANGED vm /\ \A j \in Ids \ {i} : dnsA'[j] = dnsA[j]
      BY <2>5 DEF RegisterDNS, AddRecord, TypeOK, dns
    <3> QED
      BY <3>1 DEF Fades, KInv, Tracked
  <2>6. CASE \/ TemplateMissing(i) \/ MarkProvisioning(i) \/ WaitForVMRunning(i) \/ WaitForSSH(i)
             \/ RunSQLFile(i) \/ MarkRegistering(i) \/ MarkRunning(i) \/ FailColumn(i)
    BY <2>1, <2>6 DEF TemplateMissing, MarkProvisioning, WaitForVMRunning, WaitForSSH, RunSQLFile,
                      MarkRegistering, MarkRunning, FailColumn, Fail, dns
  <2> QED
    BY <2>2, <2>3, <2>4, <2>5, <2>6 DEF RunProvision
<1>3. \A j \in Ids : Recorded(j) => Recorded(j)'
  BY <1>0, <1>1, RecordedStays
<1>4. \A j \in Ids : pc[j] = "done" => pc'[j] = "done"
  BY <1>0 DEF Elsewhere, GoroutinePhases
<1>5. \A j \in Ids : pc'[j] \in GoroutinePhases => Recorded(j)'
  BY <1>0, <1>3 DEF Elsewhere, KInv, Tracked
<1> QED
  BY <1>0, <1>1, <1>2, <1>3, <1>4, <1>5, TrackedStep

LEMMA HandlerTracked ==
    ASSUME TInv, StoredBegun, KInv, NEW i \in Ids, Opening(i) \/ PutInstance(i)
    PROVE  KInv'
<1> USE DEF TInv
<1>1. CASE Opening(i)
  <2>1. /\ Elsewhere(i) /\ ~Begun(i) /\ ~Begun(i)'
        /\ UNCHANGED <<store, file, worker, vm, dnsA>>
    BY <1>1, OpeningEffect DEF dns
  <2>2. pc[i] \notin GoroutinePhases \cup {"done"} /\ pc'[i] \notin GoroutinePhases
    BY <2>1 DEF Begun, GoroutinePhases, HandlerPhases
  <2> QED
    BY <2>1, <2>2, TrackedStep DEF Elsewhere, Fades, Recorded, KInv, Tracked
<1>2. CASE PutInstance(i)
  <2>1. Steady /\ Elsewhere(i) /\ pc[i] = "allocated" /\ store' = store \cup {i}
    BY <1>2, PutSteady
  <2>2. UNCHANGED <<worker, vm, dnsA>>
    BY <1>2 DEF PutInstance, dns
  <2>3. pc'[i] \in GoroutinePhases => Recorded(i)'
    BY <1>2 DEF PutInstance, Goto, TypeOK, GoroutinePhases, Recorded, Snapshot
  <2>4. \A j \in Ids : Recorded(j) => Recorded(j)'
    BY <2>1, RecordedStays
  <2> QED
    BY <2>1, <2>2, <2>3, <2>4, TrackedStep DEF Elsewhere, Fades, KInv, Tracked
<1> QED
  BY <1>1, <1>2

LEMMA SurroundingsTracked ==
    ASSUME Careful, TInv, StoredBegun, KInv,
           \/ \E i \in Ids : SyncLook(i) \/ SyncStep(i) \/ MachineEvent(i) \/ ImportMachine(i)
           \/ WebAllocate \/ WebPut \/ WebRegister \/ WebDelete \/ UNCHANGED vars
    PROVE  KInv'
<1> USE DEF TInv
<1>1. Steady /\ UNCHANGED pc
  BY OthersSteady DEF Others
<1>2. store' = store /\ UNCHANGED <<worker, dnsA>>
  BY DEF SyncLook, SyncStep, SyncCompare, SyncColumn, SyncState, Mark, MachineEvent, ImportMachine,
         WebAllocate, WebPut, WebRegister, WebDelete, vars, records, dns
<1>3. \A j \in Ids : Fades(j)
  <2>1. CASE UNCHANGED vm
    BY <1>2, <2>1 DEF Fades
  <2>2. ASSUME NEW i \in Ids, MachineEvent(i) PROVE \A j \in Ids : Fades(j)
    <3>1. vm[i].power \in Calm
      BY DEF KInv, Tracked
    <3>2. \/ vm[i].power = "running" /\ vm' = [vm EXCEPT ![i].power = "poweroff"]
          \/ vm[i].power = "running" /\ vm' = [vm EXCEPT ![i].power = "aborted"]
      BY <2>2, <3>1 DEF MachineEvent, Careful, Calm
    <3> QED
      BY <1>2, <3>2 DEF TypeOK, Machine, Fades
  <2> QED
    BY <2>1, <2>2 DEF SyncLook, SyncStep, SyncCompare, SyncColumn, SyncState, ImportMachine,
                      WebAllocate, WebPut, WebRegister, WebDelete, vars
<1>4. \A j \in Ids : Recorded(j) => Recorded(j)'
  BY <1>1, <1>2, RecordedStays
<1> QED
  BY <1>1, <1>2, <1>3, <1>4, TrackedStep DEF KInv, Tracked

\* A step of a deletion: its own machine and record, and nobody's provision.
LEMMA DeletionStep ==
    ASSUME TInv, TInv', KInv, NEW w \in Workers, NEW i \in Ids,
           worker'[w].id = i, worker'[w].pc # "idle", Deleting(w)',
           UNCHANGED <<store, file, pc>>,
           \A x \in Workers \ {w} : worker'[x] = worker[x],
           \A j \in Ids \ {i} : vm'[j] = vm[j] /\ dnsA'[j] = dnsA[j],
           vm'[i].power \in Calm,
           Clean(i) => Clean(i)'
    PROVE  KInv'
<1>1. \A x \in Workers : worker[x].pc # "idle" => worker[x].id \in Ids
  BY DEF TInv, WorkersHaveIds
<1>2. Tracked'
  BY DEF KInv, Tracked, Recorded, Clean, Exists
<1>3. ASSUME NEW x \in Workers \ {w} PROVE Deleting(x)'
  <2> SUFFICES ASSUME worker[x].pc # "idle" PROVE Deleting(x)'
    BY <1>3 DEF Deleting
  <2>1. worker[x].id # i
    BY <1>3 DEF Deleting
  <2>2. vm'[worker[x].id] = vm[worker[x].id] /\ dnsA'[worker[x].id] = dnsA[worker[x].id]
    BY <1>1, <2>1
  <2>3. \A y \in Workers \ {x} : worker'[y].pc # "idle" => worker'[y].id # worker[x].id
    BY <1>3, <2>1 DEF KInv, Deleting
  <2> QED
    BY <1>3, <2>2, <2>3 DEF KInv, Deleting, Clean, Exists
<1> QED
  BY <1>2, <1>3 DEF KInv

LEMMA WorkerTracked ==
    ASSUME Careful, TInv, TInv', KInv, NEW w \in Workers, WorkerStep(w)
    PROVE  KInv'
<1> PICK i \in Ids : i = worker[w].id
  BY DEF TInv, TypeOK, WorkersHaveIds, WorkerStep, DeleteLook, DeleteHalt, DeleteUnregister,
         DeleteRecord, EraseInstance
<1>0. worker[w].pc # "idle" /\ vm[i] \in Machine /\ vm[i].power \in Calm
  BY DEF TInv, TypeOK, WorkersHaveIds, WorkerStep, DeleteLook, DeleteHalt, DeleteUnregister,
         DeleteRecord, EraseInstance, KInv, Tracked
<1>1. pc[i] = "done" /\ \A x \in Workers \ {w} : worker[x].pc # "idle" => worker[x].id # i
  BY <1>0 DEF KInv, Deleting
<1>2. ASSUME NEW step \in {"halt", "unregister", "undns", "erase"}, Continue(w, step)
      PROVE  /\ worker'[w].pc = step /\ worker'[w].id = i
             /\ \A x \in Workers \ {w} : worker'[x] = worker[x]
  BY <1>2 DEF TInv, TypeOK, Worker, Continue
<1>3. CASE DeleteLook(w)
  <2>1. /\ UNCHANGED <<store, file, pc, vm, dnsA>>
        /\ \/ Continue(w, "halt")
           \/ Continue(w, "unregister") /\ vm[i].power # "running"
    <3>1. "inspect" \notin Failures
      BY DEF Careful
    <3> QED
      BY <1>3, <3>1 DEF DeleteLook, records, dns
  <2>2. Deleting(w)'
    BY <1>1, <1>2, <2>1 DEF Deleting
  <2> QED
    BY <1>0, <1>2, <2>1, <2>2, DeletionStep DEF Clean, Exists
<1>4. CASE DeleteHalt(w)
  <2>1. /\ UNCHANGED <<store, file, pc, dnsA>> /\ Continue(w, "unregister")
        /\ \/ vm' = [vm EXCEPT ![i].power = "poweroff"] /\ vm[i].power = "running"
           \/ UNCHANGED vm /\ vm[i].power # "running"
    BY <1>0, <1>4 DEF DeleteHalt, Careful, records, dns, Calm
  <2>2. vm'[i].power \in Calm \ {"running"} /\ \A j \in Ids \ {i} : vm'[j] = vm[j]
    BY <1>0, <2>1 DEF TInv, TypeOK, Machine, Calm
  <2>3. Deleting(w)'
    BY <1>1, <1>2, <2>1, <2>2 DEF Deleting
  <2>4. Clean(i) => Clean(i)'
    BY <2>1 DEF Clean, Exists
  <2> QED
    BY <1>2, <2>1, <2>2, <2>3, <2>4, DeletionStep
<1>5. CASE DeleteUnregister(w)
  <2>1. vm[i].power # "running"
    BY <1>0, <1>5 DEF DeleteUnregister, KInv, Deleting
  <2>2. /\ UNCHANGED <<store, file, pc, dnsA>> /\ Continue(w, "undns")
        /\ \/ vm' = [vm EXCEPT ![i] = NoMachine]
           \/ UNCHANGED vm /\ ~Exists(i)
    BY <1>0, <1>5, <2>1 DEF DeleteUnregister, Careful, records, dns, Calm, Exists
  <2>3. vm'[i].power = "absent" /\ \A j \in Ids \ {i} : vm'[j] = vm[j]
    BY <1>0, <2>2 DEF TInv, TypeOK, NoMachine, Exists
  <2>4. Deleting(w)'
    BY <1>1, <1>2, <2>2, <2>3 DEF Deleting, Exists
  <2> QED
    BY <1>2, <2>2, <2>3, <2>4, DeletionStep DEF Calm, Clean, Exists
<1>6. CASE DeleteRecord(w)
  <2>1. /\ UNCHANGED <<store, file, pc, vm>> /\ Continue(w, "erase")
        /\ dnsA' = [dnsA EXCEPT ![i] = NoIP]
    BY <1>6 DEF DeleteRecord, Careful, records
  <2>2. ~Exists(i)
    BY <1>0, <1>6 DEF DeleteRecord, KInv, Deleting
  <2>3. dnsA'[i] = NoIP /\ \A j \in Ids \ {i} : dnsA'[j] = dnsA[j]
    BY <1>0, <2>1 DEF TInv, TypeOK
  <2>4. Clean(i)'
    BY <2>1, <2>2, <2>3 DEF Clean, Exists
  <2>5. Deleting(w)'
    BY <1>1, <1>2, <2>1, <2>4 DEF Deleting
  <2> QED
    BY <1>0, <1>2, <2>1, <2>3, <2>4, <2>5, DeletionStep
<1>7. CASE EraseInstance(w)
  <2>1. Clean(i)
    BY <1>0, <1>7 DEF EraseInstance, KInv, Deleting
  <2>2. /\ UNCHANGED <<pc, vm, dnsA>> /\ store' = store \ {i}
        /\ worker' = [worker EXCEPT ![w] = IdleWorker]
        /\ file' = Snapshot(store', inst') \/ UNCHANGED file
    BY <1>7 DEF EraseInstance, Save, dns
  <2>3. \A j \in Ids \ {i} : Recorded(j) => Recorded(j)'
    BY <2>2 DEF Recorded, Snapshot
  <2>4. pc[i] \notin GoroutinePhases
    BY <1>1 DEF GoroutinePhases
  <2>5. Tracked'
    BY <2>1, <2>2, <2>3, <2>4 DEF KInv, Tracked, Clean, Exists
  <2>6. worker'[w].pc = "idle" /\ \A x \in Workers \ {w} : worker'[x] = worker[x]
    BY <2>2 DEF TInv, TypeOK, IdleWorker
  <2>7. \A x \in Workers : Deleting(x)'
    BY <2>2, <2>6 DEF KInv, Deleting, Clean, Exists
  <2> QED
    BY <2>5, <2>7 DEF KInv
<1> QED
  BY <1>3, <1>4, <1>5, <1>6, <1>7 DEF WorkerStep

LEMMA RequestDeleteTracked ==
    ASSUME Careful, TInv, StoredBegun, KInv, NEW w \in Workers, NEW i \in Ids, RequestDelete(w, i)
    PROVE  KInv'
<1> USE DEF TInv
<1>1. Steady /\ UNCHANGED pc
  BY OthersSteady DEF Others
<1>2. /\ UNCHANGED <<store, vm, dnsA>> /\ pc[i] = "done" /\ ~Busy(i)
      /\ worker' = [worker EXCEPT ![w] = [id |-> i, pc |-> "look"]]
  BY DEF RequestDelete, Mark, Careful, dns
<1>3. worker'[w] = [id |-> i, pc |-> "look"] /\ \A x \in Workers \ {w} : worker'[x] = worker[x]
  BY <1>2 DEF TypeOK
<1>4. \A j \in Ids : Recorded(j) => Recorded(j)'
  BY <1>1, <1>2, RecordedStays
<1>5. Tracked'
  BY <1>1, <1>2, <1>4 DEF KInv, Tracked, Clean, Exists
<1>6. \A x \in Workers : worker[x].id # i
  BY <1>2 DEF Busy
<1>7. Deleting(w)'
  BY <1>1, <1>2, <1>3, <1>6 DEF Deleting
<1>8. \A x \in Workers \ {w} : Deleting(x)'
  BY <1>1, <1>2, <1>3, <1>6 DEF KInv, Deleting, Clean, Exists
<1> QED
  BY <1>5, <1>7, <1>8 DEF KInv

LEMMA NextTracked ==
    ASSUME Careful, BInv, KInv, [Next]_vars
    PROVE  KInv'
<1>1. TInv /\ TInv' /\ StoredBegun
  BY TypeStep DEF BInv
<1>2. CASE Crash
  <2>1. UNCHANGED <<vm, dnsA>> /\ \A j \in Ids : pc'[j] \notin GoroutinePhases
    BY <1>2 DEF Crash, dns, GoroutinePhases
  <2>2. \A j \in Ids : Recorded(j) => Recorded(j)'
    BY <1>2 DEF Crash, Recorded
  <2>3. \A w \in Workers : worker'[w].pc = "idle"
    BY <1>2 DEF Crash, IdleWorker
  <2> QED
    BY <2>1, <2>2, <2>3 DEF KInv, Tracked, Deleting, Clean, Exists
<1> QED
  BY <1>1, <1>2, HandlerTracked, RunProvisionTracked, WorkerTracked, RequestDeleteTracked,
     SurroundingsTracked DEF Next, Opening

LEMMA TrackedInvariance ==
    ASSUME Careful
    PROVE  Spec => []KInv
<1>1. Init => KInv
  <2>1. NoMachine.power = "absent" /\ IdleWorker.pc = "idle"
    BY DEF NoMachine, IdleWorker
  <2> QED
    BY <2>1 DEF Init, KInv, Tracked, Deleting, Clean, Exists, Calm, GoroutinePhases
<1>2. BInv /\ KInv /\ [Next]_vars => KInv'
  BY NextTracked
<1> QED
  BY <1>1, <1>2, BaseInvariance, PTL DEF Spec

\* Neither a machine nor a record outlives its database, whichever step of the
\* creation failed, whichever save did and wherever the process crashed, when
\* users wait for the work on an instance before they delete it.
THEOREM NothingSurvives ==
    ASSUME Careful
    PROVE  Spec => []NothingLeft
<1>1. KInv => NothingLeft
  BY DEF KInv, Tracked, Recorded, Clean, NothingLeft
<1> QED
  BY <1>1, TrackedInvariance, PTL


-----------------------------------------------------------------------------
(* Machines have addresses of their own, and databases are set up at home.  *)

\* A machine knows no address but its instance's, and memory and file agree on
\* the addresses of what both hold.
OwnInv ==
    \A i \in Ids :
        /\ ~Exists(i) => vm[i].ip = NoIP
        /\ vm[i].ip \in {NoIP, inst[i].ip}
        /\ Recorded(i) => file.inst[i].ip = inst[i].ip

MInv == OwnInv /\ DatabaseAtHome

\* What a step does to the machines: they are told their address, at most, and
\* made the home of their own database.
Homely ==
    \A j \in Ids : /\ vm'[j].ip \in {vm[j].ip, NoIP, inst[j].ip}
                   /\ ~Exists(j)' => vm'[j].ip = NoIP
                   /\ vm'[j].dbs \subseteq vm[j].dbs \cup {j}

\* Who has an address is stored, after a restart too.
LEMMA MachinesRecorded ==
    ASSUME KInv, MInv, NEW i \in Ids, vm[i].ip # NoIP
    PROVE  i \in store /\ Recorded(i) /\ vm[i].ip = inst[i].ip
  BY DEF KInv, Tracked, Clean, Recorded, MInv, OwnInv

LEMMA Apart ==
    ASSUME KInv, MInv, UInv
    PROVE  MachineHasOwnAddress
<1> SUFFICES ASSUME NEW i \in Ids, NEW j \in Ids, vm[i].ip # NoIP, vm[i].ip = vm[j].ip
             PROVE  i = j
  BY DEF MachineHasOwnAddress
<1>1. i \in store /\ j \in store /\ inst[i].ip = inst[j].ip
  BY MachinesRecorded
<1> QED
  BY <1>1 DEF UInv, UniqueAddresses, UniqueAddressesIn

LEMMA SteadyMachines ==
    ASSUME TInv, TypeOK', StoredBegun, MInv, Steady, Homely
    PROVE  MInv'
<1>1. \A j \in Ids : inst'[j].ip = inst[j].ip
  BY DEF Steady
<1>2. ASSUME NEW i \in Ids, Recorded(i)' PROVE file'.inst[i].ip = inst'[i].ip
  <2>1. CASE file' = Snapshot(store', inst')
    BY <1>2, <2>1 DEF Recorded, Snapshot
  <2>2. CASE UNCHANGED file
    <3>1. i \in file.ids /\ Begun(i)
      BY <1>2, <2>2 DEF Recorded, StoredBegun
    <3>2. i \in store
      BY <1>2, <3>1 DEF Steady, Recorded, Begun, HandlerPhases
    <3> QED
      BY <1>1, <2>2, <3>1, <3>2 DEF MInv, OwnInv, Recorded
  <2> QED
    BY <2>1, <2>2 DEF Steady
<1>3. OwnInv'
  BY <1>1, <1>2 DEF Homely, MInv, OwnInv
<1>4. DatabaseAtHome'
  BY DEF Homely, MInv, DatabaseAtHome
<1> QED
  BY <1>3, <1>4 DEF MInv

LEMMA SameMachines == ASSUME MInv, UNCHANGED vm PROVE Homely
  BY DEF MInv, OwnInv, Homely, Exists

\* One machine changes its power, is replaced by a blank one, or gets a disk.
LEMMA OneMachine ==
    ASSUME MInv, TypeOK, NEW i \in Ids,
           \/ \E p \in Power : Exists(i) /\ vm' = [vm EXCEPT ![i].power = p]
           \/ vm' = [vm EXCEPT ![i] = NoMachine]
           \/ vm' = [vm EXCEPT ![i] = [NoMachine EXCEPT !.power = "poweroff"]]
           \/ vm' = [vm EXCEPT ![i].disk = TRUE]
           \/ Exists(i) /\ vm' = [vm EXCEPT ![i].ip = inst[i].ip]
           \/ Exists(i) /\ vm' = [vm EXCEPT ![i].dbs = @ \cup {i}]
    PROVE  Homely
<1>1. "absent" \notin Power
  BY DEF Power
<1>2. \A j \in Ids : vm[j] \in Machine
  BY DEF TypeOK
<1>3. ASSUME NEW p \in Power, Exists(i), vm' = [vm EXCEPT ![i].power = p] PROVE Homely
  BY <1>1, <1>2, <1>3 DEF TypeOK, Machine, MInv, OwnInv, Homely, Exists
<1>4. CASE vm' = [vm EXCEPT ![i] = NoMachine]
  BY <1>2, <1>4 DEF TypeOK, NoMachine, MInv, OwnInv, Homely, Exists
<1>5. CASE vm' = [vm EXCEPT ![i] = [NoMachine EXCEPT !.power = "poweroff"]]
  BY <1>2, <1>5 DEF TypeOK, NoMachine, MInv, OwnInv, Homely, Exists
<1>6. CASE vm' = [vm EXCEPT ![i].disk = TRUE]
  BY <1>2, <1>6 DEF TypeOK, Machine, MInv, OwnInv, Homely, Exists
<1>7. CASE Exists(i) /\ vm' = [vm EXCEPT ![i].ip = inst[i].ip]
  BY <1>2, <1>7 DEF TypeOK, Machine, MInv, OwnInv, Homely, Exists
<1>8. CASE Exists(i) /\ vm' = [vm EXCEPT ![i].dbs = @ \cup {i}]
  BY <1>2, <1>8 DEF TypeOK, Machine, MInv, OwnInv, Homely, Exists
<1> QED
  BY <1>3, <1>4, <1>5, <1>6, <1>7, <1>8

LEMMA RunProvisionMachines ==
    ASSUME TypeOK, UInv, KInv, MInv, NEW i \in Ids, RunProvision(i)
    PROVE  Homely
<1>1. CASE SetupDatabase(i)
  <2>1. CASE UNCHANGED vm
    BY <2>1, SameMachines
  <2>2. ASSUME NEW j \in Answering(inst[i].ip), vm' = [vm EXCEPT ![j].dbs = @ \cup {i}]
        PROVE  Homely
    <3>1. i \in store /\ inst[i].ip # NoIP
      BY <1>1, PoolAssumption
         DEF SetupDatabase, KInv, Tracked, Recorded, GoroutinePhases, UInv, Addressed
    <3>2. j \in Ids /\ vm[j].ip = inst[i].ip /\ Exists(j)
      BY <2>2 DEF Answering, Exists
    <3>3. j \in store /\ inst[j].ip = inst[i].ip
      BY <3>1, <3>2, MachinesRecorded
    <3>4. j = i
      BY <3>1, <3>3 DEF UInv, UniqueAddresses, UniqueAddressesIn
    <3> QED
      BY <2>2, <3>2, <3>4, OneMachine
  <2> QED
    BY <1>1, <2>1, <2>2 DEF SetupDatabase
<1>2. CASE CreateVM(i) \/ ConfigureVM(i) \/ InjectProperties(i)
  BY <1>2, SameMachines, OneMachine DEF CreateVM, ConfigureVM, InjectProperties
<1>3. CASE StartVM(i)
  BY <1>3, SameMachines, OneMachine DEF StartVM, Exists, Power
<1>4. CASE \/ TemplateMissing(i) \/ MarkProvisioning(i) \/ WaitForVMRunning(i) \/ WaitForSSH(i)
           \/ RunSQLFile(i) \/ MarkRegistering(i) \/ RegisterDNS(i) \/ MarkRunning(i)
           \/ FailColumn(i)
  BY <1>4, SameMachines DEF TemplateMissing, MarkProvisioning, WaitForVMRunning, WaitForSSH,
     RunSQLFile, MarkRegistering, RegisterDNS, MarkRunning, FailColumn
<1> QED
  BY <1>1, <1>2, <1>3, <1>4 DEF RunProvision

LEMMA OthersMachines ==
    ASSUME TInv, MInv, Others \/ \E i \in Ids : PutInstance(i)
    PROVE  Homely
<1>0. TypeOK
  BY DEF TInv
<1>1. ASSUME NEW w \in Workers, WorkerStep(w) PROVE Homely
  <2>1. worker[w].id \in Ids
    BY <1>1 DEF TInv, WorkersHaveIds, WorkerStep, DeleteLook, DeleteHalt, DeleteUnregister,
                DeleteRecord, EraseInstance
  <2>2. CASE DeleteHalt(w)
    <3>1. vm[worker[w].id].power \in {"running", "paused"} => Exists(worker[w].id)
      BY DEF Exists
    <3> QED
      BY <1>0, <2>1, <2>2, <3>1, SameMachines, OneMachine DEF DeleteHalt, Power
  <2>3. CASE DeleteUnregister(w)
    BY <1>0, <2>1, <2>3, SameMachines, OneMachine DEF DeleteUnregister
  <2>4. CASE DeleteLook(w) \/ DeleteRecord(w) \/ EraseInstance(w)
    BY <2>4, SameMachines DEF DeleteLook, DeleteRecord, EraseInstance
  <2> QED
    BY <1>1, <2>2, <2>3, <2>4 DEF WorkerStep
<1>2. ASSUME NEW i \in Ids, MachineEvent(i) PROVE Homely
  <2>1. Exists(i) /\ \E p \in Power : vm' = [vm EXCEPT ![i].power = p]
    BY <1>2 DEF MachineEvent, Exists, Power
  <2> QED
    BY <1>0, <2>1, OneMachine
<1>3. CASE \/ \E i \in Ids : SyncLook(i) \/ SyncStep(i) \/ ImportMachine(i) \/ PutInstance(i)
           \/ \E w \in Workers, i \in Ids : RequestDelete(w, i)
           \/ WebAllocate \/ WebPut \/ WebRegister \/ WebDelete \/ UNCHANGED vars
  BY <1>3, SameMachines DEF SyncLook, SyncStep, SyncCompare, SyncColumn, SyncState, ImportMachine,
     PutInstance, RequestDelete, WebAllocate, WebPut, WebRegister, WebDelete, vars
<1> QED
  BY <1>1, <1>2, <1>3 DEF Others

LEMMA NextMachines ==
    ASSUME BInv, UInv, KInv, MInv, [Next]_vars
    PROVE  MInv'
<1>0. TInv /\ TypeOK /\ TypeOK' /\ StoredBegun
  BY TypeStep DEF BInv, TInv
<1>1. ASSUME NEW i \in Ids, RunProvision(i) \/ PutInstance(i) PROVE MInv'
  BY <1>0, <1>1, RunProvisionSteady, PutSteady, RunProvisionMachines, OthersMachines, SteadyMachines
<1>2. CASE Others
  BY <1>0, <1>2, OthersSteady, OthersMachines, SteadyMachines
<1>3. ASSUME NEW i \in Ids, Opening(i) PROVE MInv'
  <2>1. UNCHANGED <<store, file, vm>> /\ i \notin store /\ \A j \in Ids \ {i} : inst'[j] = inst[j]
    BY <1>0, <1>3, OpeningEffect DEF StoredBegun, Elsewhere
  <2>2. vm[i].ip = NoIP
    BY <2>1, MachinesRecorded
  <2> QED
    BY <2>1, <2>2 DEF MInv, OwnInv, DatabaseAtHome, Recorded, Exists
<1>4. CASE Crash
  <2>1. UNCHANGED <<file, vm>> /\ inst' = file.inst
    BY <1>4 DEF Crash
  <2>2. \A i \in Ids : vm[i].ip # NoIP => vm[i].ip = inst'[i].ip
    BY <2>1, MachinesRecorded DEF MInv, OwnInv
  <2> QED
    BY <2>1, <2>2 DEF MInv, OwnInv, DatabaseAtHome, Exists
<1> QED
  BY <1>1, <1>2, <1>3, <1>4 DEF Next, Others, Opening

LEMMA MachinesInvariance ==
    ASSUME Careful, ~OverlappingProvisions
    PROVE  Spec => []MInv
<1>1. Init => MInv
  <2>1. NoMachine.ip = NoIP /\ NoMachine.dbs = {}
    BY DEF NoMachine
  <2> QED
    BY <2>1 DEF Init, MInv, OwnInv, DatabaseAtHome, Recorded
<1>2. BInv /\ UInv /\ KInv /\ MInv /\ [Next]_vars => MInv'
  BY NextMachines
<1> QED
  BY <1>1, <1>2, BaseInvariance, UniqueInvariance, TrackedInvariance, PTL DEF Spec

\* No two machines were given one address, the machines of databases under
\* deletion included, when users wait before they delete, requests for databases
\* come one at a time, and what a deletion asks for is done.
THEOREM MachinesApart ==
    ASSUME Careful, ~OverlappingProvisions
    PROVE  Spec => []MachineHasOwnAddress
<1>1. KInv /\ MInv /\ UInv => MachineHasOwnAddress
  BY Apart
<1> QED
  BY <1>1, MachinesInvariance, TrackedInvariance, UniqueInvariance, PTL

\* A database is set up on its own machine and on no other, under the same
\* conditions.
THEOREM DatabasesAtHome ==
    ASSUME Careful, ~OverlappingProvisions
    PROVE  Spec => []DatabaseAtHome
<1>1. MInv => DatabaseAtHome
  BY DEF MInv
<1> QED
  BY <1>1, MachinesInvariance, PTL

-----------------------------------------------------------------------------
(* Reverse records.                                                         *)

\* A record bears the address its instance has, and the reverse record of that
\* address names the instance, or a web instance that was given the address too.
RInv ==
    \A i \in Ids : dnsA[i] # NoIP =>
        /\ dnsA[i] = inst[i].ip
        /\ dnsPtr[dnsA[i]] \in {i, Web}

\* Records stay or go, and recorded objects keep their addresses.
LEMMA RecordsStay ==
    ASSUME TypeOK, Steady, RInv, \A ip \in Pool : dnsPtr'[ip] \in {dnsPtr[ip], Web},
           \A i \in Ids : dnsA'[i] \in {dnsA[i], NoIP}
    PROVE  RInv'
<1>1. \A i \in Ids : inst'[i].ip = inst[i].ip
  BY DEF Steady
<1>2. \A i \in Ids : dnsA[i] # NoIP => dnsA[i] \in Pool
  BY DEF TypeOK
<1> QED
  BY <1>1, <1>2 DEF RInv

LEMMA RegisterReverse ==
    ASSUME Careful, BInv, UInv, KInv, RInv, NEW i \in Ids, RegisterDNS(i)
    PROVE  RInv'
<1> USE DEF BInv, TInv
<1>1. Steady
  BY RunProvisionSteady DEF RunProvision
<1>2. i \in store
  BY DEF RegisterDNS, KInv, Tracked, Recorded, GoroutinePhases
<1>3. dnsA' = [dnsA EXCEPT ![i] = inst[i].ip] /\ dnsPtr' = [dnsPtr EXCEPT ![inst[i].ip] = i]
  BY DEF RegisterDNS, AddRecord, Careful
<1> SUFFICES ASSUME NEW j \in Ids, dnsA'[j] # NoIP
             PROVE  /\ dnsA'[j] = inst'[j].ip
                    /\ dnsPtr'[dnsA'[j]] \in {j, Web}
  BY DEF RInv
<1>4. dnsA'[j] = inst[j].ip /\ inst'[j].ip = inst[j].ip
  BY <1>1, <1>3 DEF Steady, RInv, TypeOK
<1>5. inst[j].ip \in Pool
  BY <1>4 DEF TypeOK, DBInstance
<1>6. CASE j = i
  BY <1>3, <1>4, <1>5, <1>6 DEF TypeOK
<1>7. CASE j # i
  <2>1. dnsA'[j] = dnsA[j] /\ j \in store
    BY <1>3, <1>7 DEF TypeOK, KInv, Tracked, Recorded, Clean
  <2>2. inst[j].ip # inst[i].ip
    BY <1>2, <1>7, <2>1 DEF UInv, UniqueAddresses, UniqueAddressesIn
  <2>3. dnsPtr'[inst[j].ip] = dnsPtr[inst[j].ip]
    BY <1>3, <1>5, <2>2 DEF TypeOK
  <2> QED
    BY <1>4, <2>1, <2>3 DEF RInv
<1> QED
  BY <1>6, <1>7

LEMMA NextReverse ==
    ASSUME Careful, BInv, UInv, KInv, MInv, RInv, [Next]_vars
    PROVE  RInv'
<1> USE DEF BInv, TInv
<1>1. ASSUME NEW i \in Ids, Opening(i) PROVE RInv'
  <2>1. Elsewhere(i) /\ i \notin store /\ UNCHANGED <<dnsA, dnsPtr>>
    BY <1>1, OpeningEffect DEF dns, StoredBegun
  <2>2. dnsA[i] = NoIP
    BY <2>1 DEF KInv, Tracked, Recorded, Clean
  <2> QED
    BY <2>1, <2>2 DEF RInv, Elsewhere
<1>2. CASE Crash
  <2>1. UNCHANGED <<dnsA, dnsPtr>> /\ inst' = file.inst
    BY <1>2 DEF Crash, dns
  <2>2. \A i \in Ids : dnsA[i] # NoIP => file.inst[i].ip = inst[i].ip
    BY DEF KInv, Tracked, Clean, MInv, OwnInv
  <2> QED
    BY <2>1, <2>2 DEF RInv
<1>3. ASSUME NEW i \in Ids, RunProvision(i), ~RegisterDNS(i) PROVE RInv'
  <2>1. UNCHANGED <<dnsA, dnsPtr>>
    BY <1>3 DEF RunProvision, TemplateMissing, MarkProvisioning, CreateVM, ConfigureVM,
                InjectProperties, StartVM, WaitForVMRunning, WaitForSSH, SetupDatabase, RunSQLFile,
                MarkRegistering, MarkRunning, FailColumn, Fail, dns
  <2> QED
    BY <1>3, <2>1, RunProvisionSteady, RecordsStay
<1>4. ASSUME NEW i \in Ids, PutInstance(i) PROVE RInv'
  <2>1. UNCHANGED <<dnsA, dnsPtr>>
    BY <1>4 DEF PutInstance, dns
  <2> QED
    BY <1>4, <2>1, PutSteady, RecordsStay
<1>5. CASE Others
  <2>1. CASE WebRegister
    <3>1. UNCHANGED dnsA /\ \A ip \in Pool : dnsPtr'[ip] \in {dnsPtr[ip], Web}
      BY <2>1 DEF WebRegister, TypeOK
    <3> QED
      BY <1>5, <3>1, OthersSteady, RecordsStay
  <2>2. CASE ~WebRegister
    <3>1. UNCHANGED dnsPtr /\ \A i \in Ids : dnsA'[i] \in {dnsA[i], NoIP}
      BY <1>5, <2>2 DEF Others, WorkerStep, DeleteLook, DeleteHalt, DeleteUnregister, DeleteRecord,
                  EraseInstance, RequestDelete, SyncLook, SyncStep, SyncCompare, SyncColumn,
                  SyncState, MachineEvent, ImportMachine, WebAllocate, WebPut, WebDelete, vars,
                  dns, TypeOK
    <3> QED
      BY <1>5, <3>1, OthersSteady, RecordsStay
  <2> QED
    BY <2>1, <2>2
<1> QED
  BY <1>1, <1>2, <1>3, <1>4, <1>5, RegisterReverse DEF Next, Others, Opening

\* The reverse record of the address a database's name leads to names that
\* database, although a deletion leaves the reverse record behind and the address
\* is given out again; or it names a web instance, which may be given an address
\* that a database has.
THEOREM ReverseCorrect ==
    ASSUME Careful, ~OverlappingProvisions
    PROVE  Spec => []ReverseMatchesForward
<1>1. Init => RInv
  BY DEF Init, RInv
<1>2. BInv /\ UInv /\ KInv /\ MInv /\ RInv /\ [Next]_vars => RInv'
  BY NextReverse
<1>3. RInv => ReverseMatchesForward
  BY DEF RInv, ReverseMatchesForward
<1> QED
  BY <1>1, <1>2, <1>3, BaseInvariance, UniqueInvariance, TrackedInvariance, MachinesInvariance,
     PTL DEF Spec

-----------------------------------------------------------------------------
(* What a provision shows as running has been set up: what DbRevived finds  *)
(* comes from the synchronisation alone.                                    *)

AfterSetup == {"loading", "loaded", "registering", "registered"}

\* A deletion works on instances whose provision has ended.
DeletionsWait == \A w \in Workers : worker[w].pc # "idle" => pc[worker[w].id] = "done"

SetUp == \A i \in Ids : pc[i] \in AfterSetup => i \in vm[i].dbs

WInv == DeletionsWait /\ SetUp

LEMMA ProvisionSetsUp ==
    ASSUME TInv, WInv, DatabaseAtHome', NEW i \in Ids, RunProvision(i)
    PROVE  WInv'
<1> USE DEF TInv
<1>1. Elsewhere(i) /\ pc[i] \in GoroutinePhases /\ UNCHANGED worker
  BY RunProvisionSteady DEF RunProvision, TemplateMissing, MarkProvisioning, CreateVM, ConfigureVM,
     InjectProperties, StartVM, WaitForVMRunning, WaitForSSH, SetupDatabase, RunSQLFile,
     MarkRegistering, RegisterDNS, MarkRunning, FailColumn, Fail, records
<1>2. DeletionsWait'
  BY <1>1 DEF WInv, DeletionsWait, WorkersHaveIds, Elsewhere, GoroutinePhases
<1>3. \A j \in Ids \ {i} : vm[j].dbs \subseteq vm'[j].dbs
  BY DEF RunProvision, TemplateMissing, MarkProvisioning, CreateVM, ConfigureVM,
     InjectProperties, StartVM, WaitForVMRunning, WaitForSSH, SetupDatabase, RunSQLFile,
     MarkRegistering, RegisterDNS, MarkRunning, FailColumn, Fail, TypeOK, Machine, Answering
<1>4. pc'[i] \in AfterSetup => i \in vm'[i].dbs
  <2>1. CASE SetupDatabase(i)
    <3>1. CASE \E j \in Answering(inst[i].ip) : vm' = [vm EXCEPT ![j].dbs = @ \cup {i}]
      <4>1. PICK j \in Answering(inst[i].ip) : vm' = [vm EXCEPT ![j].dbs = @ \cup {i}]
        BY <3>1
      <4>2. j \in Ids /\ i \in vm'[j].dbs
        BY <4>1 DEF Answering, TypeOK, Machine
      <4> QED
        BY <4>2 DEF DatabaseAtHome
    <3>2. CASE Fail(i)
      BY <3>2 DEF Fail, Goto, TypeOK, AfterSetup
    <3> QED
      BY <2>1, <3>1, <3>2 DEF SetupDatabase
  <2>2. CASE RunSQLFile(i) \/ MarkRegistering(i) \/ RegisterDNS(i)
    BY <2>2 DEF RunSQLFile, MarkRegistering, RegisterDNS, WInv, SetUp, AfterSetup
  <2>3. CASE ~SetupDatabase(i) /\ ~RunSQLFile(i) /\ ~MarkRegistering(i) /\ ~RegisterDNS(i)
    BY <2>3 DEF RunProvision, TemplateMissing, MarkProvisioning, CreateVM, ConfigureVM,
       InjectProperties, StartVM, WaitForVMRunning, WaitForSSH, MarkRunning, FailColumn, Fail,
       Goto, TypeOK, AfterSetup
  <2> QED
    BY <2>1, <2>2, <2>3
<1> QED
  BY <1>1, <1>2, <1>3, <1>4 DEF WInv, SetUp, Elsewhere

LEMMA DeletionSetsUp ==
    ASSUME TInv, WInv, NEW w \in Workers, WorkerStep(w)
    PROVE  WInv'
<1> USE DEF TInv
<1>1. pc' = pc /\ worker[w].pc # "idle" /\ worker[w].id \in Ids
  BY DEF WorkerStep, DeleteLook, DeleteHalt, DeleteUnregister, DeleteRecord, EraseInstance,
     WorkersHaveIds
<1>2. \/ worker' = [worker EXCEPT ![w] = IdleWorker]
      \/ \E step : worker' = [worker EXCEPT ![w].pc = step]
  BY DEF WorkerStep, DeleteLook, DeleteHalt, DeleteUnregister, DeleteRecord, EraseInstance, Continue
<1>3. DeletionsWait'
  BY <1>1, <1>2 DEF WInv, DeletionsWait, TypeOK, IdleWorker, Worker
<1>4. \A i \in Ids \ {worker[w].id} : vm'[i] = vm[i]
  BY <1>1 DEF WorkerStep, DeleteLook, DeleteHalt, DeleteUnregister, DeleteRecord, EraseInstance,
     TypeOK
<1>5. pc[worker[w].id] = "done"
  BY <1>1 DEF WInv, DeletionsWait
<1> QED
  BY <1>1, <1>3, <1>4, <1>5 DEF WInv, SetUp, AfterSetup

LEMMA NextSetsUp ==
    ASSUME ~OverlappingOps, TInv, WInv, DatabaseAtHome', [Next]_vars
    PROVE  WInv'
<1> USE DEF TInv
<1>1. ASSUME NEW i \in Ids, ReadWebIPs(i) \/ AllocateIP(i) \/ PutInstance(i) PROVE WInv'
  BY <1>1 DEF ReadWebIPs, AllocateIP, PutInstance, Goto, WInv, DeletionsWait, SetUp, AfterSetup,
     WorkersHaveIds, TypeOK
<1>2. ASSUME NEW i \in Ids, SyncLook(i) \/ SyncStep(i) \/ MachineEvent(i) \/ ImportMachine(i)
      PROVE  WInv'
  <2>1. UNCHANGED <<pc, worker>>
    BY <1>2 DEF SyncLook, SyncStep, SyncCompare, SyncColumn, SyncState, MachineEvent, ImportMachine
  <2>2. \A j \in Ids : vm'[j].dbs = vm[j].dbs
    <3>1. CASE MachineEvent(i)
      <4>1. PICK p : vm' = [vm EXCEPT ![i].power = p]
        BY <3>1 DEF MachineEvent
      <4>2. vm \in [Ids -> Machine] /\ vm[i] \in Machine
        BY DEF TypeOK
      <4>3. vm'[i].dbs = vm[i].dbs
        BY <4>1, <4>2 DEF Machine
      <4>4. \A j \in Ids \ {i} : vm'[j] = vm[j]
        BY <4>1, <4>2
      <4> QED
        BY <4>3, <4>4
    <3> QED
      BY <1>2, <3>1 DEF SyncLook, SyncStep, SyncCompare, SyncColumn, SyncState, ImportMachine
  <2> QED
    BY <2>1, <2>2 DEF WInv, DeletionsWait, SetUp
<1>3. CASE WebAllocate \/ WebPut \/ WebRegister \/ WebDelete \/ UNCHANGED vars
  BY <1>3 DEF WebAllocate, WebPut, WebRegister, WebDelete, vars, WInv, DeletionsWait, SetUp
<1>4. ASSUME NEW w \in Workers, NEW i \in Ids, RequestDelete(w, i) PROVE WInv'
  BY <1>4 DEF RequestDelete, WInv, DeletionsWait, SetUp, TypeOK, Worker
<1>5. CASE Crash
  BY <1>5 DEF Crash, WInv, DeletionsWait, SetUp, AfterSetup, IdleWorker
<1> QED
  BY <1>1, <1>2, <1>3, <1>4, <1>5, ProvisionSetsUp, DeletionSetsUp DEF Next

LEMMA MarkShown ==
    ASSUME TypeOK, NEW i \in Ids, NEW s, s # "running", Mark(i, s)
    PROVE  inst'[i].state # "running"
<1>1. inst[i] \in DBInstance /\ inst'[i] = [inst[i] EXCEPT !.state = s]
  BY DEF Mark, TypeOK
<1> QED
  BY <1>1 DEF DBInstance

LEMMA FailShown ==
    ASSUME TypeOK, NEW i \in Ids, Fail(i) \/ FailColumn(i) \/ RegisterDNS(i) \/ SyncColumn(i)
    PROVE  inst'[i].state \in {"failed", inst[i].state}
<1>1. inst[i] \in DBInstance
      /\ \/ inst'[i] = [inst[i] EXCEPT !.state = "failed"]
         \/ \E v : inst'[i] = [inst[i] EXCEPT !.vbox = v]
  BY DEF Fail, FailColumn, RegisterDNS, SyncColumn, TypeOK
<1> QED
  BY <1>1 DEF DBInstance

\* Nothing but the synchronisation, or a restart that finds what it wrote, shows
\* a database as running that was not set up on its machine: runProvision does so
\* only at its end, whatever failed on the way.
THEOREM OnlySyncRevives ==
    ASSUME Careful, ~OverlappingProvisions
    PROVE  Spec => [][\A i \in Ids :
                        inst[i].state # "running" /\ inst'[i].state = "running"
                            => i \in vm'[i].dbs \/ SyncState(i) \/ Crash]_vars
<1>1. Init => WInv
  BY DEF Init, WInv, DeletionsWait, SetUp, AfterSetup, IdleWorker
<1>2. TInv /\ WInv /\ DatabaseAtHome' /\ [Next]_vars => WInv'
  BY NextSetsUp DEF Careful
<1>3. TInv /\ WInv /\ [Next]_vars
        => [\A i \in Ids : inst[i].state # "running" /\ inst'[i].state = "running"
                             => i \in vm'[i].dbs \/ SyncState(i) \/ Crash]_vars
  <2> SUFFICES ASSUME TInv, WInv, Next, ~Crash, NEW i \in Ids, ~SyncState(i),
                      inst[i].state # "running", inst'[i].state = "running"
               PROVE  i \in vm'[i].dbs
    OBVIOUS
  <2> USE DEF TInv
  <2>1. ASSUME NEW j \in Ids, RunProvision(j) PROVE i \in vm'[i].dbs
    <3>1. i = j
      BY <2>1, RunProvisionSteady DEF Elsewhere
    <3>2. /\ ~Fail(i) /\ ~FailColumn(i) /\ ~RegisterDNS(i)
          /\ \A s : s # "running" => ~Mark(i, s)
      BY MarkShown, FailShown
    <3>3. MarkRunning(i)
      BY <2>1, <3>1, <3>2 DEF RunProvision, TemplateMissing, MarkProvisioning, CreateVM,
         ConfigureVM, InjectProperties, StartVM, WaitForVMRunning, WaitForSSH, SetupDatabase,
         RunSQLFile, MarkRegistering, records
    <3> QED
      BY <3>3 DEF MarkRunning, WInv, SetUp, AfterSetup
  <2>2. ASSUME NEW j \in Ids, Opening(j) PROVE FALSE
    <3>1. i = j
      BY <2>2, OpeningEffect DEF Elsewhere
    <3> QED
      BY <2>2, <3>1, OpeningEffect
  <2>3. ASSUME NEW j \in Ids, SyncStep(j) PROVE FALSE
    <3>1. CASE j = i
      BY <2>3, <3>1, FailShown DEF SyncStep, SyncCompare, records
    <3>2. CASE j # i
      BY <2>3, <3>2 DEF SyncStep, SyncCompare, SyncColumn, SyncState, Mark, records, TypeOK
    <3> QED
      BY <3>1, <3>2
  <2>4. ASSUME NEW j \in Ids, PutInstance(j) \/ SyncLook(j) \/ MachineEvent(j) \/ ImportMachine(j)
        PROVE  FALSE
    BY <2>4 DEF PutInstance, SyncLook, MachineEvent, ImportMachine, records
  <2>5. ASSUME NEW w \in Workers, NEW j \in Ids, RequestDelete(w, j) PROVE FALSE
    <3>1. CASE i = j
      BY <2>5, <3>1, MarkShown DEF RequestDelete
    <3>2. CASE i # j
      BY <2>5, <3>2 DEF RequestDelete, Mark, TypeOK
    <3> QED
      BY <3>1, <3>2
  <2>6. ASSUME NEW w \in Workers, WorkerStep(w) PROVE FALSE
    BY <2>6 DEF WorkerStep, DeleteLook, DeleteHalt, DeleteUnregister, DeleteRecord, EraseInstance,
       records
  <2> QED
    BY <2>1, <2>2, <2>3, <2>4, <2>5, <2>6
       DEF Next, Opening, WebAllocate, WebPut, WebRegister, WebDelete, records
<1> QED
  BY <1>1, <1>2, <1>3, TypeInvariance, DatabasesAtHome, PTL DEF Spec

=============================================================================
