--------------------------- MODULE WebLinks_proofs ---------------------------
(* Running instances of WebInstances are served, and their links lead to    *)
(* their content, as long as the process does not end and users wait for    *)
(* the work on an instance to end before they ask for more.                 *)
EXTENDS WebServers_proofs

\* From Deploy on an instance is being made to run.
Served == {"deployed", "copying", "registering", "registered"}

\* It runs, and nobody works on it.
AtRest(i) == i \in store /\ pc[i] = "done" /\ ~Busy(i)

\* The site of i is up, and no other has its port.
ServedAlone(i) ==
    /\ Serves(i)
    /\ \A h \in Hostnames \ {Host(i)} : sites[h].port # inst[i].port

\* A site that has been stopped cannot be started again: its content is gone.
Gone(i) == inst[i].port = NoPort \/ dir[Host(i)] = None

VInv ==
    /\ \A i \in Ids : pc[i] \notin Served \cup {"done"} => inst[i].port = NoPort
    /\ \A i \in Ids : pc[i] \in Served => ServedAlone(i)
    /\ \A i \in store : AtRest(i) /\ inst[i].state = "running" => ServedAlone(i)
    /\ \A i \in store : AtRest(i) /\ sites[Host(i)] = NoSite => Gone(i)
    /\ \A w \in Workers : worker[w].pc \in {"settle", "halted", "start", "restore", "broken", "down"} =>
                              Gone(worker[w].id)
    /\ \A w \in Workers : worker[w].pc \notin {"online", "up"}
    /\ toRestore = {}

\* The link of a site that runs, or is about to, and what it leads through.
Linked(i) ==
    \/ inst[i].url = "local"
    \/ inst[i].url = "fqdn" /\ dnsA[Host(i)] = TemplateIP /\ www[Host(i)] = i
    \/ inst[i].url = "fqdn" /\ dnsA[Host(i)] = Gateway /\ vhostBound

LInv ==
    /\ \A i \in Ids : pc[i] \in {"allocated"} \cup (GoroutinePhases \ {"registering", "registered"}) =>
                          inst[i].ip \in Pool
    /\ \A i \in Ids : pc[i] \in {"deployed", "copying"} => inst[i].url = "local"
    /\ \A i \in Ids : pc[i] = "registering" =>
         \/ inst[i].url = "local"
         \/ inst[i].url = "fqdn" /\ inst[i].ip = TemplateIP /\ www[Host(i)] = i
         \/ inst[i].url = "fqdn" /\ inst[i].ip \in Pool /\ vhostBound
    /\ \A i \in Ids : pc[i] = "registered" => Linked(i)
    /\ \A i \in store : AtRest(i) /\ inst[i].state = "running" => Linked(i)

-----------------------------------------------------------------------------
(* What runs is served.                                                     *)

\* What changes under one name does not concern the instance of another.
LEMMA ElsewhereServed ==
    ASSUME IInv, UInv, NEW i \in store, NEW j \in store, i # j, ServedAlone(j),
           inst'[j].hostname = inst[j].hostname, inst'[j].port = inst[j].port,
           \A h \in Hostnames \ {Host(i)} : sites'[h] = sites[h] /\ dir'[h] = dir[h],
           sites'[Host(i)].port # inst[j].port
    PROVE  ServedAlone(j)'
<1>1. Host(j) \in Hostnames /\ Host(j) # Host(i)
  BY OwnName DEF IInv, NamesKnown, Host
<1>2. sites'[Host(j)] = sites[Host(j)] /\ dir'[Host(j)] = dir[Host(j)]
  BY <1>1
<1>3. \A h \in Hostnames \ {Host(j)} : sites'[h].port # inst[j].port
  BY DEF ServedAlone
<1> QED
  BY <1>2, <1>3 DEF ServedAlone, Serves, Host

\* A provision that has not come to Deploy.
LEMMA EarlyServed ==
    ASSUME IInv, Attended, VInv, NEW i \in Ids, UNCHANGED <<sites, dir, worker, toRestore>>,
           pc[i] \notin Served \cup {"done"}, pc'[i] \notin Served,
           inst'[i].port = NoPort, pc'[i] = "done" => inst'[i].state # "running",
           store' \subseteq store \cup {i},
           \A j \in Ids \ {i} : inst'[j] = inst[j] /\ pc'[j] = pc[j]
    PROVE  VInv'
<1>0. store \subseteq Ids
  BY DEF IInv, TypeOK
<1>1. \A j \in Ids \ {i} : /\ ServedAlone(j) => ServedAlone(j)'
                           /\ Gone(j) => Gone(j)'
                           /\ AtRest(j)' => AtRest(j)
                           /\ Host(j)' = Host(j)
  BY DEF ServedAlone, Serves, Gone, Host, AtRest, Busy
<1>2. Gone(i)'
  BY DEF Gone
<1>3. \A w \in Workers : worker[w].pc # "idle" => worker[w].id \in Ids \ {i}
  BY <1>0 DEF Attended
<1>4. \A j \in Ids : pc'[j] \notin Served \cup {"done"} => inst'[j].port = NoPort
  BY DEF VInv
<1>5. \A j \in Ids : pc'[j] \in Served => ServedAlone(j)'
  BY <1>1 DEF VInv
<1>6. \A j \in store' : AtRest(j)' /\ inst'[j].state = "running" => ServedAlone(j)'
  BY <1>0, <1>1 DEF VInv, AtRest
<1>7. \A j \in store' : AtRest(j)' /\ sites'[Host(j)'] = NoSite => Gone(j)'
  BY <1>0, <1>1, <1>2 DEF VInv, AtRest
<1>8. \A w \in Workers : worker'[w].pc \in {"settle", "halted", "start", "restore", "broken", "down"} => Gone(worker[w].id)'
  BY <1>1, <1>3 DEF VInv
<1> QED
  BY <1>4, <1>5, <1>6, <1>7, <1>8 DEF VInv, Host

\* A provision that is past it.
LEMMA LaterServed ==
    ASSUME IInv, Attended, VInv, NEW i \in Ids, UNCHANGED <<sites, dir, store, worker, toRestore>>,
           pc[i] \in Served, pc'[i] \in Served \cup {"done"},
           inst'[i].port = inst[i].port, inst'[i].hostname = inst[i].hostname,
           \A j \in Ids \ {i} : inst'[j] = inst[j] /\ pc'[j] = pc[j]
    PROVE  VInv'
<1>0. store \subseteq Ids
  BY DEF IInv, TypeOK
<1>1. \A j \in Ids : /\ ServedAlone(j) => ServedAlone(j)'
                     /\ Gone(j) => Gone(j)'
                     /\ Host(j)' = Host(j)
  BY DEF ServedAlone, Serves, Gone, Host
<1>2. \A j \in Ids \ {i} : AtRest(j)' => AtRest(j)
  BY DEF AtRest, Busy
<1>3. ServedAlone(i) /\ sites[Host(i)] # NoSite
  BY DEF VInv, ServedAlone, Serves, NoSite
<1>4. \A w \in Workers : worker[w].pc # "idle" => worker[w].id \in Ids
  BY <1>0 DEF Attended
<1>5. \A j \in Ids : pc'[j] \notin Served \cup {"done"} => inst'[j].port = NoPort
  BY DEF VInv
<1>6. \A j \in Ids : pc'[j] \in Served => ServedAlone(j)'
  BY <1>1, <1>3 DEF VInv
<1>7. \A j \in store : AtRest(j)' /\ inst'[j].state = "running" => ServedAlone(j)'
  BY <1>0, <1>1, <1>2, <1>3 DEF VInv
<1>8. \A j \in store : AtRest(j)' /\ sites[Host(j)] = NoSite => Gone(j)'
  BY <1>0, <1>1, <1>2, <1>3 DEF VInv
<1>9. \A w \in Workers : worker[w].pc \in {"settle", "halted", "start", "restore", "broken", "down"} => Gone(worker[w].id)'
  BY <1>1, <1>4 DEF VInv
<1> QED
  BY <1>0, <1>1, <1>5, <1>6, <1>7, <1>8, <1>9 DEF VInv, Host

\* A goroutine w takes up the operation on i, goes on with it or ends it.
OneWorks(w, i) ==
    /\ UNCHANGED <<pc, toRestore>>
    /\ store' \in {store, store \ {i}}
    /\ \A x \in Workers \ {w} : worker'[x] = worker[x]
    /\ worker[w].id \in {i, None}
    /\ \A j \in Ids \ {i} : inst'[j] = inst[j]
    /\ inst'[i].hostname = inst[i].hostname
    /\ inst'[i].port = inst[i].port
    /\ inst'[i].url = inst[i].url
    /\ \/ worker' = worker /\ inst' = inst
       \/ /\ worker'[w].id = i
          /\ worker'[w].pc \notin {"online", "up"}
          /\ worker'[w].pc \in {"settle", "halted", "start", "restore", "broken", "down"} => Gone(i)'
       \/ /\ worker'[w].pc = "idle"
          /\ i \in store' => inst'[i].state # "running" /\ Gone(i)'

\* It does not show anything as running that it works on.
LEMMA AtRestBefore ==
    ASSUME IInv, Attended, NEW w \in Workers, NEW i \in store, OneWorks(w, i)
    PROVE  /\ \A j \in Ids \ {i} : AtRest(j)' => AtRest(j)
           /\ AtRest(i)' => \/ AtRest(i) /\ inst'[i] = inst[i]
                            \/ inst'[i].state # "running" /\ Gone(i)'
<1>1. store \subseteq Ids /\ None \notin Ids
  BY NoneAssumption DEF IInv, TypeOK
<1>2. \A j \in Ids \ {i} : AtRest(j)' => AtRest(j)
  BY <1>1 DEF OneWorks, AtRest, Busy
<1>3. AtRest(i)' => \/ AtRest(i) /\ inst'[i] = inst[i]
                    \/ inst'[i].state # "running" /\ Gone(i)'
  BY DEF OneWorks, AtRest, Busy
<1> QED
  BY <1>2, <1>3

\* If it leaves the table and the directories alone, all stays served.
LEMMA WorkerServed ==
    ASSUME IInv, Attended, VInv, NEW w \in Workers, NEW i \in store,
           UNCHANGED <<sites, dir>>, OneWorks(w, i)
    PROVE  VInv'
<1>0. store \subseteq Ids /\ None \notin Ids
  BY NoneAssumption DEF IInv, TypeOK
<1>1. \A j \in Ids : /\ ServedAlone(j) => ServedAlone(j)'
                     /\ Gone(j) => Gone(j)'
                     /\ Host(j)' = Host(j)
  BY DEF OneWorks, ServedAlone, Serves, Gone, Host
<1>2. \A j \in Ids \ {i} : AtRest(j)' => AtRest(j)
  BY AtRestBefore
<1>3. AtRest(i)' => \/ AtRest(i) /\ inst'[i] = inst[i]
                    \/ inst'[i].state # "running" /\ Gone(i)'
  BY AtRestBefore
<1>4. \A x \in Workers : worker[x].pc # "idle" => worker[x].id \in Ids
  BY <1>0 DEF Attended
<1>5. \A j \in Ids : pc[j] \notin Served \cup {"done"} => inst'[j].port = NoPort
  BY DEF OneWorks, VInv
<1>6. \A j \in Ids : pc[j] \in Served => ServedAlone(j)'
  BY <1>1 DEF OneWorks, VInv
<1>7. \A j \in store' : AtRest(j)' /\ inst'[j].state = "running" => ServedAlone(j)'
  BY <1>0, <1>1, <1>2, <1>3 DEF OneWorks, VInv, AtRest
<1>8. \A j \in store' : AtRest(j)' /\ sites[Host(j)] = NoSite => Gone(j)'
  BY <1>0, <1>1, <1>2, <1>3 DEF OneWorks, VInv, AtRest
<1>9. \A x \in Workers : worker'[x].pc \in {"settle", "halted", "start", "restore", "broken", "down"} => Gone(worker[x].id)'
  BY <1>0, <1>1, <1>4 DEF OneWorks, VInv
<1>10. \A x \in Workers : worker'[x].pc \notin {"online", "up"}
  BY DEF OneWorks, VInv
<1>11. \A j \in store' : Host(j)' = Host(j)
  BY <1>0, <1>1 DEF OneWorks
<1> QED
  BY <1>5, <1>6, <1>7, <1>8, <1>9, <1>10, <1>11 DEF OneWorks, VInv, Host

\* Deploy takes a port no site has, and puts the content of i where it listens.
LEMMA DeployServed ==
    ASSUME IInv, UInv, Attended, VInv, NEW i \in Ids, Deploy(i)
    PROVE  VInv'
<1> DEFINE closed == [sites EXCEPT ![Host(i)] = NoSite]
<1>0. TypeOK /\ store \subseteq Ids /\ i \in store /\ pc[i] = "deploying" /\ Host(i) \in Hostnames
  BY DEF IInv, TypeOK, NamesKnown, Deploy, Attended, GoroutinePhases
<1>1. PICK p \in FreePorts(closed) :
        /\ sites' = [sites EXCEPT ![Host(i)] = [port |-> p, live |-> p \notin Listening(closed)]]
        /\ inst' = [inst EXCEPT ![i] = [@ EXCEPT !.port = p, !.url = "local"]]
  BY DEF Deploy
<1>2. /\ dir' = [dir EXCEPT ![Host(i)] = i]
      /\ UNCHANGED <<store, worker, toRestore>>
      /\ pc'[i] = "deployed" /\ \A j \in Ids \ {i} : pc'[j] = pc[j]
  BY <1>0 DEF Deploy, Goto, TypeOK
<1>3. /\ p \in Ports /\ p # NoPort /\ p \notin Listening(closed)
      /\ \A h \in Hostnames \ {Host(i)} : sites[h].port # p
  BY <1>0, PortsAssumption DEF FreePorts, TypeOK
<1>4. /\ inst'[i].port = p /\ inst'[i].hostname = Host(i)
      /\ \A j \in Ids \ {i} : inst'[j] = inst[j]
  BY <1>0, <1>1 DEF TypeOK, Instance, Host
<1>5. /\ sites'[Host(i)] = [port |-> p, live |-> TRUE] /\ dir'[Host(i)] = i
      /\ \A h \in Hostnames \ {Host(i)} : sites'[h] = sites[h] /\ dir'[h] = dir[h]
  <2>1. sites'[Host(i)] = [port |-> p, live |-> p \notin Listening(closed)]
    BY <1>0, <1>1 DEF TypeOK
  <2>2. (p \notin Listening(closed)) = TRUE
    BY <1>3
  <2>3. sites'[Host(i)] = [port |-> p, live |-> TRUE]
    BY <2>1, <2>2
  <2>4. \A h \in Hostnames \ {Host(i)} : sites'[h] = sites[h]
    BY <1>0, <1>1 DEF TypeOK
  <2> QED
    BY <1>0, <1>2, <2>3, <2>4 DEF TypeOK
<1> HIDE DEF closed
<1>6. ServedAlone(i)'
  BY <1>3, <1>4, <1>5 DEF ServedAlone, Serves, Host
<1>7. \A j \in store \ {i} : ServedAlone(j) => ServedAlone(j)'
  <2> SUFFICES ASSUME NEW j \in store \ {i}, ServedAlone(j) PROVE ServedAlone(j)'
    OBVIOUS
  <2>1. Host(j) \in Hostnames \ {Host(i)}
    BY <1>0, OwnName DEF IInv, NamesKnown, Host
  <2>2. inst[j].port # p
    BY <1>3, <2>1 DEF ServedAlone, Serves
  <2> QED
    BY <1>0, <1>4, <1>5, <2>2, ElsewhereServed
<1>8. \A j \in store \ {i} : /\ sites'[Host(j)] = sites[Host(j)]
                             /\ Gone(j) => Gone(j)'
                             /\ Host(j)' = Host(j)
                             /\ AtRest(j)' => AtRest(j)
  <2> SUFFICES ASSUME NEW j \in store \ {i}
               PROVE  /\ sites'[Host(j)] = sites[Host(j)]
                      /\ Gone(j) => Gone(j)'
                      /\ Host(j)' = Host(j)
                      /\ AtRest(j)' => AtRest(j)
    OBVIOUS
  <2>1. Host(j) \in Hostnames \ {Host(i)}
    BY <1>0, OwnName DEF IInv, NamesKnown, Host
  <2>2. inst'[j] = inst[j] /\ pc'[j] = pc[j]
    BY <1>0, <1>2, <1>4
  <2> QED
    BY <1>2, <1>5, <2>1, <2>2 DEF Gone, Host, AtRest, Busy
<1>9. \A w \in Workers : worker[w].pc # "idle" => worker[w].id \in store \ {i}
  BY <1>0 DEF Attended
<1>10. \A j \in Ids : pc'[j] \notin Served \cup {"done"} => inst'[j].port = NoPort
  BY <1>2, <1>4 DEF VInv, Served
<1>11. \A j \in Ids : pc'[j] \in Served => ServedAlone(j)'
  BY <1>2, <1>6, <1>7 DEF VInv, Served, Attended, GoroutinePhases
<1>12. \A j \in store : AtRest(j)' /\ inst'[j].state = "running" => ServedAlone(j)'
  BY <1>0, <1>4, <1>6, <1>7, <1>8 DEF VInv
<1>13. \A j \in store : AtRest(j)' /\ sites'[Host(j)] = NoSite => Gone(j)'
  BY <1>2, <1>8 DEF VInv, AtRest
<1>14. \A w \in Workers : worker[w].pc \in {"settle", "halted", "start", "restore", "broken", "down"} => Gone(worker[w].id)'
  BY <1>2, <1>8, <1>9 DEF VInv
<1>15. \A j \in store : Host(j)' = Host(j)
  BY <1>4, <1>8 DEF Host
<1> QED
  BY <1>2, <1>10, <1>11, <1>12, <1>13, <1>14, <1>15 DEF VInv, Host

\* A table or directory loses what it had under the name of i.
LEMMA RemovedServed ==
    ASSUME IInv, UInv, Attended, VInv, NEW i \in store,
           UNCHANGED <<store, toRestore>>,
           \A j \in Ids \ {i} : inst'[j] = inst[j] /\ pc'[j] = pc[j],
           inst'[i].hostname = inst[i].hostname,
           \A h \in Hostnames \ {Host(i)} : sites'[h] = sites[h] /\ dir'[h] = dir[h],
           sites'[Host(i)] \in {sites[Host(i)], NoSite},
           \A w \in Workers : worker'[w] = worker[w] \/ (worker[w].id = i /\ worker'[w].id = i),
           pc'[i] \notin Served, pc'[i] # "done" => inst'[i].port = NoPort,
           AtRest(i)' => inst'[i].state # "running" /\ Gone(i)',
           \A w \in Workers : worker'[w].id = i =>
               /\ worker'[w].pc \in {"settle", "halted", "start", "restore", "broken", "down"} => Gone(i)'
               /\ worker'[w].pc \notin {"online", "up"}
    PROVE  VInv'
<1>0. TypeOK /\ store \subseteq Ids /\ Host(i) \in Hostnames
  BY DEF IInv, TypeOK, NamesKnown
<1>1. \A j \in store \ {i} : ServedAlone(j) => ServedAlone(j)'
  <2> SUFFICES ASSUME NEW j \in store \ {i}, ServedAlone(j) PROVE ServedAlone(j)'
    OBVIOUS
  <2>1. Host(j) \in Hostnames \ {Host(i)} /\ inst[j].port # NoPort
    BY <1>0, OwnName DEF IInv, NamesKnown, PortsKnown, Host, ServedAlone, Serves
  <2>2. sites'[Host(i)].port # inst[j].port
    BY <1>0, <2>1 DEF ServedAlone, NoSite
  <2> QED
    BY <1>0, <2>2, ElsewhereServed
<1>2. \A j \in store \ {i} : /\ sites'[Host(j)] = sites[Host(j)]
                             /\ Gone(j) => Gone(j)'
                             /\ Host(j)' = Host(j)
                             /\ AtRest(j)' => AtRest(j)
  <2> SUFFICES ASSUME NEW j \in store \ {i}
               PROVE  /\ sites'[Host(j)] = sites[Host(j)]
                      /\ Gone(j) => Gone(j)'
                      /\ Host(j)' = Host(j)
                      /\ AtRest(j)' => AtRest(j)
    OBVIOUS
  <2>1. Host(j) \in Hostnames \ {Host(i)}
    BY <1>0, OwnName DEF IInv, NamesKnown, Host
  <2>2. inst'[j] = inst[j] /\ pc'[j] = pc[j]
    BY <1>0
  <2> QED
    BY <2>1, <2>2 DEF Gone, Host, AtRest, Busy
<1>3. \A j \in Ids : pc'[j] \notin Served \cup {"done"} => inst'[j].port = NoPort
  BY DEF VInv
<1>4. \A j \in Ids : pc'[j] \in Served => ServedAlone(j)'
  BY <1>1 DEF VInv, Served, Attended, GoroutinePhases
<1>5. \A j \in store : AtRest(j)' /\ inst'[j].state = "running" => ServedAlone(j)'
  BY <1>0, <1>1, <1>2 DEF VInv
<1>6. \A j \in store : AtRest(j)' /\ sites'[Host(j)] = NoSite => Gone(j)'
  BY <1>2 DEF VInv
<1>7. \A w \in Workers : worker'[w].pc \in {"settle", "halted", "start", "restore", "broken", "down"} => Gone(worker[w].id)'
  <2> SUFFICES ASSUME NEW w \in Workers,
                      worker'[w].pc \in {"settle", "halted", "start", "restore", "broken", "down"}
               PROVE  Gone(worker[w].id)'
    OBVIOUS
  <2>1. CASE worker'[w].id = i
    BY <2>1 DEF Gone, Host
  <2>2. CASE worker'[w].id # i
    <3>1. worker'[w] = worker[w] /\ worker[w].id \in store \ {i} /\ Gone(worker[w].id)
      BY <2>2 DEF Attended, VInv
    <3> QED
      BY <1>2, <3>1 DEF Gone, Host
  <2> QED
    BY <2>1, <2>2
<1>8. \A w \in Workers : worker'[w].pc \notin {"online", "up"}
  BY DEF VInv
<1>9. \A j \in store : Host(j)' = Host(j)
  BY <1>2 DEF Host
<1> QED
  BY <1>3, <1>4, <1>5, <1>6, <1>7, <1>8, <1>9 DEF VInv, Host

\* Goroutines of operations, one kind after the other.
LEMMA RequestWorks ==
    ASSUME ~OverlappingOps, IInv, Attended, SInv, VInv, NEW w \in Workers, NEW i \in Ids,
           RequestStart(w, i) \/ RequestStop(w, i) \/ RequestRestart(w, i) \/ RequestDelete(w, i)
    PROVE  i \in store /\ OneWorks(w, i) /\ UNCHANGED <<sites, dir>>
<1>0. TypeOK
  BY DEF IInv
<1>1. /\ UNCHANGED <<sites, dir, pc, toRestore, store>>
      /\ i \in store /\ AtRest(i) /\ worker[w] = IdleWorker
  BY <1>0, StartWorker DEF RequestStart, RequestStop, RequestRestart, RequestDelete, MayRequest, Mark,
              served, AtRest
<1>2. sites[Host(i)] = NoSite => Gone(i)
  BY <1>1 DEF VInv
<1>3. /\ \A j \in Ids \ {i} : inst'[j] = inst[j]
      /\ inst'[i].hostname = inst[i].hostname /\ inst'[i].port = inst[i].port
      /\ inst'[i].url = inst[i].url
  <2>1. CASE inst' = inst
    BY <2>1
  <2>2. CASE \E s \in State : inst' = [inst EXCEPT ![i].state = s]
    BY <1>0, <2>2 DEF TypeOK, Instance
  <2> QED
    BY <1>0, <1>1, <2>1, <2>2 DEF RequestStart, RequestStop, RequestRestart, RequestDelete,
                                  StartInstance, Mark, State
<1>4. \A x \in Workers \ {w} : worker'[x] = worker[x]
  BY <1>0, StartWorker, WorkingWorker
     DEF RequestStart, RequestStop, RequestRestart, RequestDelete
<1>5. \/ worker' = worker /\ inst' = inst
      \/ /\ worker'[w].id = i
         /\ worker'[w].pc \notin {"online", "up"}
         /\ worker'[w].pc \in {"settle", "halted", "start", "restore", "broken", "down"} => Gone(i)
  <2>1. CASE RequestStart(w, i)
    <3>1. CASE Finish(w) /\ UNCHANGED inst
      BY <1>0, <1>1, <3>1 DEF Finish, TypeOK
    <3>2. CASE Working(w, "start", i, "restore") /\ ~HasSite(Host(i))
      BY <1>0, <1>2, <3>2, WorkingWorker DEF HasSite
    <3> QED
      BY <2>1, <3>1, <3>2 DEF RequestStart, StartInstance
  <2>2. CASE RequestStop(w, i)
    BY <1>0, <1>2, <2>2, WorkingWorker DEF RequestStop, HasSite
  <2>3. CASE RequestRestart(w, i)
    BY <1>0, <1>2, <2>3, WorkingWorker DEF RequestRestart, HasSite
  <2>4. CASE RequestDelete(w, i)
    BY <1>0, <2>4, WorkingWorker DEF RequestDelete
  <2> QED
    BY <2>1, <2>2, <2>3, <2>4
<1>6. worker[w].id = None
  BY <1>1 DEF IdleWorker
<1>7. Gone(i) => Gone(i)'
  BY <1>1, <1>3 DEF Gone, Host
<1> QED
  BY <1>1, <1>3, <1>4, <1>5, <1>6, <1>7 DEF OneWorks

LEMMA QuietWorks ==
    ASSUME IInv, Attended, SInv, OInv, VInv, NEW w \in Workers, NEW i, i = worker[w].id,
           \/ StopShutdown(w) \/ SettleStopped(w) \/ RestartStart(w) \/ RestoreForStart(w)
           \/ SettleStarted(w) \/ SettleColumn(w) \/ DeleteRecord(w) \/ DeleteRemoteDir(w) \/ EraseInstance(w)
    PROVE  i \in store /\ OneWorks(w, i) /\ UNCHANGED <<sites, dir>>
<1>0. TypeOK /\ store \subseteq Ids
  BY DEF IInv, TypeOK
<1>1. worker[w].pc # "idle" /\ i \in store /\ toRestore = {}
  BY DEF StopShutdown, SettleStopped, RestartStart, RestoreForStart, SettleStarted, SettleColumn,
         DeleteRecord, DeleteRemoteDir, EraseInstance, Attended, VInv
<1>2. UNCHANGED <<pc, toRestore>> /\ store' \in {store, store \ {i}}
  BY <1>0, StartWorker
     DEF StopShutdown, SettleStopped, RestartStart, RestoreForStart, SettleStarted, SettleColumn,
         DeleteRecord, DeleteRemoteDir, EraseInstance
<1>3. UNCHANGED <<sites, dir>>
  <2>1. CASE RestoreForStart(w)
    BY <2>1 DEF RestoreForStart, VInv, Gone, IInv, PortsKnown
  <2> QED
    BY <2>1 DEF StopShutdown, SettleStopped, RestartStart, SettleStarted, SettleColumn,
                DeleteRecord, DeleteRemoteDir, EraseInstance, served
<1>4. \A x \in Workers \ {w} : worker'[x] = worker[x]
  BY <1>0, ContinueWorker, FinishWorker, StartWorker, ShutdownWorker
     DEF SettleStopped, RestartStart, RestoreForStart, SettleStarted, SettleColumn,
         DeleteRecord, DeleteRemoteDir, EraseInstance
<1>5. /\ \A j \in Ids \ {i} : inst'[j] = inst[j]
      /\ inst'[i].hostname = inst[i].hostname /\ inst'[i].port = inst[i].port
      /\ inst'[i].url = inst[i].url
  <2>1. CASE inst' = inst
    BY <2>1
  <2>2. CASE \E s \in State : inst' = [inst EXCEPT ![i].state = s]
    BY <1>0, <1>1, <2>2 DEF TypeOK, Instance
  <2>3. CASE \E v \in VBoxState : inst' = [inst EXCEPT ![i].vbox = v]
    BY <1>0, <1>1, <2>3 DEF TypeOK, Instance
  <2>4. CASE RestartStart(w)
    BY <2>1, <2>2, <2>4 DEF RestartStart, StartInstance, Mark, State
  <2>5. SettleColumn(w) => \E v \in VBoxState : inst' = [inst EXCEPT ![i].vbox = v]
    BY DEF SettleColumn, ColumnOf, VBoxState
  <2>6. SettleStopped(w) \/ SettleStarted(w) => \E s \in State : inst' = [inst EXCEPT ![i].state = s]
    BY DEF SettleStopped, SettleStarted, State
  <2> QED
    BY <2>1, <2>2, <2>3, <2>4, <2>5, <2>6
       DEF StopShutdown, RestoreForStart, DeleteRecord, DeleteRemoteDir, EraseInstance
<1>6. \/ /\ worker'[w].id = i
         /\ worker'[w].pc \notin {"online", "up"}
         /\ worker'[w].pc \in {"settle", "halted", "start", "restore", "broken", "down"} => Gone(i)
      \/ /\ worker'[w].pc = "idle"
         /\ i \in store' => inst'[i].state # "running" /\ Gone(i)
  <2>1. CASE StopShutdown(w)
    BY <1>0, <2>1, ShutdownWorker
  <2>2. CASE SettleStopped(w)
    BY <1>0, <2>2, ContinueWorker DEF SettleStopped, VInv
  <2>3. CASE RestartStart(w)
    <3>1. worker[w].pc = "start" /\ Gone(i) /\ ~HasSite(Host(i))
      BY <2>3 DEF RestartStart, VInv, SInv, Unmapped, HasSite
    <3>2. CASE inst[i].port = NoPort
      <4>1. Finish(w) /\ UNCHANGED inst
        BY <1>1, <2>3, <3>2 DEF RestartStart, StartInstance
      <4>2. inst[i].state # "running"
        BY <1>1, <3>2 DEF IInv, RunningIsDeployed
      <4> QED
        BY <1>0, <3>1, <4>1, <4>2, FinishWorker
    <3>3. CASE inst[i].port # NoPort
      <4>1. Working(w, "restart", i, "restore")
        BY <1>1, <2>3, <3>1, <3>3 DEF RestartStart, StartInstance
      <4> QED
        BY <1>0, <3>1, <4>1, WorkingWorker
    <3> QED
      BY <3>2, <3>3
  <2>4. CASE RestoreForStart(w)
    <3>1. worker[w].pc = "restore" /\ Gone(i) /\ inst[i].port # NoPort
      BY <2>4 DEF RestoreForStart, VInv, IInv, PortsKnown
    <3>2. Continue(w, "broken")
      BY <2>4, <3>1 DEF RestoreForStart, Gone
    <3> QED
      BY <1>0, <3>1, <3>2, ContinueWorker
  <2>5. CASE SettleStarted(w)
    <3>1. worker[w].pc = "broken" /\ Gone(i)
      BY <2>5 DEF SettleStarted, VInv
    <3> QED
      BY <1>0, <2>5, <3>1, ContinueWorker DEF SettleStarted
  <2>8. CASE SettleColumn(w)
    <3>1. worker[w].pc \in {"halted", "down"} /\ Gone(i)
      BY <2>8 DEF SettleColumn, VInv
    <3>2. inst[i].state \in {"stopped", "failed"}
      BY <3>1 DEF OInv, OrderedWorker
    <3>3. inst'[i].state = inst[i].state
      BY <1>0, <1>1, <2>8, ColumnShows DEF SettleColumn, Shows
    <3> QED
      BY <1>0, <2>8, <3>1, <3>2, <3>3, FinishWorker DEF SettleColumn
  <2>6. CASE DeleteRecord(w) \/ DeleteRemoteDir(w)
    BY <1>0, <2>6, ContinueWorker DEF DeleteRecord, DeleteRemoteDir
  <2>7. CASE EraseInstance(w)
    BY <1>0, <2>7, FinishWorker DEF EraseInstance
  <2> QED
    BY <2>1, <2>2, <2>3, <2>4, <2>5, <2>6, <2>7, <2>8
<1>7. Gone(i) => Gone(i)'
  BY <1>3, <1>5 DEF Gone, Host
<1> QED
  BY <1>1, <1>2, <1>3, <1>4, <1>5, <1>6, <1>7 DEF OneWorks

LEMMA StopWorks ==
    ASSUME IInv, Attended, NEW w \in Workers, NEW i, i = worker[w].id,
           StopUnmap(w) \/ StopRemoveDir(w)
    PROVE  /\ i \in store /\ OneWorks(w, i)
           /\ worker'[w].id = i /\ UNCHANGED <<inst, store>>
           /\ \A h \in Hostnames \ {Host(i)} : sites'[h] = sites[h] /\ dir'[h] = dir[h]
           /\ sites'[Host(i)] \in {sites[Host(i)], NoSite}
<1>0. TypeOK /\ store \subseteq Ids
  BY DEF IInv, TypeOK
<1>1. worker[w].pc # "idle" /\ i \in store /\ Host(i) \in Hostnames
  BY DEF StopUnmap, StopRemoveDir, Attended, IInv, NamesKnown
<1>2. UNCHANGED <<inst, store, pc, toRestore>>
  BY DEF StopUnmap, StopRemoveDir
<1>3. /\ \A h \in Hostnames \ {Host(i)} : sites'[h] = sites[h] /\ dir'[h] = dir[h]
      /\ sites'[Host(i)] \in {sites[Host(i)], NoSite}
  BY <1>0, <1>1 DEF StopUnmap, StopRemoveDir, TypeOK
<1>4. /\ \A x \in Workers \ {w} : worker'[x] = worker[x]
      /\ worker'[w].id = i /\ worker'[w].pc \notin {"online", "up"}
  BY <1>0, UnmapWorker, ContinueWorker DEF StopRemoveDir
<1>5. worker'[w].pc \in {"settle", "halted", "start", "restore", "broken", "down"} => Gone(i)'
  <2>1. CASE StopUnmap(w)
    BY <1>0, <2>1, UnmapWorker
  <2>2. CASE StopRemoveDir(w)
    <3>1. dir'[Host(i)] = None /\ inst' = inst
      BY <1>0, <1>1, <2>2 DEF StopRemoveDir, TypeOK
    <3> QED
      BY <3>1 DEF Gone, Host
  <2> QED
    BY <2>1, <2>2
<1> QED
  BY <1>1, <1>2, <1>3, <1>4, <1>5 DEF OneWorks

LEMMA StopServed ==
    ASSUME IInv, UInv, Attended, VInv, NEW w \in Workers, StopUnmap(w) \/ StopRemoveDir(w)
    PROVE  VInv'
<1>1. PICK i \in store : /\ OneWorks(w, i) /\ i = worker[w].id
                         /\ worker'[w].id = i /\ UNCHANGED <<inst, store>>
                         /\ \A h \in Hostnames \ {Host(i)} : sites'[h] = sites[h] /\ dir'[h] = dir[h]
                         /\ sites'[Host(i)] \in {sites[Host(i)], NoSite}
  BY StopWorks
<1>2. /\ worker[w].pc # "idle" /\ pc[i] = "done"
      /\ \A x \in Workers \ {w} : worker[x].pc # "idle" => worker[x].id # i
  BY <1>1 DEF StopUnmap, StopRemoveDir, Attended
<1>3. UNCHANGED <<pc, toRestore>> /\ \A x \in Workers \ {w} : worker'[x] = worker[x]
  BY <1>1 DEF OneWorks
<1>4. \A x \in Workers : worker'[x].id = i =>
        /\ worker'[x].pc \in {"settle", "halted", "start", "restore", "broken", "down"} => Gone(i)'
        /\ worker'[x].pc \notin {"online", "up"}
  <2>1. /\ worker'[w].pc \in {"settle", "halted", "start", "restore", "broken", "down"} => Gone(i)'
        /\ worker'[w].pc \notin {"online", "up"}
    BY <1>1 DEF OneWorks, StopUnmap, StopRemoveDir, VInv
  <2> QED
    BY <1>2, <1>3, <2>1
<1>5. ~AtRest(i)'
  BY <1>1 DEF AtRest, Busy
<1>6. /\ \A x \in Workers : worker'[x] = worker[x] \/ (worker[x].id = i /\ worker'[x].id = i)
      /\ pc'[i] \notin Served /\ (pc'[i] # "done" => inst'[i].port = NoPort)
  BY <1>1, <1>2, <1>3 DEF Served
<1> QED
  BY <1>1, <1>3, <1>4, <1>5, <1>6, RemovedServed

LEMMA ServedStep ==
    ASSUME ~Crashes, ~OverlappingOps, IInv, UInv, Attended, SInv, OInv, VInv, Next
    PROVE  VInv'
<1>0. TypeOK /\ store \subseteq Ids
  BY DEF IInv, TypeOK
<1>1. ASSUME NEW i \in Ids,
             \/ AllocateIP(i) \/ PutInstance(i) \/ \E h \in Hostnames : CheckHostname(i, h)
             \/ MarkProvisioning(i) \/ MarkDeploying(i)
      PROVE  VInv'
  <2>1. /\ pc[i] \notin Served \cup {"done"} /\ pc'[i] \notin Served
        /\ \A j \in Ids \ {i} : inst'[j] = inst[j] /\ pc'[j] = pc[j]
    BY <1>0, <1>1 DEF AllocateIP, PutInstance, CheckHostname, MarkProvisioning, MarkDeploying,
                      Mark, Goto, TypeOK, Served
  <2>2. UNCHANGED <<sites, dir, worker, toRestore>> /\ store' \subseteq store \cup {i}
    BY <1>1 DEF AllocateIP, PutInstance, CheckHostname, MarkProvisioning, MarkDeploying, Mark, served
  <2>3. inst[i].port = NoPort
    BY <2>1 DEF VInv
  <2>4. inst'[i].port = NoPort
    <3>1. CASE AllocateIP(i)
      <4>1. CASE inst' = [inst EXCEPT ![i] = NoInstance]
        BY <1>0, <4>1 DEF NoInstance, TypeOK
      <4>2. ASSUME NEW ip \in FreeIPs,
                   inst' = [inst EXCEPT ![i] = [@ EXCEPT !.ip = ip, !.state = "pending",
                                                         !.vbox = "starting", !.url = "fqdn"]]
            PROVE  inst'[i].port = NoPort
        BY <1>0, <2>3, <4>2 DEF TypeOK, Instance
      <4> QED
        BY <3>1, <4>1, <4>2 DEF AllocateIP
    <3>2. CASE PutInstance(i)
      BY <2>3, <3>2 DEF PutInstance
    <3>3. CASE \E h \in Hostnames : CheckHostname(i, h)
      BY <1>0, <2>3, <3>3 DEF CheckHostname, TypeOK, Instance
    <3>4. CASE MarkProvisioning(i) \/ MarkDeploying(i)
      BY <1>0, <2>3, <3>4 DEF MarkProvisioning, MarkDeploying, Mark, TypeOK, Instance
    <3> QED
      BY <1>1, <3>1, <3>2, <3>3, <3>4
  <2>5. pc'[i] = "done" => inst'[i].state # "running"
    <3> SUFFICES ASSUME pc'[i] = "done" PROVE inst'[i].state # "running"
      OBVIOUS
    <3>1. PutInstance(i)
      BY <1>0, <1>1 DEF AllocateIP, CheckHostname, MarkProvisioning, MarkDeploying, Goto, TypeOK
    <3> QED
      BY <3>1 DEF PutInstance, IInv, FreshIsPending
  <2> QED
    BY <2>1, <2>2, <2>4, <2>5, EarlyServed
<1>2. ASSUME NEW i \in Ids, \/ MarkCopying(i) \/ UseApache(i) \/ UseFallback(i)
             \/ RegisterDNS(i) \/ MarkRunning(i)
      PROVE  VInv'
  <2>1. /\ pc[i] \in Served /\ pc'[i] \in Served \cup {"done"}
        /\ \A j \in Ids \ {i} : inst'[j] = inst[j] /\ pc'[j] = pc[j]
    BY <1>0, <1>2 DEF MarkCopying, UseApache, UseFallback, RegisterDNS, MarkRunning, Mark, Goto,
                      TypeOK, Served
  <2>2. UNCHANGED <<sites, dir, store, worker, toRestore>>
    BY <1>2 DEF MarkCopying, UseApache, UseFallback, RegisterDNS, MarkRunning, Mark, served
  <2>3. inst'[i].port = inst[i].port /\ inst'[i].hostname = inst[i].hostname
    <3>1. CASE MarkCopying(i) \/ MarkRunning(i)
      BY <1>0, <3>1 DEF MarkCopying, MarkRunning, Mark, TypeOK, Instance
    <3>2. CASE UseApache(i)
      BY <1>0, <3>2 DEF UseApache, TypeOK, Instance
    <3>3. CASE UseFallback(i)
      BY <1>0, <3>3 DEF UseFallback, TypeOK, Instance
    <3>4. CASE RegisterDNS(i)
      BY <1>0, <3>4 DEF RegisterDNS, TypeOK, Instance
    <3> QED
      BY <1>2, <3>1, <3>2, <3>3, <3>4
  <2> QED
    BY <2>1, <2>2, <2>3, LaterServed
<1>3. ASSUME NEW i \in Ids, DeployFails(i) PROVE VInv'
  <2>1. i \in store /\ pc[i] = "deploying" /\ Host(i) \in Hostnames
    BY <1>3 DEF DeployFails, Attended, GoroutinePhases, IInv, NamesKnown
  <2>2. /\ UNCHANGED <<store, worker, toRestore>> /\ pc'[i] = "failing"
        /\ \A j \in Ids \ {i} : inst'[j] = inst[j] /\ pc'[j] = pc[j]
    BY <1>0, <1>3 DEF DeployFails, Goto, TypeOK
  <2>3. /\ inst'[i].hostname = inst[i].hostname /\ inst'[i].port = inst[i].port
    BY <1>0, <1>3 DEF DeployFails, TypeOK, Instance
  <2>4. inst[i].port = NoPort
    BY <2>1 DEF VInv, Served
  <2>5. sites' = [sites EXCEPT ![Host(i)] = NoSite] /\ \E left : dir' = [dir EXCEPT ![Host(i)] = left]
    BY <1>3 DEF DeployFails
  <2>6. /\ \A h \in Hostnames \ {Host(i)} : sites'[h] = sites[h] /\ dir'[h] = dir[h]
        /\ sites'[Host(i)] \in {sites[Host(i)], NoSite}
    BY <1>0, <2>1, <2>5 DEF TypeOK
  <2>7. Gone(i)'
    BY <2>3, <2>4 DEF Gone
  <2>8. \A w \in Workers : worker[w].id = i =>
          worker[w].pc \notin {"settle", "halted", "start", "restore", "broken", "down", "online", "up"}
    BY <2>1 DEF Attended
  <2> QED
    BY <2>1, <2>2, <2>3, <2>4, <2>6, <2>7, <2>8, RemovedServed DEF Served, AtRest
<1>6. ASSUME NEW i \in Ids, FailColumn(i) PROVE VInv'
  <2>1. /\ pc[i] = "failing" /\ pc'[i] = "done"
        /\ \A j \in Ids \ {i} : inst'[j] = inst[j] /\ pc'[j] = pc[j]
    BY <1>0, <1>6 DEF FailColumn, Goto, TypeOK
  <2>2. UNCHANGED <<sites, dir, store, worker, toRestore>>
    BY <1>6 DEF FailColumn, served
  <2>3. inst[i].port = NoPort /\ inst[i].state = "failed"
    BY <2>1 DEF VInv, Served, OInv, OrderedPhase
  <2>4. inst'[i].port = inst[i].port /\ inst'[i].state = inst[i].state
    BY <1>0, <1>6 DEF FailColumn, TypeOK, Instance
  <2> QED
    BY <2>1, <2>2, <2>3, <2>4, EarlyServed DEF Served
<1>4. ASSUME NEW i \in Ids, RestoreSite(i) PROVE FALSE
  BY <1>4 DEF RestoreSite, VInv
<1>5. ~Crash
  BY DEF Crash
<1> QED
  BY <1>1, <1>2, <1>3, <1>4, <1>5, <1>6, DeployServed, RequestWorks, QuietWorks, WorkerServed, StopServed
     DEF Next, Request, Handler, RunProvision, WorkerStep

LEMMA InitServed == Init => VInv
  BY DEF Init, VInv, AtRest, Served, NoInstance, IdleWorker

LEMMA NextServed ==
    ASSUME ~Crashes, ~OverlappingOps
    PROVE  IInv /\ UInv /\ Attended /\ SInv /\ OInv /\ VInv /\ [Next]_vars => VInv'
<1> SUFFICES ASSUME IInv, UInv, Attended, SInv, OInv, VInv, [Next]_vars PROVE VInv'
  OBVIOUS
<1>1. CASE Next
  BY <1>1, ServedStep
<1>2. CASE UNCHANGED vars
  BY <1>2 DEF vars, VInv, AtRest, Busy, ServedAlone, Serves, Gone, Host
<1> QED
  BY <1>1, <1>2

\* A running instance that nobody works on is served from its own content on a
\* port of its own, whatever else is deployed, stopped or deleted next to it, and
\* whatever of that fails.
THEOREM RunningServed ==
    ASSUME ~OverlappingProvisions, ~OverlappingOps, ~Crashes
    PROVE  Spec => []RunningIsServed
<1>1. VInv => RunningIsServed
  BY DEF VInv, RunningIsServed, Settled, AtRest, ServedAlone
<1> QED
  BY <1>1, InitIInv, NextIInv, InitExclusive, NextExclusive, InitServers, NextServers,
     InitOrdered, NextOrdered, InitServed, NextServed, PTL DEF Spec

-----------------------------------------------------------------------------
(* What runs can be reached by its link.                                    *)

\* What a record or remote directory of one name says does not concern others.
LEMMA ElsewhereLinked ==
    ASSUME IInv, UInv, NEW i \in Ids, NEW j \in store, i # j,
           inst'[j] = inst[j], UNCHANGED vhostBound,
           \A h \in Hostnames : \/ i \in store /\ h = Host(i)
                                \/ dnsA'[h] = dnsA[h] /\ www'[h] = www[h]
    PROVE  Linked(j) => Linked(j)'
<1>1. Host(j) \in Hostnames /\ ~(i \in store /\ Host(j) = Host(i))
  BY OwnName DEF IInv, NamesKnown, Host
<1>2. dnsA'[Host(j)] = dnsA[Host(j)] /\ www'[Host(j)] = www[Host(j)]
  BY <1>1
<1> QED
  BY <1>2 DEF Linked, Host

LEMMA ElsewhereRemote ==
    ASSUME IInv, UInv, NEW i \in Ids, NEW j \in store, i # j,
           \A h \in Hostnames : \/ i \in store /\ h = Host(i)
                                \/ dnsA'[h] = dnsA[h] /\ www'[h] = www[h]
    PROVE  www'[Host(j)] = www[Host(j)]
  BY OwnName DEF IInv, NamesKnown, Host

\* A provision goes on.
LEMMA ProvisionLinks ==
    ASSUME IInv, UInv, Attended, LInv, NEW i \in Ids,
           UNCHANGED <<worker, vhostBound>>, store' \subseteq store \cup {i},
           \A j \in Ids \ {i} : inst'[j] = inst[j] /\ pc'[j] = pc[j],
           \A h \in Hostnames : \/ i \in store /\ h = Host(i)
                                \/ dnsA'[h] = dnsA[h] /\ www'[h] = www[h],
           pc'[i] \in {"allocated"} \cup (GoroutinePhases \ {"registering", "registered"}) => inst'[i].ip \in Pool,
           pc'[i] \in {"deployed", "copying"} => inst'[i].url = "local",
           pc'[i] = "registering" =>
             \/ inst'[i].url = "local"
             \/ inst'[i].url = "fqdn" /\ inst'[i].ip = TemplateIP /\ www'[inst'[i].hostname] = i
             \/ inst'[i].url = "fqdn" /\ inst'[i].ip \in Pool /\ vhostBound,
           pc'[i] = "registered" \/ (pc'[i] = "done" /\ inst'[i].state = "running") => Linked(i)'
    PROVE  LInv'
<1>0. store \subseteq Ids
  BY DEF IInv, TypeOK
<1>1. \A j \in Ids : pc'[j] \in {"allocated"} \cup (GoroutinePhases \ {"registering", "registered"}) => inst'[j].ip \in Pool
  BY DEF LInv
<1>2. \A j \in Ids : pc'[j] \in {"deployed", "copying"} => inst'[j].url = "local"
  BY DEF LInv
<1>3. \A j \in Ids : pc'[j] = "registering" =>
         \/ inst'[j].url = "local"
         \/ inst'[j].url = "fqdn" /\ inst'[j].ip = TemplateIP /\ www'[inst'[j].hostname] = j
         \/ inst'[j].url = "fqdn" /\ inst'[j].ip \in Pool /\ vhostBound
  <2> SUFFICES ASSUME NEW j \in Ids \ {i}, pc'[j] = "registering"
               PROVE  \/ inst'[j].url = "local"
                      \/ inst'[j].url = "fqdn" /\ inst'[j].ip = TemplateIP /\ www'[inst'[j].hostname] = j
                      \/ inst'[j].url = "fqdn" /\ inst'[j].ip \in Pool /\ vhostBound
    OBVIOUS
  <2>1. pc[j] = "registering" /\ inst'[j] = inst[j] /\ j \in store
    BY DEF Attended, GoroutinePhases
  <2>2. www'[Host(j)] = www[Host(j)]
    BY <2>1, ElsewhereRemote
  <2> QED
    BY <2>1, <2>2 DEF LInv, Host
<1>4. \A j \in store' : AtRest(j)' /\ inst'[j].state = "running" => Linked(j)'
  <2> SUFFICES ASSUME NEW j \in store', AtRest(j)', inst'[j].state = "running" PROVE Linked(j)'
    OBVIOUS
  <2>1. CASE j = i
    BY <2>1 DEF AtRest
  <2>2. CASE j # i
    <3>1. j \in store /\ inst'[j] = inst[j] /\ AtRest(j)
      BY <1>0, <2>2 DEF AtRest, Busy
    <3>2. Linked(j)
      BY <3>1 DEF LInv
    <3> QED
      BY <2>2, <3>1, <3>2, ElsewhereLinked
  <2> QED
    BY <2>1, <2>2
<1>5. \A j \in Ids \ {i} : pc'[j] = "registered" => Linked(j)'
  <2> SUFFICES ASSUME NEW j \in Ids \ {i}, pc'[j] = "registered" PROVE Linked(j)'
    OBVIOUS
  <2>1. pc[j] = "registered" /\ inst'[j] = inst[j] /\ j \in store
    BY DEF Attended, GoroutinePhases
  <2> QED
    BY <2>1, ElsewhereLinked DEF LInv
<1> QED
  BY <1>1, <1>2, <1>3, <1>4, <1>5 DEF LInv, Host

\* An operation goes on.
LEMMA WorkerLinks ==
    ASSUME IInv, UInv, Attended, LInv, NEW w \in Workers, NEW i \in store,
           OneWorks(w, i), pc[i] = "done", UNCHANGED vhostBound,
           \A h \in Hostnames \ {Host(i)} : dnsA'[h] = dnsA[h] /\ www'[h] = www[h],
           AtRest(i)' => UNCHANGED <<dnsA, www>>
    PROVE  LInv'
<1>0. /\ store \subseteq Ids /\ store' \subseteq store /\ pc' = pc
      /\ \A j \in Ids \ {i} : inst'[j] = inst[j]
  BY DEF IInv, TypeOK, OneWorks
<1>1. \A j \in Ids : pc'[j] \in {"allocated"} \cup (GoroutinePhases \ {"registering", "registered"}) => inst'[j].ip \in Pool
  BY <1>0 DEF LInv, GoroutinePhases
<1>2. \A j \in Ids : pc'[j] \in {"deployed", "copying"} => inst'[j].url = "local"
  BY <1>0 DEF LInv
<1>3. \A j \in Ids : pc'[j] = "registering" =>
         \/ inst'[j].url = "local"
         \/ inst'[j].url = "fqdn" /\ inst'[j].ip = TemplateIP /\ www'[inst'[j].hostname] = j
         \/ inst'[j].url = "fqdn" /\ inst'[j].ip \in Pool /\ vhostBound
  <2> SUFFICES ASSUME NEW j \in Ids, pc[j] = "registering"
               PROVE  \/ inst'[j].url = "local"
                      \/ inst'[j].url = "fqdn" /\ inst'[j].ip = TemplateIP /\ www'[inst'[j].hostname] = j
                      \/ inst'[j].url = "fqdn" /\ inst'[j].ip \in Pool /\ vhostBound
    BY <1>0
  <2>1. j # i /\ inst'[j] = inst[j] /\ j \in store
    BY <1>0 DEF Attended, GoroutinePhases
  <2>2. www'[Host(j)] = www[Host(j)]
    BY <1>0, <2>1, ElsewhereRemote
  <2> QED
    BY <2>1, <2>2 DEF LInv, Host
<1>4. \A j \in store' : AtRest(j)' /\ inst'[j].state = "running" => Linked(j)'
  <2> SUFFICES ASSUME NEW j \in store', AtRest(j)', inst'[j].state = "running" PROVE Linked(j)'
    OBVIOUS
  <2>1. CASE j = i
    <3>1. AtRest(i) /\ inst'[i] = inst[i] /\ UNCHANGED <<dnsA, www>>
      BY <2>1, AtRestBefore
    <3> QED
      BY <2>1, <3>1 DEF LInv, Linked, Host
  <2>2. CASE j # i
    <3>1. j \in store /\ inst'[j] = inst[j] /\ AtRest(j)
      BY <1>0, <2>2, AtRestBefore
    <3>2. Linked(j)
      BY <3>1 DEF LInv
    <3> QED
      BY <1>0, <2>2, <3>1, <3>2, ElsewhereLinked
  <2> QED
    BY <2>1, <2>2
<1>5. \A j \in Ids : pc'[j] = "registered" => Linked(j)'
  <2> SUFFICES ASSUME NEW j \in Ids, pc[j] = "registered" PROVE Linked(j)'
    BY <1>0
  <2>1. j # i /\ inst'[j] = inst[j] /\ j \in store
    BY <1>0 DEF Attended, GoroutinePhases
  <2> QED
    BY <1>0, <2>1, ElsewhereLinked DEF LInv
<1> QED
  BY <1>0, <1>1, <1>2, <1>3, <1>4, <1>5 DEF LInv, Host

LEMMA LinkStep ==
    ASSUME ~Crashes, ~OverlappingOps, "dns" \notin Failures,
           IInv, UInv, Attended, SInv, OInv, VInv, LInv, Next
    PROVE  LInv'
<1>0. TypeOK /\ store \subseteq Ids
  BY DEF IInv, TypeOK
<1>1. ASSUME NEW i \in Ids, AllocateIP(i) \/ \E h \in Hostnames : CheckHostname(i, h)
      PROVE  LInv'
  <2>1. UNCHANGED <<store, worker, vhostBound, dnsA, www>>
    BY <1>1 DEF AllocateIP, CheckHostname, served, external
  <2>2. \A j \in Ids \ {i} : inst'[j] = inst[j] /\ pc'[j] = pc[j]
    BY <1>0, <1>1 DEF AllocateIP, CheckHostname, Goto, TypeOK
  <2>3. pc'[i] \notin GoroutinePhases \cup {"done"}
    BY <1>0, <1>1 DEF AllocateIP, CheckHostname, Goto, TypeOK, GoroutinePhases
  <2>4. pc'[i] = "allocated" => inst'[i].ip \in Pool
    <3> SUFFICES ASSUME pc'[i] = "allocated" PROVE inst'[i].ip \in Pool
      OBVIOUS
    <3>1. PICK ip \in FreeIPs : inst' = [inst EXCEPT ![i] =
            [@ EXCEPT !.ip = ip, !.state = "pending", !.vbox = "starting", !.url = "fqdn"]]
      BY <1>0, <1>1 DEF AllocateIP, CheckHostname, Goto, TypeOK
    <3> QED
      BY <1>0, <3>1 DEF FreeIPs, TypeOK, Instance
  <2> QED
    BY <2>1, <2>2, <2>3, <2>4, ProvisionLinks DEF GoroutinePhases
<1>2. ASSUME NEW i \in Ids,
             \/ PutInstance(i) \/ MarkProvisioning(i) \/ MarkDeploying(i)
             \/ DeployFails(i) \/ FailColumn(i)
      PROVE  LInv'
  <2>1. UNCHANGED <<worker, vhostBound, dnsA, www>> /\ store' \subseteq store \cup {i}
    BY <1>2 DEF PutInstance, MarkProvisioning, MarkDeploying, DeployFails, FailColumn, Mark,
                served, external
  <2>2. /\ \A j \in Ids \ {i} : inst'[j] = inst[j] /\ pc'[j] = pc[j]
        /\ pc[i] \in {"allocated"} \cup (GoroutinePhases \ {"registering", "registered"})
        /\ pc'[i] \in {"queued", "announced", "networked", "deploying", "failing", "done"}
    BY <1>0, <1>2 DEF PutInstance, MarkProvisioning, MarkDeploying, DeployFails, FailColumn, Mark, Goto,
                      TypeOK, GoroutinePhases
  <2>3. inst'[i].ip = inst[i].ip
    <3>1. CASE inst' = inst
      BY <3>1
    <3>2. CASE MarkProvisioning(i) \/ MarkDeploying(i)
      BY <1>0, <3>2 DEF MarkProvisioning, MarkDeploying, Mark, TypeOK, Instance
    <3>3. CASE DeployFails(i) \/ FailColumn(i)
      BY <1>0, <3>3 DEF DeployFails, FailColumn, TypeOK, Instance
    <3> QED
      BY <1>2, <3>1, <3>2, <3>3 DEF PutInstance
  <2>4. inst[i].ip \in Pool
    BY <2>2 DEF LInv
  <2>5. pc'[i] = "done" => inst'[i].state # "running"
    <3>1. CASE PutInstance(i)
      BY <3>1 DEF PutInstance, IInv, FreshIsPending
    <3>2. CASE MarkProvisioning(i) \/ MarkDeploying(i) \/ DeployFails(i)
      BY <1>0, <3>2 DEF MarkProvisioning, MarkDeploying, DeployFails, Goto, TypeOK
    <3>3. CASE FailColumn(i)
      BY <1>0, <3>3 DEF FailColumn, OInv, OrderedPhase, TypeOK, Instance
    <3> QED
      BY <1>2, <3>1, <3>2, <3>3
  <2> QED
    BY <2>1, <2>2, <2>3, <2>4, <2>5, ProvisionLinks DEF GoroutinePhases
<1>3. ASSUME NEW i \in Ids, Deploy(i) \/ MarkCopying(i) PROVE LInv'
  <2>1. UNCHANGED <<store, worker, vhostBound, dnsA, www>>
    BY <1>3 DEF Deploy, MarkCopying, Mark, served, external
  <2>2. /\ \A j \in Ids \ {i} : inst'[j] = inst[j] /\ pc'[j] = pc[j]
        /\ pc[i] \in {"deploying", "deployed"} /\ pc'[i] \in {"deployed", "copying"}
    BY <1>0, <1>3 DEF Deploy, MarkCopying, Mark, Goto, TypeOK
  <2>3. inst[i].ip \in Pool
    BY <2>2 DEF LInv, GoroutinePhases
  <2>4. inst'[i].ip = inst[i].ip /\ inst'[i].url = "local"
    <3>1. CASE Deploy(i)
      <4>1. PICK p : inst' = [inst EXCEPT ![i] = [@ EXCEPT !.port = p, !.url = "local"]]
        BY <3>1 DEF Deploy
      <4> QED
        BY <1>0, <4>1 DEF TypeOK, Instance
    <3>2. CASE MarkCopying(i)
      BY <1>0, <3>2 DEF MarkCopying, Mark, LInv, TypeOK, Instance
    <3> QED
      BY <1>3, <3>1, <3>2
  <2> QED
    BY <2>1, <2>2, <2>3, <2>4, ProvisionLinks
<1>4. ASSUME NEW i \in Ids, UseApache(i) \/ UseFallback(i) PROVE LInv'
  <2>1. /\ pc[i] \in {"deployed", "copying"} /\ pc'[i] = "registering" /\ i \in store
        /\ \A j \in Ids \ {i} : inst'[j] = inst[j] /\ pc'[j] = pc[j]
    BY <1>0, <1>4 DEF UseApache, UseFallback, Goto, TypeOK, Attended, GoroutinePhases
  <2>2. UNCHANGED <<store, worker, vhostBound, dnsA>>
    BY <1>4 DEF UseApache, UseFallback, served
  <2>3. Host(i) \in Hostnames /\ \A h \in Hostnames \ {Host(i)} : www'[h] = www[h]
    BY <1>0, <1>4, <2>1 DEF UseApache, UseFallback, TypeOK, IInv, NamesKnown, GoroutinePhases
  <2>4. inst[i].ip \in Pool /\ inst[i].url = "local"
    BY <2>1 DEF LInv, GoroutinePhases
  <2>5. \/ inst'[i].url = "local"
        \/ inst'[i].url = "fqdn" /\ inst'[i].ip = TemplateIP /\ www'[inst'[i].hostname] = i
        \/ inst'[i].url = "fqdn" /\ inst'[i].ip \in Pool /\ vhostBound
    <3>1. CASE UseApache(i)
      <4>1. /\ inst'[i].url = "fqdn" /\ inst'[i].ip = TemplateIP
            /\ inst'[i].hostname = Host(i)
        BY <1>0, <3>1 DEF UseApache, TypeOK, Instance, Host
      <4>2. www'[Host(i)] = i
        BY <1>0, <2>3, <3>1 DEF UseApache, TypeOK
      <4> QED
        BY <4>1, <4>2
    <3>2. CASE UseFallback(i)
      <4>1. inst' = [inst EXCEPT ![i] = [@ EXCEPT !.state = "provisioning",
                                                  !.url = IF vhostBound THEN "fqdn" ELSE inst[i].url]]
        BY <3>2 DEF UseFallback
      <4>2. /\ inst'[i].ip = inst[i].ip
            /\ inst'[i].url = IF vhostBound THEN "fqdn" ELSE inst[i].url
        BY <1>0, <4>1 DEF TypeOK, Instance
      <4> QED
        BY <2>4, <4>2
    <3> QED
      BY <1>4, <3>1, <3>2
  <2> QED
    BY <2>1, <2>2, <2>3, <2>5, ProvisionLinks DEF GoroutinePhases
<1>5. ASSUME NEW i \in Ids, RegisterDNS(i) PROVE LInv'
  <2>1. /\ pc[i] = "registering" /\ pc'[i] = "registered" /\ i \in store
        /\ \A j \in Ids \ {i} : inst'[j] = inst[j] /\ pc'[j] = pc[j]
        /\ UNCHANGED <<store, worker, vhostBound, www>>
    BY <1>0, <1>5 DEF RegisterDNS, Goto, TypeOK, Attended, GoroutinePhases, served
  <2>2. /\ Host(i) \in Hostnames
        /\ dnsA' = [dnsA EXCEPT ![Host(i)] = DnsTarget(i)]
    BY <1>5, <2>1 DEF RegisterDNS, AddRecord, IInv, NamesKnown, GoroutinePhases
  <2>3. /\ dnsA'[Host(i)] = DnsTarget(i)
        /\ \A h \in Hostnames \ {Host(i)} : dnsA'[h] = dnsA[h]
    BY <1>0, <2>2 DEF TypeOK
  <2>4. inst'[i].url = inst[i].url /\ inst'[i].hostname = Host(i)
    BY <1>0, <1>5 DEF RegisterDNS, TypeOK, Instance, Host
  <2>5. \A ip \in Pool : ip # TemplateIP
    BY PoolAssumption
  <2>6. \/ inst[i].url = "local"
        \/ inst[i].url = "fqdn" /\ DnsTarget(i) = TemplateIP /\ www[Host(i)] = i
        \/ inst[i].url = "fqdn" /\ DnsTarget(i) = Gateway /\ vhostBound
    BY <2>1, <2>5 DEF LInv, DnsTarget
  <2>7. Linked(i)'
    BY <2>1, <2>3, <2>4, <2>6 DEF Linked, Host
  <2> QED
    BY <2>1, <2>3, <2>7, ProvisionLinks DEF GoroutinePhases
<1>10. ASSUME NEW i \in Ids, MarkRunning(i) PROVE LInv'
  <2>1. /\ pc[i] = "registered" /\ pc'[i] = "done"
        /\ \A j \in Ids \ {i} : inst'[j] = inst[j] /\ pc'[j] = pc[j]
        /\ UNCHANGED <<store, worker, vhostBound, dnsA, www>>
    BY <1>0, <1>10 DEF MarkRunning, Mark, Goto, TypeOK, served, external
  <2>2. inst'[i].url = inst[i].url /\ inst'[i].hostname = inst[i].hostname
    BY <1>0, <1>10 DEF MarkRunning, Mark, TypeOK, Instance
  <2>3. Linked(i)'
    BY <2>1, <2>2 DEF LInv, Linked, Host
  <2> QED
    BY <2>1, <2>3, ProvisionLinks DEF GoroutinePhases
<1>6. ASSUME NEW w \in Workers, NEW i \in Ids,
             RequestStart(w, i) \/ RequestStop(w, i) \/ RequestRestart(w, i) \/ RequestDelete(w, i)
      PROVE  LInv'
  <2>1. i \in store /\ OneWorks(w, i)
    BY <1>6, RequestWorks
  <2>2. pc[i] = "done" /\ UNCHANGED <<vhostBound, dnsA, www>>
    BY <1>6 DEF RequestStart, RequestStop, RequestRestart, RequestDelete, MayRequest, served, external
  <2> QED
    BY <2>1, <2>2, WorkerLinks
<1>7. ASSUME NEW w \in Workers, WorkerStep(w) PROVE LInv'
  <2>1. worker[w].pc # "idle"
    BY <1>7 DEF WorkerStep, StopUnmap, StopShutdown, StopRemoveDir, SettleStopped, RestartStart,
                RestoreForStart, SettleStarted, SettleColumn, DeleteRecord, DeleteRemoteDir,
                EraseInstance
  <2>2. PICK i \in store : i = worker[w].id /\ pc[i] = "done" /\ Host(i) \in Hostnames
    BY <2>1 DEF Attended, IInv, NamesKnown
  <2>3. OneWorks(w, i)
    BY <1>7, <2>2, StopWorks, QuietWorks DEF WorkerStep
  <2>4. UNCHANGED vhostBound
    BY <1>7 DEF WorkerStep, StopUnmap, StopShutdown, StopRemoveDir, SettleStopped, RestartStart,
                RestoreForStart, SettleStarted, SettleColumn, DeleteRecord, DeleteRemoteDir,
                EraseInstance, served
  <2>5. CASE DeleteRecord(w) \/ DeleteRemoteDir(w)
    <3>1. \A h \in Hostnames \ {Host(i)} : dnsA'[h] = dnsA[h] /\ www'[h] = www[h]
      BY <1>0, <2>2, <2>5 DEF DeleteRecord, RemoveRecord, DeleteRemoteDir, TypeOK
    <3>2. worker'[w].id = i
      BY <1>0, <2>2, <2>5, ContinueWorker DEF DeleteRecord, DeleteRemoteDir
    <3>3. ~AtRest(i)'
      BY <3>2 DEF AtRest, Busy
    <3> QED
      BY <2>2, <2>3, <2>4, <3>1, <3>3, WorkerLinks
  <2>6. CASE ~(DeleteRecord(w) \/ DeleteRemoteDir(w))
    <3>1. UNCHANGED <<dnsA, www>>
      BY <1>7, <2>6 DEF WorkerStep, StopUnmap, StopShutdown, StopRemoveDir, SettleStopped,
                RestartStart, RestoreForStart, SettleStarted, SettleColumn, EraseInstance, external
    <3> QED
      BY <2>2, <2>3, <2>4, <3>1, WorkerLinks
  <2> QED
    BY <2>5, <2>6
<1>8. ASSUME NEW i \in Ids, RestoreSite(i) PROVE FALSE
  BY <1>8 DEF RestoreSite, VInv
<1>9. ~Crash
  BY DEF Crash
<1> QED
  BY <1>1, <1>2, <1>3, <1>4, <1>5, <1>6, <1>7, <1>8, <1>9, <1>10
     DEF Next, Request, Handler, RunProvision

LEMMA InitLinks == Init => LInv
  BY DEF Init, LInv, AtRest, GoroutinePhases

LEMMA NextLinks ==
    ASSUME ~Crashes, ~OverlappingOps, "dns" \notin Failures
    PROVE  IInv /\ UInv /\ Attended /\ SInv /\ OInv /\ VInv /\ LInv /\ [Next]_vars => LInv'
<1> SUFFICES ASSUME IInv, UInv, Attended, SInv, OInv, VInv, LInv, [Next]_vars PROVE LInv'
  OBVIOUS
<1>1. CASE Next
  BY <1>1, LinkStep
<1>2. CASE UNCHANGED vars
  BY <1>2 DEF vars, LInv, AtRest, Busy, Linked, Host
<1> QED
  BY <1>1, <1>2

\* And the link the dashboard shows leads to that content, through Apache, the
\* dispatcher or localhost, as long as the DNS server answers.
THEOREM LinksReach ==
    ASSUME ~OverlappingProvisions, ~OverlappingOps, ~Crashes, "dns" \notin Failures
    PROVE  Spec => []UrlReachesContent
<1>1. VInv /\ LInv => UrlReachesContent
  BY DEF VInv, LInv, UrlReachesContent, Settled, AtRest, ServedAlone, Linked
<1> QED
  BY <1>1, InitIInv, NextIInv, InitExclusive, NextExclusive, InitServers, NextServers,
     InitOrdered, NextOrdered, InitServed, NextServed, InitLinks, NextLinks, PTL DEF Spec

=============================================================================
