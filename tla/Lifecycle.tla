----------------------------- MODULE Lifecycle -----------------------------
(***************************************************************************)
(* What the orchestrator promises of an instance, seen on the dashboard:   *)
(* one party works on it at a time, what is shown as under way or being    *)
(* deleted is being worked on, a deletion leads to its disappearance and   *)
(* nothing else does, and only a restart cuts work short.  WebInstances    *)
(* implements it when users wait for the work on an instance to end.       *)
(***************************************************************************)
CONSTANTS Instances, Lossy, Restarts   \* the last two as in Leases

VARIABLES shown,  \* the state shown of each instance, or "absent"
          saved,  \* the same, as written down
          task,   \* the work going on on each instance
          found   \* instances a restart has found and not yet looked after

vars == <<shown, saved, task, found>>

UnderWay == {"pending", "provisioning", "deploying"}
Shown == UnderWay \cup {"absent", "running", "failed", "stopped", "deleting"}
Task == {"none", "provision", "start", "stop", "restart", "delete"}

Init == /\ shown = [x \in Instances |-> "absent"]
        /\ saved = shown
        /\ task = [x \in Instances |-> "none"]
        /\ found = {}

Write == saved' = shown' \/ (Lossy /\ UNCHANGED saved)

Show(x, state) == shown' = [shown EXCEPT ![x] = state] /\ Write

Take(x, t) == task' = [task EXCEPT ![x] = t]

\* A request that could not be written down is refused, but shown.
Accept(x) ==
    /\ shown[x] = "absent" /\ task[x] = "none"
    /\ Show(x, "pending")
    /\ Take(x, "provision") \/ (Lossy /\ UNCHANGED task)
    /\ UNCHANGED found

Ask(x) ==
    /\ shown[x] # "absent" /\ task[x] = "none" /\ found = {}
    /\ \/ Take(x, "start") /\ Show(x, "provisioning")
       \/ Take(x, "delete") /\ Show(x, "deleting")
       \/ \E t \in {"stop", "restart"} : Take(x, t) /\ Show(x, shown[x])
    /\ UNCHANGED found

Work(x) ==
    /\ \/ /\ task[x] = "provision" /\ shown[x] \in UnderWay
          /\ \E state \in {"provisioning", "deploying"} : Show(x, state)
          /\ UNCHANGED task
       \/ task[x] = "restart" /\ Take(x, "start") /\ Show(x, "provisioning")
    /\ UNCHANGED found

\* What a task comes to is shown before it is written down: whoever writes
\* next may write it for another instance's sake.
Reach(x) ==
    /\ \E state \in {"running", "failed", "stopped"} :
         /\ \/ task[x] = "provision" /\ shown[x] \in UnderWay /\ state = "failed"
            \/ task[x] = "start" /\ shown[x] \in UnderWay /\ state # "stopped"
            \/ task[x] = "stop" /\ state = "stopped"
         /\ shown' = [shown EXCEPT ![x] = state]
    /\ UNCHANGED <<saved, task, found>>

Finish(x) ==
    /\ \/ /\ task[x] \in {"provision", "start"} /\ shown[x] \in {"running", "failed"}
          /\ UNCHANGED shown /\ Write
       \/ task[x] = "provision" /\ shown[x] \in UnderWay /\ Show(x, "running")
       \/ task[x] = "restart" /\ UNCHANGED <<shown, saved>>
       \/ task[x] = "stop" /\ shown[x] = "stopped" /\ UNCHANGED shown /\ Write
       \/ task[x] = "delete" /\ shown[x] = "deleting" /\ Show(x, "absent")
    /\ Take(x, "none")
    /\ UNCHANGED found

Restart ==
    /\ Restarts
    /\ shown' = saved
    /\ task' = [x \in Instances |-> "none"]
    /\ found' \subseteq {x \in Instances : saved[x] # "absent"}
    /\ UNCHANGED saved

Restore(x) ==
    /\ x \in found
    /\ \E state \in {"running", "stopped"} : Show(x, state)
    /\ found' = found \ {x}
    /\ UNCHANGED task

Next == \/ \E x \in Instances : \/ Accept(x) \/ Ask(x) \/ Work(x)
                            \/ Reach(x) \/ Finish(x) \/ Restore(x)
        \/ Restart

Spec == Init /\ [][Next]_vars

\* Nothing is shown as under way, or as being deleted, that nobody works on,
\* but for what a refused request left behind.
NobodyStuck ==
    \A x \in Instances :
        shown[x] \in UnderWay \cup {"deleting"} /\ task[x] = "none"
            => Lossy /\ shown[x] = "pending"
============================================================================
