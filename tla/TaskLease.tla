----------------------------- MODULE TaskLease -----------------------------
(***************************************************************************)
(* What the task queue promises its callers: a table of tasks that are     *)
(* waiting, held by one worker, done or dead, and workers that each        *)
(* believe to be working on at most one task.  A belief may be out of date *)
(* (the lease is advisory), but a task is granted only while it waits, and *)
(* it becomes done only through the worker that holds it.  A worker that   *)
(* gives up may put its task back even when the task is no longer its own. *)
(***************************************************************************)
CONSTANTS Tasks, Workers, NoTask, NoWorker

VARIABLES
    state,    \* state[t]: "absent", "waiting", "held", "done" or "dead"
    holder,   \* holder[t]: the worker that holds t
    busy      \* busy[w]: the task w believes it holds

vars == <<state, holder, busy>>

Init ==
    /\ state = [t \in Tasks |-> "absent"]
    /\ holder = [t \in Tasks |-> NoWorker]
    /\ busy = [w \in Workers |-> NoTask]

Put(t, s) ==
    /\ state' = [state EXCEPT ![t] = s]
    /\ holder' = [holder EXCEPT ![t] = NoWorker]

Submit(t) == state[t] = "absent" /\ Put(t, "waiting") /\ UNCHANGED busy

Grant(w, t) ==
    /\ state[t] = "waiting"
    /\ busy[w] = NoTask
    /\ state' = [state EXCEPT ![t] = "held"]
    /\ holder' = [holder EXCEPT ![t] = w]
    /\ busy' = [busy EXCEPT ![w] = t]

Complete(w, t) ==
    /\ busy[w] = t
    /\ holder[t] = w
    /\ state[t] = "held"
    /\ Put(t, "done")
    /\ busy' = [busy EXCEPT ![w] = NoTask]

GiveUp(w, t) ==
    /\ busy[w] = t
    /\ Put(t, "waiting") \/ Put(t, "dead")
    /\ busy' = [busy EXCEPT ![w] = NoTask]

\* A crash, or an outcome nobody is interested in any more.
Leave(w) == busy' = [busy EXCEPT ![w] = NoTask] /\ UNCHANGED <<state, holder>>

\* Expired leases are revoked together.
Revoke(waiting, dead) ==
    /\ \A t \in waiting \cup dead : state[t] = "held"
    /\ state' = [t \in Tasks |-> IF t \in waiting THEN "waiting"
                                 ELSE IF t \in dead THEN "dead" ELSE state[t]]
    /\ holder' = [t \in Tasks |-> IF t \in waiting \cup dead THEN NoWorker ELSE holder[t]]
    /\ UNCHANGED busy

Cancel(t) == state[t] \in {"waiting", "held"} /\ Put(t, "dead") /\ UNCHANGED busy

Revive(t) == state[t] = "dead" /\ Put(t, "waiting") /\ UNCHANGED busy

Next ==
    \/ \E t \in Tasks : Submit(t) \/ Cancel(t) \/ Revive(t)
    \/ \E w \in Workers, t \in Tasks : Grant(w, t) \/ Complete(w, t) \/ GiveUp(w, t)
    \/ \E w \in Workers : Leave(w)
    \/ \E waiting, dead \in SUBSET Tasks : Revoke(waiting, dead)

Spec == Init /\ [][Next]_vars
=============================================================================
