------------------------ MODULE AgentQueueRefinement ------------------------
(***************************************************************************)
(* The task queue implements TaskLease: statuses are grouped, the lease    *)
(* columns give the holder, and a worker believes it holds its task from   *)
(* the commit of its claim to the end of its with-block.                   *)
(***************************************************************************)
EXTENDS AgentQueue

AbstractState(s) ==
    CASE s = "queued" -> "waiting"
      [] s \in Held -> "held"
      [] OTHER -> s

InBlock == {"claimed", "working", "failing"}

stateBar == [t \in Tasks |-> AbstractState(row[t].status)]
holderBar == [t \in Tasks |-> row[t].owner]
busyBar == [w \in Workers |-> IF pc[w] \in InBlock THEN job[w].task ELSE NoTask]

Lease == INSTANCE TaskLease WITH state <- stateBar, holder <- holderBar, busy <- busyBar

\* The queue's promise: whatever producers, replicas, the operator, crashes
\* and expiring leases do, every step of the table is a step of TaskLease: a
\* task is granted only while it waits, and done only through its holder.
ImplementsTaskLease == Lease!Spec
=============================================================================
