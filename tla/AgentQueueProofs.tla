-------------------------- MODULE AgentQueueProofs --------------------------
(***************************************************************************)
(* Proofs about AgentQueue for every set of workers, tasks, repositories   *)
(* and every bound.  Inv is the inductive invariant: the rows are          *)
(* consistent (RowConsistent), a worker's local state agrees with its      *)
(* place in run_once (JobInv) and a selected row is locked                 *)
(* (SelectedIsQueued).                                                     *)
(***************************************************************************)
EXTENDS AgentQueueRefinement, FiniteSetTheorems, TLAPS

USE RepoAssumption, TaskAssumption, WorkerAssumption, AttemptsAssumption,
    BoundAssumption, CeilingAssumption, PriorityAssumption

InJob == {"selected", "claimed", "working", "failing"}

\* What a worker holds in each place of run_once.
JobInv ==
    \A w \in Workers :
        /\ pc[w] \in InJob => /\ job[w].task \in Tasks
                              /\ row[job[w].task].status # "absent"
        /\ pc[w] = "failing" => job[w].seen < MaxAttempts
        /\ beat[w] => pc[w] \in {"claimed", "working", "failing"}

Inv == TypeOK /\ RowConsistent /\ JobInv /\ SelectedIsQueued

\* What any write may do to a row: the new row is well formed, and a task
\* that exists stays and keeps its repository.
Evolves(x, y) ==
    /\ y \in Row
    /\ Consistent(y)
    /\ x.status # "absent" => y.status # "absent" /\ y.repo = x.repo

-----------------------------------------------------------------------------
(* One lemma per row update.                                               *)

LEMMA SameEvolves ==
    ASSUME NEW x \in Row, Consistent(x) PROVE Evolves(x, x)
BY DEF Evolves

LEMMA NewRowEvolves ==
    ASSUME NEW x \in Row, x.status = "absent", NEW q \in Request
    PROVE  Evolves(x, NewRow(q))
BY DEF Evolves, NewRow, Request, Row, Status, Active, Held, Consistent

LEMMA LeasedToEvolves ==
    ASSUME NEW x \in Row, Consistent(x), x.status = "queued", NEW w \in Workers
    PROVE  Evolves(x, LeasedTo(x, w)) /\ LeasedTo(x, w).status = "leased"
BY DEF Evolves, LeasedTo, Row, Status, Active, Held, Consistent

LEMMA RunningEvolves ==
    ASSUME NEW x \in Row, Consistent(x), x.status = "leased"
    PROVE  Evolves(x, Running(x)) /\ Running(x).status = "running"
BY DEF Evolves, Running, Row, Status, Active, Held, Consistent

LEMMA DoneEvolves ==
    ASSUME NEW x \in Row, Consistent(x), x.status \in Held
    PROVE  Evolves(x, Done(x)) /\ Done(x).status = "done"
BY DEF Evolves, Done, Row, Status, Active, Held, Consistent

LEMMA WithLeaseEvolves ==
    ASSUME NEW x \in Row, Consistent(x), x.status \in Held,
           NEW l \in {"live", "expired"}
    PROVE  Evolves(x, WithLease(x, l)) /\ WithLease(x, l).status = x.status
BY DEF Evolves, WithLease, Row, Status, Active, Held, Consistent

LEMMA NowDueEvolves ==
    ASSUME NEW x \in Row, Consistent(x)
    PROVE  Evolves(x, NowDue(x)) /\ NowDue(x).status = x.status
           /\ NowDue(x).attempts = x.attempts
BY DEF Evolves, NowDue, Row, Status, Active, Held, Consistent

LEMMA RequeuedEvolves ==
    ASSUME NEW x \in Row, Consistent(x), x.status # "absent"
    PROVE  Evolves(x, Requeued(x)) /\ Requeued(x).status = "queued"
<1> DEFINE y == Requeued(x)
<1>a. 0 \in 0..MaxAttempts /\ "queued" \in Status /\ "none" \in {"none", "live", "expired"}
  BY DEF Status, Active
<1>1. y \in Row
  BY <1>a DEF Requeued, Row
<1>2. /\ y.status = "queued" /\ y.attempts = 0 /\ y.owner = NoWorker
      /\ y.lease = "none" /\ y.repo = x.repo
  BY DEF Requeued, Row
<1> HIDE DEF y
<1>3. Evolves(x, y)
  BY <1>1, <1>2 DEF Evolves, Consistent, Active, Held
<1> QED BY <1>2, <1>3 DEF y

LEMMA ParkedEvolves ==
    ASSUME NEW x \in Row, Consistent(x), x.status # "absent"
    PROVE  Evolves(x, Parked(x)) /\ Parked(x).status = "dead"
BY DEF Evolves, Parked, Row, Status, Active, Held, Consistent

LEMMA ReleasedEvolves ==
    ASSUME NEW x \in Row, Consistent(x), x.status # "absent",
           NEW n \in 0..MaxAttempts, NEW d \in BOOLEAN
    PROVE  /\ Evolves(x, Released(x, n, d))
           /\ Released(x, n, d).status \in {"queued", "dead"}
<1> DEFINE y == Released(x, n, d)
<1>1. y \in Row
  BY DEF Released, Row, Status, Active, Held
<1>2. /\ y.status = IF n >= MaxAttempts THEN "dead" ELSE "queued"
      /\ y.attempts = n /\ y.owner = NoWorker
      /\ y.lease = "none" /\ y.repo = x.repo
  BY DEF Released, Row
<1> HIDE DEF y
<1>3. Evolves(x, y)
  BY <1>1, <1>2 DEF Evolves, Consistent, Active, Held
<1> QED BY <1>2, <1>3 DEF y

-----------------------------------------------------------------------------
LEMMA InitInv == Init => Inv
<1> SUFFICES ASSUME Init PROVE Inv
    OBVIOUS
<1>1. NoRow \in Row /\ Consistent(NoRow)
    BY DEF NoRow, Row, Status, Active, Held, Consistent
<1>2. NoJob \in [task : Tasks \cup {NoTask}, attempt : 0..MaxAttempts,
                 seen : 0..MaxAttempts]
    BY DEF NoJob
<1>a. runner \in [Repos -> [cap : Ceilings, enabled : BOOLEAN]]
    BY DEF Init
<1>3. TypeOK
    BY <1>1, <1>2, <1>a DEF Init, TypeOK, Pc
<1>4. RowConsistent
    BY <1>1 DEF Init, RowConsistent
<1>5. JobInv /\ SelectedIsQueued
    BY DEF Init, JobInv, SelectedIsQueued, InJob
<1> QED BY <1>3, <1>4, <1>5 DEF Inv

-----------------------------------------------------------------------------
(* The rows under every step.                                              *)

RowsEvolve == /\ row' \in [Tasks -> Row]
              /\ \A t \in Tasks : Evolves(row[t], row'[t])

LEMMA OneRow ==
    ASSUME Inv, NEW t \in Tasks, NEW y, Evolves(row[t], y),
           row' = [row EXCEPT ![t] = y]
    PROVE  RowsEvolve
<1>1. y \in Row /\ row \in [Tasks -> Row]
  BY DEF Inv, TypeOK, Evolves
<1>2. ASSUME NEW s \in Tasks PROVE Evolves(row[s], row'[s])
  <2>1. CASE s = t
    BY <1>1, <2>1
  <2>2. CASE s # t
    <3>1. row'[s] = row[s] /\ row[s] \in Row /\ Consistent(row[s])
      BY <1>1, <2>2 DEF Inv, RowConsistent
    <3> QED BY <3>1, SameEvolves
  <2> QED BY <2>1, <2>2
<1> QED BY <1>1, <1>2 DEF RowsEvolve

LEMMA EachRow ==
    ASSUME NEW f, row' = [t \in Tasks |-> f[t]],
           \A t \in Tasks : Evolves(row[t], f[t])
    PROVE  RowsEvolve
BY DEF RowsEvolve, Evolves

LEMMA SameRows == ASSUME Inv, row' = row PROVE RowsEvolve
<1>1. ASSUME NEW t \in Tasks PROVE Evolves(row[t], row[t])
  BY SameEvolves DEF Inv, TypeOK, RowConsistent
<1> QED BY <1>1 DEF RowsEvolve, Inv, TypeOK

LEMMA RowsNext == ASSUME Inv, [Next]_vars PROVE RowsEvolve
<1>1. ASSUME NEW p \in Producers, EnqueueInsert(p) PROVE RowsEvolve
  <2>1. prod[p] \in Request
    BY <1>1 DEF EnqueueInsert, Inv, TypeOK
  <2>2. PICK t \in Tasks : row[t].status = "absent" /\ row' = [row EXCEPT ![t] = NewRow(prod[p])]
    BY <1>1 DEF EnqueueInsert
  <2>3. Evolves(row[t], NewRow(prod[p]))
    BY <2>1, <2>2, NewRowEvolves DEF Inv, TypeOK
  <2> QED BY <2>2, <2>3, OneRow
<1>2. ASSUME NEW p \in Producers, NEW q \in Request, EnqueueCheck(p, q) PROVE RowsEvolve
  BY <1>2, SameRows DEF EnqueueCheck, dbVars, workerVars
<1>3. ASSUME NEW w \in Workers, Reclaim(w) PROVE RowsEvolve
  <2> SUFFICES ASSUME NEW t \in Tasks PROVE Evolves(row[t], row'[t])
    BY <1>3, EachRow DEF Reclaim
  <2>1. row[t] \in Row /\ Consistent(row[t])
    BY DEF Inv, TypeOK, RowConsistent
  <2>2. CASE ~Abandoned(t)
    BY <1>3, <2>1, <2>2, SameEvolves DEF Reclaim
  <2>3. CASE Abandoned(t)
    <3>1. row[t].attempts + 1 \in 0..MaxAttempts /\ row[t].status # "absent"
      BY <2>1, <2>3 DEF Abandoned, Consistent, Row, Active, Held
    <3>2. Evolves(row[t], Released(row[t], row[t].attempts + 1, TRUE))
      BY <2>1, <3>1, ReleasedEvolves
    <3> QED BY <1>3, <2>3, <3>2 DEF Reclaim
  <2> QED BY <2>2, <2>3
<1>4. ASSUME NEW w \in Workers, ClaimBegin(w) PROVE RowsEvolve
  BY <1>4, SameRows DEF ClaimBegin, dbVars, workerVars
<1>5. ASSUME NEW w \in Workers, NEW r \in Repos, ClaimLock(w, r) PROVE RowsEvolve
  BY <1>5, SameRows DEF ClaimLock, dbVars, workerVars
<1>6. ASSUME NEW w \in Workers, ClaimNothing(w) PROVE RowsEvolve
  BY <1>6, SameRows DEF ClaimNothing, dbVars, workerVars
<1>7. ASSUME NEW w \in Workers, NEW t \in Tasks, ClaimSelect(w, t) PROVE RowsEvolve
  BY <1>7, SameRows DEF ClaimSelect, dbVars, workerVars
<1>8. ASSUME NEW w \in Workers, ClaimCommit(w) PROVE RowsEvolve
  <2> DEFINE u == job[w].task
  <2>1. u \in Tasks /\ row[u] \in Row /\ Consistent(row[u])
        /\ row[u].status = "queued"
    BY <1>8 DEF ClaimCommit, Inv, TypeOK, RowConsistent, JobInv, InJob, SelectedIsQueued, Active, Held
  <2>2. row' = [row EXCEPT ![u] = LeasedTo(row[u], w)]
    BY <1>8 DEF ClaimCommit
  <2>3. Evolves(row[u], LeasedTo(row[u], w))
    BY <2>1, LeasedToEvolves
  <2> HIDE DEF u
  <2> QED BY <2>1, <2>2, <2>3, OneRow
<1>9. ASSUME NEW w \in Workers, MarkRunning(w) PROVE RowsEvolve
  <2> DEFINE u == job[w].task
  <2>1. u \in Tasks /\ row[u] \in Row /\ Consistent(row[u])
    BY <1>9 DEF MarkRunning, Inv, TypeOK, RowConsistent, JobInv, InJob
  <2>2. CASE row[job[w].task].owner = w /\ row[job[w].task].status = "leased"
    <3>1. row' = [row EXCEPT ![u] = Running(row[u])] /\ row[u].status = "leased"
      BY <1>9, <2>2 DEF MarkRunning
    <3>2. Evolves(row[u], Running(row[u]))
      BY <2>1, <3>1, RunningEvolves
    <3> HIDE DEF u
    <3> QED BY <2>1, <3>1, <3>2, OneRow
  <2>3. CASE ~(row[job[w].task].owner = w /\ row[job[w].task].status = "leased")
    BY <1>9, <2>3, SameRows DEF MarkRunning
  <2> QED BY <2>2, <2>3
<1>10. ASSUME NEW w \in Workers, Succeed(w) PROVE RowsEvolve
  <2> DEFINE u == job[w].task
  <2>1. u \in Tasks /\ row[u] \in Row /\ Consistent(row[u])
    BY <1>10 DEF Succeed, Inv, TypeOK, RowConsistent, JobInv, InJob
  <2>2. CASE Owns(w, job[w].task)
    <3>1. row' = [row EXCEPT ![u] = Done(row[u])] /\ row[u].status \in Held
      BY <1>10, <2>2 DEF Succeed, Owns
    <3>2. Evolves(row[u], Done(row[u]))
      BY <2>1, <3>1, DoneEvolves
    <3> HIDE DEF u
    <3> QED BY <2>1, <3>1, <3>2, OneRow
  <2>3. CASE ~(Owns(w, job[w].task))
    BY <1>10, <2>3, SameRows DEF Succeed
  <2> QED BY <2>2, <2>3
<1>11. ASSUME NEW w \in Workers, FailLost(w) PROVE RowsEvolve
  BY <1>11, SameRows DEF FailLost, dbVars, workerVars
<1>12. ASSUME NEW w \in Workers, FailRead(w) PROVE RowsEvolve
  BY <1>12, SameRows DEF FailRead, dbVars, workerVars
<1>13. ASSUME NEW w \in Workers, FailWrite(w) PROVE RowsEvolve
  <2> DEFINE u == job[w].task
             n == job[w].seen + 1
             d == IF n >= MaxAttempts THEN row[u].due ELSE FALSE
  <2>1. u \in Tasks /\ row[u] \in Row /\ Consistent(row[u]) /\ row[u].status # "absent"
    BY <1>13 DEF FailWrite, Inv, TypeOK, RowConsistent, JobInv, InJob
  <2>2. n \in 0..MaxAttempts
    BY <1>13 DEF FailWrite, Inv, TypeOK, JobInv, InJob
  <2>3. d \in BOOLEAN
    BY <2>1 DEF Row
  <2>4. row' = [row EXCEPT ![u] = Released(row[u], n, d)]
    BY <1>13 DEF FailWrite
  <2> HIDE DEF u, n, d
  <2>5. Evolves(row[u], Released(row[u], n, d))
    BY <2>1, <2>2, <2>3, ReleasedEvolves
  <2> QED BY <2>1, <2>4, <2>5, OneRow
<1>14. ASSUME NEW w \in Workers, Heartbeat(w) PROVE RowsEvolve
  <2> DEFINE u == job[w].task
  <2>1. u \in Tasks /\ row[u] \in Row /\ Consistent(row[u])
    BY <1>14 DEF Heartbeat, Inv, TypeOK, RowConsistent, JobInv, InJob
  <2>2. CASE Owns(w, job[w].task)
    <3>1. row' = [row EXCEPT ![u] = WithLease(row[u], "live")] /\ row[u].status \in Held
      BY <1>14, <2>2 DEF Heartbeat, Owns
    <3>2. Evolves(row[u], WithLease(row[u], "live"))
      BY <2>1, <3>1, WithLeaseEvolves
    <3> HIDE DEF u
    <3> QED BY <2>1, <3>1, <3>2, OneRow
  <2>3. CASE ~(Owns(w, job[w].task))
    BY <1>14, <2>3, SameRows DEF Heartbeat
  <2> QED BY <2>2, <2>3
<1>15. ASSUME NEW w \in Workers, Restart(w) PROVE RowsEvolve
  BY <1>15, SameRows DEF Restart, dbVars, workerVars
<1>16. ASSUME NEW t \in Tasks, Retry(t) PROVE RowsEvolve
  <2> DEFINE u == t
  <2>1. u \in Tasks /\ row[u] \in Row /\ Consistent(row[u]) /\ row[u].status # "absent"
    BY <1>16 DEF Retry, Inv, TypeOK, RowConsistent, JobInv, InJob, SelectedIsQueued, Active, Held
  <2>2. row' = [row EXCEPT ![u] = Requeued(row[u])]
    BY <1>16 DEF Retry
  <2>3. Evolves(row[u], Requeued(row[u]))
    BY <2>1, RequeuedEvolves
  <2> HIDE DEF u
  <2> QED BY <2>1, <2>2, <2>3, OneRow
<1>17. ASSUME NEW t \in Tasks, Cancel(t) PROVE RowsEvolve
  <2> DEFINE u == t
  <2>1. u \in Tasks /\ row[u] \in Row /\ Consistent(row[u]) /\ row[u].status # "absent"
    BY <1>17 DEF Cancel, Inv, TypeOK, RowConsistent, JobInv, InJob, SelectedIsQueued, Active, Held
  <2>2. row' = [row EXCEPT ![u] = Parked(row[u])]
    BY <1>17 DEF Cancel
  <2>3. Evolves(row[u], Parked(row[u]))
    BY <2>1, ParkedEvolves
  <2> HIDE DEF u
  <2> QED BY <2>1, <2>2, <2>3, OneRow
<1>18. ASSUME NEW r \in Repos, NEW s \in [cap : Ceilings, enabled : BOOLEAN], SetRunner(r, s) PROVE RowsEvolve
  BY <1>18, SameRows DEF SetRunner, dbVars, workerVars
<1>19. ASSUME NEW t \in Tasks, LeaseExpires(t) PROVE RowsEvolve
  <2> DEFINE u == t
  <2>1. u \in Tasks /\ row[u] \in Row /\ Consistent(row[u]) /\ row[u].status \in Held
    BY <1>19 DEF LeaseExpires, Inv, TypeOK, RowConsistent, JobInv, InJob, SelectedIsQueued, Active, Held
  <2>2. row' = [row EXCEPT ![u] = WithLease(row[u], "expired")]
    BY <1>19 DEF LeaseExpires
  <2>3. Evolves(row[u], WithLease(row[u], "expired"))
    BY <2>1, WithLeaseEvolves
  <2> HIDE DEF u
  <2> QED BY <2>1, <2>2, <2>3, OneRow
<1>20. ASSUME NEW t \in Tasks, BecomesDue(t) PROVE RowsEvolve
  <2> DEFINE u == t
  <2>1. u \in Tasks /\ row[u] \in Row /\ Consistent(row[u])
    BY <1>20 DEF BecomesDue, Inv, TypeOK, RowConsistent, JobInv, InJob, SelectedIsQueued, Active, Held
  <2>2. row' = [row EXCEPT ![u] = NowDue(row[u])]
    BY <1>20 DEF BecomesDue
  <2>3. Evolves(row[u], NowDue(row[u]))
    BY <2>1, NowDueEvolves
  <2> HIDE DEF u
  <2> QED BY <2>1, <2>2, <2>3, OneRow
<1>21. ASSUME NEW w \in Workers, Crash(w) PROVE RowsEvolve
  BY <1>21, SameRows DEF Crash, dbVars, workerVars
<1>22. ASSUME NEW w \in Workers, HeartbeatDies(w) PROVE RowsEvolve
  BY <1>22, SameRows DEF HeartbeatDies, dbVars, workerVars
<1>23. ASSUME NEW t \in Tasks, Stall(t) PROVE RowsEvolve
  <2> DEFINE u == t
  <2>1. u \in Tasks /\ row[u] \in Row /\ Consistent(row[u]) /\ row[u].status \in Held
    BY <1>23 DEF Stall, Inv, TypeOK, RowConsistent, JobInv, InJob, SelectedIsQueued, Active, Held
  <2>2. row' = [row EXCEPT ![u] = WithLease(row[u], "expired")]
    BY <1>23 DEF Stall
  <2>3. Evolves(row[u], WithLease(row[u], "expired"))
    BY <2>1, WithLeaseEvolves
  <2> HIDE DEF u
  <2> QED BY <2>1, <2>2, <2>3, OneRow
<1>24. CASE UNCHANGED vars
  BY <1>24, SameRows DEF vars
<1> QED
  BY <1>1, <1>2, <1>3, <1>4, <1>5, <1>6, <1>7, <1>8, <1>9, <1>10, <1>11,
     <1>12, <1>13, <1>14, <1>15, <1>16, <1>17, <1>18, <1>19, <1>20, <1>21,
     <1>22, <1>23, <1>24
  DEF Next, Produce, Step, Operate, Tick, Fault

\* The parts of RowsNext in the form the other conjuncts use.
LEMMA TypeRow == ASSUME Inv, [Next]_vars PROVE row' \in [Tasks -> Row]
BY RowsNext DEF RowsEvolve

LEMMA RowStays ==
    ASSUME Inv, [Next]_vars
    PROVE  \A t \in Tasks : row[t].status # "absent" => row'[t].status # "absent"
BY RowsNext DEF RowsEvolve, Evolves

LEMMA ConsistentNext == ASSUME Inv, [Next]_vars PROVE RowConsistent'
BY RowsNext DEF RowsEvolve, Evolves, RowConsistent

LEMMA TypeNext == ASSUME Inv, [Next]_vars PROVE TypeOK'
<1>1. ASSUME NEW p \in Producers, EnqueueInsert(p) PROVE TypeOK'
  BY <1>1, TypeRow DEF EnqueueInsert, workerVars, Inv, TypeOK
<1>2. ASSUME NEW p \in Producers, NEW q \in Request, EnqueueCheck(p, q) PROVE TypeOK'
  BY <1>2, TypeRow DEF EnqueueCheck, LeaveBlock, NoJob, dbVars, workerVars, Inv, TypeOK, Pc
<1>3. ASSUME NEW w \in Workers, Reclaim(w) PROVE TypeOK'
  BY <1>3, TypeRow DEF Reclaim, LeaveBlock, NoJob, dbVars, workerVars, Inv, TypeOK, Pc
<1>4. ASSUME NEW w \in Workers, ClaimBegin(w) PROVE TypeOK'
  BY <1>4, TypeRow DEF ClaimBegin, LeaveBlock, NoJob, dbVars, workerVars, Inv, TypeOK, Pc
<1>5. ASSUME NEW w \in Workers, NEW r \in Repos, ClaimLock(w, r) PROVE TypeOK'
  BY <1>5, TypeRow DEF ClaimLock, LeaveBlock, NoJob, dbVars, workerVars, Inv, TypeOK, Pc
<1>6. ASSUME NEW w \in Workers, ClaimNothing(w) PROVE TypeOK'
  BY <1>6, TypeRow DEF ClaimNothing, LeaveBlock, NoJob, dbVars, workerVars, Inv, TypeOK, Pc
<1>7. ASSUME NEW w \in Workers, NEW t \in Tasks, ClaimSelect(w, t) PROVE TypeOK'
  <2>1. row[t].attempts \in 0..MaxAttempts
    BY DEF Inv, TypeOK, Row
  <2> QED BY <1>7, <2>1, TypeRow DEF ClaimSelect, dbVars, Inv, TypeOK, Pc
<1>8. ASSUME NEW w \in Workers, ClaimCommit(w) PROVE TypeOK'
  BY <1>8, TypeRow DEF ClaimCommit, LeaveBlock, NoJob, dbVars, workerVars, Inv, TypeOK, Pc
<1>9. ASSUME NEW w \in Workers, MarkRunning(w) PROVE TypeOK'
  BY <1>9, TypeRow DEF MarkRunning, LeaveBlock, NoJob, dbVars, workerVars, Inv, TypeOK, Pc
<1>10. ASSUME NEW w \in Workers, Succeed(w) PROVE TypeOK'
  BY <1>10, TypeRow DEF Succeed, LeaveBlock, NoJob, dbVars, workerVars, Inv, TypeOK, Pc
<1>11. ASSUME NEW w \in Workers, FailLost(w) PROVE TypeOK'
  BY <1>11, TypeRow DEF FailLost, LeaveBlock, NoJob, dbVars, workerVars, Inv, TypeOK, Pc
<1>12. ASSUME NEW w \in Workers, FailRead(w) PROVE TypeOK'
  <2>1. row[job[w].task].attempts \in 0..MaxAttempts
    BY <1>12 DEF FailRead, Inv, TypeOK, JobInv, InJob, Row
  <2> QED BY <1>12, <2>1, TypeRow DEF FailRead, dbVars, Inv, TypeOK, Pc
<1>13. ASSUME NEW w \in Workers, FailWrite(w) PROVE TypeOK'
  <2>1. /\ pc' = [pc EXCEPT ![w] = "idle"]
        /\ job' = [job EXCEPT ![w] = NoJob]
        /\ beat' = [beat EXCEPT ![w] = FALSE]
        /\ UNCHANGED <<runner, prod, want, locked, ops, faults>>
    BY <1>13 DEF FailWrite, LeaveBlock
  <2> QED BY <2>1, TypeRow DEF NoJob, Inv, TypeOK, Pc
<1>14. ASSUME NEW w \in Workers, Heartbeat(w) PROVE TypeOK'
  BY <1>14, TypeRow DEF Heartbeat, LeaveBlock, NoJob, dbVars, workerVars, Inv, TypeOK, Pc
<1>15. ASSUME NEW w \in Workers, Restart(w) PROVE TypeOK'
  BY <1>15, TypeRow DEF Restart, LeaveBlock, NoJob, dbVars, workerVars, Inv, TypeOK, Pc
<1>16. ASSUME NEW t \in Tasks, Retry(t) PROVE TypeOK'
  BY <1>16, TypeRow DEF Retry, LeaveBlock, NoJob, dbVars, workerVars, Inv, TypeOK, Pc
<1>17. ASSUME NEW t \in Tasks, Cancel(t) PROVE TypeOK'
  BY <1>17, TypeRow DEF Cancel, LeaveBlock, NoJob, dbVars, workerVars, Inv, TypeOK, Pc
<1>18. ASSUME NEW r \in Repos, NEW s \in [cap : Ceilings, enabled : BOOLEAN], SetRunner(r, s) PROVE TypeOK'
  BY <1>18, TypeRow DEF SetRunner, LeaveBlock, NoJob, dbVars, workerVars, Inv, TypeOK, Pc
<1>19. ASSUME NEW t \in Tasks, LeaseExpires(t) PROVE TypeOK'
  BY <1>19, TypeRow DEF LeaseExpires, LeaveBlock, NoJob, dbVars, workerVars, Inv, TypeOK, Pc
<1>20. ASSUME NEW t \in Tasks, BecomesDue(t) PROVE TypeOK'
  BY <1>20, TypeRow DEF BecomesDue, LeaveBlock, NoJob, dbVars, workerVars, Inv, TypeOK, Pc
<1>21. ASSUME NEW w \in Workers, Crash(w) PROVE TypeOK'
  BY <1>21, TypeRow DEF Crash, LeaveBlock, NoJob, dbVars, workerVars, Inv, TypeOK, Pc
<1>22. ASSUME NEW w \in Workers, HeartbeatDies(w) PROVE TypeOK'
  BY <1>22, TypeRow DEF HeartbeatDies, LeaveBlock, NoJob, dbVars, workerVars, Inv, TypeOK, Pc
<1>23. ASSUME NEW t \in Tasks, Stall(t) PROVE TypeOK'
  BY <1>23, TypeRow DEF Stall, LeaveBlock, NoJob, dbVars, workerVars, Inv, TypeOK, Pc
<1>24. CASE UNCHANGED vars
  BY <1>24, TypeRow DEF vars, Inv, TypeOK
<1> QED
  BY <1>1, <1>2, <1>3, <1>4, <1>5, <1>6, <1>7, <1>8, <1>9, <1>10, <1>11,
     <1>12, <1>13, <1>14, <1>15, <1>16, <1>17, <1>18, <1>19, <1>20, <1>21,
     <1>22, <1>23, <1>24
  DEF Next, Produce, Step, Operate, Tick, Fault

LEMMA JobNext == ASSUME Inv, [Next]_vars PROVE JobInv'
<1>1. ASSUME NEW p \in Producers, EnqueueInsert(p) PROVE JobInv'
  BY <1>1, RowStays DEF EnqueueInsert, LeaveBlock, dbVars, workerVars, Inv, TypeOK, JobInv, InJob
<1>2. ASSUME NEW p \in Producers, NEW q \in Request, EnqueueCheck(p, q) PROVE JobInv'
  BY <1>2, RowStays DEF EnqueueCheck, LeaveBlock, dbVars, workerVars, Inv, TypeOK, JobInv, InJob
<1>3. ASSUME NEW w \in Workers, Reclaim(w) PROVE JobInv'
  BY <1>3, RowStays DEF Reclaim, LeaveBlock, dbVars, workerVars, Inv, TypeOK, JobInv, InJob
<1>4. ASSUME NEW w \in Workers, ClaimBegin(w) PROVE JobInv'
  BY <1>4, RowStays DEF ClaimBegin, LeaveBlock, dbVars, workerVars, Inv, TypeOK, JobInv, InJob
<1>5. ASSUME NEW w \in Workers, NEW r \in Repos, ClaimLock(w, r) PROVE JobInv'
  BY <1>5, RowStays DEF ClaimLock, LeaveBlock, dbVars, workerVars, Inv, TypeOK, JobInv, InJob
<1>6. ASSUME NEW w \in Workers, ClaimNothing(w) PROVE JobInv'
  BY <1>6, RowStays DEF ClaimNothing, LeaveBlock, dbVars, workerVars, Inv, TypeOK, JobInv, InJob
<1>7. ASSUME NEW w \in Workers, NEW t \in Tasks, ClaimSelect(w, t) PROVE JobInv'
  BY <1>7, RowStays DEF ClaimSelect, Claimable, dbVars, Inv, TypeOK, JobInv, InJob
<1>8. ASSUME NEW w \in Workers, ClaimCommit(w) PROVE JobInv'
  BY <1>8, RowStays DEF ClaimCommit, Inv, TypeOK, JobInv, InJob
<1>9. ASSUME NEW w \in Workers, MarkRunning(w) PROVE JobInv'
  BY <1>9, RowStays DEF MarkRunning, LeaveBlock, dbVars, workerVars, Inv, TypeOK, JobInv, InJob
<1>10. ASSUME NEW w \in Workers, Succeed(w) PROVE JobInv'
  BY <1>10, RowStays DEF Succeed, LeaveBlock, dbVars, workerVars, Inv, TypeOK, JobInv, InJob
<1>11. ASSUME NEW w \in Workers, FailLost(w) PROVE JobInv'
  BY <1>11, RowStays DEF FailLost, LeaveBlock, dbVars, workerVars, Inv, TypeOK, JobInv, InJob
<1>12. ASSUME NEW w \in Workers, FailRead(w) PROVE JobInv'
  <2>1. row[job[w].task].attempts < MaxAttempts /\ row[job[w].task].attempts \in 0..MaxAttempts
    BY <1>12 DEF FailRead, Owns, Inv, TypeOK, JobInv, InJob, Row, RowConsistent, Consistent, Active, Held
  <2> QED BY <1>12, <2>1, RowStays DEF FailRead, dbVars, Inv, TypeOK, JobInv, InJob
<1>13. ASSUME NEW w \in Workers, FailWrite(w) PROVE JobInv'
  BY <1>13, RowStays DEF FailWrite, LeaveBlock, dbVars, workerVars, Inv, TypeOK, JobInv, InJob
<1>14. ASSUME NEW w \in Workers, Heartbeat(w) PROVE JobInv'
  BY <1>14, RowStays DEF Heartbeat, LeaveBlock, dbVars, workerVars, Inv, TypeOK, JobInv, InJob
<1>15. ASSUME NEW w \in Workers, Restart(w) PROVE JobInv'
  BY <1>15, RowStays DEF Restart, LeaveBlock, dbVars, workerVars, Inv, TypeOK, JobInv, InJob
<1>16. ASSUME NEW t \in Tasks, Retry(t) PROVE JobInv'
  BY <1>16, RowStays DEF Retry, LeaveBlock, dbVars, workerVars, Inv, TypeOK, JobInv, InJob
<1>17. ASSUME NEW t \in Tasks, Cancel(t) PROVE JobInv'
  BY <1>17, RowStays DEF Cancel, LeaveBlock, dbVars, workerVars, Inv, TypeOK, JobInv, InJob
<1>18. ASSUME NEW r \in Repos, NEW s \in [cap : Ceilings, enabled : BOOLEAN], SetRunner(r, s) PROVE JobInv'
  BY <1>18, RowStays DEF SetRunner, LeaveBlock, dbVars, workerVars, Inv, TypeOK, JobInv, InJob
<1>19. ASSUME NEW t \in Tasks, LeaseExpires(t) PROVE JobInv'
  BY <1>19, RowStays DEF LeaseExpires, LeaveBlock, dbVars, workerVars, Inv, TypeOK, JobInv, InJob
<1>20. ASSUME NEW t \in Tasks, BecomesDue(t) PROVE JobInv'
  BY <1>20, RowStays DEF BecomesDue, LeaveBlock, dbVars, workerVars, Inv, TypeOK, JobInv, InJob
<1>21. ASSUME NEW w \in Workers, Crash(w) PROVE JobInv'
  BY <1>21, RowStays DEF Crash, LeaveBlock, dbVars, workerVars, Inv, TypeOK, JobInv, InJob
<1>22. ASSUME NEW w \in Workers, HeartbeatDies(w) PROVE JobInv'
  BY <1>22, RowStays DEF HeartbeatDies, LeaveBlock, dbVars, workerVars, Inv, TypeOK, JobInv, InJob
<1>23. ASSUME NEW t \in Tasks, Stall(t) PROVE JobInv'
  BY <1>23, RowStays DEF Stall, LeaveBlock, dbVars, workerVars, Inv, TypeOK, JobInv, InJob
<1>24. CASE UNCHANGED vars
  BY <1>24, RowStays DEF vars, Inv, JobInv, TypeOK
<1> QED
  BY <1>1, <1>2, <1>3, <1>4, <1>5, <1>6, <1>7, <1>8, <1>9, <1>10, <1>11,
     <1>12, <1>13, <1>14, <1>15, <1>16, <1>17, <1>18, <1>19, <1>20, <1>21,
     <1>22, <1>23, <1>24
  DEF Next, Produce, Step, Operate, Tick, Fault

-----------------------------------------------------------------------------
(* A row selected by a claim is not touched until the claim commits, and a *)
(* row becomes held by no other step than that commit.                     *)

Commits(t) == \E w \in Workers : pc[w] = "selected" /\ pc'[w] = "claimed" /\ job[w].task = t

Kept ==
    \A t \in Tasks :
        /\ RowLocked(t) => \/ Commits(t)
                           \/ /\ row'[t].status = row[t].status
                              /\ row'[t].attempts = row[t].attempts
        /\ row'[t].status \in Held => row[t].status \in Held \/ Commits(t)

LEMMA KeptNext == ASSUME Inv, [Next]_vars PROVE Kept
<1>1. ASSUME NEW p \in Producers, EnqueueInsert(p) PROVE Kept
  <2>1. prod[p] \in Request
    BY <1>1 DEF EnqueueInsert, Inv, TypeOK
  <2>2. PICK t \in Tasks : row[t].status = "absent" /\ row' = [row EXCEPT ![t] = NewRow(prod[p])]
    BY <1>1 DEF EnqueueInsert
  <2>3. NewRow(prod[p]).status = "queued"
    BY DEF NewRow
  <2>4. ~RowLocked(t)
    BY <2>2 DEF Inv, SelectedIsQueued, RowLocked
  <2> QED BY <2>2, <2>3, <2>4 DEF Kept, Held, Inv, TypeOK
<1>2. ASSUME NEW p \in Producers, NEW q \in Request, EnqueueCheck(p, q) PROVE Kept
  BY <1>2 DEF EnqueueCheck, Kept, dbVars, workerVars
<1>3. ASSUME NEW w \in Workers, Reclaim(w) PROVE Kept
  <2> SUFFICES ASSUME NEW t \in Tasks
               PROVE  /\ RowLocked(t) => row'[t] = row[t]
                      /\ row'[t].status \in Held => row[t].status \in Held
    BY DEF Kept
  <2>1. RowLocked(t) => ~Abandoned(t)
    BY DEF Inv, SelectedIsQueued, RowLocked, Abandoned, Held
  <2>2. Abandoned(t) => row[t].status \in Held
    BY DEF Abandoned
  <2> QED BY <1>3, <2>1, <2>2 DEF Reclaim
<1>4. ASSUME NEW w \in Workers, ClaimBegin(w) PROVE Kept
  BY <1>4 DEF ClaimBegin, Kept, dbVars, workerVars
<1>5. ASSUME NEW w \in Workers, NEW r \in Repos, ClaimLock(w, r) PROVE Kept
  BY <1>5 DEF ClaimLock, Kept, dbVars, workerVars
<1>6. ASSUME NEW w \in Workers, ClaimNothing(w) PROVE Kept
  BY <1>6 DEF ClaimNothing, Kept, dbVars, workerVars
<1>7. ASSUME NEW w \in Workers, NEW t \in Tasks, ClaimSelect(w, t) PROVE Kept
  BY <1>7 DEF ClaimSelect, Kept, dbVars, workerVars
<1>8. ASSUME NEW w \in Workers, ClaimCommit(w) PROVE Kept
  <2>1. job[w].task \in Tasks /\ pc[w] = "selected" /\ pc'[w] = "claimed"
    BY <1>8 DEF ClaimCommit, Inv, TypeOK, JobInv, InJob
  <2>2. Commits(job[w].task)
    BY <2>1 DEF Commits
  <2>3. \A t \in Tasks : t # job[w].task => row'[t] = row[t]
    BY <1>8 DEF ClaimCommit, Inv, TypeOK
  <2> QED BY <2>2, <2>3 DEF Kept
<1>9. ASSUME NEW w \in Workers, MarkRunning(w) PROVE Kept
  <2> DEFINE u == job[w].task
  <2>1. u \in Tasks /\ row[u] \in Row /\ Consistent(row[u])
    BY <1>9 DEF MarkRunning, Inv, TypeOK, RowConsistent, JobInv, InJob
  <2>2. CASE row[job[w].task].owner = w /\ row[job[w].task].status = "leased"
    <3>1. row' = [row EXCEPT ![u] = Running(row[u])] /\ row[u].status \in Held
      BY <1>9, <2>2 DEF MarkRunning, Held
    <3>2. ~RowLocked(u)
      BY <3>1 DEF Inv, SelectedIsQueued, RowLocked, Held
    <3> HIDE DEF u
    <3> QED BY <2>1, <3>1, <3>2 DEF Kept, Inv, TypeOK
  <2>3. CASE ~(row[job[w].task].owner = w /\ row[job[w].task].status = "leased")
    BY <1>9, <2>3 DEF MarkRunning, Kept
  <2> QED BY <2>2, <2>3
<1>10. ASSUME NEW w \in Workers, Succeed(w) PROVE Kept
  <2> DEFINE u == job[w].task
  <2>1. u \in Tasks /\ row[u] \in Row /\ Consistent(row[u])
    BY <1>10 DEF Succeed, Inv, TypeOK, RowConsistent, JobInv, InJob
  <2>2. CASE Owns(w, job[w].task)
    <3>1. row' = [row EXCEPT ![u] = Done(row[u])] /\ row[u].status \in Held
      BY <1>10, <2>2 DEF Succeed, Held, Owns
    <3>2. ~RowLocked(u)
      BY <3>1 DEF Inv, SelectedIsQueued, RowLocked, Held
    <3> HIDE DEF u
    <3> QED BY <2>1, <3>1, <3>2 DEF Kept, Inv, TypeOK
  <2>3. CASE ~(Owns(w, job[w].task))
    BY <1>10, <2>3 DEF Succeed, Kept
  <2> QED BY <2>2, <2>3
<1>11. ASSUME NEW w \in Workers, FailLost(w) PROVE Kept
  BY <1>11 DEF FailLost, Kept, dbVars, workerVars
<1>12. ASSUME NEW w \in Workers, FailRead(w) PROVE Kept
  BY <1>12 DEF FailRead, Kept, dbVars, workerVars
<1>13. ASSUME NEW w \in Workers, FailWrite(w) PROVE Kept
  <2> DEFINE u == job[w].task
             n == job[w].seen + 1
             d == IF n >= MaxAttempts THEN row[u].due ELSE FALSE
  <2>1. u \in Tasks /\ row[u] \in Row /\ Consistent(row[u]) /\ row[u].status # "absent"
    BY <1>13 DEF FailWrite, Inv, TypeOK, RowConsistent, JobInv, InJob
  <2>2. n \in 0..MaxAttempts
    BY <1>13 DEF FailWrite, Inv, TypeOK, JobInv, InJob
  <2>3. d \in BOOLEAN
    BY <2>1 DEF Row
  <2>4. row' = [row EXCEPT ![u] = Released(row[u], n, d)] /\ ~RowLocked(u)
    BY <1>13 DEF FailWrite
  <2> HIDE DEF u, n, d
  <2>5. Released(row[u], n, d).status \in {"queued", "dead"}
    BY <2>1, <2>2, <2>3, ReleasedEvolves
  <2> QED BY <2>1, <2>4, <2>5 DEF Kept, Held, Inv, TypeOK
<1>14. ASSUME NEW w \in Workers, Heartbeat(w) PROVE Kept
  <2> DEFINE u == job[w].task
  <2>1. u \in Tasks /\ row[u] \in Row /\ Consistent(row[u])
    BY <1>14 DEF Heartbeat, Inv, TypeOK, RowConsistent, JobInv, InJob
  <2>2. CASE Owns(w, job[w].task)
    <3>1. row' = [row EXCEPT ![u] = WithLease(row[u], "live")] /\ row[u].status \in Held
      BY <1>14, <2>2 DEF Heartbeat, Held, Owns
    <3>2. ~RowLocked(u)
      BY <3>1 DEF Inv, SelectedIsQueued, RowLocked, Held
    <3> HIDE DEF u
    <3> QED BY <2>1, <3>1, <3>2 DEF Kept, Inv, TypeOK
  <2>3. CASE ~(Owns(w, job[w].task))
    BY <1>14, <2>3 DEF Heartbeat, Kept
  <2> QED BY <2>2, <2>3
<1>15. ASSUME NEW w \in Workers, Restart(w) PROVE Kept
  BY <1>15 DEF Restart, Kept, dbVars, workerVars
<1>16. ASSUME NEW t \in Tasks, Retry(t) PROVE Kept
  <2>1. row[t] \in Row /\ Consistent(row[t]) /\ row[t].status = "dead"
    BY <1>16 DEF Retry, Inv, TypeOK, RowConsistent, Active, Held
  <2>2. row' = [row EXCEPT ![t] = Requeued(row[t])]
    BY <1>16 DEF Retry
  <2>3. ~RowLocked(t) /\ Requeued(row[t]).status = "queued"
    BY <1>16, <2>1, RequeuedEvolves DEF Retry, Inv, SelectedIsQueued, RowLocked, Held
  <2> QED BY <2>1, <2>2, <2>3 DEF Kept, Inv, TypeOK, Held
<1>17. ASSUME NEW t \in Tasks, Cancel(t) PROVE Kept
  <2>1. row[t] \in Row /\ Consistent(row[t]) /\ row[t].status # "absent"
    BY <1>17 DEF Cancel, Inv, TypeOK, RowConsistent, Active, Held
  <2>2. row' = [row EXCEPT ![t] = Parked(row[t])]
    BY <1>17 DEF Cancel
  <2>3. ~RowLocked(t) /\ Parked(row[t]).status = "dead"
    BY <1>17, <2>1, ParkedEvolves DEF Cancel, Inv, SelectedIsQueued, RowLocked, Held
  <2> QED BY <2>1, <2>2, <2>3 DEF Kept, Inv, TypeOK, Held
<1>18. ASSUME NEW r \in Repos, NEW s \in [cap : Ceilings, enabled : BOOLEAN], SetRunner(r, s) PROVE Kept
  BY <1>18 DEF SetRunner, Kept, dbVars, workerVars
<1>19. ASSUME NEW t \in Tasks, LeaseExpires(t) PROVE Kept
  <2>1. row[t] \in Row /\ Consistent(row[t]) /\ row[t].status \in Held
    BY <1>19 DEF LeaseExpires, Inv, TypeOK, RowConsistent, Active, Held
  <2>2. row' = [row EXCEPT ![t] = WithLease(row[t], "expired")]
    BY <1>19 DEF LeaseExpires
  <2>3. ~RowLocked(t)
    BY <1>19, <2>1 DEF LeaseExpires, Inv, SelectedIsQueued, RowLocked, Held
  <2> QED BY <2>1, <2>2, <2>3 DEF Kept, Inv, TypeOK, Held
<1>20. ASSUME NEW t \in Tasks, BecomesDue(t) PROVE Kept
  <2>1. row[t] \in Row /\ Consistent(row[t]) /\ row[t].status = "queued"
    BY <1>20 DEF BecomesDue, Inv, TypeOK, RowConsistent, Active, Held
  <2>2. row' = [row EXCEPT ![t] = NowDue(row[t])]
    BY <1>20 DEF BecomesDue
  <2>3. NowDue(row[t]).status = row[t].status /\ NowDue(row[t]).attempts = row[t].attempts
    BY <1>20, <2>1, NowDueEvolves DEF BecomesDue, Inv, SelectedIsQueued, RowLocked, Held
  <2> QED BY <2>1, <2>2, <2>3 DEF Kept, Inv, TypeOK, Held
<1>21. ASSUME NEW w \in Workers, Crash(w) PROVE Kept
  BY <1>21 DEF Crash, Kept, dbVars, workerVars
<1>22. ASSUME NEW w \in Workers, HeartbeatDies(w) PROVE Kept
  BY <1>22 DEF HeartbeatDies, Kept, dbVars, workerVars
<1>23. ASSUME NEW t \in Tasks, Stall(t) PROVE Kept
  <2>1. row[t] \in Row /\ Consistent(row[t]) /\ row[t].status \in Held
    BY <1>23 DEF Stall, Inv, TypeOK, RowConsistent, Active, Held
  <2>2. row' = [row EXCEPT ![t] = WithLease(row[t], "expired")]
    BY <1>23 DEF Stall
  <2>3. ~RowLocked(t)
    BY <1>23, <2>1 DEF Stall, Inv, SelectedIsQueued, RowLocked, Held
  <2> QED BY <2>1, <2>2, <2>3 DEF Kept, Inv, TypeOK, Held
<1>24. CASE UNCHANGED vars
  BY <1>24 DEF vars, Kept
<1> QED
  BY <1>1, <1>2, <1>3, <1>4, <1>5, <1>6, <1>7, <1>8, <1>9, <1>10, <1>11,
     <1>12, <1>13, <1>14, <1>15, <1>16, <1>17, <1>18, <1>19, <1>20, <1>21,
     <1>22, <1>23, <1>24
  DEF Next, Produce, Step, Operate, Tick, Fault

LEMMA SelectedKept ==
    ASSUME Inv, [Next]_vars,
           \A v \in Workers : pc'[v] = "selected" => pc[v] = "selected" /\ job'[v] = job[v],
           \A v \in Workers : pc[v] = "selected" => pc'[v] # "claimed"
    PROVE  SelectedIsQueued'
<1>1. \A t \in Tasks : RowLocked(t) => /\ row'[t].status = row[t].status
                                       /\ row'[t].attempts = row[t].attempts
  BY KeptNext DEF Kept, Commits
<1> QED BY <1>1 DEF SelectedIsQueued, RowLocked, Inv

LEMMA SelectedNext == ASSUME Inv, [Next]_vars PROVE SelectedIsQueued'
<1>1. ASSUME NEW p \in Producers, EnqueueInsert(p) PROVE SelectedIsQueued'
  <2>1. \A v \in Workers : pc'[v] = "selected" => pc[v] = "selected" /\ job'[v] = job[v]
    BY <1>1 DEF EnqueueInsert, LeaveBlock, dbVars, workerVars, Inv, TypeOK
  <2>2. \A v \in Workers : pc[v] = "selected" => pc'[v] # "claimed"
    BY <1>1 DEF EnqueueInsert, LeaveBlock, dbVars, workerVars, Inv, TypeOK
  <2> QED BY <2>1, <2>2, SelectedKept
<1>2. ASSUME NEW p \in Producers, NEW q \in Request, EnqueueCheck(p, q) PROVE SelectedIsQueued'
  <2>1. \A v \in Workers : pc'[v] = "selected" => pc[v] = "selected" /\ job'[v] = job[v]
    BY <1>2 DEF EnqueueCheck, LeaveBlock, dbVars, workerVars, Inv, TypeOK
  <2>2. \A v \in Workers : pc[v] = "selected" => pc'[v] # "claimed"
    BY <1>2 DEF EnqueueCheck, LeaveBlock, dbVars, workerVars, Inv, TypeOK
  <2> QED BY <2>1, <2>2, SelectedKept
<1>3. ASSUME NEW w \in Workers, Reclaim(w) PROVE SelectedIsQueued'
  <2>1. \A v \in Workers : pc'[v] = "selected" => pc[v] = "selected" /\ job'[v] = job[v]
    BY <1>3 DEF Reclaim, LeaveBlock, dbVars, workerVars, Inv, TypeOK
  <2>2. \A v \in Workers : pc[v] = "selected" => pc'[v] # "claimed"
    BY <1>3 DEF Reclaim, LeaveBlock, dbVars, workerVars, Inv, TypeOK
  <2> QED BY <2>1, <2>2, SelectedKept
<1>4. ASSUME NEW w \in Workers, ClaimBegin(w) PROVE SelectedIsQueued'
  <2>1. \A v \in Workers : pc'[v] = "selected" => pc[v] = "selected" /\ job'[v] = job[v]
    BY <1>4 DEF ClaimBegin, LeaveBlock, dbVars, workerVars, Inv, TypeOK
  <2>2. \A v \in Workers : pc[v] = "selected" => pc'[v] # "claimed"
    BY <1>4 DEF ClaimBegin, LeaveBlock, dbVars, workerVars, Inv, TypeOK
  <2> QED BY <2>1, <2>2, SelectedKept
<1>5. ASSUME NEW w \in Workers, NEW r \in Repos, ClaimLock(w, r) PROVE SelectedIsQueued'
  <2>1. \A v \in Workers : pc'[v] = "selected" => pc[v] = "selected" /\ job'[v] = job[v]
    BY <1>5 DEF ClaimLock, LeaveBlock, dbVars, workerVars, Inv, TypeOK
  <2>2. \A v \in Workers : pc[v] = "selected" => pc'[v] # "claimed"
    BY <1>5 DEF ClaimLock, LeaveBlock, dbVars, workerVars, Inv, TypeOK
  <2> QED BY <2>1, <2>2, SelectedKept
<1>6. ASSUME NEW w \in Workers, ClaimNothing(w) PROVE SelectedIsQueued'
  <2>1. \A v \in Workers : pc'[v] = "selected" => pc[v] = "selected" /\ job'[v] = job[v]
    BY <1>6 DEF ClaimNothing, LeaveBlock, dbVars, workerVars, Inv, TypeOK
  <2>2. \A v \in Workers : pc[v] = "selected" => pc'[v] # "claimed"
    BY <1>6 DEF ClaimNothing, LeaveBlock, dbVars, workerVars, Inv, TypeOK
  <2> QED BY <2>1, <2>2, SelectedKept
<1>7. ASSUME NEW w \in Workers, NEW t \in Tasks, ClaimSelect(w, t) PROVE SelectedIsQueued'
  <2>1. /\ pc' = [pc EXCEPT ![w] = "selected"]
        /\ job' = [job EXCEPT ![w] = [task |-> t, attempt |-> row[t].attempts, seen |-> 0]]
        /\ row' = row
        /\ row[t].status = "queued" /\ ~RowLocked(t)
    BY <1>7 DEF ClaimSelect, Claimable, dbVars
  <2>2. job'[w].task = t /\ job'[w].attempt = row[t].attempts
    BY <2>1 DEF Inv, TypeOK
  <2>3. \A v \in Workers \ {w} : pc'[v] = pc[v] /\ job'[v] = job[v]
    BY <2>1 DEF Inv, TypeOK
  <2> QED BY <2>1, <2>2, <2>3 DEF Inv, SelectedIsQueued, RowLocked
<1>8. ASSUME NEW w \in Workers, ClaimCommit(w) PROVE SelectedIsQueued'
  <2>1. /\ pc[w] = "selected" /\ pc'[w] = "claimed" /\ job' = job
        /\ \A v \in Workers \ {w} : pc'[v] = pc[v]
    BY <1>8 DEF ClaimCommit, Inv, TypeOK
  <2>2. \A s \in Tasks \ {job[w].task} : row'[s] = row[s]
    BY <1>8 DEF ClaimCommit, Inv, TypeOK
  <2>3. \A v \in Workers : pc'[v] = "selected" =>
          v # w /\ pc[v] = "selected" /\ job[v].task \in Tasks \ {job[w].task}
    BY <2>1 DEF Inv, SelectedIsQueued
  <2>4. \A v \in Workers : pc'[v] = "selected" => row'[job[v].task] = row[job[v].task]
    BY <2>2, <2>3
  <2> QED BY <2>1, <2>3, <2>4 DEF Inv, SelectedIsQueued
<1>9. ASSUME NEW w \in Workers, MarkRunning(w) PROVE SelectedIsQueued'
  <2>1. \A v \in Workers : pc'[v] = "selected" => pc[v] = "selected" /\ job'[v] = job[v]
    BY <1>9 DEF MarkRunning, LeaveBlock, dbVars, workerVars, Inv, TypeOK
  <2>2. \A v \in Workers : pc[v] = "selected" => pc'[v] # "claimed"
    BY <1>9 DEF MarkRunning, LeaveBlock, dbVars, workerVars, Inv, TypeOK
  <2> QED BY <2>1, <2>2, SelectedKept
<1>10. ASSUME NEW w \in Workers, Succeed(w) PROVE SelectedIsQueued'
  <2>1. \A v \in Workers : pc'[v] = "selected" => pc[v] = "selected" /\ job'[v] = job[v]
    BY <1>10 DEF Succeed, LeaveBlock, dbVars, workerVars, Inv, TypeOK
  <2>2. \A v \in Workers : pc[v] = "selected" => pc'[v] # "claimed"
    BY <1>10 DEF Succeed, LeaveBlock, dbVars, workerVars, Inv, TypeOK
  <2> QED BY <2>1, <2>2, SelectedKept
<1>11. ASSUME NEW w \in Workers, FailLost(w) PROVE SelectedIsQueued'
  <2>1. \A v \in Workers : pc'[v] = "selected" => pc[v] = "selected" /\ job'[v] = job[v]
    BY <1>11 DEF FailLost, LeaveBlock, dbVars, workerVars, Inv, TypeOK
  <2>2. \A v \in Workers : pc[v] = "selected" => pc'[v] # "claimed"
    BY <1>11 DEF FailLost, LeaveBlock, dbVars, workerVars, Inv, TypeOK
  <2> QED BY <2>1, <2>2, SelectedKept
<1>12. ASSUME NEW w \in Workers, FailRead(w) PROVE SelectedIsQueued'
  <2>1. \A v \in Workers : pc'[v] = "selected" => pc[v] = "selected" /\ job'[v] = job[v]
    BY <1>12 DEF FailRead, LeaveBlock, dbVars, workerVars, Inv, TypeOK
  <2>2. \A v \in Workers : pc[v] = "selected" => pc'[v] # "claimed"
    BY <1>12 DEF FailRead, LeaveBlock, dbVars, workerVars, Inv, TypeOK
  <2> QED BY <2>1, <2>2, SelectedKept
<1>13. ASSUME NEW w \in Workers, FailWrite(w) PROVE SelectedIsQueued'
  <2>1. \A v \in Workers : pc'[v] = "selected" => pc[v] = "selected" /\ job'[v] = job[v]
    BY <1>13 DEF FailWrite, LeaveBlock, dbVars, workerVars, Inv, TypeOK
  <2>2. \A v \in Workers : pc[v] = "selected" => pc'[v] # "claimed"
    BY <1>13 DEF FailWrite, LeaveBlock, dbVars, workerVars, Inv, TypeOK
  <2> QED BY <2>1, <2>2, SelectedKept
<1>14. ASSUME NEW w \in Workers, Heartbeat(w) PROVE SelectedIsQueued'
  <2>1. \A v \in Workers : pc'[v] = "selected" => pc[v] = "selected" /\ job'[v] = job[v]
    BY <1>14 DEF Heartbeat, LeaveBlock, dbVars, workerVars, Inv, TypeOK
  <2>2. \A v \in Workers : pc[v] = "selected" => pc'[v] # "claimed"
    BY <1>14 DEF Heartbeat, LeaveBlock, dbVars, workerVars, Inv, TypeOK
  <2> QED BY <2>1, <2>2, SelectedKept
<1>15. ASSUME NEW w \in Workers, Restart(w) PROVE SelectedIsQueued'
  <2>1. \A v \in Workers : pc'[v] = "selected" => pc[v] = "selected" /\ job'[v] = job[v]
    BY <1>15 DEF Restart, LeaveBlock, dbVars, workerVars, Inv, TypeOK
  <2>2. \A v \in Workers : pc[v] = "selected" => pc'[v] # "claimed"
    BY <1>15 DEF Restart, LeaveBlock, dbVars, workerVars, Inv, TypeOK
  <2> QED BY <2>1, <2>2, SelectedKept
<1>16. ASSUME NEW t \in Tasks, Retry(t) PROVE SelectedIsQueued'
  <2>1. \A v \in Workers : pc'[v] = "selected" => pc[v] = "selected" /\ job'[v] = job[v]
    BY <1>16 DEF Retry, LeaveBlock, dbVars, workerVars, Inv, TypeOK
  <2>2. \A v \in Workers : pc[v] = "selected" => pc'[v] # "claimed"
    BY <1>16 DEF Retry, LeaveBlock, dbVars, workerVars, Inv, TypeOK
  <2> QED BY <2>1, <2>2, SelectedKept
<1>17. ASSUME NEW t \in Tasks, Cancel(t) PROVE SelectedIsQueued'
  <2>1. \A v \in Workers : pc'[v] = "selected" => pc[v] = "selected" /\ job'[v] = job[v]
    BY <1>17 DEF Cancel, LeaveBlock, dbVars, workerVars, Inv, TypeOK
  <2>2. \A v \in Workers : pc[v] = "selected" => pc'[v] # "claimed"
    BY <1>17 DEF Cancel, LeaveBlock, dbVars, workerVars, Inv, TypeOK
  <2> QED BY <2>1, <2>2, SelectedKept
<1>18. ASSUME NEW r \in Repos, NEW s \in [cap : Ceilings, enabled : BOOLEAN], SetRunner(r, s) PROVE SelectedIsQueued'
  <2>1. \A v \in Workers : pc'[v] = "selected" => pc[v] = "selected" /\ job'[v] = job[v]
    BY <1>18 DEF SetRunner, LeaveBlock, dbVars, workerVars, Inv, TypeOK
  <2>2. \A v \in Workers : pc[v] = "selected" => pc'[v] # "claimed"
    BY <1>18 DEF SetRunner, LeaveBlock, dbVars, workerVars, Inv, TypeOK
  <2> QED BY <2>1, <2>2, SelectedKept
<1>19. ASSUME NEW t \in Tasks, LeaseExpires(t) PROVE SelectedIsQueued'
  <2>1. \A v \in Workers : pc'[v] = "selected" => pc[v] = "selected" /\ job'[v] = job[v]
    BY <1>19 DEF LeaseExpires, LeaveBlock, dbVars, workerVars, Inv, TypeOK
  <2>2. \A v \in Workers : pc[v] = "selected" => pc'[v] # "claimed"
    BY <1>19 DEF LeaseExpires, LeaveBlock, dbVars, workerVars, Inv, TypeOK
  <2> QED BY <2>1, <2>2, SelectedKept
<1>20. ASSUME NEW t \in Tasks, BecomesDue(t) PROVE SelectedIsQueued'
  <2>1. \A v \in Workers : pc'[v] = "selected" => pc[v] = "selected" /\ job'[v] = job[v]
    BY <1>20 DEF BecomesDue, LeaveBlock, dbVars, workerVars, Inv, TypeOK
  <2>2. \A v \in Workers : pc[v] = "selected" => pc'[v] # "claimed"
    BY <1>20 DEF BecomesDue, LeaveBlock, dbVars, workerVars, Inv, TypeOK
  <2> QED BY <2>1, <2>2, SelectedKept
<1>21. ASSUME NEW w \in Workers, Crash(w) PROVE SelectedIsQueued'
  <2>1. \A v \in Workers : pc'[v] = "selected" => pc[v] = "selected" /\ job'[v] = job[v]
    BY <1>21 DEF Crash, LeaveBlock, dbVars, workerVars, Inv, TypeOK
  <2>2. \A v \in Workers : pc[v] = "selected" => pc'[v] # "claimed"
    BY <1>21 DEF Crash, LeaveBlock, dbVars, workerVars, Inv, TypeOK
  <2> QED BY <2>1, <2>2, SelectedKept
<1>22. ASSUME NEW w \in Workers, HeartbeatDies(w) PROVE SelectedIsQueued'
  <2>1. \A v \in Workers : pc'[v] = "selected" => pc[v] = "selected" /\ job'[v] = job[v]
    BY <1>22 DEF HeartbeatDies, LeaveBlock, dbVars, workerVars, Inv, TypeOK
  <2>2. \A v \in Workers : pc[v] = "selected" => pc'[v] # "claimed"
    BY <1>22 DEF HeartbeatDies, LeaveBlock, dbVars, workerVars, Inv, TypeOK
  <2> QED BY <2>1, <2>2, SelectedKept
<1>23. ASSUME NEW t \in Tasks, Stall(t) PROVE SelectedIsQueued'
  <2>1. \A v \in Workers : pc'[v] = "selected" => pc[v] = "selected" /\ job'[v] = job[v]
    BY <1>23 DEF Stall, LeaveBlock, dbVars, workerVars, Inv, TypeOK
  <2>2. \A v \in Workers : pc[v] = "selected" => pc'[v] # "claimed"
    BY <1>23 DEF Stall, LeaveBlock, dbVars, workerVars, Inv, TypeOK
  <2> QED BY <2>1, <2>2, SelectedKept
<1>24. CASE UNCHANGED vars
  BY <1>24, KeptNext DEF vars, Kept, Commits, RowLocked, Inv, SelectedIsQueued
<1> QED
  BY <1>1, <1>2, <1>3, <1>4, <1>5, <1>6, <1>7, <1>8, <1>9, <1>10, <1>11,
     <1>12, <1>13, <1>14, <1>15, <1>16, <1>17, <1>18, <1>19, <1>20, <1>21,
     <1>22, <1>23, <1>24
  DEF Next, Produce, Step, Operate, Tick, Fault

-----------------------------------------------------------------------------
LEMMA InvNext == Inv /\ [Next]_vars => Inv'
BY TypeNext, ConsistentNext, JobNext, SelectedNext DEF Inv

THEOREM InvHolds == Spec => []Inv
BY InitInv, InvNext, PTL DEF Spec

\* Every variable keeps its type, whatever the number of workers, tasks and
\* repositories: in particular no attempts counter passes max_attempts.
THEOREM TypeCorrect == Spec => []TypeOK
BY InvHolds, PTL DEF Inv

\* The lease columns of every row agree with its status after any
\* interleaving of claims, outcomes, sweeps, stale fail() writes and operator
\* actions, and a claimable row has attempts left.
THEOREM RowsConsistent == Spec => []RowConsistent
BY InvHolds, PTL DEF Inv

\* No task row is selected by two claims, and the row a claim selected is
\* still queued when the claim commits.
THEOREM NoDoubleClaim == Spec => []SelectedIsQueued
BY InvHolds, PTL DEF Inv

-----------------------------------------------------------------------------
(* The throttle of enqueue.  Without operators and faults a worker in its   *)
(* with-block still owns its row, so no write brings a settled row back and *)
(* only an insert adds to the active rows of a repository.                  *)

Calm == ops = 0 /\ faults = 0
Block == {"claimed", "working", "failing"}

CalmInv ==
    Calm => \A w \in Workers : pc[w] \in Block =>
        beat[w] /\ Owns(w, job[w].task) /\ row[job[w].task].lease = "live"

\* What a step of the workers does to a row that worker v owns, if it is not
\* v's own step.
Untouched(t) == /\ row'[t].owner = row[t].owner
                /\ row'[t].status \in Held <=> row[t].status \in Held
                /\ row'[t].lease = row[t].lease

\* Operators and faults are only counted up.
LEMMA CalmBefore == ASSUME Inv, [Next]_vars, Calm' PROVE Calm /\ ~Operate /\ ~Fault
<1>1. ops \in Nat /\ faults \in Nat
  BY DEF Inv, TypeOK
<1>2. ~Operate
  BY <1>1 DEF Calm, Operate, Retry, Cancel, SetRunner
<1>3. ~Fault
  BY <1>1 DEF Calm, Fault, Crash, HeartbeatDies, Stall
<1>4. Calm
  BY <1>2, <1>3 DEF Calm, Next, Produce, EnqueueInsert, EnqueueCheck, Step, Reclaim, ClaimBegin,
     ClaimLock, ClaimNothing, ClaimSelect, ClaimCommit, MarkRunning, Succeed, FailLost, FailRead,
     FailWrite, Heartbeat, Restart, Tick, LeaseExpires, BecomesDue, vars
<1> QED BY <1>2, <1>3, <1>4

\* In calm, two workers in their blocks have different tasks.
LEMMA BlocksApart ==
    ASSUME Inv, CalmInv, Calm, NEW v \in Workers, NEW w \in Workers, v # w,
           pc[v] \in Block, pc[w] \in Block
    PROVE  job[v].task # job[w].task
BY DEF CalmInv, Owns

\* Who is in a block after the step was there before, and its row was let alone.
LEMMA CalmFrame ==
    ASSUME Inv, CalmInv, Calm,
           \A v \in Workers : pc'[v] \in Block =>
               /\ pc[v] \in Block /\ job'[v].task = job[v].task /\ beat'[v] = beat[v]
               /\ Untouched(job[v].task)
    PROVE  CalmInv'
BY DEF CalmInv, Untouched, Owns

\* A worker in its block owns a row that exists and is not due for a sweep.
LEMMA CalmRow ==
    ASSUME Inv, CalmInv, Calm, NEW v \in Workers, pc[v] \in Block
    PROVE  /\ job[v].task \in Tasks /\ beat[v] /\ Owns(v, job[v].task)
           /\ row[job[v].task].status \in Held /\ row[job[v].task].lease = "live"
           /\ Renewed(job[v].task) /\ ~Abandoned(job[v].task)
<1>1. pc[v] \in InJob
  BY DEF Block, InJob
<1>2. job[v].task \in Tasks
  BY <1>1 DEF Inv, JobInv
<1> QED BY <1>2 DEF CalmInv, Owns, Renewed, Abandoned

\* In calm a worker never loses its lease.
LEMMA CalmNext == ASSUME Inv, CalmInv, [Next]_vars PROVE CalmInv'
<1> SUFFICES ASSUME Calm' PROVE CalmInv'
  BY DEF CalmInv
<1>0. Calm /\ ~Operate /\ ~Fault
  BY CalmBefore
<1>a. row \in [Tasks -> Row] /\ pc \in [Workers -> Pc]
      /\ job \in [Workers -> [task : Tasks \cup {NoTask}, attempt : 0..MaxAttempts,
                              seen : 0..MaxAttempts]]
      /\ beat \in [Workers -> BOOLEAN]
  BY DEF Inv, TypeOK
<1>b. ASSUME NEW t \in Tasks, NEW y, row' = [row EXCEPT ![t] = y]
      PROVE  \A s \in Tasks : s # t => Untouched(s)
  BY <1>a, <1>b DEF Untouched
<1>c. ASSUME row' = row PROVE \A s \in Tasks : Untouched(s)
  BY <1>c DEF Untouched
<1>1. ASSUME NEW p \in Producers, EnqueueInsert(p) PROVE CalmInv'
  <2>1. PICK t \in Tasks : row[t].status = "absent" /\ row' = [row EXCEPT ![t] = NewRow(prod[p])]
    BY <1>1 DEF EnqueueInsert
  <2>2. \A v \in Workers : pc[v] \in Block => job[v].task # t /\ job[v].task \in Tasks
    BY <1>0, <2>1, CalmRow DEF Held
  <2> QED BY <1>0, <1>1, <1>b, <2>1, <2>2, CalmFrame DEF EnqueueInsert, workerVars
<1>2. ASSUME NEW p \in Producers, NEW q \in Request, EnqueueCheck(p, q) PROVE CalmInv'
  BY <1>0, <1>2, <1>c, CalmRow, CalmFrame DEF EnqueueCheck, dbVars, workerVars
<1>3. ASSUME NEW w \in Workers, Reclaim(w) PROVE CalmInv'
  <2>1. \A v \in Workers : pc'[v] \in Block => pc[v] \in Block
    BY <1>3, <1>a DEF Reclaim, Block
  <2>2. \A v \in Workers : pc[v] \in Block => Untouched(job[v].task)
    <3> SUFFICES ASSUME NEW v \in Workers, pc[v] \in Block PROVE Untouched(job[v].task)
      OBVIOUS
    <3>1. job[v].task \in Tasks /\ ~Abandoned(job[v].task)
      BY <1>0, CalmRow
    <3>2. row'[job[v].task] = row[job[v].task]
      BY <1>3, <3>1 DEF Reclaim
    <3> QED BY <3>2 DEF Untouched
  <2> QED BY <1>0, <1>3, <2>1, <2>2, CalmFrame DEF Reclaim
<1>4. ASSUME NEW w \in Workers,
             \/ ClaimBegin(w) \/ ClaimNothing(w) \/ Restart(w) \/ FailLost(w)
             \/ (\E r \in Repos : ClaimLock(w, r)) \/ (\E t \in Tasks : ClaimSelect(w, t))
      PROVE CalmInv'
  <2>1. row' = row
    BY <1>4 DEF ClaimBegin, ClaimNothing, Restart, FailLost, ClaimLock, ClaimSelect, dbVars
  <2>2. \A v \in Workers : pc'[v] \in Block =>
            pc[v] \in Block /\ job'[v].task = job[v].task /\ beat'[v] = beat[v]
    BY <1>4, <1>a DEF ClaimBegin, ClaimNothing, Restart, FailLost, LeaveBlock, ClaimLock,
                      ClaimSelect, Block
  <2> QED BY <1>0, <1>c, <2>1, <2>2, CalmRow, CalmFrame
<1>5. ASSUME NEW w \in Workers, ClaimCommit(w) PROVE CalmInv'
  <2> DEFINE u == job[w].task
  <2>1. u \in Tasks /\ row[u] \in Row /\ row[u].status = "queued" /\ pc[w] = "selected"
    BY <1>5, <1>a DEF ClaimCommit, Inv, SelectedIsQueued
  <2>2. row' = [row EXCEPT ![u] = LeasedTo(row[u], w)]
    BY <1>5 DEF ClaimCommit
  <2>3. LeasedTo(row[u], w).owner = w /\ LeasedTo(row[u], w).status = "leased"
        /\ LeasedTo(row[u], w).lease = "live"
    BY <2>1 DEF LeasedTo, Row
  <2> HIDE DEF u
  <2>4. row'[u] = LeasedTo(row[u], w) /\ \A s \in Tasks : s # u => row'[s] = row[s]
    BY <1>a, <2>1, <2>2
  <2>5. /\ job' = job /\ beat'[w]
        /\ \A v \in Workers : v # w => pc'[v] = pc[v] /\ beat'[v] = beat[v]
    BY <1>5, <1>a DEF ClaimCommit
  <2> SUFFICES ASSUME NEW v \in Workers, pc'[v] \in Block
               PROVE  /\ beat'[v] /\ row'[job[v].task].owner = v
                      /\ row'[job[v].task].status \in Held /\ row'[job[v].task].lease = "live"
    BY <2>5 DEF CalmInv, Owns
  <2>6. CASE v = w
    BY <2>3, <2>4, <2>5, <2>6 DEF u, Held
  <2>7. CASE v # w
    <3>1. /\ pc[v] \in Block /\ job[v].task \in Tasks /\ row[job[v].task].owner = v
          /\ row[job[v].task].status \in Held /\ row[job[v].task].lease = "live" /\ beat[v]
      BY <1>0, <2>5, <2>7, CalmRow DEF Owns
    <3>2. job[v].task # u
      BY <2>1, <3>1 DEF Held
    <3> QED BY <2>4, <2>5, <2>7, <3>1, <3>2
  <2> QED BY <2>6, <2>7
<1>6. ASSUME NEW w \in Workers, MarkRunning(w) PROVE CalmInv'
  <2>1. pc[w] \in Block /\ job' = job /\ beat' = beat
    BY <1>6 DEF MarkRunning, Block
  <2>2. job[w].task \in Tasks /\ row[job[w].task] \in Row
    BY <1>0, <1>a, <2>1, CalmRow
  <2>3. \A s \in Tasks : Untouched(s)
    <3>1. CASE row' = row
      BY <1>c, <3>1
    <3>2. CASE /\ row[job[w].task].status = "leased"
               /\ row' = [row EXCEPT ![job[w].task] = Running(@)]
      <4>1. /\ Running(row[job[w].task]).owner = row[job[w].task].owner
            /\ Running(row[job[w].task]).lease = row[job[w].task].lease
            /\ Running(row[job[w].task]).status = "running"
        BY <2>2 DEF Running, Row
      <4> QED BY <1>a, <2>2, <3>2, <4>1 DEF Untouched, Held
    <3> QED BY <1>6, <3>1, <3>2 DEF MarkRunning
  <2>4. \A v \in Workers : pc'[v] \in Block => pc[v] \in Block
    BY <1>6, <1>a, <2>1 DEF MarkRunning
  <2> QED BY <1>0, <2>1, <2>3, <2>4, CalmRow, CalmFrame
<1>7. ASSUME NEW w \in Workers, Succeed(w) \/ FailWrite(w) PROVE CalmInv'
  <2>1. pc[w] \in Block /\ LeaveBlock(w)
    BY <1>7 DEF Succeed, FailWrite, Block
  <2>2. job[w].task \in Tasks
    BY <1>0, <2>1, CalmRow
  <2>3. \A s \in Tasks : s # job[w].task => Untouched(s)
    BY <1>7, <1>b, <1>c, <2>2 DEF Succeed, FailWrite
  <2>4. \A v \in Workers : pc'[v] \in Block =>
            v # w /\ pc[v] \in Block /\ job'[v] = job[v] /\ beat'[v] = beat[v]
    BY <1>a, <2>1 DEF LeaveBlock, Block
  <2>5. \A v \in Workers : pc'[v] \in Block => Untouched(job[v].task)
    BY <1>0, <2>1, <2>3, <2>4, CalmRow, BlocksApart
  <2> QED BY <1>0, <2>4, <2>5, CalmFrame
<1>8. ASSUME NEW w \in Workers, FailRead(w) PROVE CalmInv'
  <2>1. row' = row /\ beat' = beat
    BY <1>8 DEF FailRead, dbVars
  <2>2. \A v \in Workers : pc'[v] \in Block => pc[v] \in Block /\ job'[v].task = job[v].task
    BY <1>8, <1>a DEF FailRead, Block
  <2> QED BY <1>0, <1>c, <2>1, <2>2, CalmRow, CalmFrame
<1>9. ASSUME NEW w \in Workers, Heartbeat(w) PROVE CalmInv'
  BY <1>0, <1>9, CalmRow DEF Heartbeat, Block
<1>10. ASSUME NEW t \in Tasks, LeaseExpires(t) PROVE CalmInv'
  <2>1. \A v \in Workers : pc[v] \in Block => job[v].task # t /\ job[v].task \in Tasks
    BY <1>0, <1>10, CalmRow DEF LeaseExpires
  <2>2. row' = [row EXCEPT ![t] = WithLease(row[t], "expired")] /\ UNCHANGED workerVars
    BY <1>10 DEF LeaseExpires
  <2> QED BY <1>0, <1>b, <2>1, <2>2, CalmFrame DEF workerVars
<1>11. ASSUME NEW t \in Tasks, BecomesDue(t) PROVE CalmInv'
  <2>1. \A v \in Workers : pc[v] \in Block => job[v].task # t /\ job[v].task \in Tasks
    BY <1>0, <1>11, CalmRow DEF BecomesDue, Held
  <2>2. row' = [row EXCEPT ![t] = NowDue(row[t])] /\ UNCHANGED workerVars
    BY <1>11 DEF BecomesDue
  <2> QED BY <1>0, <1>b, <2>1, <2>2, CalmFrame DEF workerVars
<1>12. CASE UNCHANGED vars
  BY <1>0, <1>12, <1>c, CalmRow, CalmFrame DEF vars
<1> QED
  BY <1>0, <1>1, <1>2, <1>3, <1>4, <1>5, <1>6, <1>7, <1>8, <1>9, <1>10, <1>11, <1>12
  DEF Next, Produce, Step, Tick

\* Requests of a repository that passed the throttle and are not inserted yet.
Pending(r) == {p \in Producers : prod[p].repo = r}

\* No row becomes active, and no producer passes or inserts.
NoneAdmitted ==
    /\ UNCHANGED <<prod, runner>>
    /\ \A t \in Tasks : row'[t].status \in Active => row[t].status \in Active

\* In calm only an insert makes a row active, and only of an absent one.
LEMMA Admission ==
    ASSUME Inv, CalmInv, [Next]_vars, Calm'
    PROVE  \/ \E p \in Producers : EnqueueInsert(p)
           \/ \E p \in Producers, q \in Request : EnqueueCheck(p, q)
           \/ NoneAdmitted
<1>0. Calm /\ ~Operate /\ ~Fault
  BY CalmBefore
<1>a. row \in [Tasks -> Row]
  BY DEF Inv, TypeOK
<1>b. ASSUME NEW t \in Tasks, NEW y, row' = [row EXCEPT ![t] = y], row[t].status \in Active,
             UNCHANGED <<prod, runner>>
      PROVE  NoneAdmitted
  BY <1>a, <1>b DEF NoneAdmitted
<1>1. ASSUME NEW w \in Workers, Reclaim(w) PROVE NoneAdmitted
  <2>1. \A t \in Tasks : Abandoned(t) => row[t].status \in Active
    BY DEF Abandoned, Active
  <2>2. \A t \in Tasks : ~Abandoned(t) => row'[t] = row[t]
    BY <1>1 DEF Reclaim
  <2> QED BY <1>1, <2>1, <2>2 DEF Reclaim, NoneAdmitted
<1>2. ASSUME NEW w \in Workers,
             \/ ClaimBegin(w) \/ ClaimNothing(w) \/ Restart(w) \/ FailLost(w) \/ FailRead(w)
             \/ (\E r \in Repos : ClaimLock(w, r)) \/ (\E t \in Tasks : ClaimSelect(w, t))
      PROVE  NoneAdmitted
  BY <1>2 DEF ClaimBegin, ClaimNothing, Restart, FailLost, FailRead, ClaimLock, ClaimSelect,
              dbVars, NoneAdmitted
<1>3. ASSUME NEW w \in Workers, ClaimCommit(w) PROVE NoneAdmitted
  BY <1>3, <1>b DEF ClaimCommit, Inv, SelectedIsQueued, Active
<1>4. ASSUME NEW w \in Workers, MarkRunning(w) \/ Succeed(w) \/ FailWrite(w) \/ Heartbeat(w)
      PROVE  NoneAdmitted
  <2>1. pc[w] \in Block
    BY <1>4 DEF MarkRunning, Succeed, FailWrite, Heartbeat, Block
  <2>2. job[w].task \in Tasks /\ row[job[w].task].status \in Active
    BY <1>0, <2>1, CalmRow DEF Active
  <2>3. UNCHANGED <<prod, runner>> /\ (row' = row \/ \E y : row' = [row EXCEPT ![job[w].task] = y])
    BY <1>4 DEF MarkRunning, Succeed, FailWrite, Heartbeat
  <2> QED BY <1>b, <2>2, <2>3 DEF NoneAdmitted
<1>5. ASSUME NEW t \in Tasks, LeaseExpires(t) \/ BecomesDue(t) PROVE NoneAdmitted
  BY <1>5, <1>b DEF LeaseExpires, BecomesDue, Active
<1>6. CASE UNCHANGED vars
  BY <1>6 DEF vars, NoneAdmitted
<1> QED
  BY <1>0, <1>1, <1>2, <1>3, <1>4, <1>5, <1>6 DEF Next, Produce, Step, Tick

\* The sets the throttle counts are finite.
LEMMA CountsFinite ==
    ASSUME NEW r
    PROVE  /\ IsFiniteSet(ActiveOf(r)) /\ Cardinality(ActiveOf(r)) \in Nat
           /\ IsFiniteSet(ActiveOf(r)') /\ Cardinality(ActiveOf(r)') \in Nat
           /\ IsFiniteSet(Pending(r)) /\ Cardinality(Pending(r)) \in Nat
           /\ IsFiniteSet(Pending(r)') /\ Cardinality(Pending(r)') \in Nat
           /\ Cardinality(Pending(r)') <= Cardinality(Producers)
           /\ Cardinality(Producers) \in Nat
<1>1. ActiveOf(r) \subseteq Tasks /\ ActiveOf(r)' \subseteq Tasks
  BY DEF ActiveOf
<1>2. Pending(r) \subseteq Producers /\ Pending(r)' \subseteq Producers
  BY DEF Pending
<1>3. IsFiniteSet(ActiveOf(r)) /\ IsFiniteSet(ActiveOf(r)')
  BY <1>1, FS_Subset
<1>4. /\ IsFiniteSet(Pending(r)) /\ IsFiniteSet(Pending(r)')
      /\ Cardinality(Pending(r)') <= Cardinality(Producers)
  BY <1>2, ProducerAssumption, FS_Subset
<1> QED BY <1>3, <1>4, ProducerAssumption, FS_CardinalityType

\* A step keeps the bound on the active and pending requests of a repository.
LEMMA OvershootNext ==
    ASSUME Inv, CalmInv, ThrottleOvershoot, [Next]_vars PROVE ThrottleOvershoot'
<1> DEFINE A(r) == Cardinality(ActiveOf(r))
           P(r) == Cardinality(Pending(r))
<1> SUFFICES ASSUME Calm', NEW r \in Repos, ThrottleOf(r)' > 0
             PROVE  Cardinality(ActiveOf(r)') + Cardinality(Pending(r)')
                      <= ThrottleOf(r)' + Cardinality(Producers) - 1
  BY DEF ThrottleOvershoot, Calm, Pending
<1>0. Calm
  BY CalmBefore
<1>a. runner' = runner => ThrottleOf(r)' = ThrottleOf(r)
  BY DEF ThrottleOf
<1>b. ThrottleOf(r) \in Nat
  BY DEF ThrottleOf, Inv, TypeOK
<1>c. runner' = runner =>
        A(r) + P(r) <= ThrottleOf(r) + Cardinality(Producers) - 1
  BY <1>0, <1>a DEF ThrottleOvershoot, Calm, Pending
<1>d. row \in [Tasks -> Row] /\ prod \in [Producers -> Request \cup {NoRequest}]
  BY DEF Inv, TypeOK
<1>e. NoRequest.repo = NoRepo /\ r # NoRepo
  BY DEF NoRequest
<1>1. CASE NoneAdmitted
  <2>1. runner' = runner /\ Pending(r)' = Pending(r)
    BY <1>1 DEF NoneAdmitted, Pending
  <2>2. ActiveOf(r)' \subseteq ActiveOf(r)
    <3> SUFFICES ASSUME NEW t \in Tasks, row'[t].repo = r, row'[t].status \in Active
                 PROVE  row[t].repo = r /\ row[t].status \in Active
      BY DEF ActiveOf
    <3>1. row[t].status \in Active
      BY <1>1 DEF NoneAdmitted
    <3>2. row'[t].repo = row[t].repo
      BY <3>1, RowsNext DEF RowsEvolve, Evolves, Active, Held
    <3> QED BY <3>1, <3>2
  <2>3. Cardinality(ActiveOf(r)') <= A(r)
    BY <2>2, CountsFinite, FS_Subset
  <2> QED BY <1>a, <1>b, <1>c, <2>1, <2>3, CountsFinite
<1>2. ASSUME NEW p \in Producers, NEW q \in Request, EnqueueCheck(p, q)
      PROVE  Cardinality(ActiveOf(r)') + Cardinality(Pending(r)')
               <= ThrottleOf(r)' + Cardinality(Producers) - 1
  <2>1. runner' = runner /\ row' = row /\ prod[p] = NoRequest
        /\ prod' = [prod EXCEPT ![p] = q]
    BY <1>2 DEF EnqueueCheck, dbVars
  <2>2. ActiveOf(r)' = ActiveOf(r)
    BY <2>1 DEF ActiveOf
  <2>3. CASE q.repo = r
    <3>1. A(r) < ThrottleOf(r)
      BY <1>2, <1>a, <2>1, <2>3 DEF EnqueueCheck
    <3> QED BY <1>a, <1>b, <2>1, <2>2, <3>1, CountsFinite
  <2>4. CASE q.repo # r
    <3>1. Pending(r)' = Pending(r)
      BY <1>d, <1>e, <2>1, <2>4 DEF Pending
    <3> QED BY <1>a, <1>c, <2>1, <2>2, <3>1
  <2> QED BY <2>3, <2>4
<1>3. ASSUME NEW p \in Producers, EnqueueInsert(p)
      PROVE  Cardinality(ActiveOf(r)') + Cardinality(Pending(r)')
               <= ThrottleOf(r)' + Cardinality(Producers) - 1
  <2>1. PICK t \in Tasks : row[t].status = "absent" /\ row' = [row EXCEPT ![t] = NewRow(prod[p])]
    BY <1>3 DEF EnqueueInsert
  <2>2. runner' = runner /\ prod[p] \in Request /\ prod' = [prod EXCEPT ![p] = NoRequest]
    BY <1>3, <1>d DEF EnqueueInsert
  <2>3. NewRow(prod[p]).repo = prod[p].repo /\ NewRow(prod[p]).status = "queued"
    BY DEF NewRow
  <2>4. row'[t] = NewRow(prod[p]) /\ \A s \in Tasks : s # t => row'[s] = row[s]
    BY <1>d, <2>1
  <2>5. CASE prod[p].repo = r
    <3>1. t \notin ActiveOf(r) /\ ActiveOf(r)' = ActiveOf(r) \cup {t}
      BY <2>1, <2>3, <2>4, <2>5 DEF ActiveOf, Active, Held
    <3>2. p \in Pending(r) /\ Pending(r)' = Pending(r) \ {p}
      BY <1>d, <1>e, <2>2, <2>5 DEF Pending
    <3>3. Cardinality(ActiveOf(r)') = A(r) + 1
      BY <3>1, CountsFinite, FS_AddElement
    <3>4. Cardinality(Pending(r)') = P(r) - 1
      BY <3>2, CountsFinite, FS_RemoveElement
    <3> QED BY <1>a, <1>b, <1>c, <2>2, <3>3, <3>4, CountsFinite
  <2>6. CASE prod[p].repo # r
    <3>1. ActiveOf(r)' = ActiveOf(r)
      BY <2>1, <2>3, <2>4, <2>6 DEF ActiveOf, Active, Held
    <3>2. Pending(r)' = Pending(r)
      BY <1>d, <1>e, <2>2, <2>6 DEF Pending
    <3> QED BY <1>a, <1>c, <2>2, <3>1, <3>2
  <2> QED BY <2>5, <2>6
<1> QED BY <1>1, <1>2, <1>3, Admission

\* An empty queue with idle producers is under every throttle.
LEMMA CalmInit == Init => CalmInv /\ ThrottleOvershoot
<1> SUFFICES ASSUME Init PROVE CalmInv /\ ThrottleOvershoot
  OBVIOUS
<1>1. CalmInv
  BY DEF Init, CalmInv, Block
<1>2. ASSUME NEW r \in Repos, ThrottleOf(r) > 0
      PROVE  Cardinality(ActiveOf(r)) + Cardinality(Pending(r))
               <= ThrottleOf(r) + Cardinality(Producers) - 1
  <2>1. ActiveOf(r) = {} /\ Pending(r) = {}
    BY DEF Init, ActiveOf, Pending, NoRow, NoRequest, Active, Held
  <2>2. ThrottleOf(r) \in Nat
    BY DEF Init, ThrottleOf
  <2> QED BY <1>2, <2>1, <2>2, CountsFinite, FS_EmptySet
<1>3. ThrottleOvershoot
  BY <1>2 DEF ThrottleOvershoot, Pending
<1> QED BY <1>1, <1>3

\* enqueue counts the active rows and inserts later, in another transaction:
\* racing producers overshoot the throttle of a repository, but by less than
\* their number, for any number of producers, as long as no operator action or
\* fault brings a settled row back.
THEOREM OvershootBounded == Spec => []ThrottleOvershoot
<1>1. Init => CalmInv /\ ThrottleOvershoot
  BY CalmInit
<1>2. Inv /\ CalmInv /\ ThrottleOvershoot /\ [Next]_vars => (CalmInv /\ ThrottleOvershoot)'
  BY CalmNext, OvershootNext
<1> QED BY <1>1, <1>2, InvHolds, PTL DEF Spec

-----------------------------------------------------------------------------
(***************************************************************************)
(* The action properties: only the lease holder completes a task, a lost   *)
(* lease stays lost, and max_concurrency is an exact bound.  The last      *)
(* rests on LockInv (runner locks are exclusive, and a claim that got as   *)
(* far as selecting a row holds the lock of every runner with a ceiling)   *)
(* and on SlotInv (while a claim has a row selected its repository has a   *)
(* free slot).                                                             *)
(***************************************************************************)

DoneStep ==
    \A t \in Tasks :
        row[t].status # "done" /\ row'[t].status = "done" =>
            \E w \in Workers : /\ Owns(w, t)
                               /\ job[w].task = t
                               /\ pc[w] = "working"
                               /\ pc'[w] = "idle"

LEMMA DoneNext == ASSUME Inv, [Next]_vars PROVE DoneStep
<1>1. ASSUME NEW p \in Producers, EnqueueInsert(p) PROVE DoneStep
  <2>1. PICK t \in Tasks : row' = [row EXCEPT ![t] = NewRow(prod[p])]
    BY <1>1 DEF EnqueueInsert
  <2>2. NewRow(prod[p]).status = "queued"
    BY DEF NewRow
  <2> QED BY <2>1, <2>2 DEF DoneStep, Inv, TypeOK
<1>2. ASSUME NEW p \in Producers, NEW q \in Request, EnqueueCheck(p, q) PROVE DoneStep
  BY <1>2 DEF EnqueueCheck, DoneStep, dbVars, workerVars
<1>3. ASSUME NEW w \in Workers, Reclaim(w) PROVE DoneStep
  <2> SUFFICES ASSUME NEW t \in Tasks, row[t].status # "done" PROVE row'[t].status # "done"
    BY DEF DoneStep
  <2>1. CASE ~Abandoned(t)
    BY <1>3, <2>1 DEF Reclaim
  <2>2. CASE Abandoned(t)
    <3>1. row[t] \in Row /\ Consistent(row[t])
      BY DEF Inv, TypeOK, RowConsistent
    <3>2. row[t].attempts + 1 \in 0..MaxAttempts /\ row[t].status # "absent"
      BY <2>2, <3>1 DEF Abandoned, Consistent, Row, Active, Held
    <3>3. Released(row[t], row[t].attempts + 1, TRUE).status \in {"queued", "dead"}
      BY <3>1, <3>2, ReleasedEvolves
    <3> QED BY <1>3, <2>2, <3>3 DEF Reclaim
  <2> QED BY <2>1, <2>2
<1>4. ASSUME NEW w \in Workers, ClaimBegin(w) PROVE DoneStep
  BY <1>4 DEF ClaimBegin, DoneStep, dbVars, workerVars
<1>5. ASSUME NEW w \in Workers, NEW r \in Repos, ClaimLock(w, r) PROVE DoneStep
  BY <1>5 DEF ClaimLock, DoneStep, dbVars, workerVars
<1>6. ASSUME NEW w \in Workers, ClaimNothing(w) PROVE DoneStep
  BY <1>6 DEF ClaimNothing, DoneStep, dbVars, workerVars
<1>7. ASSUME NEW w \in Workers, NEW t \in Tasks, ClaimSelect(w, t) PROVE DoneStep
  BY <1>7 DEF ClaimSelect, DoneStep, dbVars, workerVars
<1>8. ASSUME NEW w \in Workers, ClaimCommit(w) PROVE DoneStep
  <2> DEFINE u == job[w].task
  <2>1. u \in Tasks /\ row[u] \in Row /\ Consistent(row[u])
    BY <1>8 DEF ClaimCommit, Inv, TypeOK, RowConsistent, JobInv, InJob
  <2>2. DoneStep
    <3>1. row' = [row EXCEPT ![u] = LeasedTo(row[u], w)] /\ row[u].status = "queued"
      BY <1>8, <2>1 DEF ClaimCommit, Owns, Inv, SelectedIsQueued
    <3>2. LeasedTo(row[u], w).status # "done"
      BY <2>1, <3>1, LeasedToEvolves DEF Held
    <3> HIDE DEF u
    <3> QED BY <2>1, <3>1, <3>2 DEF DoneStep, Inv, TypeOK
  <2> QED BY <2>2
<1>9. ASSUME NEW w \in Workers, MarkRunning(w) PROVE DoneStep
  <2> DEFINE u == job[w].task
  <2>1. u \in Tasks /\ row[u] \in Row /\ Consistent(row[u])
    BY <1>9 DEF MarkRunning, Inv, TypeOK, RowConsistent, JobInv, InJob
  <2>2. CASE row[job[w].task].owner = w /\ row[job[w].task].status = "leased"
    <3>1. row' = [row EXCEPT ![u] = Running(row[u])] /\ row[u].status = "leased"
      BY <1>9, <2>1, <2>2 DEF MarkRunning, Owns, Inv, SelectedIsQueued
    <3>2. Running(row[u]).status # "done"
      BY <2>1, <3>1, RunningEvolves DEF Held
    <3> HIDE DEF u
    <3> QED BY <2>1, <3>1, <3>2 DEF DoneStep, Inv, TypeOK
  <2>3. CASE ~(row[job[w].task].owner = w /\ row[job[w].task].status = "leased")
    BY <1>9, <2>3 DEF MarkRunning, DoneStep
  <2> QED BY <2>2, <2>3
<1>10. ASSUME NEW w \in Workers, Succeed(w) PROVE DoneStep
  <2>1. job[w].task \in Tasks /\ pc[w] = "working" /\ pc'[w] = "idle"
    BY <1>10 DEF Succeed, LeaveBlock, Inv, TypeOK, JobInv, InJob
  <2>2. CASE Owns(w, job[w].task)
    <3>1. \A t \in Tasks \ {job[w].task} : row'[t] = row[t]
      BY <1>10, <2>2 DEF Succeed, Inv, TypeOK
    <3> QED BY <2>1, <2>2, <3>1 DEF DoneStep
  <2>3. CASE ~Owns(w, job[w].task)
    BY <1>10, <2>3 DEF Succeed, DoneStep
  <2> QED BY <2>2, <2>3
<1>11. ASSUME NEW w \in Workers, FailLost(w) PROVE DoneStep
  BY <1>11 DEF FailLost, DoneStep, dbVars, workerVars
<1>12. ASSUME NEW w \in Workers, FailRead(w) PROVE DoneStep
  BY <1>12 DEF FailRead, DoneStep, dbVars, workerVars
<1>13. ASSUME NEW w \in Workers, FailWrite(w) PROVE DoneStep
  <2> DEFINE u == job[w].task
             n == job[w].seen + 1
             d == IF n >= MaxAttempts THEN row[u].due ELSE FALSE
  <2>1. u \in Tasks /\ row[u] \in Row /\ Consistent(row[u]) /\ row[u].status # "absent"
    BY <1>13 DEF FailWrite, Inv, TypeOK, RowConsistent, JobInv, InJob
  <2>2. n \in 0..MaxAttempts
    BY <1>13 DEF FailWrite, Inv, TypeOK, JobInv, InJob
  <2>3. d \in BOOLEAN
    BY <2>1 DEF Row
  <2>4. row' = [row EXCEPT ![u] = Released(row[u], n, d)]
    BY <1>13 DEF FailWrite
  <2> HIDE DEF u, n, d
  <2>5. Released(row[u], n, d).status \in {"queued", "dead"}
    BY <2>1, <2>2, <2>3, ReleasedEvolves
  <2> QED BY <2>1, <2>4, <2>5 DEF DoneStep, Inv, TypeOK
<1>14. ASSUME NEW w \in Workers, Heartbeat(w) PROVE DoneStep
  <2> DEFINE u == job[w].task
  <2>1. u \in Tasks /\ row[u] \in Row /\ Consistent(row[u])
    BY <1>14 DEF Heartbeat, Inv, TypeOK, RowConsistent, JobInv, InJob
  <2>2. CASE Owns(w, job[w].task)
    <3>1. row' = [row EXCEPT ![u] = WithLease(row[u], "live")] /\ row[u].status \in Held
      BY <1>14, <2>1, <2>2 DEF Heartbeat, Owns, Inv, SelectedIsQueued
    <3>2. WithLease(row[u], "live").status # "done"
      BY <2>1, <3>1, WithLeaseEvolves DEF Held
    <3> HIDE DEF u
    <3> QED BY <2>1, <3>1, <3>2 DEF DoneStep, Inv, TypeOK
  <2>3. CASE ~(Owns(w, job[w].task))
    BY <1>14, <2>3 DEF Heartbeat, DoneStep
  <2> QED BY <2>2, <2>3
<1>15. ASSUME NEW w \in Workers, Restart(w) PROVE DoneStep
  BY <1>15 DEF Restart, DoneStep, dbVars, workerVars
<1>16. ASSUME NEW t \in Tasks, Retry(t) PROVE DoneStep
  <2>1. row[t] \in Row /\ Consistent(row[t]) /\ row[t].status # "absent"
    BY <1>16 DEF Retry, Inv, TypeOK, RowConsistent, Active, Held
  <2>2. row' = [row EXCEPT ![t] = Requeued(row[t])] /\ Requeued(row[t]).status # "done"
    BY <1>16, <2>1, RequeuedEvolves DEF Retry, Held
  <2> QED BY <2>2 DEF DoneStep, Inv, TypeOK
<1>17. ASSUME NEW t \in Tasks, Cancel(t) PROVE DoneStep
  <2>1. row[t] \in Row /\ Consistent(row[t]) /\ row[t].status # "absent"
    BY <1>17 DEF Cancel, Inv, TypeOK, RowConsistent, Active, Held
  <2>2. row' = [row EXCEPT ![t] = Parked(row[t])] /\ Parked(row[t]).status # "done"
    BY <1>17, <2>1, ParkedEvolves DEF Cancel, Held
  <2> QED BY <2>2 DEF DoneStep, Inv, TypeOK
<1>18. ASSUME NEW r \in Repos, NEW s \in [cap : Ceilings, enabled : BOOLEAN], SetRunner(r, s) PROVE DoneStep
  BY <1>18 DEF SetRunner, DoneStep, dbVars, workerVars
<1>19. ASSUME NEW t \in Tasks, LeaseExpires(t) PROVE DoneStep
  <2>1. row[t] \in Row /\ Consistent(row[t]) /\ row[t].status \in Held
    BY <1>19 DEF LeaseExpires, Inv, TypeOK, RowConsistent, Active, Held
  <2>2. row' = [row EXCEPT ![t] = WithLease(row[t], "expired")] /\ WithLease(row[t], "expired").status # "done"
    BY <1>19, <2>1, WithLeaseEvolves DEF LeaseExpires, Held
  <2> QED BY <2>2 DEF DoneStep, Inv, TypeOK
<1>20. ASSUME NEW t \in Tasks, BecomesDue(t) PROVE DoneStep
  <2>1. row[t] \in Row /\ Consistent(row[t]) /\ row[t].status = "queued"
    BY <1>20 DEF BecomesDue, Inv, TypeOK, RowConsistent, Active, Held
  <2>2. row' = [row EXCEPT ![t] = NowDue(row[t])] /\ NowDue(row[t]).status # "done"
    BY <1>20, <2>1, NowDueEvolves DEF BecomesDue, Held
  <2> QED BY <2>2 DEF DoneStep, Inv, TypeOK
<1>21. ASSUME NEW w \in Workers, Crash(w) PROVE DoneStep
  BY <1>21 DEF Crash, DoneStep, dbVars, workerVars
<1>22. ASSUME NEW w \in Workers, HeartbeatDies(w) PROVE DoneStep
  BY <1>22 DEF HeartbeatDies, DoneStep, dbVars, workerVars
<1>23. ASSUME NEW t \in Tasks, Stall(t) PROVE DoneStep
  <2>1. row[t] \in Row /\ Consistent(row[t]) /\ row[t].status \in Held
    BY <1>23 DEF Stall, Inv, TypeOK, RowConsistent, Active, Held
  <2>2. row' = [row EXCEPT ![t] = WithLease(row[t], "expired")] /\ WithLease(row[t], "expired").status # "done"
    BY <1>23, <2>1, WithLeaseEvolves DEF Stall, Held
  <2> QED BY <2>2 DEF DoneStep, Inv, TypeOK
<1>24. CASE UNCHANGED vars
  BY <1>24 DEF vars, DoneStep
<1> QED
  BY <1>1, <1>2, <1>3, <1>4, <1>5, <1>6, <1>7, <1>8, <1>9, <1>10, <1>11,
     <1>12, <1>13, <1>14, <1>15, <1>16, <1>17, <1>18, <1>19, <1>20, <1>21,
     <1>22, <1>23, <1>24
  DEF Next, Produce, Step, Operate, Tick, Fault

\* succeed() takes effect only for the worker that holds the lease: no
\* reclaimed, cancelled or crashed worker ever completes a task.
THEOREM DoneOnlyByHolder == Spec => DoneByHolder
<1>1. Inv /\ [Next]_vars => [DoneStep]_vars
  BY DoneNext
<1> QED BY <1>1, InvHolds, PTL DEF Spec, DoneByHolder, DoneStep

-----------------------------------------------------------------------------
(* Who gets a lease.                                                       *)

\* A worker comes to own a row only by the commit of its own claim.
OwnerStep ==
    \A v \in Workers, t \in Tasks :
        Owns(v, t)' /\ ~Owns(v, t) => pc[v] = "selected" /\ pc'[v] = "claimed"

LEMMA OneOwner ==
    ASSUME Inv, NEW u \in Tasks, NEW y, row' = [row EXCEPT ![u] = y],
           y.owner = NoWorker \/ (y.owner = row[u].owner /\ row[u].status \in Held)
    PROVE  OwnerStep
<1>1. row'[u] = y /\ \A t \in Tasks \ {u} : row'[t] = row[t]
  BY DEF Inv, TypeOK
<1> QED BY <1>1 DEF OwnerStep, Owns

LEMMA OwnerNext == ASSUME Inv, [Next]_vars PROVE OwnerStep
<1>1. ASSUME NEW p \in Producers, EnqueueInsert(p) PROVE OwnerStep
  <2>1. PICK t \in Tasks : row' = [row EXCEPT ![t] = NewRow(prod[p])]
    BY <1>1 DEF EnqueueInsert
  <2>2. NewRow(prod[p]).owner = NoWorker
    BY DEF NewRow
  <2> QED BY <2>1, <2>2, OneOwner
<1>2. ASSUME NEW p \in Producers, NEW q \in Request, EnqueueCheck(p, q) PROVE OwnerStep
  BY <1>2 DEF EnqueueCheck, OwnerStep, Owns, dbVars, workerVars
<1>3. ASSUME NEW w \in Workers, Reclaim(w) PROVE OwnerStep
  <2> SUFFICES ASSUME NEW t \in Tasks, NEW v \in Workers, Owns(v, t)' PROVE Owns(v, t)
    BY DEF OwnerStep
  <2>1. CASE ~Abandoned(t)
    BY <1>3, <2>1 DEF Reclaim, Owns
  <2>2. CASE Abandoned(t)
    <3>1. row[t] \in Row
      BY DEF Inv, TypeOK
    <3>2. Released(row[t], row[t].attempts + 1, TRUE).owner = NoWorker
      BY <3>1 DEF Released, Row
    <3> QED BY <1>3, <2>2, <3>2 DEF Reclaim, Owns
  <2> QED BY <2>1, <2>2
<1>4. ASSUME NEW w \in Workers, ClaimBegin(w) PROVE OwnerStep
  BY <1>4 DEF ClaimBegin, OwnerStep, Owns, dbVars, workerVars
<1>5. ASSUME NEW w \in Workers, NEW r \in Repos, ClaimLock(w, r) PROVE OwnerStep
  BY <1>5 DEF ClaimLock, OwnerStep, Owns, dbVars, workerVars
<1>6. ASSUME NEW w \in Workers, ClaimNothing(w) PROVE OwnerStep
  BY <1>6 DEF ClaimNothing, OwnerStep, Owns, dbVars, workerVars
<1>7. ASSUME NEW w \in Workers, NEW t \in Tasks, ClaimSelect(w, t) PROVE OwnerStep
  BY <1>7 DEF ClaimSelect, OwnerStep, Owns, dbVars, workerVars
<1>8. ASSUME NEW w \in Workers, ClaimCommit(w) PROVE OwnerStep
  <2> DEFINE u == job[w].task
  <2>1. u \in Tasks /\ row[u] \in Row /\ pc[w] = "selected" /\ pc'[w] = "claimed"
    BY <1>8 DEF ClaimCommit, Inv, TypeOK, JobInv, InJob
  <2>2. row' = [row EXCEPT ![u] = LeasedTo(row[u], w)] /\ LeasedTo(row[u], w).owner = w
    BY <1>8, <2>1 DEF ClaimCommit, LeasedTo, Row
  <2> HIDE DEF u
  <2> QED BY <2>1, <2>2 DEF OwnerStep, Owns, Inv, TypeOK
<1>9. ASSUME NEW w \in Workers, MarkRunning(w) PROVE OwnerStep
  <2> DEFINE u == job[w].task
  <2>1. u \in Tasks /\ row[u] \in Row
    BY <1>9 DEF MarkRunning, Inv, TypeOK, JobInv, InJob
  <2>2. CASE row[job[w].task].owner = w /\ row[job[w].task].status = "leased"
    <3>1. row' = [row EXCEPT ![u] = Running(row[u])] /\ row[u].status \in Held
      BY <1>9, <2>2 DEF MarkRunning, Owns, Held
    <3>2. Running(row[u]).owner = row[u].owner
      BY <2>1 DEF Running, Row
    <3> HIDE DEF u
    <3> QED BY <2>1, <3>1, <3>2, OneOwner
  <2>3. CASE ~(row[job[w].task].owner = w /\ row[job[w].task].status = "leased")
    BY <1>9, <2>3 DEF MarkRunning, OwnerStep, Owns
  <2> QED BY <2>2, <2>3
<1>10. ASSUME NEW w \in Workers, Succeed(w) PROVE OwnerStep
  <2> DEFINE u == job[w].task
  <2>1. u \in Tasks /\ row[u] \in Row
    BY <1>10 DEF Succeed, Inv, TypeOK, JobInv, InJob
  <2>2. CASE Owns(w, job[w].task)
    <3>1. row' = [row EXCEPT ![u] = Done(row[u])] /\ TRUE
      BY <1>10, <2>2 DEF Succeed, Owns, Held
    <3>2. Done(row[u]).owner = NoWorker
      BY <2>1 DEF Done, Row
    <3> HIDE DEF u
    <3> QED BY <2>1, <3>1, <3>2, OneOwner
  <2>3. CASE ~(Owns(w, job[w].task))
    BY <1>10, <2>3 DEF Succeed, OwnerStep, Owns
  <2> QED BY <2>2, <2>3
<1>11. ASSUME NEW w \in Workers, FailLost(w) PROVE OwnerStep
  BY <1>11 DEF FailLost, OwnerStep, Owns, dbVars, workerVars
<1>12. ASSUME NEW w \in Workers, FailRead(w) PROVE OwnerStep
  BY <1>12 DEF FailRead, OwnerStep, Owns, dbVars, workerVars
<1>13. ASSUME NEW w \in Workers, FailWrite(w) PROVE OwnerStep
  <2> DEFINE u == job[w].task
             n == job[w].seen + 1
             d == IF n >= MaxAttempts THEN row[u].due ELSE FALSE
  <2>1. u \in Tasks /\ row[u] \in Row
    BY <1>13 DEF FailWrite, Inv, TypeOK, JobInv, InJob
  <2>2. row' = [row EXCEPT ![u] = Released(row[u], n, d)]
    BY <1>13 DEF FailWrite
  <2> HIDE DEF u, n, d
  <2>3. Released(row[u], n, d).owner = NoWorker
    BY <2>1 DEF Released, Row
  <2> QED BY <2>1, <2>2, <2>3, OneOwner
<1>14. ASSUME NEW w \in Workers, Heartbeat(w) PROVE OwnerStep
  <2> DEFINE u == job[w].task
  <2>1. u \in Tasks /\ row[u] \in Row
    BY <1>14 DEF Heartbeat, Inv, TypeOK, JobInv, InJob
  <2>2. CASE Owns(w, job[w].task)
    <3>1. row' = [row EXCEPT ![u] = WithLease(row[u], "live")] /\ row[u].status \in Held
      BY <1>14, <2>2 DEF Heartbeat, Owns, Held
    <3>2. WithLease(row[u], "live").owner = row[u].owner
      BY <2>1 DEF WithLease, Row
    <3> HIDE DEF u
    <3> QED BY <2>1, <3>1, <3>2, OneOwner
  <2>3. CASE ~(Owns(w, job[w].task))
    BY <1>14, <2>3 DEF Heartbeat, OwnerStep, Owns
  <2> QED BY <2>2, <2>3
<1>15. ASSUME NEW w \in Workers, Restart(w) PROVE OwnerStep
  BY <1>15 DEF Restart, OwnerStep, Owns, dbVars, workerVars
<1>16. ASSUME NEW t \in Tasks, Retry(t) PROVE OwnerStep
  <2>1. row[t] \in Row /\ TRUE /\ row' = [row EXCEPT ![t] = Requeued(row[t])]
    BY <1>16 DEF Retry, Inv, TypeOK
  <2>2. Requeued(row[t]).owner = NoWorker
    BY <2>1 DEF Requeued, Row
  <2> QED BY <2>1, <2>2, OneOwner
<1>17. ASSUME NEW t \in Tasks, Cancel(t) PROVE OwnerStep
  <2>1. row[t] \in Row /\ TRUE /\ row' = [row EXCEPT ![t] = Parked(row[t])]
    BY <1>17 DEF Cancel, Inv, TypeOK
  <2>2. Parked(row[t]).owner = NoWorker
    BY <2>1 DEF Parked, Row
  <2> QED BY <2>1, <2>2, OneOwner
<1>18. ASSUME NEW r \in Repos, NEW s \in [cap : Ceilings, enabled : BOOLEAN], SetRunner(r, s) PROVE OwnerStep
  BY <1>18 DEF SetRunner, OwnerStep, Owns, dbVars, workerVars
<1>19. ASSUME NEW t \in Tasks, LeaseExpires(t) PROVE OwnerStep
  <2>1. row[t] \in Row /\ row[t].status \in Held /\ row' = [row EXCEPT ![t] = WithLease(row[t], "expired")]
    BY <1>19 DEF LeaseExpires, Inv, TypeOK
  <2>2. WithLease(row[t], "expired").owner = row[t].owner
    BY <2>1 DEF WithLease, Row
  <2> QED BY <2>1, <2>2, OneOwner
<1>20. ASSUME NEW t \in Tasks, BecomesDue(t) PROVE OwnerStep
  <2>1. /\ row[t] \in Row /\ Consistent(row[t]) /\ row[t].status = "queued"
        /\ row' = [row EXCEPT ![t] = NowDue(row[t])]
    BY <1>20 DEF BecomesDue, Inv, TypeOK, RowConsistent
  <2>2. row[t].owner = NoWorker
    BY <2>1 DEF Consistent, Held
  <2>3. NowDue(row[t]).owner = row[t].owner
    BY <2>1 DEF NowDue, Row
  <2> QED BY <2>1, <2>2, <2>3, OneOwner
<1>21. ASSUME NEW w \in Workers, Crash(w) PROVE OwnerStep
  BY <1>21 DEF Crash, OwnerStep, Owns, dbVars, workerVars
<1>22. ASSUME NEW w \in Workers, HeartbeatDies(w) PROVE OwnerStep
  BY <1>22 DEF HeartbeatDies, OwnerStep, Owns, dbVars, workerVars
<1>23. ASSUME NEW t \in Tasks, Stall(t) PROVE OwnerStep
  <2>1. row[t] \in Row /\ row[t].status \in Held /\ row' = [row EXCEPT ![t] = WithLease(row[t], "expired")]
    BY <1>23 DEF Stall, Inv, TypeOK
  <2>2. WithLease(row[t], "expired").owner = row[t].owner
    BY <2>1 DEF WithLease, Row
  <2> QED BY <2>1, <2>2, OneOwner
<1>24. CASE UNCHANGED vars
  BY <1>24 DEF vars, OwnerStep, Owns
<1> QED
  BY <1>1, <1>2, <1>3, <1>4, <1>5, <1>6, <1>7, <1>8, <1>9, <1>10, <1>11,
     <1>12, <1>13, <1>14, <1>15, <1>16, <1>17, <1>18, <1>19, <1>20, <1>21,
     <1>22, <1>23, <1>24
  DEF Next, Produce, Step, Operate, Tick, Fault

LostStep ==
    \A w \in Workers, t \in Tasks :
        /\ pc[w] \in {"claimed", "working", "failing"}
        /\ pc'[w] \in {"claimed", "working", "failing"}
        /\ job[w].task = t
        /\ ~Owns(w, t)
        => ~Owns(w, t)'

\* Once a worker has lost a task to a reclaim, a cancel or another worker's
\* late write, no later step of its block gives the task back to it.
THEOREM LostForGood == Spec => LostLeaseStaysLost
<1>1. Inv /\ [Next]_vars => [LostStep]_vars
  BY OwnerNext DEF OwnerStep, LostStep
<1> QED BY <1>1, InvHolds, PTL DEF Spec, LostLeaseStaysLost, LostStep

-----------------------------------------------------------------------------
(* The runner locks.                                                       *)

LockInv ==
    /\ \A w \in Workers : pc[w] \notin {"locking", "selected"} => locked[w] = {}
    /\ \A w \in Workers : pc[w] # "locking" => want[w] = {}
    /\ \A v, w \in Workers : v # w => locked[v] \cap locked[w] = {}
    /\ 0 \notin Ceilings =>
         \A w \in Workers : /\ pc[w] = "locking" => want[w] \cup locked[w] = Repos
                            /\ pc[w] = "selected" => locked[w] = Repos

\* Without 0 among Ceilings every runner has a ceiling.
LEMMA CapPositive ==
    ASSUME Inv, NEW r \in Repos
    PROVE  runner[r].cap \in Nat /\ (0 \notin Ceilings => runner[r].cap > 0)
<1>1. runner[r].cap \in Ceilings
  BY DEF Inv, TypeOK
<1>2. runner[r].cap \in Nat
  BY <1>1
<1>3. 0 \notin Ceilings => runner[r].cap # 0
  BY <1>1
<1> QED BY <1>2, <1>3

LEMMA LockInit == Init => LockInv
BY DEF Init, LockInv

LEMMA LockNext == ASSUME Inv, LockInv, [Next]_vars PROVE LockInv'
<1>1. ASSUME NEW p \in Producers, EnqueueInsert(p) PROVE LockInv'
  <2>1. pc' = pc /\ want' = want /\ locked' = locked
    BY <1>1 DEF EnqueueInsert, dbVars, workerVars
  <2> QED BY <2>1 DEF LockInv
<1>2. ASSUME NEW p \in Producers, NEW q \in Request, EnqueueCheck(p, q) PROVE LockInv'
  <2>1. pc' = pc /\ want' = want /\ locked' = locked
    BY <1>2 DEF EnqueueCheck, dbVars, workerVars
  <2> QED BY <2>1 DEF LockInv
<1>3. ASSUME NEW w \in Workers, Reclaim(w) PROVE LockInv'
  <2>1. /\ pc[w] \notin {"locking", "selected"} /\ pc'[w] \notin {"locking", "selected"}
        /\ \A v \in Workers \ {w} : pc'[v] = pc[v]
        /\ want' = want /\ locked' = locked
    BY <1>3 DEF Reclaim, LeaveBlock, Inv, TypeOK, dbVars
  <2> QED BY <2>1 DEF LockInv
<1>4. ASSUME NEW w \in Workers, ClaimBegin(w) PROVE LockInv'
  <2>1. /\ want' = [want EXCEPT ![w] = {r \in Repos : runner[r].cap > 0}]
        /\ pc' = [pc EXCEPT ![w] = "locking"] /\ locked' = locked
    BY <1>4 DEF ClaimBegin
  <2>2. 0 \notin Ceilings => {r \in Repos : runner[r].cap > 0} = Repos
    BY CapPositive
  <2> QED BY <2>1, <2>2 DEF LockInv, Inv, TypeOK
<1>5. ASSUME NEW w \in Workers, NEW r \in Repos, ClaimLock(w, r) PROVE LockInv'
  <2>1. /\ want' = [want EXCEPT ![w] = @ \ {r}] /\ pc' = pc /\ pc[w] = "locking"
        /\ locked' = [locked EXCEPT ![w] = IF runner[r].cap > 0 THEN @ \cup {r} ELSE @]
        /\ \A v \in Workers : r \notin locked[v]
    BY <1>5 DEF ClaimLock, RunnerLocked
  <2>2. 0 \notin Ceilings => runner[r].cap > 0
    BY CapPositive
  <2>3. /\ want'[w] = want[w] \ {r} /\ locked'[w] \subseteq locked[w] \cup {r}
        /\ \A v \in Workers \ {w} : want'[v] = want[v] /\ locked'[v] = locked[v]
        /\ 0 \notin Ceilings => locked'[w] = locked[w] \cup {r}
    BY <2>1, <2>2 DEF Inv, TypeOK
  <2> QED BY <2>1, <2>3 DEF LockInv
<1>6. ASSUME NEW w \in Workers, ClaimNothing(w) PROVE LockInv'
  <2>1. /\ pc'[w] = "idle" /\ locked'[w] = {} /\ want[w] = {} /\ want' = want
        /\ \A v \in Workers \ {w} : pc'[v] = pc[v] /\ locked'[v] = locked[v]
    BY <1>6 DEF ClaimNothing, Inv, TypeOK
  <2> QED BY <2>1 DEF LockInv
<1>7. ASSUME NEW w \in Workers, NEW t \in Tasks, ClaimSelect(w, t) PROVE LockInv'
  <2>1. /\ pc[w] = "locking" /\ pc'[w] = "selected" /\ want[w] = {}
        /\ want' = want /\ locked' = locked
        /\ \A v \in Workers \ {w} : pc'[v] = pc[v]
    BY <1>7 DEF ClaimSelect, Inv, TypeOK
  <2>2. 0 \notin Ceilings => locked[w] = Repos
    <3>1. 0 \notin Ceilings => want[w] \cup locked[w] = Repos
      BY <2>1 DEF LockInv
    <3> QED BY <2>1, <3>1
  <2> QED BY <2>1, <2>2 DEF LockInv
<1>8. ASSUME NEW w \in Workers, ClaimCommit(w) PROVE LockInv'
  <2>1. /\ pc[w] = "selected" /\ pc'[w] = "claimed" /\ locked'[w] = {} /\ want' = want
        /\ \A v \in Workers \ {w} : pc'[v] = pc[v] /\ locked'[v] = locked[v]
    BY <1>8 DEF ClaimCommit, Inv, TypeOK
  <2> QED BY <2>1 DEF LockInv
<1>9. ASSUME NEW w \in Workers, MarkRunning(w) PROVE LockInv'
  <2>1. /\ pc[w] \notin {"locking", "selected"} /\ pc'[w] \notin {"locking", "selected"}
        /\ \A v \in Workers \ {w} : pc'[v] = pc[v]
        /\ want' = want /\ locked' = locked
    BY <1>9 DEF MarkRunning, LeaveBlock, Inv, TypeOK, dbVars
  <2> QED BY <2>1 DEF LockInv
<1>10. ASSUME NEW w \in Workers, Succeed(w) PROVE LockInv'
  <2>1. /\ pc[w] \notin {"locking", "selected"} /\ pc'[w] \notin {"locking", "selected"}
        /\ \A v \in Workers \ {w} : pc'[v] = pc[v]
        /\ want' = want /\ locked' = locked
    BY <1>10 DEF Succeed, LeaveBlock, Inv, TypeOK, dbVars
  <2> QED BY <2>1 DEF LockInv
<1>11. ASSUME NEW w \in Workers, FailLost(w) PROVE LockInv'
  <2>1. /\ pc[w] \notin {"locking", "selected"} /\ pc'[w] \notin {"locking", "selected"}
        /\ \A v \in Workers \ {w} : pc'[v] = pc[v]
        /\ want' = want /\ locked' = locked
    BY <1>11 DEF FailLost, LeaveBlock, Inv, TypeOK, dbVars
  <2> QED BY <2>1 DEF LockInv
<1>12. ASSUME NEW w \in Workers, FailRead(w) PROVE LockInv'
  <2>1. /\ pc[w] \notin {"locking", "selected"} /\ pc'[w] \notin {"locking", "selected"}
        /\ \A v \in Workers \ {w} : pc'[v] = pc[v]
        /\ want' = want /\ locked' = locked
    BY <1>12 DEF FailRead, LeaveBlock, Inv, TypeOK, dbVars
  <2> QED BY <2>1 DEF LockInv
<1>13. ASSUME NEW w \in Workers, FailWrite(w) PROVE LockInv'
  <2>1. /\ pc[w] \notin {"locking", "selected"} /\ pc'[w] \notin {"locking", "selected"}
        /\ \A v \in Workers \ {w} : pc'[v] = pc[v]
        /\ want' = want /\ locked' = locked
    BY <1>13 DEF FailWrite, LeaveBlock, Inv, TypeOK, dbVars
  <2> QED BY <2>1 DEF LockInv
<1>14. ASSUME NEW w \in Workers, Heartbeat(w) PROVE LockInv'
  <2>1. pc' = pc /\ want' = want /\ locked' = locked
    BY <1>14 DEF Heartbeat, dbVars, workerVars
  <2> QED BY <2>1 DEF LockInv
<1>15. ASSUME NEW w \in Workers, Restart(w) PROVE LockInv'
  <2>1. /\ pc[w] \notin {"locking", "selected"} /\ pc'[w] \notin {"locking", "selected"}
        /\ \A v \in Workers \ {w} : pc'[v] = pc[v]
        /\ want' = want /\ locked' = locked
    BY <1>15 DEF Restart, LeaveBlock, Inv, TypeOK, dbVars
  <2> QED BY <2>1 DEF LockInv
<1>16. ASSUME NEW t \in Tasks, Retry(t) PROVE LockInv'
  <2>1. pc' = pc /\ want' = want /\ locked' = locked
    BY <1>16 DEF Retry, dbVars, workerVars
  <2> QED BY <2>1 DEF LockInv
<1>17. ASSUME NEW t \in Tasks, Cancel(t) PROVE LockInv'
  <2>1. pc' = pc /\ want' = want /\ locked' = locked
    BY <1>17 DEF Cancel, dbVars, workerVars
  <2> QED BY <2>1 DEF LockInv
<1>18. ASSUME NEW r \in Repos, NEW s \in [cap : Ceilings, enabled : BOOLEAN], SetRunner(r, s) PROVE LockInv'
  <2>1. pc' = pc /\ want' = want /\ locked' = locked
    BY <1>18 DEF SetRunner, dbVars, workerVars
  <2> QED BY <2>1 DEF LockInv
<1>19. ASSUME NEW t \in Tasks, LeaseExpires(t) PROVE LockInv'
  <2>1. pc' = pc /\ want' = want /\ locked' = locked
    BY <1>19 DEF LeaseExpires, dbVars, workerVars
  <2> QED BY <2>1 DEF LockInv
<1>20. ASSUME NEW t \in Tasks, BecomesDue(t) PROVE LockInv'
  <2>1. pc' = pc /\ want' = want /\ locked' = locked
    BY <1>20 DEF BecomesDue, dbVars, workerVars
  <2> QED BY <2>1 DEF LockInv
<1>21. ASSUME NEW w \in Workers, Crash(w) PROVE LockInv'
  <2>1. /\ pc'[w] = "down" /\ locked'[w] = {} /\ want'[w] = {}
        /\ \A v \in Workers \ {w} : /\ pc'[v] = pc[v] /\ locked'[v] = locked[v]
                                    /\ want'[v] = want[v]
    BY <1>21 DEF Crash, Inv, TypeOK
  <2> QED BY <2>1 DEF LockInv
<1>22. ASSUME NEW w \in Workers, HeartbeatDies(w) PROVE LockInv'
  <2>1. pc' = pc /\ want' = want /\ locked' = locked
    BY <1>22 DEF HeartbeatDies, dbVars, workerVars
  <2> QED BY <2>1 DEF LockInv
<1>23. ASSUME NEW t \in Tasks, Stall(t) PROVE LockInv'
  <2>1. pc' = pc /\ want' = want /\ locked' = locked
    BY <1>23 DEF Stall, dbVars, workerVars
  <2> QED BY <2>1 DEF LockInv
<1>24. CASE UNCHANGED vars
  BY <1>24 DEF vars, LockInv
<1> QED
  BY <1>1, <1>2, <1>3, <1>4, <1>5, <1>6, <1>7, <1>8, <1>9, <1>10, <1>11,
     <1>12, <1>13, <1>14, <1>15, <1>16, <1>17, <1>18, <1>19, <1>20, <1>21,
     <1>22, <1>23, <1>24
  DEF Next, Produce, Step, Operate, Tick, Fault

\* A runner row that a claim has locked cannot be edited.
LEMMA RunnerKept ==
    ASSUME Inv, [Next]_vars
    PROVE  \A x \in Workers : \A y \in locked[x] : runner'[y] = runner[y]
<1>1. ASSUME NEW p \in Producers, EnqueueInsert(p)
       PROVE \A x \in Workers : \A y \in locked[x] : runner'[y] = runner[y]
  BY <1>1 DEF EnqueueInsert, dbVars
<1>2. ASSUME NEW p \in Producers, NEW q \in Request, EnqueueCheck(p, q)
       PROVE \A x \in Workers : \A y \in locked[x] : runner'[y] = runner[y]
  BY <1>2 DEF EnqueueCheck, dbVars
<1>3. ASSUME NEW w \in Workers, Reclaim(w)
       PROVE \A x \in Workers : \A y \in locked[x] : runner'[y] = runner[y]
  BY <1>3 DEF Reclaim, dbVars
<1>4. ASSUME NEW w \in Workers, ClaimBegin(w)
       PROVE \A x \in Workers : \A y \in locked[x] : runner'[y] = runner[y]
  BY <1>4 DEF ClaimBegin, dbVars
<1>5. ASSUME NEW w \in Workers, NEW r \in Repos, ClaimLock(w, r)
       PROVE \A x \in Workers : \A y \in locked[x] : runner'[y] = runner[y]
  BY <1>5 DEF ClaimLock, dbVars
<1>6. ASSUME NEW w \in Workers, ClaimNothing(w)
       PROVE \A x \in Workers : \A y \in locked[x] : runner'[y] = runner[y]
  BY <1>6 DEF ClaimNothing, dbVars
<1>7. ASSUME NEW w \in Workers, NEW t \in Tasks, ClaimSelect(w, t)
       PROVE \A x \in Workers : \A y \in locked[x] : runner'[y] = runner[y]
  BY <1>7 DEF ClaimSelect, dbVars
<1>8. ASSUME NEW w \in Workers, ClaimCommit(w)
       PROVE \A x \in Workers : \A y \in locked[x] : runner'[y] = runner[y]
  BY <1>8 DEF ClaimCommit, dbVars
<1>9. ASSUME NEW w \in Workers, MarkRunning(w)
       PROVE \A x \in Workers : \A y \in locked[x] : runner'[y] = runner[y]
  BY <1>9 DEF MarkRunning, dbVars
<1>10. ASSUME NEW w \in Workers, Succeed(w)
       PROVE \A x \in Workers : \A y \in locked[x] : runner'[y] = runner[y]
  BY <1>10 DEF Succeed, dbVars
<1>11. ASSUME NEW w \in Workers, FailLost(w)
       PROVE \A x \in Workers : \A y \in locked[x] : runner'[y] = runner[y]
  BY <1>11 DEF FailLost, dbVars
<1>12. ASSUME NEW w \in Workers, FailRead(w)
       PROVE \A x \in Workers : \A y \in locked[x] : runner'[y] = runner[y]
  BY <1>12 DEF FailRead, dbVars
<1>13. ASSUME NEW w \in Workers, FailWrite(w)
       PROVE \A x \in Workers : \A y \in locked[x] : runner'[y] = runner[y]
  BY <1>13 DEF FailWrite, dbVars
<1>14. ASSUME NEW w \in Workers, Heartbeat(w)
       PROVE \A x \in Workers : \A y \in locked[x] : runner'[y] = runner[y]
  BY <1>14 DEF Heartbeat, dbVars
<1>15. ASSUME NEW w \in Workers, Restart(w)
       PROVE \A x \in Workers : \A y \in locked[x] : runner'[y] = runner[y]
  BY <1>15 DEF Restart, dbVars
<1>16. ASSUME NEW t \in Tasks, Retry(t)
       PROVE \A x \in Workers : \A y \in locked[x] : runner'[y] = runner[y]
  BY <1>16 DEF Retry, dbVars
<1>17. ASSUME NEW t \in Tasks, Cancel(t)
       PROVE \A x \in Workers : \A y \in locked[x] : runner'[y] = runner[y]
  BY <1>17 DEF Cancel, dbVars
<1>18. ASSUME NEW r \in Repos, NEW s \in [cap : Ceilings, enabled : BOOLEAN], SetRunner(r, s)
       PROVE \A x \in Workers : \A y \in locked[x] : runner'[y] = runner[y]
  BY <1>18 DEF SetRunner, RunnerLocked, Inv, TypeOK
<1>19. ASSUME NEW t \in Tasks, LeaseExpires(t)
       PROVE \A x \in Workers : \A y \in locked[x] : runner'[y] = runner[y]
  BY <1>19 DEF LeaseExpires, dbVars
<1>20. ASSUME NEW t \in Tasks, BecomesDue(t)
       PROVE \A x \in Workers : \A y \in locked[x] : runner'[y] = runner[y]
  BY <1>20 DEF BecomesDue, dbVars
<1>21. ASSUME NEW w \in Workers, Crash(w)
       PROVE \A x \in Workers : \A y \in locked[x] : runner'[y] = runner[y]
  BY <1>21 DEF Crash, dbVars
<1>22. ASSUME NEW w \in Workers, HeartbeatDies(w)
       PROVE \A x \in Workers : \A y \in locked[x] : runner'[y] = runner[y]
  BY <1>22 DEF HeartbeatDies, dbVars
<1>23. ASSUME NEW t \in Tasks, Stall(t)
       PROVE \A x \in Workers : \A y \in locked[x] : runner'[y] = runner[y]
  BY <1>23 DEF Stall, dbVars
<1>24. CASE UNCHANGED vars
  BY <1>24 DEF vars
<1> QED
  BY <1>1, <1>2, <1>3, <1>4, <1>5, <1>6, <1>7, <1>8, <1>9, <1>10, <1>11,
     <1>12, <1>13, <1>14, <1>15, <1>16, <1>17, <1>18, <1>19, <1>20, <1>21,
     <1>22, <1>23, <1>24
  DEF Next, Produce, Step, Operate, Tick, Fault

\* A worker has a row selected because it just selected it, or had it before.
LEMMA SelectedBy ==
    ASSUME Inv, [Next]_vars
    PROVE  \A x \in Workers : pc'[x] = "selected" =>
             \/ pc[x] = "selected" /\ job'[x] = job[x]
             \/ \E y \in Tasks : ClaimSelect(x, y)
<1>1. ASSUME NEW p \in Producers, EnqueueInsert(p)
       PROVE \A x \in Workers : pc'[x] = "selected" =>
                \/ pc[x] = "selected" /\ job'[x] = job[x]
                \/ \E y \in Tasks : ClaimSelect(x, y)
  BY <1>1 DEF EnqueueInsert, LeaveBlock, dbVars, workerVars, Inv, TypeOK
<1>2. ASSUME NEW p \in Producers, NEW q \in Request, EnqueueCheck(p, q)
       PROVE \A x \in Workers : pc'[x] = "selected" =>
                \/ pc[x] = "selected" /\ job'[x] = job[x]
                \/ \E y \in Tasks : ClaimSelect(x, y)
  BY <1>2 DEF EnqueueCheck, LeaveBlock, dbVars, workerVars, Inv, TypeOK
<1>3. ASSUME NEW w \in Workers, Reclaim(w)
       PROVE \A x \in Workers : pc'[x] = "selected" =>
                \/ pc[x] = "selected" /\ job'[x] = job[x]
                \/ \E y \in Tasks : ClaimSelect(x, y)
  BY <1>3 DEF Reclaim, LeaveBlock, dbVars, workerVars, Inv, TypeOK
<1>4. ASSUME NEW w \in Workers, ClaimBegin(w)
       PROVE \A x \in Workers : pc'[x] = "selected" =>
                \/ pc[x] = "selected" /\ job'[x] = job[x]
                \/ \E y \in Tasks : ClaimSelect(x, y)
  BY <1>4 DEF ClaimBegin, LeaveBlock, dbVars, workerVars, Inv, TypeOK
<1>5. ASSUME NEW w \in Workers, NEW r \in Repos, ClaimLock(w, r)
       PROVE \A x \in Workers : pc'[x] = "selected" =>
                \/ pc[x] = "selected" /\ job'[x] = job[x]
                \/ \E y \in Tasks : ClaimSelect(x, y)
  BY <1>5 DEF ClaimLock, LeaveBlock, dbVars, workerVars, Inv, TypeOK
<1>6. ASSUME NEW w \in Workers, ClaimNothing(w)
       PROVE \A x \in Workers : pc'[x] = "selected" =>
                \/ pc[x] = "selected" /\ job'[x] = job[x]
                \/ \E y \in Tasks : ClaimSelect(x, y)
  BY <1>6 DEF ClaimNothing, LeaveBlock, dbVars, workerVars, Inv, TypeOK
<1>7. ASSUME NEW w \in Workers, NEW t \in Tasks, ClaimSelect(w, t)
       PROVE \A x \in Workers : pc'[x] = "selected" =>
                \/ pc[x] = "selected" /\ job'[x] = job[x]
                \/ \E y \in Tasks : ClaimSelect(x, y)
  BY <1>7 DEF ClaimSelect, Inv, TypeOK
<1>8. ASSUME NEW w \in Workers, ClaimCommit(w)
       PROVE \A x \in Workers : pc'[x] = "selected" =>
                \/ pc[x] = "selected" /\ job'[x] = job[x]
                \/ \E y \in Tasks : ClaimSelect(x, y)
  BY <1>8 DEF ClaimCommit, LeaveBlock, dbVars, workerVars, Inv, TypeOK
<1>9. ASSUME NEW w \in Workers, MarkRunning(w)
       PROVE \A x \in Workers : pc'[x] = "selected" =>
                \/ pc[x] = "selected" /\ job'[x] = job[x]
                \/ \E y \in Tasks : ClaimSelect(x, y)
  BY <1>9 DEF MarkRunning, LeaveBlock, dbVars, workerVars, Inv, TypeOK
<1>10. ASSUME NEW w \in Workers, Succeed(w)
       PROVE \A x \in Workers : pc'[x] = "selected" =>
                \/ pc[x] = "selected" /\ job'[x] = job[x]
                \/ \E y \in Tasks : ClaimSelect(x, y)
  BY <1>10 DEF Succeed, LeaveBlock, dbVars, workerVars, Inv, TypeOK
<1>11. ASSUME NEW w \in Workers, FailLost(w)
       PROVE \A x \in Workers : pc'[x] = "selected" =>
                \/ pc[x] = "selected" /\ job'[x] = job[x]
                \/ \E y \in Tasks : ClaimSelect(x, y)
  BY <1>11 DEF FailLost, LeaveBlock, dbVars, workerVars, Inv, TypeOK
<1>12. ASSUME NEW w \in Workers, FailRead(w)
       PROVE \A x \in Workers : pc'[x] = "selected" =>
                \/ pc[x] = "selected" /\ job'[x] = job[x]
                \/ \E y \in Tasks : ClaimSelect(x, y)
  BY <1>12 DEF FailRead, LeaveBlock, dbVars, workerVars, Inv, TypeOK
<1>13. ASSUME NEW w \in Workers, FailWrite(w)
       PROVE \A x \in Workers : pc'[x] = "selected" =>
                \/ pc[x] = "selected" /\ job'[x] = job[x]
                \/ \E y \in Tasks : ClaimSelect(x, y)
  BY <1>13 DEF FailWrite, LeaveBlock, dbVars, workerVars, Inv, TypeOK
<1>14. ASSUME NEW w \in Workers, Heartbeat(w)
       PROVE \A x \in Workers : pc'[x] = "selected" =>
                \/ pc[x] = "selected" /\ job'[x] = job[x]
                \/ \E y \in Tasks : ClaimSelect(x, y)
  BY <1>14 DEF Heartbeat, LeaveBlock, dbVars, workerVars, Inv, TypeOK
<1>15. ASSUME NEW w \in Workers, Restart(w)
       PROVE \A x \in Workers : pc'[x] = "selected" =>
                \/ pc[x] = "selected" /\ job'[x] = job[x]
                \/ \E y \in Tasks : ClaimSelect(x, y)
  BY <1>15 DEF Restart, LeaveBlock, dbVars, workerVars, Inv, TypeOK
<1>16. ASSUME NEW t \in Tasks, Retry(t)
       PROVE \A x \in Workers : pc'[x] = "selected" =>
                \/ pc[x] = "selected" /\ job'[x] = job[x]
                \/ \E y \in Tasks : ClaimSelect(x, y)
  BY <1>16 DEF Retry, LeaveBlock, dbVars, workerVars, Inv, TypeOK
<1>17. ASSUME NEW t \in Tasks, Cancel(t)
       PROVE \A x \in Workers : pc'[x] = "selected" =>
                \/ pc[x] = "selected" /\ job'[x] = job[x]
                \/ \E y \in Tasks : ClaimSelect(x, y)
  BY <1>17 DEF Cancel, LeaveBlock, dbVars, workerVars, Inv, TypeOK
<1>18. ASSUME NEW r \in Repos, NEW s \in [cap : Ceilings, enabled : BOOLEAN], SetRunner(r, s)
       PROVE \A x \in Workers : pc'[x] = "selected" =>
                \/ pc[x] = "selected" /\ job'[x] = job[x]
                \/ \E y \in Tasks : ClaimSelect(x, y)
  BY <1>18 DEF SetRunner, LeaveBlock, dbVars, workerVars, Inv, TypeOK
<1>19. ASSUME NEW t \in Tasks, LeaseExpires(t)
       PROVE \A x \in Workers : pc'[x] = "selected" =>
                \/ pc[x] = "selected" /\ job'[x] = job[x]
                \/ \E y \in Tasks : ClaimSelect(x, y)
  BY <1>19 DEF LeaseExpires, LeaveBlock, dbVars, workerVars, Inv, TypeOK
<1>20. ASSUME NEW t \in Tasks, BecomesDue(t)
       PROVE \A x \in Workers : pc'[x] = "selected" =>
                \/ pc[x] = "selected" /\ job'[x] = job[x]
                \/ \E y \in Tasks : ClaimSelect(x, y)
  BY <1>20 DEF BecomesDue, LeaveBlock, dbVars, workerVars, Inv, TypeOK
<1>21. ASSUME NEW w \in Workers, Crash(w)
       PROVE \A x \in Workers : pc'[x] = "selected" =>
                \/ pc[x] = "selected" /\ job'[x] = job[x]
                \/ \E y \in Tasks : ClaimSelect(x, y)
  BY <1>21 DEF Crash, LeaveBlock, dbVars, workerVars, Inv, TypeOK
<1>22. ASSUME NEW w \in Workers, HeartbeatDies(w)
       PROVE \A x \in Workers : pc'[x] = "selected" =>
                \/ pc[x] = "selected" /\ job'[x] = job[x]
                \/ \E y \in Tasks : ClaimSelect(x, y)
  BY <1>22 DEF HeartbeatDies, LeaveBlock, dbVars, workerVars, Inv, TypeOK
<1>23. ASSUME NEW t \in Tasks, Stall(t)
       PROVE \A x \in Workers : pc'[x] = "selected" =>
                \/ pc[x] = "selected" /\ job'[x] = job[x]
                \/ \E y \in Tasks : ClaimSelect(x, y)
  BY <1>23 DEF Stall, LeaveBlock, dbVars, workerVars, Inv, TypeOK
<1>24. CASE UNCHANGED vars
  BY <1>24 DEF vars
<1> QED
  BY <1>1, <1>2, <1>3, <1>4, <1>5, <1>6, <1>7, <1>8, <1>9, <1>10, <1>11,
     <1>12, <1>13, <1>14, <1>15, <1>16, <1>17, <1>18, <1>19, <1>20, <1>21,
     <1>22, <1>23, <1>24
  DEF Next, Produce, Step, Operate, Tick, Fault

-----------------------------------------------------------------------------
(* The ceiling.                                                            *)

SlotInv ==
    0 \notin Ceilings =>
        \A w \in Workers, r \in Repos :
            pc[w] = "selected" /\ row[job[w].task].repo = r
              => Cardinality(InFlight(r)) < runner[r].cap

LEMMA InFlightFinite ==
    ASSUME NEW r
    PROVE  IsFiniteSet(InFlight(r)) /\ Cardinality(InFlight(r)) \in Nat
<1>1. InFlight(r) \subseteq Tasks
  BY DEF InFlight
<1> QED BY <1>1, FS_Subset, FS_CardinalityType

LEMMA InFlightFiniteNext ==
    ASSUME NEW r
    PROVE  IsFiniteSet(InFlight(r)') /\ Cardinality(InFlight(r)') \in Nat
<1>1. InFlight(r)' \subseteq Tasks
  BY DEF InFlight
<1> QED BY <1>1, FS_Subset, FS_CardinalityType

\* With a ceiling on every runner, one claim at a time has a row selected.
LEMMA OneSelected ==
    ASSUME Inv, LockInv, 0 \notin Ceilings, NEW r \in Repos,
           NEW v \in Workers, NEW w \in Workers,
           pc[v] = "selected", pc[w] = "selected"
    PROVE  v = w
BY DEF LockInv

\* A repository gains no task in flight but by the commit of a claim.
LEMMA InFlightStep ==
    ASSUME Inv, [Next]_vars, NEW r \in Repos, NEW t \in InFlight(r)'
    PROVE  t \in InFlight(r) \/ (Commits(t) /\ row[t].repo = r)
<1>1. t \in Tasks /\ row'[t].repo = r /\ row'[t].status \in Held
  BY DEF InFlight
<1>2. row[t].status \in Held \/ Commits(t)
  BY <1>1, KeptNext DEF Kept
<1>3. row[t].status # "absent"
  BY <1>1, <1>2 DEF Commits, Inv, SelectedIsQueued, Held
<1>4. row[t].repo = r
  BY <1>1, <1>3, RowsNext DEF RowsEvolve, Evolves
<1> QED BY <1>1, <1>2, <1>4 DEF InFlight

LEMMA SlotNext == ASSUME Inv, LockInv, SlotInv, [Next]_vars PROVE SlotInv'
<1> SUFFICES ASSUME 0 \notin Ceilings, NEW w \in Workers, NEW r \in Repos,
                    pc'[w] = "selected", row'[job'[w].task].repo = r
             PROVE  Cardinality(InFlight(r)') < runner'[r].cap
  BY DEF SlotInv
<1>1. CASE pc[w] = "selected" /\ job'[w] = job[w]
  <2> DEFINE t == job[w].task
  <2>1. t \in Tasks /\ row[t].status = "queued"
    BY <1>1 DEF Inv, SelectedIsQueued
  <2>2. row[t].repo = r
    BY <1>1, <2>1, RowsNext DEF RowsEvolve, Evolves
  <2>3. Cardinality(InFlight(r)) < runner[r].cap
    BY <1>1, <2>2 DEF SlotInv
  <2>4. runner'[r] = runner[r]
    BY <1>1, RunnerKept DEF LockInv
  <2>5. ASSUME NEW s \in InFlight(r)' PROVE s \in InFlight(r)
    <3> SUFFICES ASSUME Commits(s) PROVE FALSE
      BY InFlightStep
    <3>1. PICK v \in Workers : pc[v] = "selected" /\ pc'[v] = "claimed"
      BY DEF Commits
    <3> QED BY <1>1, <3>1, OneSelected
  <2>6. InFlight(r)' \subseteq InFlight(r)
    BY <2>5
  <2>7. Cardinality(InFlight(r)') <= Cardinality(InFlight(r))
    BY <2>6, InFlightFinite, FS_Subset
  <2> QED BY <2>3, <2>4, <2>7, CapPositive, InFlightFinite, InFlightFiniteNext
<1>2. CASE \E y \in Tasks : ClaimSelect(w, y)
  <2>1. PICK t \in Tasks : ClaimSelect(w, t)
    BY <1>2
  <2>2. /\ row' = row /\ runner' = runner /\ job'[w].task = t /\ CeilingAvailable(t)
    BY <2>1 DEF ClaimSelect, Claimable, dbVars, Inv, TypeOK
  <2>3. row[t].repo = r
    BY <2>2
  <2>4. Cardinality(InFlight(r)) < runner[r].cap
    <3>1. ~(runner[r].cap > 0 /\ Cardinality(InFlight(r)) >= runner[r].cap)
      BY <2>2, <2>3 DEF CeilingAvailable
    <3> QED BY <3>1, CapPositive, InFlightFinite
  <2>5. InFlight(r)' = InFlight(r)
    BY <2>2 DEF InFlight
  <2> QED BY <2>2, <2>4, <2>5
<1> QED BY <1>1, <1>2, SelectedBy

CeilingStep ==
    0 \notin Ceilings =>
        \A r \in Repos :
            Cardinality(InFlight(r)') > Cardinality(InFlight(r))
              => Cardinality(InFlight(r)') <= runner[r].cap

LEMMA CeilingNext == ASSUME Inv, LockInv, SlotInv, [Next]_vars PROVE CeilingStep
<1> SUFFICES ASSUME 0 \notin Ceilings, NEW r \in Repos,
                    Cardinality(InFlight(r)') > Cardinality(InFlight(r))
             PROVE  Cardinality(InFlight(r)') <= runner[r].cap
  BY DEF CeilingStep
<1>1. PICK t \in InFlight(r)' : t \notin InFlight(r)
  <2> SUFFICES ASSUME InFlight(r)' \subseteq InFlight(r) PROVE FALSE
    OBVIOUS
  <2>1. Cardinality(InFlight(r)') <= Cardinality(InFlight(r))
    BY InFlightFinite, FS_Subset
  <2> QED BY <2>1, InFlightFinite, InFlightFiniteNext
<1>2. Commits(t) /\ row[t].repo = r
  BY <1>1, InFlightStep
<1>3. PICK w \in Workers : pc[w] = "selected" /\ job[w].task = t
  BY <1>2 DEF Commits
<1>4. Cardinality(InFlight(r)) < runner[r].cap /\ runner[r].cap \in Nat
  BY <1>2, <1>3, CapPositive DEF SlotInv
<1>5. InFlight(r)' \subseteq InFlight(r) \cup {t}
  <2> SUFFICES ASSUME NEW s \in InFlight(r)', Commits(s) PROVE s = t
    BY InFlightStep
  <2>1. PICK v \in Workers : pc[v] = "selected" /\ job[v].task = s
    BY DEF Commits
  <2> QED BY <1>3, <2>1, OneSelected
<1>6. /\ IsFiniteSet(InFlight(r) \cup {t})
      /\ Cardinality(InFlight(r) \cup {t}) = Cardinality(InFlight(r)) + 1
  BY <1>1, InFlightFinite, FS_AddElement
<1>7. Cardinality(InFlight(r)') <= Cardinality(InFlight(r)) + 1
  BY <1>5, <1>6, FS_Subset
<1> QED BY <1>4, <1>7, InFlightFinite, InFlightFiniteNext

LEMMA SlotInit == Init => SlotInv
BY DEF Init, SlotInv

\* The bound of _runner_ceiling_available holds across replicas: no
\* interleaving of claims, reclaims, retries, stale writes, settings and
\* crashes takes a repository past its runner's max_concurrency, when every
\* runner has one.
THEOREM CeilingExact == Spec => CeilingRespected
<1>1. Init => Inv /\ LockInv /\ SlotInv
  BY InitInv, LockInit, SlotInit
<1>2. (Inv /\ LockInv /\ SlotInv) /\ [Next]_vars => (Inv /\ LockInv /\ SlotInv)'
  BY InvNext, LockNext, SlotNext
<1>3. (Inv /\ LockInv /\ SlotInv) /\ [Next]_vars => [CeilingStep]_vars
  BY CeilingNext
<1> QED BY <1>1, <1>2, <1>3, PTL DEF Spec, CeilingRespected, CeilingStep

-----------------------------------------------------------------------------
(***************************************************************************)
(* The task queue implements TaskLease, for every set of workers and       *)
(* tasks.  What it needs most of Inv: a selected row is still queued when  *)
(* its claim commits.                                                      *)
(***************************************************************************)

AbsStep == Lease!Next \/ UNCHANGED <<stateBar, holderBar, busyBar>>

-----------------------------------------------------------------------------
(* The image of a write.                                                   *)

LEMMA SameTable == ASSUME row' = row PROVE stateBar' = stateBar /\ holderBar' = holderBar
BY DEF stateBar, holderBar, AbstractState

LEMMA WriteRow ==
    ASSUME Inv, NEW t \in Tasks, NEW y, row' = [row EXCEPT ![t] = y],
           NEW a, AbstractState(y.status) = a, NEW o, y.owner = o
    PROVE  /\ stateBar' = [stateBar EXCEPT ![t] = a]
           /\ holderBar' = [holderBar EXCEPT ![t] = o]
<1>1. row'[t] = y /\ \A s \in Tasks \ {t} : row'[s] = row[s]
  BY DEF Inv, TypeOK
<1>2. stateBar' = [s \in Tasks |-> AbstractState(row'[s].status)]
  BY DEF stateBar, AbstractState
<1>3. holderBar' = [s \in Tasks |-> row'[s].owner]
  BY DEF holderBar
<1>4. [stateBar EXCEPT ![t] = a]
        = [s \in Tasks |-> IF s = t THEN a ELSE AbstractState(row[s].status)]
  BY DEF stateBar
<1>5. [holderBar EXCEPT ![t] = o] = [s \in Tasks |-> IF s = t THEN o ELSE row[s].owner]
  BY DEF holderBar
<1>6. ASSUME NEW s \in Tasks
      PROVE  /\ AbstractState(row'[s].status) = IF s = t THEN a ELSE AbstractState(row[s].status)
             /\ row'[s].owner = IF s = t THEN o ELSE row[s].owner
  <2>1. CASE s = t
    BY <1>1, <2>1
  <2>2. CASE s # t
    BY <1>1, <2>2
  <2> QED BY <2>1, <2>2
<1>7. stateBar' = [stateBar EXCEPT ![t] = a]
  BY <1>2, <1>4, <1>6
<1>8. holderBar' = [holderBar EXCEPT ![t] = o]
  BY <1>3, <1>5, <1>6
<1> QED BY <1>7, <1>8

LEMMA PutRow ==
    ASSUME Inv, NEW t \in Tasks, NEW y, row' = [row EXCEPT ![t] = y], y.owner = NoWorker,
           NEW a, AbstractState(y.status) = a
    PROVE  Lease!Put(t, a)
BY WriteRow DEF Lease!Put

LEMMA KeepRow ==
    ASSUME Inv, NEW t \in Tasks, NEW y, row' = [row EXCEPT ![t] = y],
           y.owner = row[t].owner, AbstractState(y.status) = AbstractState(row[t].status)
    PROVE  stateBar' = stateBar /\ holderBar' = holderBar
<1>1. /\ stateBar' = [stateBar EXCEPT ![t] = AbstractState(row[t].status)]
      /\ holderBar' = [holderBar EXCEPT ![t] = row[t].owner]
  BY WriteRow
<1> QED BY <1>1 DEF stateBar, holderBar

LEMMA SameBlock ==
    ASSUME \A v \in Workers : /\ pc'[v] \in InBlock <=> pc[v] \in InBlock
                              /\ pc[v] \in InBlock => job'[v].task = job[v].task
    PROVE  busyBar' = busyBar
BY DEF busyBar, InBlock

LEMMA LeftBlock ==
    ASSUME NEW w \in Workers, pc'[w] \notin InBlock,
           \A v \in Workers \ {w} : pc'[v] = pc[v] /\ job'[v] = job[v]
    PROVE  busyBar' = [busyBar EXCEPT ![w] = NoTask]
BY DEF busyBar, InBlock

-----------------------------------------------------------------------------
LEMMA RefinesInit == Init => Lease!Init
BY DEF Init, Lease!Init, stateBar, holderBar, busyBar, InBlock, NoRow, AbstractState, Held

LEMMA RefinesNext == ASSUME Inv, [Next]_vars PROVE AbsStep
<1>1. ASSUME NEW p \in Producers, EnqueueInsert(p) PROVE AbsStep
  <2>1. PICK t \in Tasks : row[t].status = "absent" /\ row' = [row EXCEPT ![t] = NewRow(prod[p])]
    BY <1>1 DEF EnqueueInsert
  <2>2. NewRow(prod[p]).status = "queued" /\ NewRow(prod[p]).owner = NoWorker
    BY DEF NewRow
  <2>3. pc' = pc /\ job' = job
    BY <1>1 DEF EnqueueInsert, workerVars
  <2>4. Lease!Put(t, "waiting")
    <3>1. AbstractState(NewRow(prod[p]).status) = "waiting"
      BY <2>2 DEF AbstractState, Held
    <3> QED BY <2>1, <2>2, <3>1, PutRow
  <2>5. stateBar[t] = "absent"
    BY <2>1 DEF stateBar, AbstractState, Held
  <2>6. Lease!Submit(t)
    BY <2>3, <2>4, <2>5, SameBlock DEF Lease!Submit
  <2> QED BY <2>6 DEF AbsStep, Lease!Next
<1>2. ASSUME NEW p \in Producers, NEW q \in Request, EnqueueCheck(p, q) PROVE AbsStep
  <2>1. row' = row /\ \A v \in Workers : (pc'[v] \in InBlock <=> pc[v] \in InBlock)
        /\ (pc[v] \in InBlock => job'[v].task = job[v].task)
    BY <1>2 DEF EnqueueCheck, InBlock, dbVars, workerVars, Inv, TypeOK
  <2> QED BY <2>1, SameBlock, SameTable DEF AbsStep
<1>3. ASSUME NEW w \in Workers, Reclaim(w) PROVE AbsStep
  <2> DEFINE n(t) == row[t].attempts + 1
             ws == {t \in Tasks : Abandoned(t) /\ n(t) < MaxAttempts}
             ds == {t \in Tasks : Abandoned(t) /\ n(t) >= MaxAttempts}
  <2>1. /\ \A v \in Workers : (pc'[v] \in InBlock <=> pc[v] \in InBlock)
        /\ job' = job
    BY <1>3 DEF Reclaim, InBlock, Inv, TypeOK
  <2>2. busyBar' = busyBar
    BY <2>1, SameBlock
  <2>3. ASSUME NEW t \in Tasks, Abandoned(t)
        PROVE  /\ row'[t].owner = NoWorker /\ n(t) \in Nat
               /\ row'[t].status = IF n(t) >= MaxAttempts THEN "dead" ELSE "queued"
    <3>1. row[t] \in Row
      BY DEF Inv, TypeOK
    <3>2. row'[t] = Released(row[t], n(t), TRUE)
      BY <1>3, <2>3 DEF Reclaim
    <3>3. n(t) \in Nat
      BY <3>1 DEF Row
    <3> HIDE DEF n
    <3> QED BY <3>1, <3>2, <3>3 DEF Released, Row
  <2>4. \A t \in Tasks : ~Abandoned(t) => row'[t] = row[t]
    BY <1>3 DEF Reclaim
  <2>5. \A t \in Tasks : Abandoned(t) => stateBar[t] = "held"
    BY DEF Abandoned, stateBar, AbstractState, Held
  <2>6. AbstractState("dead") = "dead" /\ AbstractState("queued") = "waiting"
    BY DEF AbstractState, Held
  <2>7. ASSUME NEW t \in Tasks
        PROVE  /\ stateBar'[t] = IF t \in ws THEN "waiting"
                                 ELSE IF t \in ds THEN "dead" ELSE stateBar[t]
               /\ holderBar'[t] = IF t \in ws \cup ds THEN NoWorker ELSE holderBar[t]
    <3>1. stateBar'[t] = AbstractState(row'[t].status) /\ holderBar'[t] = row'[t].owner
      BY DEF stateBar, holderBar, AbstractState
    <3>2. CASE Abandoned(t)
      <4>1. n(t) \in Nat /\ (t \in ws <=> n(t) < MaxAttempts) /\ (t \in ds <=> n(t) >= MaxAttempts)
        BY <2>3, <3>2
      <4>2. t \in ws \cup ds /\ holderBar'[t] = NoWorker
        BY <2>3, <3>1, <3>2, <4>1
      <4> HIDE DEF ws, ds
      <4>3. CASE n(t) < MaxAttempts
        <5>1. t \in ws /\ row'[t].status = "queued"
          BY <2>3, <3>2, <4>1, <4>3
        <5> QED BY <2>6, <3>1, <4>2, <5>1
      <4>4. CASE n(t) >= MaxAttempts
        <5>1. t \notin ws /\ t \in ds /\ row'[t].status = "dead"
          BY <2>3, <3>2, <4>1, <4>4
        <5> QED BY <2>6, <3>1, <4>2, <5>1
      <4> QED BY <4>1, <4>3, <4>4
    <3>3. CASE ~Abandoned(t)
      BY <2>4, <3>1, <3>3 DEF stateBar, holderBar
    <3> QED BY <3>2, <3>3
  <2> HIDE DEF n
  <2>8. Lease!Revoke(ws, ds)
    <3>1. \A t \in ws \cup ds : stateBar[t] = "held"
      BY <2>5
    <3> HIDE DEF ws, ds
    <3>2. stateBar' = [t \in Tasks |-> IF t \in ws THEN "waiting"
                                 ELSE IF t \in ds THEN "dead" ELSE stateBar[t]]
      BY <2>7 DEF stateBar
    <3>3. holderBar' = [t \in Tasks |-> IF t \in ws \cup ds THEN NoWorker ELSE holderBar[t]]
      BY <2>7 DEF holderBar
    <3> QED BY <2>2, <3>1, <3>2, <3>3 DEF Lease!Revoke
  <2>9. ws \in SUBSET Tasks /\ ds \in SUBSET Tasks
    OBVIOUS
  <2> HIDE DEF ws, ds
  <2> QED BY <2>8, <2>9 DEF AbsStep, Lease!Next
<1>4. ASSUME NEW w \in Workers, ClaimBegin(w) PROVE AbsStep
  <2>1. row' = row /\ \A v \in Workers : (pc'[v] \in InBlock <=> pc[v] \in InBlock)
        /\ (pc[v] \in InBlock => job'[v].task = job[v].task)
    BY <1>4 DEF ClaimBegin, InBlock, dbVars, workerVars, Inv, TypeOK
  <2> QED BY <2>1, SameBlock, SameTable DEF AbsStep
<1>5. ASSUME NEW w \in Workers, NEW r \in Repos, ClaimLock(w, r) PROVE AbsStep
  <2>1. row' = row /\ \A v \in Workers : (pc'[v] \in InBlock <=> pc[v] \in InBlock)
        /\ (pc[v] \in InBlock => job'[v].task = job[v].task)
    BY <1>5 DEF ClaimLock, InBlock, dbVars, workerVars, Inv, TypeOK
  <2> QED BY <2>1, SameBlock, SameTable DEF AbsStep
<1>6. ASSUME NEW w \in Workers, ClaimNothing(w) PROVE AbsStep
  <2>1. row' = row /\ \A v \in Workers : (pc'[v] \in InBlock <=> pc[v] \in InBlock)
        /\ (pc[v] \in InBlock => job'[v].task = job[v].task)
    BY <1>6 DEF ClaimNothing, InBlock, dbVars, workerVars, Inv, TypeOK
  <2> QED BY <2>1, SameBlock, SameTable DEF AbsStep
<1>7. ASSUME NEW w \in Workers, NEW t \in Tasks, ClaimSelect(w, t) PROVE AbsStep
  <2>1. row' = row /\ \A v \in Workers : (pc'[v] \in InBlock <=> pc[v] \in InBlock)
        /\ (pc[v] \in InBlock => job'[v].task = job[v].task)
    BY <1>7 DEF ClaimSelect, InBlock, dbVars, workerVars, Inv, TypeOK
  <2> QED BY <2>1, SameBlock, SameTable DEF AbsStep
<1>8. ASSUME NEW w \in Workers, ClaimCommit(w) PROVE AbsStep
  <2> DEFINE u == job[w].task
  <2>1. /\ u \in Tasks /\ row[u] \in Row /\ row[u].status = "queued"
        /\ pc[w] = "selected" /\ pc'[w] = "claimed" /\ job' = job
        /\ \A v \in Workers \ {w} : pc'[v] = pc[v]
    BY <1>8 DEF ClaimCommit, Inv, TypeOK, SelectedIsQueued
  <2>2. busyBar' = [busyBar EXCEPT ![w] = u] /\ busyBar[w] = NoTask
    BY <2>1 DEF InBlock, busyBar
  <2>3. row' = [row EXCEPT ![u] = LeasedTo(row[u], w)]
    BY <1>8 DEF ClaimCommit
  <2>4. LeasedTo(row[u], w).owner = w /\ LeasedTo(row[u], w).status = "leased"
    BY <2>1 DEF LeasedTo, Row
  <2> HIDE DEF u
  <2>5. stateBar[u] = "waiting" /\ AbstractState(LeasedTo(row[u], w).status) = "held"
    BY <2>1, <2>4 DEF stateBar, AbstractState, Held
  <2> DEFINE y == LeasedTo(row[u], w)
  <2>a. u \in Tasks /\ row' = [row EXCEPT ![u] = y] /\ y.owner = w /\ AbstractState(y.status) = "held"
    BY <2>1, <2>3, <2>4, <2>5
  <2> HIDE DEF y
  <2>6. /\ stateBar' = [stateBar EXCEPT ![u] = "held"]
        /\ holderBar' = [holderBar EXCEPT ![u] = w]
    BY <2>a, WriteRow, Zenon
  <2>7. Lease!Grant(w, u)
    BY <2>2, <2>5, <2>6 DEF Lease!Grant
  <2> QED BY <2>1, <2>7 DEF AbsStep, Lease!Next
<1>9. ASSUME NEW w \in Workers, MarkRunning(w) PROVE AbsStep
  <2> DEFINE u == job[w].task
  <2>1. u \in Tasks /\ row[u] \in Row
    BY <1>9 DEF MarkRunning, Inv, TypeOK, JobInv, InJob
  <2>2. busyBar' = busyBar
    <3>1. /\ pc[w] = "claimed" /\ pc'[w] = "working" /\ job' = job
          /\ \A v \in Workers \ {w} : pc'[v] = pc[v]
      BY <1>9 DEF MarkRunning, Inv, TypeOK
    <3> QED BY <3>1, SameBlock DEF InBlock
  <2>3. CASE row[job[w].task].owner = w /\ row[job[w].task].status = "leased"
    <3>1. row' = [row EXCEPT ![u] = Running(row[u])] /\ row[u].status = "leased"
      BY <1>9, <2>3 DEF MarkRunning
    <3>2. Running(row[u]).owner = row[u].owner /\ Running(row[u]).status = "running"
      BY <2>1 DEF Running, Row
    <3>3. AbstractState("running") = AbstractState("leased")
      BY DEF AbstractState, Held
    <3> HIDE DEF u
    <3> QED BY <2>1, <2>2, <3>1, <3>2, <3>3, KeepRow DEF AbsStep
  <2>4. CASE ~(row[job[w].task].owner = w /\ row[job[w].task].status = "leased")
    <3>1. row' = row
      BY <1>9, <2>4 DEF MarkRunning
    <3> QED BY <2>2, <3>1, SameTable DEF AbsStep
  <2> QED BY <2>3, <2>4
<1>10. ASSUME NEW w \in Workers, Succeed(w) PROVE AbsStep
  <2> DEFINE u == job[w].task
  <2>1. /\ u \in Tasks /\ row[u] \in Row /\ pc[w] = "working" /\ pc'[w] = "idle"
        /\ \A v \in Workers \ {w} : pc'[v] = pc[v] /\ job'[v] = job[v]
    BY <1>10 DEF Succeed, LeaveBlock, Inv, TypeOK, JobInv, InJob
  <2>2. busyBar' = [busyBar EXCEPT ![w] = NoTask] /\ busyBar[w] = u
    BY <2>1, LeftBlock DEF InBlock, busyBar
  <2>3. CASE Owns(w, job[w].task)
    <3>1. row' = [row EXCEPT ![u] = Done(row[u])] /\ row[u].owner = w /\ row[u].status \in Held
      BY <1>10, <2>3 DEF Succeed, Owns
    <3>2. Done(row[u]).status = "done" /\ Done(row[u]).owner = NoWorker
      BY <2>1 DEF Done, Row
    <3> HIDE DEF u
    <3>3. AbstractState(Done(row[u]).status) = "done"
      BY <3>2 DEF AbstractState, Held
    <3>4. Lease!Put(u, "done")
      BY <2>1, <3>1, <3>2, <3>3, PutRow
    <3>5. holderBar[u] = w /\ stateBar[u] = "held"
      BY <2>1, <3>1 DEF holderBar, stateBar, AbstractState, Held
    <3>6. Lease!Complete(w, u)
      BY <2>2, <3>4, <3>5 DEF Lease!Complete
    <3> QED BY <2>1, <3>6 DEF AbsStep, Lease!Next
  <2>4. CASE ~Owns(w, job[w].task)
    <3>1. row' = row
      BY <1>10, <2>4 DEF Succeed
    <3>2. Lease!Leave(w)
      BY <2>2, <3>1, SameTable DEF Lease!Leave
    <3> QED BY <3>2 DEF AbsStep, Lease!Next
  <2> QED BY <2>3, <2>4
<1>11. ASSUME NEW w \in Workers, FailLost(w) PROVE AbsStep
  <2>1. row' = row /\ pc'[w] = "idle" /\ \A v \in Workers \ {w} : pc'[v] = pc[v] /\ job'[v] = job[v]
    BY <1>11 DEF FailLost, LeaveBlock, dbVars, Inv, TypeOK
  <2>2. busyBar' = [busyBar EXCEPT ![w] = NoTask]
    BY <2>1, LeftBlock DEF InBlock
  <2>3. Lease!Leave(w)
    BY <2>1, <2>2, SameTable DEF Lease!Leave
  <2> QED BY <2>3 DEF AbsStep, Lease!Next
<1>12. ASSUME NEW w \in Workers, FailRead(w) PROVE AbsStep
  <2>1. row' = row /\ \A v \in Workers : (pc'[v] \in InBlock <=> pc[v] \in InBlock)
        /\ (pc[v] \in InBlock => job'[v].task = job[v].task)
    BY <1>12 DEF FailRead, InBlock, dbVars, workerVars, Inv, TypeOK
  <2> QED BY <2>1, SameBlock, SameTable DEF AbsStep
<1>13. ASSUME NEW w \in Workers, FailWrite(w) PROVE AbsStep
  <2> DEFINE u == job[w].task
             n == job[w].seen + 1
             d == IF n >= MaxAttempts THEN row[u].due ELSE FALSE
  <2>1. /\ u \in Tasks /\ row[u] \in Row /\ pc[w] = "failing" /\ pc'[w] = "idle"
        /\ \A v \in Workers \ {w} : pc'[v] = pc[v] /\ job'[v] = job[v]
    BY <1>13 DEF FailWrite, LeaveBlock, Inv, TypeOK, JobInv, InJob
  <2>2. busyBar' = [busyBar EXCEPT ![w] = NoTask] /\ busyBar[w] = u
    BY <2>1, LeftBlock DEF InBlock, busyBar
  <2>3. row' = [row EXCEPT ![u] = Released(row[u], n, d)]
    BY <1>13 DEF FailWrite
  <2> HIDE DEF u, n, d
  <2>4. Released(row[u], n, d).owner = NoWorker /\ Released(row[u], n, d).status \in {"queued", "dead"}
    BY <2>1 DEF Released, Row
  <2>5. AbstractState("dead") = "dead" /\ AbstractState("queued") = "waiting"
    BY DEF AbstractState, Held
  <2>6. Lease!Put(u, "waiting") \/ Lease!Put(u, "dead")
    BY <2>1, <2>3, <2>4, <2>5, PutRow
  <2>7. Lease!GiveUp(w, u)
    BY <2>2, <2>6 DEF Lease!GiveUp
  <2> QED BY <2>1, <2>7 DEF AbsStep, Lease!Next
<1>14. ASSUME NEW w \in Workers, Heartbeat(w) PROVE AbsStep
  <2> DEFINE u == job[w].task
  <2>1. u \in Tasks /\ row[u] \in Row /\ pc' = pc /\ job' = job
    BY <1>14 DEF Heartbeat, Inv, TypeOK, JobInv, InJob
  <2>2. CASE Owns(w, job[w].task)
    <3>1. row' = [row EXCEPT ![u] = WithLease(row[u], "live")]
      BY <1>14, <2>2 DEF Heartbeat
    <3>2. /\ WithLease(row[u], "live").owner = row[u].owner
          /\ WithLease(row[u], "live").status = row[u].status
      BY <2>1 DEF WithLease, Row
    <3> HIDE DEF u
    <3> QED BY <2>1, <3>1, <3>2, KeepRow, SameBlock DEF AbsStep
  <2>3. CASE ~Owns(w, job[w].task)
    <3>1. row' = row
      BY <1>14, <2>3 DEF Heartbeat
    <3> QED BY <2>1, <3>1, SameBlock, SameTable DEF AbsStep
  <2> QED BY <2>2, <2>3
<1>15. ASSUME NEW w \in Workers, Restart(w) PROVE AbsStep
  <2>1. row' = row /\ \A v \in Workers : (pc'[v] \in InBlock <=> pc[v] \in InBlock)
        /\ (pc[v] \in InBlock => job'[v].task = job[v].task)
    BY <1>15 DEF Restart, InBlock, dbVars, workerVars, Inv, TypeOK
  <2> QED BY <2>1, SameBlock, SameTable DEF AbsStep
<1>16. ASSUME NEW t \in Tasks, Retry(t) PROVE AbsStep
  <2>1. row[t] \in Row /\ row[t].status = "dead" /\ row' = [row EXCEPT ![t] = Requeued(row[t])] /\ pc' = pc /\ job' = job
    BY <1>16 DEF Retry, workerVars, Inv, TypeOK
  <2>2. Requeued(row[t]).status = "queued" /\ Requeued(row[t]).owner = NoWorker
    BY <2>1 DEF Requeued, Row
  <2>3. Lease!Put(t, "waiting")
    <3>1. AbstractState("queued") = "waiting"
      BY DEF AbstractState, Held
    <3> QED BY <2>1, <2>2, <3>1, PutRow
  <2>4. stateBar[t] = "dead"
    BY <2>1 DEF stateBar, AbstractState, Held, Active
  <2>5. Lease!Revive(t)
    BY <2>1, <2>3, <2>4, SameBlock DEF Lease!Revive
  <2> QED BY <2>5 DEF AbsStep, Lease!Next
<1>17. ASSUME NEW t \in Tasks, Cancel(t) PROVE AbsStep
  <2>1. row[t] \in Row /\ row[t].status \in Active /\ row' = [row EXCEPT ![t] = Parked(row[t])] /\ pc' = pc /\ job' = job
    BY <1>17 DEF Cancel, workerVars, Inv, TypeOK
  <2>2. Parked(row[t]).status = "dead" /\ Parked(row[t]).owner = NoWorker
    BY <2>1 DEF Parked, Row
  <2>3. Lease!Put(t, "dead")
    <3>1. AbstractState("dead") = "dead"
      BY DEF AbstractState, Held
    <3> QED BY <2>1, <2>2, <3>1, PutRow
  <2>4. stateBar[t] \in {"waiting", "held"}
    BY <2>1 DEF stateBar, AbstractState, Held, Active
  <2>5. Lease!Cancel(t)
    BY <2>1, <2>3, <2>4, SameBlock DEF Lease!Cancel
  <2> QED BY <2>5 DEF AbsStep, Lease!Next
<1>18. ASSUME NEW r \in Repos, NEW s \in [cap : Ceilings, enabled : BOOLEAN], SetRunner(r, s) PROVE AbsStep
  <2>1. row' = row /\ \A v \in Workers : (pc'[v] \in InBlock <=> pc[v] \in InBlock)
        /\ (pc[v] \in InBlock => job'[v].task = job[v].task)
    BY <1>18 DEF SetRunner, InBlock, dbVars, workerVars, Inv, TypeOK
  <2> QED BY <2>1, SameBlock, SameTable DEF AbsStep
<1>19. ASSUME NEW t \in Tasks, LeaseExpires(t) PROVE AbsStep
  <2>1. row[t] \in Row /\ row[t].status \in Held /\ row' = [row EXCEPT ![t] = WithLease(row[t], "expired")]
        /\ pc' = pc /\ job' = job
    BY <1>19 DEF LeaseExpires, workerVars, Inv, TypeOK
  <2>2. WithLease(row[t], "expired").owner = row[t].owner /\ WithLease(row[t], "expired").status = row[t].status
    BY <2>1 DEF WithLease, Row
  <2>3. stateBar' = stateBar /\ holderBar' = holderBar
    BY <2>1, <2>2, KeepRow
  <2> QED BY <2>1, <2>3, SameBlock DEF AbsStep
<1>20. ASSUME NEW t \in Tasks, BecomesDue(t) PROVE AbsStep
  <2>1. row[t] \in Row /\ row[t].status = "queued" /\ row' = [row EXCEPT ![t] = NowDue(row[t])]
        /\ pc' = pc /\ job' = job
    BY <1>20 DEF BecomesDue, workerVars, Inv, TypeOK
  <2>2. NowDue(row[t]).owner = row[t].owner /\ NowDue(row[t]).status = row[t].status
    BY <2>1 DEF NowDue, Row
  <2>3. stateBar' = stateBar /\ holderBar' = holderBar
    BY <2>1, <2>2, KeepRow
  <2> QED BY <2>1, <2>3, SameBlock DEF AbsStep
<1>21. ASSUME NEW w \in Workers, Crash(w) PROVE AbsStep
  <2>1. row' = row /\ pc'[w] = "down" /\ \A v \in Workers \ {w} : pc'[v] = pc[v] /\ job'[v] = job[v]
    BY <1>21 DEF Crash, LeaveBlock, dbVars, Inv, TypeOK
  <2>2. busyBar' = [busyBar EXCEPT ![w] = NoTask]
    BY <2>1, LeftBlock DEF InBlock
  <2>3. Lease!Leave(w)
    BY <2>1, <2>2, SameTable DEF Lease!Leave
  <2> QED BY <2>3 DEF AbsStep, Lease!Next
<1>22. ASSUME NEW w \in Workers, HeartbeatDies(w) PROVE AbsStep
  <2>1. row' = row /\ \A v \in Workers : (pc'[v] \in InBlock <=> pc[v] \in InBlock)
        /\ (pc[v] \in InBlock => job'[v].task = job[v].task)
    BY <1>22 DEF HeartbeatDies, InBlock, dbVars, workerVars, Inv, TypeOK
  <2> QED BY <2>1, SameBlock, SameTable DEF AbsStep
<1>23. ASSUME NEW t \in Tasks, Stall(t) PROVE AbsStep
  <2>1. row[t] \in Row /\ row[t].status \in Held /\ row' = [row EXCEPT ![t] = WithLease(row[t], "expired")]
        /\ pc' = pc /\ job' = job
    BY <1>23 DEF Stall, workerVars, Inv, TypeOK
  <2>2. WithLease(row[t], "expired").owner = row[t].owner /\ WithLease(row[t], "expired").status = row[t].status
    BY <2>1 DEF WithLease, Row
  <2>3. stateBar' = stateBar /\ holderBar' = holderBar
    BY <2>1, <2>2, KeepRow
  <2> QED BY <2>1, <2>3, SameBlock DEF AbsStep
<1>24. CASE UNCHANGED vars
  BY <1>24 DEF vars, AbsStep, stateBar, holderBar, busyBar
<1> QED
  BY <1>1, <1>2, <1>3, <1>4, <1>5, <1>6, <1>7, <1>8, <1>9, <1>10, <1>11,
     <1>12, <1>13, <1>14, <1>15, <1>16, <1>17, <1>18, <1>19, <1>20, <1>21,
     <1>22, <1>23, <1>24
  DEF Next, Produce, Step, Operate, Tick, Fault

\* The queue keeps the promise of TaskLease through every interleaving of
\* producers, replicas, operator actions, crashes and expiring leases.
THEOREM QueueImplements == Spec => ImplementsTaskLease
<1>1. Inv /\ [Next]_vars => [Lease!Next]_(Lease!vars)
  BY RefinesNext DEF AbsStep, Lease!vars
<1> QED BY <1>1, RefinesInit, InvHolds, PTL DEF Spec, ImplementsTaskLease, Lease!Spec
=============================================================================
