----------------------------- MODULE AgentQueue -----------------------------
(***************************************************************************)
(* The agent task queue of backend/services/agent_queue.py: one database   *)
(* table of tasks, producers that append to it, worker processes that      *)
(* lease, run and settle tasks, and an operator who retries and cancels.   *)
(*                                                                         *)
(* Transactions are split where another transaction can come between:      *)
(* enqueue reads before it inserts, fail reads before it writes, and claim *)
(* locks the runner rows, selects a task row and commits.  That is the     *)
(* PostgreSQL behaviour (READ COMMITTED, FOR UPDATE); SQLite's BEGIN       *)
(* IMMEDIATE runs claims one at a time, which is a subset of it.           *)
(*                                                                         *)
(* Time is abstracted to its two comparisons: a lease is "live" or         *)
(* "expired" (lease_until < now) and a row is due (scheduled_at <= now) or *)
(* not; LeaseExpires and BecomesDue are the passing of time.               *)
(***************************************************************************)
EXTENDS Integers, FiniteSets

CONSTANTS
    Workers,      \* worker processes (runner containers)
    Producers,    \* request threads that call enqueue
    Repos,        \* repository ids; numbers, because claim locks in id order
    Tasks,        \* task ids, given out in increasing order
    Keys,         \* dedup keys
    Priorities,   \* priorities producers use
    Ceilings,     \* values an operator gives a runner's max_concurrency
    EnvCeiling,   \* AGENT_MAX_IN_FLIGHT_PER_REPO, 0 for no throttle
    MaxAttempts,  \* max_attempts of every task
    MaxOps,       \* bound: operator actions (retry, cancel, runner settings)
    MaxFaults,    \* bound: crashes, dead heartbeats, stalls past the deadline
    NoWorker, NoKey, NoRepo, NoTask

ASSUME RepoAssumption == Repos \subseteq Nat /\ NoRepo \notin Repos
ASSUME TaskAssumption == /\ Tasks \subseteq Nat
                          /\ IsFiniteSet(Tasks)
                          /\ NoTask \notin Tasks
ASSUME WorkerAssumption == NoWorker \notin Workers
ASSUME ProducerAssumption == IsFiniteSet(Producers)
ASSUME AttemptsAssumption == MaxAttempts \in Nat \ {0}
ASSUME BoundAssumption == MaxOps \in Nat /\ MaxFaults \in Nat
ASSUME CeilingAssumption == Ceilings \subseteq Nat /\ EnvCeiling \in Nat
ASSUME PriorityAssumption == Priorities \subseteq Int

VARIABLES
    row,      \* the agent_tasks table
    runner,   \* the repo_runners table; no row reads as inherit and enabled
    prod,     \* prod[p]: the enqueue p has checked and not yet inserted
    pc,       \* pc[w]: where w is in run_once
    job,      \* job[w]: the task w claimed, its attempt, what fail() read
    beat,     \* beat[w]: w's heartbeat thread is alive
    want,     \* want[w]: runner rows the claim still has to lock
    locked,   \* locked[w]: runner rows the claim holds FOR UPDATE
    ops,      \* operator actions so far
    faults    \* faults so far

dbVars == <<row, runner>>
workerVars == <<pc, job, beat, want, locked>>
vars == <<row, runner, prod, pc, job, beat, want, locked, ops, faults>>

Held == {"leased", "running"}            \* RUNNING_TASK_STATUSES
Active == {"queued"} \cup Held           \* ACTIVE_TASK_STATUSES
Status == Active \cup {"absent", "done", "dead"}
Pc == {"down", "idle", "reclaimed", "locking", "selected",
       "claimed", "working", "failing"}

Request == [repo : Repos, key : Keys \cup {NoKey}, prio : Priorities]
NoRequest == [repo |-> NoRepo, key |-> NoKey, prio |-> 0]
NoJob == [task |-> NoTask, attempt |-> 0, seen |-> 0]
NoRow == [repo |-> NoRepo, key |-> NoKey, prio |-> 0, status |-> "absent",
          attempts |-> 0, owner |-> NoWorker, lease |-> "none", due |-> FALSE]

Row == [repo : Repos \cup {NoRepo}, key : Keys \cup {NoKey},
        prio : Priorities \cup {0}, status : Status, attempts : 0..MaxAttempts,
        owner : Workers \cup {NoWorker}, lease : {"none", "live", "expired"},
        due : BOOLEAN]

TypeOK ==
    /\ row \in [Tasks -> Row]
    /\ runner \in [Repos -> [cap : Ceilings, enabled : BOOLEAN]]
    /\ prod \in [Producers -> Request \cup {NoRequest}]
    /\ pc \in [Workers -> Pc]
    /\ job \in [Workers -> [task : Tasks \cup {NoTask}, attempt : 0..MaxAttempts,
                            seen : 0..MaxAttempts]]
    /\ beat \in [Workers -> BOOLEAN]
    /\ want \in [Workers -> SUBSET Repos]
    /\ locked \in [Workers -> SUBSET Repos]
    /\ ops \in 0..MaxOps
    /\ faults \in 0..MaxFaults

-----------------------------------------------------------------------------
(* Reads of the tables.                                                    *)

ActiveOf(r) == {t \in Tasks : row[t].repo = r /\ row[t].status \in Active}
InFlight(r) == {t \in Tasks : row[t].repo = r /\ row[t].status \in Held}

\* enqueue: the runner's max_concurrency when positive, else the environment.
ThrottleOf(r) == IF runner[r].cap > 0 THEN runner[r].cap ELSE EnvCeiling

Runnable(t) == runner[row[t].repo].enabled

CeilingAvailable(t) ==
    LET cap == runner[row[t].repo].cap
    IN  ~(cap > 0 /\ Cardinality(InFlight(row[t].repo)) >= cap)

\* A claim between its SELECT ... FOR UPDATE and its commit holds the task row.
RowLocked(t) == \E w \in Workers : pc[w] = "selected" /\ job[w].task = t
RunnerLocked(r) == \E w \in Workers : r \in locked[w]

\* priority DESC, created_at ASC; ids are created in time order.
Before(s, t) == \/ row[s].prio > row[t].prio
                \/ row[s].prio = row[t].prio /\ s < t

\* Mutation of Claimable: the SELECT takes no row locks (no SKIP LOCKED).
ClaimableUnlocked == {t \in Tasks : /\ row[t].status = "queued"
                                    /\ row[t].due
                                    /\ Runnable(t)
                                    /\ CeilingAvailable(t)}

Claimable == {t \in Tasks : /\ row[t].status = "queued"
                            /\ row[t].due
                            /\ Runnable(t)
                            /\ CeilingAvailable(t)
                            /\ ~RowLocked(t)}

\* The guard of every outcome write and of the heartbeat.
Owns(w, t) == row[t].owner = w /\ row[t].status \in Held

-----------------------------------------------------------------------------
(* Row updates.                                                            *)

NewRow(q) == [repo |-> q.repo, key |-> q.key, prio |-> q.prio,
              status |-> "queued", attempts |-> 0, owner |-> NoWorker,
              lease |-> "none", due |-> TRUE]
LeasedTo(x, w) == [x EXCEPT !.status = "leased", !.owner = w, !.lease = "live"]
Running(x) == [x EXCEPT !.status = "running"]
Done(x) == [x EXCEPT !.status = "done", !.owner = NoWorker, !.lease = "none"]
WithLease(x, l) == [x EXCEPT !.lease = l]
NowDue(x) == [x EXCEPT !.due = TRUE]
Requeued(x) == [x EXCEPT !.status = "queued", !.attempts = 0,
                         !.owner = NoWorker, !.lease = "none", !.due = TRUE]
Parked(x) == [x EXCEPT !.status = "dead", !.owner = NoWorker, !.lease = "none"]

\* Mutation of Released: lease_until is not cleared.
ReleasedWithLease(x, attempts, due) ==
    [x EXCEPT !.attempts = attempts,
              !.owner = NoWorker,
              !.status = IF attempts >= MaxAttempts THEN "dead" ELSE "queued",
              !.due = due]

\* A failed attempt: dead at max_attempts, otherwise queued again.
Released(x, attempts, due) ==
    [x EXCEPT !.attempts = attempts,
              !.owner = NoWorker,
              !.lease = "none",
              !.status = IF attempts >= MaxAttempts THEN "dead" ELSE "queued",
              !.due = due]

\* Mutation of Abandoned: the sweep looks at leased rows only.
AbandonedLeased(t) == row[t].status = "leased" /\ row[t].lease = "expired"

\* reclaim_expired: the deadline passed and nobody renewed the lease.
Abandoned(t) == row[t].status \in Held /\ row[t].lease = "expired"

-----------------------------------------------------------------------------
Init ==
    /\ row = [t \in Tasks |-> NoRow]
    /\ runner \in [Repos -> [cap : Ceilings, enabled : {TRUE}]]
    /\ prod = [p \in Producers |-> NoRequest]
    /\ pc = [w \in Workers |-> "idle"]
    /\ job = [w \in Workers |-> NoJob]
    /\ beat = [w \in Workers |-> FALSE]
    /\ want = [w \in Workers |-> {}]
    /\ locked = [w \in Workers |-> {}]
    /\ ops = 0
    /\ faults = 0

-----------------------------------------------------------------------------
(* Producers: enqueue is a dedup read, a throttle read and an insert.      *)

\* Mutation of EnqueueCheck: the throttle admits at the ceiling.
EnqueueCheckOffByOne(p, q) ==
    /\ prod[p] = NoRequest
    /\ q.key # NoKey => ~ \E t \in ActiveOf(q.repo) : row[t].key = q.key
    /\ ThrottleOf(q.repo) > 0
         => Cardinality(ActiveOf(q.repo)) <= ThrottleOf(q.repo)
    /\ prod' = [prod EXCEPT ![p] = q]
    /\ UNCHANGED <<dbVars, workerVars, ops, faults>>

EnqueueCheck(p, q) ==
    /\ prod[p] = NoRequest
    /\ q.key # NoKey => ~ \E t \in ActiveOf(q.repo) : row[t].key = q.key
    /\ ThrottleOf(q.repo) > 0
         => Cardinality(ActiveOf(q.repo)) < ThrottleOf(q.repo)
    /\ prod' = [prod EXCEPT ![p] = q]
    /\ UNCHANGED <<dbVars, workerVars, ops, faults>>

EnqueueInsert(p) ==
    /\ prod[p] # NoRequest
    /\ \E t \in Tasks :
        /\ row[t].status = "absent"
        /\ \A s \in Tasks : row[s].status = "absent" => t <= s
        /\ row' = [row EXCEPT ![t] = NewRow(prod[p])]
    /\ prod' = [prod EXCEPT ![p] = NoRequest]
    /\ UNCHANGED <<runner, workerVars, ops, faults>>

-----------------------------------------------------------------------------
(* Workers: run_once is reclaim, claim, mark_running, handler, settle.     *)

\* Mutation of Reclaim: the sweep counts attempts and never gives up.
ReclaimForever(w) ==
    /\ pc[w] = "idle"
    /\ row' = [t \in Tasks |-> IF Abandoned(t)
                               THEN [row[t] EXCEPT !.attempts = @ + 1, !.owner = NoWorker,
                                       !.lease = "none", !.status = "queued"]
                               ELSE row[t]]
    /\ pc' = [pc EXCEPT ![w] = "reclaimed"]
    /\ UNCHANGED <<runner, prod, job, beat, want, locked, ops, faults>>

Reclaim(w) ==
    /\ pc[w] = "idle"
    /\ row' = [t \in Tasks |-> IF Abandoned(t)
                               THEN Released(row[t], row[t].attempts + 1, TRUE)
                               ELSE row[t]]
    /\ pc' = [pc EXCEPT ![w] = "reclaimed"]
    /\ UNCHANGED <<runner, prod, job, beat, want, locked, ops, faults>>

\* Mutation of ClaimBegin: no repository lock.
ClaimBeginUnlocked(w) ==
    /\ pc[w] = "reclaimed"
    /\ pc' = [pc EXCEPT ![w] = "locking"]
    /\ UNCHANGED <<dbVars, prod, job, beat, want, locked, ops, faults>>

\* The snapshot of the locking SELECT: the runners with a ceiling.
ClaimBegin(w) ==
    /\ pc[w] = "reclaimed"
    /\ pc' = [pc EXCEPT ![w] = "locking"]
    /\ want' = [want EXCEPT ![w] = {r \in Repos : runner[r].cap > 0}]
    /\ UNCHANGED <<dbVars, prod, job, beat, locked, ops, faults>>

\* FOR UPDATE in repo_id order; a row that lost its ceiling is filtered out
\* again when the lock is granted.
ClaimLock(w, r) ==
    /\ pc[w] = "locking"
    /\ r \in want[w]
    /\ \A s \in want[w] : r <= s
    /\ ~RunnerLocked(r)
    /\ want' = [want EXCEPT ![w] = @ \ {r}]
    /\ locked' = [locked EXCEPT ![w] = IF runner[r].cap > 0 THEN @ \cup {r} ELSE @]
    /\ UNCHANGED <<dbVars, prod, pc, job, beat, ops, faults>>

\* Mutation of ClaimNothing: the empty claim returns without a rollback.
ClaimNothingLocked(w) ==
    /\ pc[w] = "locking"
    /\ want[w] = {}
    /\ Claimable = {}
    /\ pc' = [pc EXCEPT ![w] = "idle"]
    /\ UNCHANGED <<dbVars, prod, job, beat, want, locked, ops, faults>>

\* Nothing to do: rollback, and sleep until the next cycle.
ClaimNothing(w) ==
    /\ pc[w] = "locking"
    /\ want[w] = {}
    /\ Claimable = {}
    /\ pc' = [pc EXCEPT ![w] = "idle"]
    /\ locked' = [locked EXCEPT ![w] = {}]
    /\ UNCHANGED <<dbVars, prod, job, beat, want, ops, faults>>

ClaimSelect(w, t) ==
    /\ pc[w] = "locking"
    /\ want[w] = {}
    /\ t \in Claimable
    /\ \A s \in Claimable : ~Before(s, t)
    /\ pc' = [pc EXCEPT ![w] = "selected"]
    /\ job' = [job EXCEPT ![w] = [task |-> t, attempt |-> row[t].attempts, seen |-> 0]]
    /\ UNCHANGED <<dbVars, prod, beat, want, locked, ops, faults>>

\* The commit writes the lease; the heartbeat thread starts.
ClaimCommit(w) ==
    /\ pc[w] = "selected"
    /\ row' = [row EXCEPT ![job[w].task] = LeasedTo(@, w)]
    /\ pc' = [pc EXCEPT ![w] = "claimed"]
    /\ beat' = [beat EXCEPT ![w] = TRUE]
    /\ locked' = [locked EXCEPT ![w] = {}]
    /\ UNCHANGED <<runner, prod, job, want, ops, faults>>

\* Mutation of MarkRunning: the UPDATE takes the lease instead of testing it.
MarkRunningTakes(w) ==
    /\ pc[w] = "claimed"
    /\ row' = [row EXCEPT ![job[w].task] = [Running(LeasedTo(@, w)) EXCEPT !.lease = "live"]]
    /\ pc' = [pc EXCEPT ![w] = "working"]
    /\ UNCHANGED <<runner, prod, job, beat, want, locked, ops, faults>>

\* run_once ignores the result: a worker whose lease is gone works on.
MarkRunning(w) ==
    /\ pc[w] = "claimed"
    /\ row' = IF row[job[w].task].owner = w /\ row[job[w].task].status = "leased"
              THEN [row EXCEPT ![job[w].task] = Running(@)]
              ELSE row
    /\ pc' = [pc EXCEPT ![w] = "working"]
    /\ UNCHANGED <<runner, prod, job, beat, want, locked, ops, faults>>

\* The with-block is left: the heartbeat stops and the loop goes on.
LeaveBlock(w) ==
    /\ pc' = [pc EXCEPT ![w] = "idle"]
    /\ job' = [job EXCEPT ![w] = NoJob]
    /\ beat' = [beat EXCEPT ![w] = FALSE]

\* Mutation of Succeed: the UPDATE is not guarded by leased_by.
SucceedUnfenced(w) ==
    /\ pc[w] = "working"
    /\ row' = IF row[job[w].task].status \in Held
              THEN [row EXCEPT ![job[w].task] = Done(@)]
              ELSE row
    /\ LeaveBlock(w)
    /\ UNCHANGED <<runner, prod, want, locked, ops, faults>>

\* The handler returned: one guarded UPDATE, no effect without the lease.
Succeed(w) ==
    /\ pc[w] = "working"
    /\ row' = IF Owns(w, job[w].task)
              THEN [row EXCEPT ![job[w].task] = Done(@)]
              ELSE row
    /\ LeaveBlock(w)
    /\ UNCHANGED <<runner, prod, want, locked, ops, faults>>

\* The handler raised: fail() reads the row under its guard ...
FailLost(w) ==
    /\ pc[w] = "working"
    /\ ~Owns(w, job[w].task)
    /\ LeaveBlock(w)
    /\ UNCHANGED <<dbVars, prod, want, locked, ops, faults>>

FailRead(w) ==
    /\ pc[w] = "working"
    /\ Owns(w, job[w].task)
    /\ pc' = [pc EXCEPT ![w] = "failing"]
    /\ job' = [job EXCEPT ![w].seen = row[job[w].task].attempts]
    /\ UNCHANGED <<dbVars, prod, beat, want, locked, ops, faults>>

\* ... and flushes it with an UPDATE by primary key, which has no guard.  A
\* retry waits for its back-off; scheduled_at is not written on dead.
FailWrite(w) ==
    /\ pc[w] = "failing"
    /\ ~RowLocked(job[w].task)
    /\ row' = [row EXCEPT ![job[w].task] =
                 Released(@, job[w].seen + 1,
                          IF job[w].seen + 1 >= MaxAttempts THEN @.due ELSE FALSE)]
    /\ LeaveBlock(w)
    /\ UNCHANGED <<runner, prod, want, locked, ops, faults>>

\* The heartbeat renews a lease the worker still owns, expired or not, and
\* its thread ends when the row is no longer the worker's.
Heartbeat(w) ==
    /\ beat[w]
    /\ pc[w] \in {"claimed", "working", "failing"}
    /\ IF Owns(w, job[w].task)
       THEN /\ row[job[w].task].lease = "expired"
            /\ row' = [row EXCEPT ![job[w].task] = WithLease(@, "live")]
            /\ UNCHANGED beat
       ELSE /\ beat' = [beat EXCEPT ![w] = FALSE]
            /\ UNCHANGED row
    /\ UNCHANGED <<runner, prod, pc, job, want, locked, ops, faults>>

-----------------------------------------------------------------------------
(* The operator: retry, cancel, and the settings of a repository's runner. *)

Retry(t) ==
    /\ ops < MaxOps
    /\ row[t].status = "dead"
    /\ row' = [row EXCEPT ![t] = Requeued(@)]
    /\ ops' = ops + 1
    /\ UNCHANGED <<runner, prod, workerVars, faults>>

Cancel(t) ==
    /\ ops < MaxOps
    /\ row[t].status \in Active
    /\ ~RowLocked(t)
    /\ row' = [row EXCEPT ![t] = Parked(@)]
    /\ ops' = ops + 1
    /\ UNCHANGED <<runner, prod, workerVars, faults>>

SetRunner(r, settings) ==
    /\ ops < MaxOps
    /\ ~RunnerLocked(r)
    /\ runner[r] # settings
    /\ runner' = [runner EXCEPT ![r] = settings]
    /\ ops' = ops + 1
    /\ UNCHANGED <<row, prod, workerVars, faults>>

-----------------------------------------------------------------------------
(* Faults and time.                                                        *)

\* The process dies: its transaction rolls back, its rows stay leased.
Crash(w) ==
    /\ faults < MaxFaults
    /\ pc[w] # "down"
    /\ pc' = [pc EXCEPT ![w] = "down"]
    /\ job' = [job EXCEPT ![w] = NoJob]
    /\ beat' = [beat EXCEPT ![w] = FALSE]
    /\ want' = [want EXCEPT ![w] = {}]
    /\ locked' = [locked EXCEPT ![w] = {}]
    /\ faults' = faults + 1
    /\ UNCHANGED <<dbVars, prod, ops>>

\* The container is restarted, here under the name it had (--worker).
Restart(w) ==
    /\ pc[w] = "down"
    /\ pc' = [pc EXCEPT ![w] = "idle"]
    /\ UNCHANGED <<dbVars, prod, job, beat, want, locked, ops, faults>>

\* A database error inside heartbeat() leaves _beat and ends its thread.
HeartbeatDies(w) ==
    /\ faults < MaxFaults
    /\ beat[w]
    /\ beat' = [beat EXCEPT ![w] = FALSE]
    /\ faults' = faults + 1
    /\ UNCHANGED <<dbVars, prod, pc, job, want, locked, ops>>

Renewed(t) == \E w \in Workers : beat[w] /\ job[w].task = t /\ Owns(w, t)

\* The deadline of a lease nobody renews passes.
LeaseExpires(t) ==
    /\ row[t].status \in Held
    /\ row[t].lease = "live"
    /\ ~Renewed(t)
    /\ row' = [row EXCEPT ![t] = WithLease(@, "expired")]
    /\ UNCHANGED <<runner, prod, workerVars, ops, faults>>

\* A worker stalls (a paused container, an unreachable database) for longer
\* than its lease, although its heartbeat thread is alive.
Stall(t) ==
    /\ faults < MaxFaults
    /\ row[t].status \in Held
    /\ row[t].lease = "live"
    /\ Renewed(t)
    /\ row' = [row EXCEPT ![t] = WithLease(@, "expired")]
    /\ faults' = faults + 1
    /\ UNCHANGED <<runner, prod, workerVars, ops>>

BecomesDue(t) ==
    /\ row[t].status = "queued"
    /\ ~row[t].due
    /\ row' = [row EXCEPT ![t] = NowDue(@)]
    /\ UNCHANGED <<runner, prod, workerVars, ops, faults>>

-----------------------------------------------------------------------------
Produce(p) == EnqueueInsert(p) \/ \E q \in Request : EnqueueCheck(p, q)

\* The steps run_once takes by itself.
Step(w) ==
    \/ Reclaim(w)
    \/ ClaimBegin(w)
    \/ \E r \in Repos : ClaimLock(w, r)
    \/ ClaimNothing(w)
    \/ \E t \in Tasks : ClaimSelect(w, t)
    \/ ClaimCommit(w)
    \/ MarkRunning(w)
    \/ Succeed(w)
    \/ FailLost(w)
    \/ FailRead(w)
    \/ FailWrite(w)

Operate == \/ \E t \in Tasks : Retry(t) \/ Cancel(t)
           \/ \E r \in Repos : \E s \in [cap : Ceilings, enabled : BOOLEAN] :
                SetRunner(r, s)

Tick == \E t \in Tasks : LeaseExpires(t) \/ BecomesDue(t)

Fault == \/ \E w \in Workers : Crash(w) \/ HeartbeatDies(w)
         \/ \E t \in Tasks : Stall(t)

Next ==
    \/ \E p \in Producers : Produce(p)
    \/ \E w \in Workers : Step(w) \/ Heartbeat(w) \/ Restart(w)
    \/ Operate
    \/ Tick
    \/ Fault

Spec == Init /\ [][Next]_vars

(***************************************************************************)
(* Fairness: a live process takes its next step (a handler ends: its calls *)
(* have timeouts), the lock manager grants a lock that is free infinitely  *)
(* often (its wait queues are first come first served), containers are     *)
(* restarted (restart: unless-stopped), and time passes.  Nothing is       *)
(* assumed of producers, the operator or faults.                           *)
(***************************************************************************)
Fairness ==
    /\ \A w \in Workers : /\ WF_vars(Step(w))
                          /\ SF_vars(\E r \in Repos : ClaimLock(w, r))
                          /\ WF_vars(Heartbeat(w))
                          /\ WF_vars(Restart(w))
    /\ \A t \in Tasks : WF_vars(LeaseExpires(t)) /\ WF_vars(BecomesDue(t))

FairSpec == Spec /\ Fairness

-----------------------------------------------------------------------------
(* Safety.                                                                 *)

\* The lease columns agree with the status in every row, whoever wrote it
\* last: a held row has an owner and a deadline, any other row has neither
\* (else reclaim_expired would never see it), and a row that may still be
\* claimed has attempts left (else it would outlive its dead letter).
Consistent(x) ==
    /\ x.status \in Held <=> x.owner # NoWorker
    /\ x.status \in Held <=> x.lease # "none"
    /\ x.status \in Active => x.attempts < MaxAttempts
    /\ x.status = "absent" <=> x.repo = NoRepo

RowConsistent == \A t \in Tasks : Consistent(row[t])

\* claim is atomic: between a claim's SELECT and its commit the row stays
\* queued and no other claim has selected it, so no task is leased twice.
SelectedIsQueued ==
    \A w \in Workers : pc[w] = "selected" =>
        /\ job[w].task \in Tasks
        /\ row[job[w].task].status = "queued"
        /\ row[job[w].task].attempts = job[w].attempt
        /\ \A v \in Workers \ {w} :
              pc[v] = "selected" => job[v].task # job[w].task

\* max_concurrency is an exact bound at execution time, across concurrent
\* claims, retries, reclaims and producer races: no step takes a repository
\* past its ceiling.  It presumes every runner has a ceiling (0 is not among
\* Ceilings): a claim takes no lock for a runner that inherits.
CeilingRespected ==
    [][0 \notin Ceilings =>
         \A r \in Repos :
            Cardinality(InFlight(r)') > Cardinality(InFlight(r))
              => Cardinality(InFlight(r)') <= runner[r].cap]_vars

\* Only the worker that holds the lease completes a task: a late succeed()
\* of a worker that was reclaimed or cancelled has no effect.
DoneByHolder ==
    [][\A t \in Tasks :
         row[t].status # "done" /\ row'[t].status = "done" =>
            \E w \in Workers : /\ Owns(w, t)
                               /\ job[w].task = t
                               /\ pc[w] = "working"
                               /\ pc'[w] = "idle"]_vars

\* A lease that is lost is lost for good: nothing a worker does inside the
\* block (mark_running, a late heartbeat, a failing outcome) gives it back a
\* task that was reclaimed or cancelled.  Every fence rests on this: a test
\* of leased_by that fails once can never pass later in the same run.
LostLeaseStaysLost ==
    [][\A w \in Workers, t \in Tasks :
         /\ pc[w] \in {"claimed", "working", "failing"}
         /\ pc'[w] \in {"claimed", "working", "failing"}
         /\ job[w].task = t
         /\ ~Owns(w, t)
         => ~Owns(w, t)']_vars

\* The throttle of enqueue is a non-atomic read: racing producers overshoot
\* it, but by less than their number, as long as no operator action or fault
\* brings a settled row back.
ThrottleOvershoot ==
    ops = 0 /\ faults = 0 =>
        \A r \in Repos : ThrottleOf(r) > 0 =>
            Cardinality(ActiveOf(r)) + Cardinality({p \in Producers : prod[p].repo = r})
              <= ThrottleOf(r) + Cardinality(Producers) - 1

-----------------------------------------------------------------------------
(* Liveness.                                                               *)

\* Every queued task is eventually done or dead (or its runner is switched
\* off): crashed workers, lost leases and failing handlers use up attempts.
Settles ==
    \A t \in Tasks :
        row[t].status = "queued"
          ~> \/ row[t].status \in {"done", "dead"}
             \/ \E r \in Repos : row[t].repo = r /\ ~runner[r].enabled

\* A claim never waits for its locks for ever: they are taken in one order
\* and released by commit, rollback and crash alike.
ClaimEnds == \A w \in Workers : pc[w] = "locking" ~> pc[w] # "locking"

-----------------------------------------------------------------------------
(* What the docstrings promise and fail() and _beat() do not keep.         *)

\* Lease: "so a stale worker cannot report on a task that was reclaimed and
\* given away".  fail() writes by primary key what it read earlier.
StaleWorkerCannotReport ==
    [][\A w \in Workers :
         pc[w] = "failing" /\ pc'[w] = "idle" /\ row' # row
            => Owns(w, job[w].task)]_vars

\* lease: "a heartbeat failure is logged and the next beat retries", so a
\* worker that still holds its lease is still renewing it.
HeldLeaseIsRenewed ==
    \A w \in Workers :
        pc[w] \in {"claimed", "working"} /\ Owns(w, job[w].task) => beat[w]
=============================================================================
