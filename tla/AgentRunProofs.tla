--------------------------- MODULE AgentRunProofs ---------------------------
(***************************************************************************)
(* Proofs about AgentRun, on top of those about the queue it is composed   *)
(* with.  Workers that meet on one task never share a review run, so what  *)
(* a run has recorded changes only under the worker that opened it: that   *)
(* carries every other fact (InRun), whoever holds the lease.  The number  *)
(* of pull requests is bounded with a second invariant (Costs) on top.     *)
(***************************************************************************)
EXTENDS AgentRun, AgentQueueProofs

\* The stages between _open_review_run and the end of the handler.
Opened == Stage \ {"none", "endedOk", "endedBad"}

\* A worker that has a task has an attempt left.
AttemptInv == \A w \in Workers : pc[w] \in InJob => job[w].attempt < MaxAttempts

\* What the run of worker w has recorded at each stage.
InRun(w) ==
    LET x == review[mine[w]]
        s == stage[w] IN
    /\ s # "none" => pc[w] = "working"
    /\ s = "none" => mine[w] = NoRun
    /\ s \in Opened \cup {"endedOk"} => mine[w] \in Runs
    /\ mine[w] \in Runs => x.branch = BranchOf(w) /\ x.status # "absent"
    /\ s \in Opened => x.status = "running"
    /\ s \in {"opened", "cloned", "reported"} => ~x.publish
    /\ s \in {"edited", "committed", "recorded", "pushable", "pushed", "mergeable"} => x.publish
    /\ s \in {"recorded", "pushable", "pushed", "mergeable", "done", "endedOk"} => x.ingested
    /\ s \in {"pushed", "mergeable"} => remote[BranchOf(w)] # NoBranch
    /\ s \in {"done", "endedOk"} => (x.publish => mine[w] \in prs)
    /\ s = "endedOk" => x.status = "ok"

\* Workers never share a review run.
OwnRuns == \A v, w \in Workers : mine[v] = mine[w] /\ mine[v] # NoRun => v = w

\* A review run that is not open is blank; one with a pull request has a branch.
Tables ==
    /\ \A r \in Runs : review[r].status = "absent" => review[r] = NoReview
    /\ \A r \in Runs : review[r].status # "absent" => review[r].branch \in Branches
    /\ \A r \in prs : review[r].status # "absent" /\ remote[BranchAt(r)] # NoBranch

RInv ==
    /\ Inv /\ AttemptInv /\ RunTypeOK /\ OwnRuns /\ Tables
    /\ \A w \in Workers : InRun(w)
    /\ RecordedBeforePublish /\ DoneIsEarned

-----------------------------------------------------------------------------
(* The queue around the run.                                               *)

USE RepoAssumption, TaskAssumption, WorkerAssumption, AttemptsAssumption,
    BoundAssumption, CeilingAssumption, PriorityAssumption

\* A claim takes a row that has an attempt left and carries the number along.
LEMMA AttemptNext == ASSUME Inv, AttemptInv, [Next]_vars PROVE AttemptInv'
<1> USE DEF AttemptInv, InJob
<1>0. /\ pc \in [Workers -> Pc]
      /\ job \in [Workers -> [task : Tasks \cup {NoTask}, attempt : 0 .. MaxAttempts,
                              seen : 0 .. MaxAttempts]]
  BY DEF Inv, TypeOK
<1>1. ASSUME UNCHANGED <<pc, job>> PROVE AttemptInv'
  BY <1>1
<1>2. ASSUME NEW w \in Workers, NEW s \in Pc, pc' = [pc EXCEPT ![w] = s],
             s \in InJob => pc[w] \in InJob, UNCHANGED job
      PROVE  AttemptInv'
  BY <1>0, <1>2
<1>3. ASSUME NEW w \in Workers, NEW s \in {"idle", "down"}, pc' = [pc EXCEPT ![w] = s],
             job' = [job EXCEPT ![w] = NoJob]
      PROVE  AttemptInv'
  BY <1>0, <1>3
<1>4. ASSUME NEW w \in Workers, NEW t \in Tasks, ClaimSelect(w, t) PROVE AttemptInv'
  <2>1. row[t].attempts < MaxAttempts
    BY <1>4 DEF ClaimSelect, Claimable, Inv, RowConsistent, Consistent, Active
  <2>2. pc' = [pc EXCEPT ![w] = "selected"]
        /\ job' = [job EXCEPT ![w] = [task |-> t, attempt |-> row[t].attempts, seen |-> 0]]
    BY <1>4 DEF ClaimSelect
  <2> QED BY <1>0, <2>1, <2>2
<1>5. ASSUME NEW w \in Workers, FailRead(w) PROVE AttemptInv'
  <2>1. /\ pc' = [pc EXCEPT ![w] = "failing"] /\ pc[w] = "working"
        /\ job' = [job EXCEPT ![w].seen = row[job[w].task].attempts]
    BY <1>5 DEF FailRead
  <2>2. \A v \in Workers : job'[v].attempt = job[v].attempt
    BY <1>0, <2>1
  <2> QED BY <1>0, <2>1, <2>2
<1>6. ASSUME NEW w \in Workers, Step(w) PROVE AttemptInv'
  <2>1. CASE Reclaim(w)
    BY <1>2, <2>1 DEF Reclaim, Pc
  <2>2. CASE ClaimBegin(w)
    BY <1>2, <2>2 DEF ClaimBegin, Pc
  <2>3. CASE \E r \in Repos : ClaimLock(w, r)
    BY <1>1, <2>3 DEF ClaimLock
  <2>4. CASE ClaimNothing(w)
    BY <1>2, <2>4 DEF ClaimNothing, Pc
  <2>5. CASE ClaimCommit(w)
    BY <1>2, <2>5 DEF ClaimCommit, Pc
  <2>6. CASE MarkRunning(w)
    BY <1>2, <2>6 DEF MarkRunning, Pc
  <2>7. CASE Succeed(w) \/ FailLost(w) \/ FailWrite(w)
    BY <1>3, <2>7 DEF Succeed, FailLost, FailWrite, LeaveBlock
  <2> QED BY <1>4, <1>5, <1>6, <2>1, <2>2, <2>3, <2>4, <2>5, <2>6, <2>7 DEF Step
<1>7. ASSUME NEW w \in Workers, Heartbeat(w) \/ HeartbeatDies(w) PROVE AttemptInv'
  BY <1>1, <1>7 DEF Heartbeat, HeartbeatDies
<1>8. ASSUME NEW w \in Workers, Restart(w) PROVE AttemptInv'
  BY <1>2, <1>8 DEF Restart, Pc
<1>9. ASSUME NEW w \in Workers, Crash(w) PROVE AttemptInv'
  BY <1>3, <1>9 DEF Crash
<1>10. CASE (\E p \in Producers : Produce(p)) \/ Operate \/ Tick \/ (\E t \in Tasks : Stall(t))
            \/ UNCHANGED vars
  <2>1. UNCHANGED <<pc, job>>
    BY <1>10 DEF Produce, EnqueueInsert, EnqueueCheck, Operate, Retry, Cancel, SetRunner, Tick,
                 LeaseExpires, BecomesDue, Stall, workerVars, vars
  <2> QED BY <1>1, <2>1
<1> QED BY <1>6, <1>7, <1>8, <1>9, <1>10 DEF Next, Fault

\* A fault of the handler is none of the queue's tables.
LEMMA QueueFault ==
    ASSUME Inv, AttemptInv, faults < MaxFaults, faults' = faults + 1,
           UNCHANGED <<row, runner, prod, workerVars, ops>>
    PROVE  Inv' /\ AttemptInv'
<1>1. UNCHANGED <<row, runner, prod, pc, job, beat, want, locked, ops>>
  BY DEF workerVars
<1>2. TypeOK'
  BY <1>1 DEF Inv, TypeOK
<1>3. RowConsistent' /\ JobInv' /\ SelectedIsQueued' /\ AttemptInv'
  BY <1>1 DEF Inv, RowConsistent, JobInv, SelectedIsQueued, AttemptInv
<1> QED BY <1>2, <1>3 DEF Inv

\* The steps outside the handler are steps of the queue.
LEMMA QueueSteps ==
    /\ \A w \in Workers : QueueStep(w) => Next
    /\ Others => Next
    /\ \A w \in Workers : Settle(w) => Step(w)
    /\ \A w \in Workers : RunCrash(w) => Crash(w)
BY DEF QueueStep, Others, Settle, RunCrash, Next, Step, Fault

\* Outside the handler no step moves a worker that is inside it.
LEMMA InsideStays ==
    ASSUME Inv, NEW w \in Workers, pc[w] = "working", (\E v \in Workers : QueueStep(v)) \/ Others
    PROVE  pc'[w] = "working" /\ job'[w] = job[w]
<1>0. pc \in [Workers -> Pc] /\ job \in [Workers -> [task : Tasks \cup {NoTask},
                                  attempt : 0 .. MaxAttempts, seen : 0 .. MaxAttempts]]
  BY DEF Inv, TypeOK
<1>1. CASE Others
  BY <1>1 DEF Others, Produce, EnqueueInsert, EnqueueCheck, Operate, Retry, Cancel, SetRunner, Tick,
              LeaseExpires, BecomesDue, Stall, workerVars
<1>2. ASSUME NEW v \in Workers, QueueStep(v) PROVE pc'[w] = "working" /\ job'[w] = job[w]
  <2>1. CASE Reclaim(v) \/ ClaimBegin(v) \/ ClaimNothing(v) \/ (\E r \in Repos : ClaimLock(v, r))
    BY <1>0, <2>1 DEF Reclaim, ClaimBegin, ClaimNothing, ClaimLock
  <2>2. CASE \E t \in Tasks : ClaimSelect(v, t)
    BY <1>0, <2>2 DEF ClaimSelect
  <2>3. CASE ClaimCommit(v) \/ MarkRunning(v)
    BY <1>0, <2>3 DEF ClaimCommit, MarkRunning
  <2>4. CASE FailWrite(v)
    BY <1>0, <2>4 DEF FailWrite, LeaveBlock
  <2>5. CASE Heartbeat(v) \/ Restart(v) \/ HeartbeatDies(v)
    BY <1>0, <2>5 DEF Heartbeat, Restart, HeartbeatDies
  <2> QED BY <1>2, <2>1, <2>2, <2>3, <2>4, <2>5 DEF QueueStep
<1> QED BY <1>1, <1>2

-----------------------------------------------------------------------------
(* What one worker's step leaves of the others' runs.                      *)

ReviewRow == [branch : Branches \cup {<<NoTask, 0>>},
              status : {"absent", "running", "ok", "error"},
              ingested : BOOLEAN, publish : BOOLEAN]

\* A review run of another worker, and one that ended well, stays as it is;
\* what a run has recorded stays recorded; a branch that exists stays as it is.
TablesGrow(w) ==
    /\ \A r \in Runs :
         /\ review[r].status # "absent" /\ r # mine[w] => review'[r] = review[r]
         /\ review[r].status = "ok" => review'[r] = review[r]
         /\ review[r].status # "absent" =>
              review'[r].status # "absent" /\ review'[r].branch = review[r].branch
         /\ review'[r].status = "absent" => review'[r] = review[r]
         /\ review[r].status = "absent" /\ review'[r].status # "absent" =>
              review'[r].branch \in Branches
         /\ review[r].ingested => review'[r].ingested
         /\ review[r].publish => review'[r].publish
    /\ prs \subseteq prs'
    /\ \A r \in prs' \ prs : /\ r \in Runs /\ review[r].status # "absent"
                             /\ remote[BranchAt(r)] # NoBranch
    /\ \A b \in Branches :
         \/ remote'[b] = remote[b]
         \/ /\ remote[b] = NoBranch /\ remote'[b] # NoBranch /\ remote'[b].by \in Runs
            /\ review[remote'[b].by].ingested /\ review[remote'[b].by].publish

\* A step of worker w.
StepOf(w) ==
    /\ kind' = kind
    /\ \A v \in Workers \ {w} :
         /\ stage'[v] = stage[v] /\ mine'[v] = mine[v]
         /\ stage[v] # "none" => pc'[v] = pc[v] /\ job'[v] = job[v]
    /\ \/ mine'[w] \in {mine[w], NoRun}
       \/ mine'[w] \in Runs /\ review[mine'[w]].status = "absent"
    /\ TablesGrow(w)

\* The branch of an attempt is one.
LEMMA BranchType ==
    ASSUME Inv, AttemptInv, NEW w \in Workers, pc[w] = "working" PROVE BranchOf(w) \in Branches
<1>1. job[w].task \in Tasks /\ job[w].attempt \in 0 .. MaxAttempts /\ job[w].attempt < MaxAttempts
  BY DEF Inv, TypeOK, JobInv, InJob, AttemptInv
<1> QED BY <1>1 DEF BranchOf, Branches

\* The facts about a run that its worker does not touch.
LEMMA InRunKeeps ==
    ASSUME Inv, AttemptInv, NEW v \in Workers, InRun(v), kind' = kind,
           stage[v] # "none" => pc'[v] = pc[v] /\ job'[v] = job[v],
           stage'[v] = stage[v], mine'[v] = mine[v],
           mine[v] \in Runs => review'[mine[v]] = review[mine[v]],
           prs \subseteq prs',
           \A b \in Branches : remote[b] # NoBranch => remote'[b] # NoBranch
    PROVE  InRun(v)'
<1>1. CASE stage[v] = "none"
  BY <1>1, RunAssumption DEF InRun, Opened
<1>2. CASE stage[v] # "none"
  <2>1. BranchOf(v)' = BranchOf(v)
    BY <1>2 DEF BranchOf
  <2>2. BranchOf(v) \in Branches
    BY <1>2, BranchType DEF InRun
  <2> HIDE DEF BranchOf
  <2>3. stage[v] \in Opened \cup {"endedOk"} => mine[v] \in Runs
    BY DEF InRun
  <2>4. stage'[v] \in {"pushed", "mergeable"} => remote'[BranchOf(v)] # NoBranch
    BY <2>2 DEF InRun
  <2> QED BY <1>2, <2>1, <2>3, <2>4 DEF InRun, Opened, Stage
<1> QED BY <1>1, <1>2

\* The tables after a worker's step.
LEMMA TablesKeep ==
    ASSUME RInv, NEW w \in Workers, TablesGrow(w), RunTypeOK',
           \A t \in Tasks : row'[t].status = "done" =>
               row[t].status = "done" \/ (stage[w] = "endedOk" /\ job[w].task = t)
    PROVE  Tables' /\ RecordedBeforePublish' /\ DoneIsEarned'
<1> USE DEF RInv
<1>1. Tables'
  <2>1. \A r \in Runs : /\ review'[r].status = "absent" => review'[r] = NoReview
                        /\ review'[r].status # "absent" => review'[r].branch \in Branches
    BY DEF TablesGrow, Tables
  <2>2. ASSUME NEW r \in prs'
        PROVE  review'[r].status # "absent" /\ remote'[review'[r].branch] # NoBranch
    <3>1. r \in Runs /\ review[r].status # "absent" /\ remote[review[r].branch] # NoBranch
      BY DEF TablesGrow, Tables, BranchAt, RunTypeOK
    <3>2. review'[r].status # "absent" /\ review'[r].branch = review[r].branch
      BY <3>1 DEF TablesGrow
    <3>3. review[r].branch \in Branches
      BY <3>1 DEF Tables
    <3>4. remote'[review[r].branch] # NoBranch
      BY <3>1, <3>3 DEF TablesGrow
    <3> QED BY <3>2, <3>4
  <2> QED BY <2>1, <2>2 DEF Tables, BranchAt
<1>2. RecordedBeforePublish'
  <2> SUFFICES ASSUME NEW b \in Branches, remote'[b].by # NoRun
               PROVE  review'[remote'[b].by].ingested /\ review'[remote'[b].by].publish
    BY DEF RecordedBeforePublish
  <2>1. /\ remote'[b].by \in Runs
        /\ review[remote'[b].by].ingested /\ review[remote'[b].by].publish
    <3>1. remote'[b].by \in Runs \cup {NoRun}
      BY DEF RunTypeOK
    <3> QED BY <3>1 DEF TablesGrow, RecordedBeforePublish
  <2> QED BY <2>1 DEF TablesGrow
<1>3. DoneIsEarned'
  <2> SUFFICES ASSUME NEW t \in Tasks, row'[t].status = "done"
               PROVE  \E r \in Runs : /\ review'[r].branch[1] = t /\ review'[r].status = "ok"
                                      /\ review'[r].ingested /\ (review'[r].publish => r \in prs')
    BY DEF DoneIsEarned, TaskOf
  <2>1. PICK r \in Runs : /\ review[r].branch[1] = t /\ review[r].status = "ok"
                          /\ review[r].ingested /\ (review[r].publish => r \in prs)
    <3>1. CASE row[t].status = "done"
      BY <3>1 DEF DoneIsEarned, TaskOf
    <3>2. CASE stage[w] = "endedOk" /\ job[w].task = t
      <4>1. /\ mine[w] \in Runs /\ review[mine[w]].branch = BranchOf(w)
            /\ review[mine[w]].status = "ok" /\ review[mine[w]].ingested
            /\ review[mine[w]].publish => mine[w] \in prs
        BY <3>2 DEF InRun
      <4>2. BranchOf(w)[1] = t
        BY <3>2 DEF BranchOf
      <4> QED BY <4>1, <4>2
    <3> QED BY <3>1, <3>2
  <2>2. review'[r] = review[r]
    BY <2>1 DEF TablesGrow
  <2>3. prs \subseteq prs'
    BY DEF TablesGrow
  <2> QED BY <2>1, <2>2, <2>3
<1> QED BY <1>1, <1>2, <1>3

\* A step of worker w keeps the invariant if it keeps the facts about w's run.
LEMMA RunKeeps ==
    ASSUME RInv, NEW w \in Workers, StepOf(w), Inv', AttemptInv', RunTypeOK', InRun(w)',
           \A t \in Tasks : row'[t].status = "done" =>
               row[t].status = "done" \/ (stage[w] = "endedOk" /\ job[w].task = t)
    PROVE  RInv'
<1> USE DEF RInv
<1>1. TablesGrow(w)
  BY DEF StepOf
<1>2. Tables' /\ RecordedBeforePublish' /\ DoneIsEarned'
  BY <1>1, TablesKeep
<1>3. ASSUME NEW v \in Workers, v # w PROVE InRun(v)'
  <2>1. mine[v] \in Runs => review'[mine[v]] = review[mine[v]]
    <3>1. mine[v] \in Runs => review[mine[v]].status # "absent" /\ mine[v] # mine[w]
      BY <1>3, RunAssumption DEF InRun, OwnRuns
    <3> QED BY <1>1, <3>1 DEF TablesGrow
  <2>2. prs \subseteq prs' /\ \A b \in Branches : remote[b] # NoBranch => remote'[b] # NoBranch
    BY <1>1 DEF TablesGrow
  <2>3. /\ kind' = kind /\ stage'[v] = stage[v] /\ mine'[v] = mine[v]
        /\ stage[v] # "none" => pc'[v] = pc[v] /\ job'[v] = job[v]
    BY <1>3 DEF StepOf
  <2> QED BY <2>1, <2>2, <2>3, InRunKeeps
<1>4. OwnRuns'
  <2>1. \A v \in Workers \ {w} : mine'[v] = mine[v]
    BY DEF StepOf
  <2>2. \A v \in Workers \ {w} : mine[v] # NoRun => mine[v] # mine'[w]
    <3>1. \A v \in Workers : mine[v] # NoRun => review[mine[v]].status # "absent"
      BY DEF InRun, RunTypeOK
    <3> QED BY <3>1 DEF StepOf, OwnRuns
  <2> QED BY <2>1, <2>2 DEF OwnRuns
<1> QED BY <1>2, <1>3, <1>4

\* A step of the queue that leaves the runs alone.
LEMMA IdleKeeps ==
    ASSUME RInv, UNCHANGED runVars, Inv', AttemptInv', DoneStep,
           \A v \in Workers : pc[v] = "working" => pc'[v] = "working" /\ job'[v] = job[v]
    PROVE  RInv'
<1> USE DEF RInv
<1>1. UNCHANGED <<kind, stage, mine, review, dir, remote, prs, link>>
  BY DEF runVars, storeVars
<1>2. RunTypeOK' /\ OwnRuns' /\ Tables' /\ RecordedBeforePublish'
  BY <1>1 DEF RunTypeOK, OwnRuns, Tables, RecordedBeforePublish, BranchAt
<1>3. ASSUME NEW v \in Workers PROVE InRun(v)'
  <2>1. stage[v] # "none" => pc'[v] = pc[v] /\ job'[v] = job[v]
    BY DEF InRun
  <2> QED BY <1>1, <2>1, InRunKeeps
<1>4. DoneIsEarned'
  <2>1. \A t \in Tasks : row'[t].status = "done" => row[t].status = "done"
    BY DEF DoneStep
  <2> QED BY <1>1, <2>1 DEF DoneIsEarned, TaskOf
<1> QED BY <1>2, <1>3, <1>4

-----------------------------------------------------------------------------
(* One lemma per step of the handler.                                      *)

\* What every step inside the handler leaves alone.
WithinHandler(w, s) ==
    /\ pc[w] = "working" /\ s \in Stage /\ Goto(w, s)
    /\ UNCHANGED <<row, pc, job, kind, mine>>

LEMMA Moves ==
    ASSUME RInv, NEW w \in Workers, NEW s, WithinHandler(w, s)
    PROVE  /\ stage'[w] = s /\ stage' \in [Workers -> Stage] /\ mine'[w] = mine[w]
           /\ BranchOf(w)' = BranchOf(w) /\ pc'[w] = "working" /\ BranchOf(w) \in Branches
           /\ mine' \in [Workers -> Runs \cup {NoRun}] /\ kind' \in [Tasks -> Kinds]
<1>1. stage \in [Workers -> Stage]
  BY DEF RInv, RunTypeOK
<1>2. BranchOf(w) \in Branches
  BY BranchType DEF RInv, WithinHandler
<1>3. BranchOf(w)' = BranchOf(w)
  BY DEF WithinHandler, BranchOf
<1> QED BY <1>1, <1>2, <1>3 DEF RInv, RunTypeOK, WithinHandler, Goto

LEMMA HandlerStep ==
    ASSUME RInv, NEW w \in Workers, NEW s, WithinHandler(w, s),
           Inv', TablesGrow(w), RunTypeOK', InRun(w)'
    PROVE  StepOf(w) /\ RInv'
<1>1. AttemptInv'
  BY DEF RInv, AttemptInv, WithinHandler
<1>2. \A v \in Workers \ {w} : stage'[v] = stage[v]
  BY DEF RInv, RunTypeOK, WithinHandler, Goto
<1>3. StepOf(w)
  BY <1>2 DEF StepOf, WithinHandler
<1>4. \A t \in Tasks : row'[t].status = "done" => row[t].status = "done"
  BY DEF WithinHandler
<1> QED BY <1>1, <1>3, <1>4, RunKeeps

LEMMA TablesSame ==
    ASSUME NEW w \in Workers, UNCHANGED <<review, remote, prs>> PROVE TablesGrow(w)
BY DEF TablesGrow

\* A handler writes to the review run it opened, which is running.
LEMMA OneReview ==
    ASSUME RInv, NEW w \in Workers, stage[w] \in Opened, NEW x \in ReviewRow,
           review' = [review EXCEPT ![mine[w]] = x], x.branch = review[mine[w]].branch,
           x.status # "absent", review[mine[w]].ingested => x.ingested,
           review[mine[w]].publish => x.publish, UNCHANGED <<remote, prs>>
    PROVE  TablesGrow(w) /\ review' \in [Runs -> ReviewRow] /\ review'[mine[w]] = x
<1>1. mine[w] \in Runs /\ review[mine[w]].status = "running" /\ review \in [Runs -> ReviewRow]
  BY DEF RInv, InRun, RunTypeOK, ReviewRow
<1>2. /\ review' \in [Runs -> ReviewRow] /\ review'[mine[w]] = x
      /\ \A r \in Runs : r # mine[w] => review'[r] = review[r]
  BY <1>1
<1> QED BY <1>1, <1>2 DEF TablesGrow

\* What the queue knows of a step it is not part of.
LEMMA QueueSame ==
    ASSUME RInv, UNCHANGED vars
    PROVE  Inv' /\ AttemptInv' /\ UNCHANGED <<row, pc, job>>
BY InvNext DEF RInv, vars, AttemptInv

\* A run is opened, or the task refused.
LEMMA LoadKeeps ==
    ASSUME RInv, NEW w \in Workers, LoadTask(w) PROVE StepOf(w) /\ RInv'
<1>0. UNCHANGED vars /\ kind' = kind /\ pc[w] = "working" /\ stage[w] = "none"
      /\ UNCHANGED <<dir, remote, prs, link>>
  BY DEF LoadTask, InHandler
<1>1. Inv' /\ AttemptInv' /\ UNCHANGED <<row, pc, job>>
  BY <1>0, QueueSame
<1>2. CASE Goto(w, "endedBad") /\ UNCHANGED <<mine, review>>
  <2>1. WithinHandler(w, "endedBad")
    BY <1>0, <1>1, <1>2 DEF WithinHandler, Stage
  <2>2. /\ stage'[w] = "endedBad" /\ stage' \in [Workers -> Stage]
        /\ mine'[w] = mine[w] /\ pc'[w] = "working"
    BY <2>1, Moves
  <2>3. RunTypeOK'
    BY <1>0, <1>2, <2>2 DEF RInv, RunTypeOK
  <2>4. mine[w] = NoRun
    BY <1>0 DEF RInv, InRun
  <2>5. InRun(w)'
    BY <2>2, <2>4, RunAssumption DEF InRun, Opened
  <2> QED BY <1>0, <1>1, <1>2, <2>1, <2>3, <2>5, TablesSame, HandlerStep
<1>3. CASE /\ Goto(w, "opened")
           /\ \E r \in Runs :
               /\ review[r].status = "absent"
               /\ review' = [review EXCEPT ![r].status = "running", ![r].branch = BranchOf(w)]
               /\ mine' = [mine EXCEPT ![w] = r]
  <2>1. PICK r \in Runs :
               /\ review[r].status = "absent"
               /\ review' = [review EXCEPT ![r].status = "running", ![r].branch = BranchOf(w)]
               /\ mine' = [mine EXCEPT ![w] = r]
    BY <1>3
  <2>2. /\ review \in [Runs -> ReviewRow] /\ mine \in [Workers -> Runs \cup {NoRun}]
        /\ stage \in [Workers -> Stage]
    BY DEF RInv, RunTypeOK, ReviewRow
  <2>3. BranchOf(w) \in Branches /\ BranchOf(w)' = BranchOf(w)
    <3>1. BranchOf(w) \in Branches
      BY <1>0, BranchType DEF RInv
    <3>2. BranchOf(w)' = BranchOf(w)
      BY <1>0, <1>1 DEF BranchOf
    <3> QED BY <3>1, <3>2
  <2> HIDE DEF BranchOf
  <2> DEFINE x == [review[r] EXCEPT !.status = "running", !.branch = BranchOf(w)]
  <2>4. review' = [review EXCEPT ![r] = x]
    BY <2>1, <2>2
  <2>5. /\ x \in ReviewRow /\ x.status = "running" /\ x.branch = BranchOf(w)
        /\ x.ingested = review[r].ingested /\ x.publish = review[r].publish
    BY <2>2, <2>3 DEF ReviewRow
  <2> HIDE DEF x
  <2>6. /\ review' \in [Runs -> ReviewRow] /\ review'[r] = x
        /\ \A s \in Runs : s # r => review'[s] = review[s]
    BY <2>2, <2>4, <2>5
  <2>7. ~x.publish
    BY <2>1, <2>5 DEF RInv, Tables, NoReview
  <2>8. /\ mine'[w] = r /\ mine' \in [Workers -> Runs \cup {NoRun}]
        /\ stage'[w] = "opened" /\ stage' \in [Workers -> Stage]
        /\ \A v \in Workers \ {w} : mine'[v] = mine[v] /\ stage'[v] = stage[v]
    BY <1>3, <2>1, <2>2 DEF Goto, Stage
  <2>9. TablesGrow(w)
    BY <1>0, <2>1, <2>3, <2>5, <2>6 DEF TablesGrow
  <2>10. StepOf(w)
    BY <1>0, <1>1, <2>1, <2>8, <2>9 DEF StepOf
  <2>11. RunTypeOK'
    BY <1>0, <2>6, <2>8 DEF RInv, RunTypeOK, ReviewRow
  <2>12. InRun(w)'
    BY <1>0, <1>1, <2>3, <2>5, <2>6, <2>7, <2>8 DEF InRun, Opened
  <2> QED BY <1>1, <2>10, <2>11, <2>12, RunKeeps
<1> QED BY <1>2, <1>3 DEF LoadTask

\* The checkout is made.
LEMMA PrepareKeeps ==
    ASSUME RInv, NEW w \in Workers, Prepare(w) PROVE StepOf(w) /\ RInv'
<1>0. UNCHANGED vars /\ UNCHANGED <<kind, mine, review, remote, prs, link>>
      /\ pc[w] = "working" /\ stage[w] = "opened"
      /\ dir' = [dir EXCEPT ![WorkdirOf(w)] = Fresh]
  BY DEF Prepare, InHandler
<1>1. Inv' /\ AttemptInv' /\ UNCHANGED <<row, pc, job>>
  BY <1>0, QueueSame
<1>2. PICK s \in {"cloned", "failed"} : Goto(w, s)
  BY DEF Prepare
<1>3. WithinHandler(w, s)
  BY <1>0, <1>1, <1>2 DEF WithinHandler, Stage
<1>4. /\ stage'[w] = s /\ stage' \in [Workers -> Stage] /\ mine'[w] = mine[w]
      /\ BranchOf(w)' = BranchOf(w) /\ pc'[w] = "working"
  BY <1>3, Moves
<1>5. RunTypeOK'
  <2>1. dir \in [Workdirs -> [edits : SUBSET Runs, head : SUBSET Runs]]
    BY DEF RInv, RunTypeOK
  <2>2. Fresh \in [edits : SUBSET Runs, head : SUBSET Runs]
    BY DEF Fresh
  <2>3. dir' \in [Workdirs -> [edits : SUBSET Runs, head : SUBSET Runs]]
    BY <1>0, <2>1, <2>2
  <2> QED BY <1>0, <1>4, <2>3 DEF RInv, RunTypeOK
<1>6. InRun(w)'
  BY <1>0, <1>2, <1>4 DEF RInv, InRun, Opened, Stage
<1> QED BY <1>0, <1>1, <1>3, <1>5, <1>6, TablesSame, HandlerStep

\* The review fails, reports, or edits and sets out to publish.
LEMMA ReviewKeeps ==
    ASSUME RInv, NEW w \in Workers, Review(w) PROVE StepOf(w) /\ RInv'
<1>0. UNCHANGED vars /\ UNCHANGED <<kind, mine, remote, prs, link>>
      /\ pc[w] = "working" /\ stage[w] = "cloned"
  BY DEF Review, InHandler
<1>1. Inv' /\ AttemptInv' /\ UNCHANGED <<row, pc, job>>
  BY <1>0, QueueSame
<1>t. /\ dir \in [Workdirs -> [edits : SUBSET Runs, head : SUBSET Runs]]
      /\ review \in [Runs -> ReviewRow] /\ mine[w] \in Runs /\ review[mine[w]] \in ReviewRow
      /\ review[mine[w]].branch = BranchOf(w) /\ review[mine[w]].status = "running"
  BY <1>0 DEF RInv, RunTypeOK, ReviewRow, InRun, Opened, Stage
<1>2. CASE (Goto(w, "failed") \/ Goto(w, "reported")) /\ UNCHANGED <<dir, review>>
  <2>1. PICK s \in {"failed", "reported"} : Goto(w, s)
    BY <1>2
  <2>2. WithinHandler(w, s)
    BY <1>0, <1>1, <2>1 DEF WithinHandler, Stage
  <2>3. /\ stage'[w] = s /\ stage' \in [Workers -> Stage] /\ mine'[w] = mine[w]
        /\ BranchOf(w)' = BranchOf(w) /\ pc'[w] = "working"
    BY <2>2, Moves
  <2>4. RunTypeOK'
    BY <1>0, <1>2, <2>3 DEF RInv, RunTypeOK
  <2>5. InRun(w)'
    BY <1>0, <1>2, <2>1, <2>3 DEF RInv, InRun, Opened, Stage
  <2> QED BY <1>0, <1>1, <1>2, <2>2, <2>4, <2>5, TablesSame, HandlerStep
<1>3. CASE /\ Goto(w, "edited") /\ review' = [review EXCEPT ![mine[w]].publish = TRUE]
           /\ \/ dir' = [dir EXCEPT ![WorkdirOf(w)].edits = @ \cup {mine[w]}]
              \/ UNCHANGED dir
  <2>1. WithinHandler(w, "edited")
    BY <1>0, <1>1, <1>3 DEF WithinHandler, Stage
  <2>2. /\ stage'[w] = "edited" /\ stage' \in [Workers -> Stage] /\ mine'[w] = mine[w]
        /\ BranchOf(w)' = BranchOf(w) /\ pc'[w] = "working"
    BY <2>1, Moves
  <2> HIDE DEF BranchOf
  <2> DEFINE x == [review[mine[w]] EXCEPT !.publish = TRUE]
  <2>3. review' = [review EXCEPT ![mine[w]] = x]
    BY <1>3, <1>t
  <2>4. /\ x \in ReviewRow /\ x.branch = review[mine[w]].branch /\ x.status = "running" /\ x.publish
        /\ x.ingested = review[mine[w]].ingested
    BY <1>t DEF ReviewRow
  <2> HIDE DEF x
  <2>5. TablesGrow(w) /\ review' \in [Runs -> ReviewRow] /\ review'[mine[w]] = x
    BY <1>0, <2>3, <2>4, OneReview DEF Opened, Stage
  <2>6. dir' \in [Workdirs -> [edits : SUBSET Runs, head : SUBSET Runs]]
    BY <1>3, <1>t
  <2>7. RunTypeOK'
    BY <1>0, <2>2, <2>5, <2>6 DEF RInv, RunTypeOK, ReviewRow
  <2>8. InRun(w)'
    BY <1>0, <1>t, <2>2, <2>4, <2>5 DEF InRun, Opened
  <2> QED BY <1>1, <2>1, <2>5, <2>7, <2>8, HandlerStep
<1> QED BY <1>2, <1>3 DEF Review

\* The commit takes what is in the checkout.
LEMMA CommitKeeps ==
    ASSUME RInv, NEW w \in Workers, Commit(w) PROVE StepOf(w) /\ RInv'
<1>0. UNCHANGED vars /\ UNCHANGED <<kind, mine, review, remote, prs, link>>
      /\ pc[w] = "working" /\ stage[w] = "edited"
  BY DEF Commit, InHandler
<1>1. Inv' /\ AttemptInv' /\ UNCHANGED <<row, pc, job>>
  BY <1>0, QueueSame
<1>2. PICK s \in {"committed", "failed"} : Goto(w, s)
  BY DEF Commit
<1>3. WithinHandler(w, s)
  BY <1>0, <1>1, <1>2 DEF WithinHandler, Stage
<1>4. /\ stage'[w] = s /\ stage' \in [Workers -> Stage] /\ mine'[w] = mine[w]
      /\ BranchOf(w)' = BranchOf(w) /\ pc'[w] = "working"
  BY <1>3, Moves
<1>5. RunTypeOK'
  <2> DEFINE d == WorkdirOf(w)
             y == [edits |-> {}, head |-> dir[d].head \cup dir[d].edits]
  <2>1. dir \in [Workdirs -> [edits : SUBSET Runs, head : SUBSET Runs]]
    BY DEF RInv, RunTypeOK
  <2>2. d \in Workdirs
    BY <1>0 DEF RInv, Inv, TypeOK, JobInv, InJob, WorkdirOf, Workdirs
  <2>3. dir' = dir \/ dir' = [dir EXCEPT ![d] = y]
    BY <2>1, <2>2 DEF Commit
  <2> HIDE DEF d
  <2>4. y \in [edits : SUBSET Runs, head : SUBSET Runs]
    BY <2>1, <2>2
  <2> HIDE DEF y
  <2>5. dir' \in [Workdirs -> [edits : SUBSET Runs, head : SUBSET Runs]]
    BY <2>1, <2>3, <2>4
  <2> QED BY <1>0, <1>4, <2>5 DEF RInv, RunTypeOK
<1>6. InRun(w)'
  BY <1>0, <1>2, <1>4 DEF RInv, InRun, Opened, Stage
<1> QED BY <1>0, <1>1, <1>3, <1>5, <1>6, TablesSame, HandlerStep

\* The findings are recorded, or the run fails.
LEMMA RecordKeeps ==
    ASSUME RInv, NEW w \in Workers, Record(w) PROVE StepOf(w) /\ RInv'
<1>0. UNCHANGED vars /\ UNCHANGED <<kind, mine, dir, remote, prs, link>>
      /\ pc[w] = "working" /\ stage[w] \in {"committed", "reported"}
  BY DEF Record
<1>1. Inv' /\ AttemptInv' /\ UNCHANGED <<row, pc, job>>
  BY <1>0, QueueSame
<1>t. /\ review \in [Runs -> ReviewRow] /\ mine[w] \in Runs /\ review[mine[w]] \in ReviewRow
      /\ review[mine[w]].branch = BranchOf(w) /\ review[mine[w]].status = "running"
      /\ review[mine[w]].publish <=> stage[w] = "committed"
  BY <1>0 DEF RInv, RunTypeOK, ReviewRow, InRun, Opened, Stage
<1>2. CASE Goto(w, "failed") /\ UNCHANGED review
  <2>1. WithinHandler(w, "failed")
    BY <1>0, <1>1, <1>2 DEF WithinHandler, Stage
  <2>2. /\ stage'[w] = "failed" /\ stage' \in [Workers -> Stage] /\ mine'[w] = mine[w]
        /\ BranchOf(w)' = BranchOf(w) /\ pc'[w] = "working"
    BY <2>1, Moves
  <2>3. RunTypeOK'
    BY <1>0, <1>2, <2>2 DEF RInv, RunTypeOK
  <2>4. InRun(w)'
    BY <1>0, <1>2, <1>t, <2>2 DEF InRun, Opened
  <2> QED BY <1>0, <1>1, <1>2, <2>1, <2>3, <2>4, TablesSame, HandlerStep
<1>3. CASE /\ review' = [review EXCEPT ![mine[w]].ingested = TRUE]
           /\ Goto(w, IF stage[w] = "reported" THEN "done" ELSE "recorded")
  <2> DEFINE s == IF stage[w] = "reported" THEN "done" ELSE "recorded"
             x == [review[mine[w]] EXCEPT !.ingested = TRUE]
  <2>1. WithinHandler(w, s)
    BY <1>0, <1>1, <1>3 DEF WithinHandler, Stage
  <2>2. /\ stage'[w] = s /\ stage' \in [Workers -> Stage] /\ mine'[w] = mine[w]
        /\ BranchOf(w)' = BranchOf(w) /\ pc'[w] = "working"
    BY <2>1, Moves
  <2> HIDE DEF BranchOf
  <2>3. review' = [review EXCEPT ![mine[w]] = x]
    BY <1>3, <1>t
  <2>4. /\ x \in ReviewRow /\ x.branch = review[mine[w]].branch /\ x.status = "running" /\ x.ingested
        /\ x.publish = review[mine[w]].publish
    BY <1>t DEF ReviewRow
  <2> HIDE DEF x
  <2>5. TablesGrow(w) /\ review' \in [Runs -> ReviewRow] /\ review'[mine[w]] = x
    BY <1>0, <2>3, <2>4, OneReview DEF Opened, Stage
  <2>6. RunTypeOK'
    BY <1>0, <2>2, <2>5 DEF RInv, RunTypeOK, ReviewRow
  <2>7. InRun(w)'
    BY <1>0, <1>t, <2>2, <2>4, <2>5 DEF InRun, Opened
  <2> QED BY <1>1, <2>1, <2>5, <2>6, <2>7, HandlerStep
<1> QED BY <1>2, <1>3 DEF Record

\* The publish guard looks at the lease and moves on, or fails.
LEMMA GuardKeeps ==
    ASSUME RInv, NEW w \in Workers, Guard(w) PROVE StepOf(w) /\ RInv'
<1>0. UNCHANGED vars /\ UNCHANGED <<kind, mine, review, dir, remote, prs, link>>
      /\ pc[w] = "working" /\ stage[w] \in {"recorded", "pushed"}
  BY DEF Guard, storeVars
<1>1. Inv' /\ AttemptInv' /\ UNCHANGED <<row, pc, job>>
  BY <1>0, QueueSame
<1>2. PICK s \in {IF stage[w] = "recorded" THEN "pushable" ELSE "mergeable", "failed"} : Goto(w, s)
  BY DEF Guard
<1>3. WithinHandler(w, s)
  BY <1>0, <1>1, <1>2 DEF WithinHandler, Stage
<1>4. /\ stage'[w] = s /\ stage' \in [Workers -> Stage] /\ mine'[w] = mine[w]
      /\ BranchOf(w)' = BranchOf(w) /\ pc'[w] = "working"
  BY <1>3, Moves
<1> HIDE DEF BranchOf
<1>5. RunTypeOK'
  BY <1>0, <1>4 DEF RInv, RunTypeOK
<1>6. InRun(w)'
  BY <1>0, <1>2, <1>4 DEF RInv, InRun, Opened, Stage
<1> QED BY <1>0, <1>1, <1>3, <1>5, <1>6, TablesSame, HandlerStep

\* A push makes a branch that was not there, finds its own, or fails.
LEMMA PushKeeps ==
    ASSUME RInv, NEW w \in Workers, Push(w) PROVE StepOf(w) /\ RInv'
<1> DEFINE b == BranchOf(w)
<1>0. UNCHANGED vars /\ UNCHANGED <<kind, mine, review, dir, prs, link>>
      /\ pc[w] = "working" /\ stage[w] = "pushable"
  BY DEF Push, InHandler
<1>1. Inv' /\ AttemptInv' /\ UNCHANGED <<row, pc, job>>
  BY <1>0, QueueSame
<1>t. /\ remote \in [Branches -> [by : Runs \cup {NoRun}, edits : SUBSET Runs]]
      /\ mine[w] \in Runs /\ review[mine[w]].status = "running" /\ review[mine[w]].branch = b
      /\ review[mine[w]].ingested /\ review[mine[w]].publish
  BY <1>0 DEF RInv, RunTypeOK, InRun, Opened, Stage
<1>2. Pushed(w) \in [by : Runs \cup {NoRun}, edits : SUBSET Runs] /\ Pushed(w).by = mine[w]
      /\ Pushed(w) # NoBranch
  <2>1. WorkdirOf(w) \in Workdirs
    BY <1>0 DEF RInv, Inv, TypeOK, JobInv, InJob, WorkdirOf, Workdirs
  <2>2. dir[WorkdirOf(w)].head \in SUBSET Runs
    BY <2>1 DEF RInv, RunTypeOK
  <2>3. Pushed(w) \in [by : Runs \cup {NoRun}, edits : SUBSET Runs] /\ Pushed(w).by = mine[w]
    BY <1>t, <2>2 DEF Pushed
  <2>4. NoBranch.by = NoRun
    BY DEF NoBranch
  <2> QED BY <1>t, <2>3, <2>4, RunAssumption
<1>3. PICK s \in {"pushed", "failed"} : Goto(w, s) /\ (s = "pushed" => remote'[b] # NoBranch)
      /\ (remote' = remote \/ (remote[b] = NoBranch /\ remote' = [remote EXCEPT ![b] = Pushed(w)]))
  <2>1. b \in Branches
    BY <1>0, BranchType DEF RInv
  <2> HIDE DEF b
  <2>2. remote' = [remote EXCEPT ![b] = Pushed(w)] => remote'[b] # NoBranch
    BY <1>t, <1>2, <2>1
  <2> QED BY <2>2 DEF Push, b
<1>4. WithinHandler(w, s)
  BY <1>0, <1>1, <1>3 DEF WithinHandler, Stage
<1>5. /\ stage'[w] = s /\ stage' \in [Workers -> Stage] /\ mine'[w] = mine[w]
      /\ BranchOf(w)' = b /\ pc'[w] = "working" /\ b \in Branches
  BY <1>4, Moves
<1> HIDE DEF b
<1>6. /\ remote' \in [Branches -> [by : Runs \cup {NoRun}, edits : SUBSET Runs]]
      /\ \A c \in Branches : \/ remote'[c] = remote[c]
                             \/ c = b /\ remote[c] = NoBranch /\ remote'[c] = Pushed(w)
  BY <1>2, <1>3, <1>5, <1>t
<1>7. TablesGrow(w)
  BY <1>0, <1>2, <1>6, <1>t DEF TablesGrow
<1>8. RunTypeOK'
  BY <1>0, <1>5, <1>6 DEF RInv, RunTypeOK
<1>9. InRun(w)'
  BY <1>0, <1>3, <1>5, <1>t DEF InRun, Opened
<1> QED BY <1>1, <1>4, <1>7, <1>8, <1>9, HandlerStep

\* The pull request is opened, with or without an answer, or it is not.
LEMMA OpenKeeps ==
    ASSUME RInv, NEW w \in Workers, OpenPr(w) \/ OpenPrLost(w) PROVE StepOf(w) /\ RInv'
<1>0. UNCHANGED <<kind, mine, review, dir, remote, link>>
      /\ pc[w] = "working" /\ stage[w] = "mergeable"
  BY DEF OpenPr, OpenPrLost, InHandler
<1>1. Inv' /\ AttemptInv' /\ UNCHANGED <<row, pc, job>>
  <2>1. CASE OpenPr(w)
    BY <2>1, QueueSame DEF OpenPr
  <2>2. CASE OpenPrLost(w)
    BY <2>2, QueueFault DEF OpenPrLost, RInv, workerVars
  <2> QED BY <2>1, <2>2
<1>t. /\ mine[w] \in Runs /\ review[mine[w]].status = "running"
      /\ review[mine[w]].branch = BranchOf(w) /\ remote[BranchOf(w)] # NoBranch
      /\ review[mine[w]].ingested /\ review[mine[w]].publish
  BY <1>0 DEF RInv, InRun, Opened, Stage
<1>2. PICK s \in {"done", "failed"} : Goto(w, s) /\ (s = "done" => mine[w] \in prs')
      /\ prs' \in {prs, prs \cup {mine[w]}}
  BY DEF OpenPr, OpenPrLost
<1>3. WithinHandler(w, s)
  BY <1>0, <1>1, <1>2 DEF WithinHandler, Stage
<1>4. /\ stage'[w] = s /\ stage' \in [Workers -> Stage] /\ mine'[w] = mine[w]
      /\ BranchOf(w)' = BranchOf(w) /\ pc'[w] = "working"
  BY <1>3, Moves
<1> HIDE DEF BranchOf
<1>5. TablesGrow(w)
  BY <1>0, <1>2, <1>t DEF TablesGrow, BranchAt
<1>6. RunTypeOK'
  BY <1>0, <1>2, <1>4, <1>t DEF RInv, RunTypeOK
<1>7. InRun(w)'
  BY <1>0, <1>2, <1>4, <1>t DEF InRun, Opened
<1> QED BY <1>1, <1>3, <1>5, <1>6, <1>7, HandlerStep

\* The review run ends.
LEMMA FinishKeeps ==
    ASSUME RInv, NEW w \in Workers, Finish(w) PROVE StepOf(w) /\ RInv'
<1> DEFINE z == IF stage[w] = "done" THEN "ok" ELSE "error"
           s == IF stage[w] = "done" THEN "endedOk" ELSE "endedBad"
           x == [review[mine[w]] EXCEPT !.status = z]
<1>0. UNCHANGED vars /\ UNCHANGED <<kind, mine, dir, remote, prs>> /\ Goto(w, s)
      /\ pc[w] = "working" /\ stage[w] \in {"done", "failed"}
      /\ review' = [review EXCEPT ![mine[w]].status = z]
      /\ (link' = [link EXCEPT ![job[w].task] = mine[w]] \/ UNCHANGED link)
  BY DEF Finish
<1>1. Inv' /\ AttemptInv' /\ UNCHANGED <<row, pc, job>>
  BY <1>0, QueueSame
<1>t. /\ review \in [Runs -> ReviewRow] /\ mine[w] \in Runs /\ review[mine[w]] \in ReviewRow
      /\ review[mine[w]].branch = BranchOf(w) /\ review[mine[w]].status = "running"
      /\ stage[w] = "done" => review[mine[w]].ingested /\ (review[mine[w]].publish => mine[w] \in prs)
  BY <1>0 DEF RInv, RunTypeOK, ReviewRow, InRun, Opened, Stage
<1>2. WithinHandler(w, s)
  BY <1>0, <1>1 DEF WithinHandler, Stage
<1>3. /\ stage'[w] = s /\ stage' \in [Workers -> Stage] /\ mine'[w] = mine[w]
      /\ BranchOf(w)' = BranchOf(w) /\ pc'[w] = "working"
  BY <1>2, Moves
<1> HIDE DEF BranchOf
<1>4. review' = [review EXCEPT ![mine[w]] = x]
  BY <1>0, <1>t
<1>5. /\ x \in ReviewRow /\ x.branch = review[mine[w]].branch /\ x.status = z
      /\ x.ingested = review[mine[w]].ingested /\ x.publish = review[mine[w]].publish
  BY <1>t DEF ReviewRow
<1> HIDE DEF x
<1>6. TablesGrow(w) /\ review' \in [Runs -> ReviewRow] /\ review'[mine[w]] = x
  <2>1. stage[w] \in Opened /\ x.status # "absent"
    BY <1>0, <1>5 DEF Opened, Stage
  <2>2. /\ (review[mine[w]].ingested => x.ingested) /\ (review[mine[w]].publish => x.publish)
        /\ UNCHANGED <<remote, prs>>
    BY <1>0, <1>5
  <2>3. x \in ReviewRow /\ x.branch = review[mine[w]].branch
    BY <1>5
  <2> QED BY <1>4, <2>1, <2>2, <2>3, OneReview
<1>7. RunTypeOK'
  <2>1. link' \in [Tasks -> Runs \cup {NoRun}]
    BY <1>0, <1>t DEF RInv, RunTypeOK
  <2> QED BY <1>0, <1>3, <1>6, <2>1 DEF RInv, RunTypeOK, ReviewRow
<1>8. InRun(w)'
  BY <1>0, <1>3, <1>5, <1>6, <1>t DEF InRun, Opened
<1> QED BY <1>1, <1>2, <1>6, <1>7, <1>8, HandlerStep

\* The end of the review run is lost to a database error.
LEMMA RaiseKeeps ==
    ASSUME RInv, NEW w \in Workers, FinishRaises(w) PROVE StepOf(w) /\ RInv'
<1>0. UNCHANGED <<kind, mine, review, dir, remote, prs, link>> /\ Goto(w, "endedBad")
      /\ pc[w] = "working" /\ stage[w] \in {"done", "failed"}
  BY DEF FinishRaises, storeVars
<1>1. Inv' /\ AttemptInv' /\ UNCHANGED <<row, pc, job>>
  BY QueueFault DEF FinishRaises, RInv, workerVars
<1>2. WithinHandler(w, "endedBad")
  BY <1>0, <1>1 DEF WithinHandler, Stage
<1>3. /\ stage'[w] = "endedBad" /\ stage' \in [Workers -> Stage] /\ mine'[w] = mine[w]
      /\ BranchOf(w)' = BranchOf(w) /\ pc'[w] = "working"
  BY <1>2, Moves
<1> HIDE DEF BranchOf
<1>4. RunTypeOK'
  BY <1>0, <1>3 DEF RInv, RunTypeOK
<1>5. InRun(w)'
  BY <1>0, <1>3 DEF RInv, InRun, Opened, Stage
<1> QED BY <1>0, <1>1, <1>2, <1>4, <1>5, TablesSame, HandlerStep

\* The handler is left: a task is done only after a run that ended well.
LEMMA LeaveKeeps ==
    ASSUME RInv, NEW w \in Workers, Settle(w) \/ RunCrash(w) PROVE StepOf(w) /\ RInv'
<1>0. UNCHANGED <<kind, review, dir, remote, prs, link>> /\ Goto(w, "none")
      /\ mine' = [mine EXCEPT ![w] = NoRun]
  BY DEF Settle, RunCrash, Leave, storeVars
<1>1. Inv' /\ AttemptInv'
  <2>1. Next
    BY QueueSteps DEF Next, Fault
  <2> QED BY <2>1, InvNext, AttemptNext DEF RInv
<1>2. /\ stage'[w] = "none" /\ stage' \in [Workers -> Stage] /\ mine'[w] = NoRun
      /\ mine' \in [Workers -> Runs \cup {NoRun}]
      /\ \A v \in Workers \ {w} : stage'[v] = stage[v] /\ mine'[v] = mine[v]
  BY <1>0 DEF Goto, RInv, RunTypeOK, Stage
<1>3. \A v \in Workers \ {w} : pc'[v] = pc[v] /\ job'[v] = job[v]
  BY DEF Settle, RunCrash, Succeed, FailLost, FailRead, LeaveBlock, Crash, RInv, Inv, TypeOK
<1>4. TablesGrow(w)
  BY <1>0, TablesSame
<1>5. StepOf(w)
  BY <1>0, <1>2, <1>3, <1>4 DEF StepOf
<1>6. RunTypeOK'
  BY <1>0, <1>2 DEF RInv, RunTypeOK
<1>7. InRun(w)'
  BY <1>2, RunAssumption DEF InRun, Opened
<1>8. ASSUME NEW t \in Tasks, row'[t].status = "done"
      PROVE  row[t].status = "done" \/ (stage[w] = "endedOk" /\ job[w].task = t)
  <2>1. CASE stage[w] = "endedOk" /\ Succeed(w)
    BY <1>8, <2>1 DEF Succeed, RInv, Inv, TypeOK
  <2>2. CASE FailLost(w) \/ FailRead(w) \/ Crash(w)
    BY <1>8, <2>2 DEF FailLost, FailRead, Crash, dbVars
  <2> QED BY <2>1, <2>2 DEF Settle, RunCrash
<1> QED BY <1>1, <1>5, <1>6, <1>7, <1>8, RunKeeps

\* A step outside the handlers.
LEMMA OutsideKeeps ==
    ASSUME RInv, (\E w \in Workers : QueueStep(w)) \/ Others PROVE RInv' /\ UNCHANGED runVars
<1>1. Next /\ UNCHANGED runVars
  BY QueueSteps DEF QueueStep, Others
<1>2. Inv' /\ AttemptInv'
  BY <1>1, InvNext, AttemptNext DEF RInv
<1>3. \A v \in Workers : pc[v] = "working" => pc'[v] = "working" /\ job'[v] = job[v]
  BY InsideStays DEF RInv
<1>4. DoneStep
  BY <1>1, DoneNext DEF RInv
<1> QED BY <1>1, <1>2, <1>3, <1>4, IdleKeeps

-----------------------------------------------------------------------------
\* No run is open when the system starts.
LEMMA RunStart == RunInit => RInv
<1> SUFFICES ASSUME RunInit PROVE RInv
  OBVIOUS
<1>1. Inv
  BY InitInv DEF RunInit
<1>2. AttemptInv
  BY DEF RunInit, Init, AttemptInv, InJob
<1>3. NoReview \in ReviewRow /\ NoReview.status = "absent"
  BY DEF NoReview, ReviewRow
<1>4. RunTypeOK
  <2>1. /\ NoBranch \in [by : Runs \cup {NoRun}, edits : SUBSET Runs]
        /\ Fresh \in [edits : SUBSET Runs, head : SUBSET Runs]
    BY DEF NoBranch, Fresh
  <2>2. "none" \in Stage
    BY DEF Stage
  <2> QED BY <1>3, <2>1, <2>2 DEF RunInit, RunTypeOK, ReviewRow
<1>5. OwnRuns /\ Tables
  BY <1>3 DEF RunInit, OwnRuns, Tables
<1>6. \A w \in Workers : InRun(w)
  BY RunAssumption DEF RunInit, InRun, Opened
<1>7. RecordedBeforePublish /\ DoneIsEarned
  BY DEF RunInit, Init, RecordedBeforePublish, NoBranch, DoneIsEarned, NoRow
<1> QED BY <1>1, <1>2, <1>4, <1>5, <1>6, <1>7 DEF RInv

\* Every step is one worker's, or leaves the runs alone.
LEMMA RunSteps ==
    ASSUME RInv, [RunNext]_allVars
    PROVE  RInv' /\ ((\E w \in Workers : StepOf(w)) \/ UNCHANGED runVars)
<1>1. ASSUME NEW w \in Workers, Handle(w) PROVE StepOf(w) /\ RInv'
  BY <1>1, LoadKeeps, PrepareKeeps, ReviewKeeps, CommitKeeps, RecordKeeps, GuardKeeps, PushKeeps,
     OpenKeeps, FinishKeeps DEF Handle
<1>2. ASSUME NEW w \in Workers, OpenPrLost(w) \/ FinishRaises(w) \/ Settle(w) \/ RunCrash(w)
      PROVE  StepOf(w) /\ RInv'
  BY <1>2, OpenKeeps, RaiseKeeps, LeaveKeeps
<1>3. CASE UNCHANGED allVars
  <2>1. UNCHANGED vars /\ UNCHANGED runVars
    BY <1>3 DEF allVars
  <2>2. Inv' /\ AttemptInv' /\ UNCHANGED <<row, pc, job>>
    BY <2>1, QueueSame
  <2>3. DoneStep
    BY <2>2 DEF DoneStep
  <2> QED BY <2>1, <2>2, <2>3, IdleKeeps
<1> QED BY <1>1, <1>2, <1>3, OutsideKeeps DEF RunNext

\* Whichever workers meet on a task, crash or lose their lease, each run has
\* recorded what its stage says.
THEOREM RunInvHolds == RunSpec => []RInv
<1>1. RInv /\ [RunNext]_allVars => RInv'
  BY RunSteps
<1> QED BY <1>1, RunStart, PTL DEF RunSpec

\* Whatever is on the forge, the run that pushed it had recorded its findings
\* before (the order of emit, record_findings and push in AgentRunner.run).
THEOREM RunsConsistent == RunSpec => []RunConsistent
<1>1. RInv => RunConsistent
  BY DEF RInv, RunConsistent
<1> QED BY <1>1, RunInvHolds, PTL

\* A row says done only if a run of its task ended ok, with its findings in and,
\* when it set out to publish, its pull request open: no stale replica, lost
\* lease or failed outcome retires a task (run_once, succeed, _finish_review_run).
THEOREM DoneEarned == RunSpec => []DoneIsEarned
<1>1. RInv => DoneIsEarned
  BY DEF RInv
<1> QED BY <1>1, RunInvHolds, PTL

\* The branch a pull request shows never changes again: push refuses a branch
\* that exists with another head.
THEOREM HeadsKept == RunSpec => PullRequestHead
<1>1. RInv /\ [RunNext]_allVars
        => [\A r \in prs : /\ remote[BranchAt(r)] # NoBranch
                           /\ remote'[BranchAt(r)] = remote[BranchAt(r)]]_allVars
  <2> SUFFICES ASSUME RInv, [RunNext]_allVars, NEW r \in prs
               PROVE  /\ remote[BranchAt(r)] # NoBranch
                      /\ remote'[BranchAt(r)] = remote[BranchAt(r)]
    OBVIOUS
  <2>1. r \in Runs /\ remote[BranchAt(r)] # NoBranch /\ BranchAt(r) \in Branches
    BY DEF RInv, RunTypeOK, Tables, BranchAt
  <2>2. (\E w \in Workers : StepOf(w)) \/ UNCHANGED runVars
    BY RunSteps
  <2> QED BY <2>1, <2>2 DEF StepOf, TablesGrow, runVars, storeVars
<1> QED BY <1>1, RunInvHolds, PTL DEF RunSpec, PullRequestHead

-----------------------------------------------------------------------------
(* What a second pull request costs.  Cost(t) is what task t has published  *)
(* or can still publish without a new cause: every step that adds to one    *)
(* term takes from another, or is a fault or an operator's intervention.    *)

Holds(w, t) == pc[w] \in Block /\ job[w].task = t /\ Owns(w, t)

\* Worker w lost task t and can still open a pull request, or send the row of
\* t back to the queue.
Loose(w, t) ==
    /\ job[w].task = t /\ ~Owns(w, t)
    /\ pc[w] = "failing" \/ (pc[w] = "working" /\ stage[w] = "mergeable")
Astray(t) == {w \in Workers : Loose(w, t)}

\* The holder of t is about to lose it: nobody renews its lease, or it is over.
Exposed(t) == \E w \in Workers : Holds(w, t) /\ (~beat[w] \/ row[t].lease = "expired")

\* No holder of t is going to open another pull request: the task is retired, or
\* its holder has opened one and is about to report it.
Reports(w, t) == Holds(w, t) /\ stage[w] \in {"done", "endedOk"} /\ mine[w] \in prs
Spent(t) == row[t].status \in {"done", "dead"} \/ \E w \in Workers : Reports(w, t)

Risk(t) == IF Exposed(t) THEN 1 ELSE 0
Unspent(t) == IF Spent(t) THEN 0 ELSE 1
Cost(t) == Cardinality(PullRequests(t)) + Cardinality(Astray(t)) + Risk(t) + Unspent(t)

CostOf(t) == /\ IsFiniteSet(PullRequests(t)) /\ IsFiniteSet(Astray(t))
             /\ Cost(t) <= 1 + ops + faults
Costs == \A t \in Tasks : CostOf(t)

\* Cardinalities of sets that gain, lose or exchange an element.
LEMMA SetAdds ==
    ASSUME NEW S, NEW T, NEW x, IsFiniteSet(S), T \subseteq S \cup {x}
    PROVE  IsFiniteSet(T) /\ Cardinality(T) <= Cardinality(S) + 1
<1>1. /\ IsFiniteSet(S \cup {x}) /\ Cardinality(S) \in Nat
      /\ Cardinality(S \cup {x}) = IF x \in S THEN Cardinality(S) ELSE Cardinality(S) + 1
  BY FS_AddElement, FS_CardinalityType
<1>2. IsFiniteSet(T) /\ Cardinality(T) <= Cardinality(S \cup {x}) /\ Cardinality(T) \in Nat
  BY <1>1, FS_Subset, FS_CardinalityType
<1> QED BY <1>1, <1>2

LEMMA SetDrops ==
    ASSUME NEW S, NEW T, NEW x, IsFiniteSet(S), x \in S, T \subseteq S \ {x}
    PROVE  IsFiniteSet(T) /\ Cardinality(T) <= Cardinality(S) - 1
<1>1. /\ IsFiniteSet(S \ {x}) /\ Cardinality(S) \in Nat
      /\ Cardinality(S \ {x}) = Cardinality(S) - 1
  BY FS_RemoveElement, FS_CardinalityType
<1>2. IsFiniteSet(T) /\ Cardinality(T) <= Cardinality(S \ {x}) /\ Cardinality(T) \in Nat
  BY <1>1, FS_Subset, FS_CardinalityType
<1> QED BY <1>1, <1>2

LEMMA SetSwaps ==
    ASSUME NEW S, NEW T, NEW x, NEW y, IsFiniteSet(S), x \in S, T \subseteq (S \ {x}) \cup {y}
    PROVE  IsFiniteSet(T) /\ Cardinality(T) <= Cardinality(S)
<1>1. IsFiniteSet(S \ {x}) /\ Cardinality(S \ {x}) <= Cardinality(S) - 1
  BY SetDrops
<1>2. IsFiniteSet(T) /\ Cardinality(T) <= Cardinality(S \ {x}) + 1
  BY <1>1, SetAdds
<1>3. Cardinality(S) \in Nat /\ Cardinality(S \ {x}) \in Nat /\ Cardinality(T) \in Nat
  BY <1>1, <1>2, FS_CardinalityType
<1> QED BY <1>1, <1>2, <1>3

LEMMA SetKeeps ==
    ASSUME NEW S, NEW T, IsFiniteSet(S), T \subseteq S
    PROVE  IsFiniteSet(T) /\ Cardinality(T) <= Cardinality(S) + 0
<1>1. IsFiniteSet(T) /\ Cardinality(T) <= Cardinality(S) /\ Cardinality(S) \in Nat
  BY FS_Subset, FS_CardinalityType
<1> QED BY <1>1

\* Four terms against two counters.
LEMMA Sums ==
    ASSUME NEW x \in Nat, NEW y \in Nat, NEW z \in Nat, NEW u \in Nat,
           NEW x1 \in Nat, NEW y1 \in Nat, NEW z1 \in Nat, NEW u1 \in Nat,
           NEW p \in Int, NEW a \in Int, NEW e \in Int, NEW s \in Int,
           NEW m \in Nat, NEW n \in Nat, NEW m1 \in Nat, NEW n1 \in Nat,
           x1 <= x + p, y1 <= y + a, z1 <= z + e, u1 <= u + s,
           m + n + (p + a + e + s) <= m1 + n1, x + y + z + u <= 1 + m + n
    PROVE  x1 + y1 + z1 + u1 <= 1 + m1 + n1
OBVIOUS

\* The balance of a step: what the terms gain is paid for.
LEMMA Balance ==
    ASSUME RInv, RInv', NEW t \in Tasks, CostOf(t),
           NEW p \in Int, NEW a \in Int, NEW e \in Int, NEW s \in Int,
           IsFiniteSet(PullRequests(t)'),
           Cardinality(PullRequests(t)') <= Cardinality(PullRequests(t)) + p,
           IsFiniteSet(Astray(t)'), Cardinality(Astray(t)') <= Cardinality(Astray(t)) + a,
           Risk(t)' <= Risk(t) + e, Unspent(t)' <= Unspent(t) + s,
           ops + faults + (p + a + e + s) <= ops' + faults'
    PROVE  CostOf(t)'
<1>1. /\ Cardinality(PullRequests(t)) \in Nat /\ Cardinality(Astray(t)) \in Nat
      /\ Cardinality(PullRequests(t)') \in Nat /\ Cardinality(Astray(t)') \in Nat
  BY FS_CardinalityType DEF CostOf
<1>2. Risk(t) \in Nat /\ Unspent(t) \in Nat /\ Risk(t)' \in Nat /\ Unspent(t)' \in Nat
  BY DEF Risk, Unspent
<1>3. ops \in Nat /\ faults \in Nat /\ ops' \in Nat /\ faults' \in Nat
  BY DEF RInv, Inv, TypeOK
<1>4. Cost(t) <= 1 + ops + faults
  BY DEF CostOf
<1>5. Cost(t)' <= 1 + ops' + faults'
  <2> HIDE DEF PullRequests, Astray, Risk, Unspent
  <2>1. Cost(t)' = Cardinality(PullRequests(t)') + Cardinality(Astray(t)') + Risk(t)' + Unspent(t)'
    BY DEF Cost
  <2>2. Cost(t) = Cardinality(PullRequests(t)) + Cardinality(Astray(t)) + Risk(t) + Unspent(t)
    BY DEF Cost
  <2> DEFINE x == Cardinality(PullRequests(t)) y == Cardinality(Astray(t))
             x1 == Cardinality(PullRequests(t)') y1 == Cardinality(Astray(t)')
             z == Risk(t) u == Unspent(t) z1 == Risk(t)' u1 == Unspent(t)'
             m1 == ops' n1 == faults'
  <2>3. /\ x \in Nat /\ y \in Nat /\ z \in Nat /\ u \in Nat
        /\ x1 \in Nat /\ y1 \in Nat /\ z1 \in Nat /\ u1 \in Nat /\ m1 \in Nat /\ n1 \in Nat
    BY <1>1, <1>2, <1>3
  <2>4. /\ x1 <= x + p /\ y1 <= y + a /\ z1 <= z + e /\ u1 <= u + s
        /\ ops + faults + (p + a + e + s) <= m1 + n1 /\ x + y + z + u <= 1 + ops + faults
    BY <1>4, <2>2
  <2> HIDE DEF x, y, x1, y1, z, u, z1, u1, m1, n1
  <2>5. x1 + y1 + z1 + u1 <= 1 + m1 + n1
    BY <1>3, <2>3, <2>4, Sums
  <2> QED BY <2>1, <2>5 DEF x1, y1, z1, u1, m1, n1
<1> QED BY <1>5 DEF CostOf

\* Worker w is not touched.
Stays(w) == /\ pc'[w] = pc[w] /\ job'[w] = job[w] /\ beat'[w] = beat[w]
            /\ stage'[w] = stage[w] /\ mine'[w] = mine[w]

\* Worker w comes no nearer to publishing for t, nor to losing it.
Tame(w, t) ==
    /\ Loose(w, t)' => Loose(w, t)
    /\ Holds(w, t)' => Holds(w, t) /\ (beat'[w] \/ ~beat[w])
    /\ Reports(w, t) => Reports(w, t)'

\* The lease columns of t are not touched.
Still(t) == /\ row'[t].owner = row[t].owner /\ row'[t].lease = row[t].lease
            /\ \/ row'[t].status = row[t].status
               \/ row[t].status \in Held /\ row'[t].status \in Held

LEMMA StaysTame ==
    ASSUME NEW t, NEW w, Stays(w), Still(t), prs \subseteq prs' PROVE Tame(w, t)
BY DEF Stays, Still, Tame, Loose, Holds, Reports, Owns

\* A pull request keeps its task.
LEMMA PrsSame ==
    ASSUME RInv, NEW t, prs' = prs,
           \A r \in Runs : review[r].status # "absent" => review'[r].branch = review[r].branch
    PROVE  PullRequests(t)' = PullRequests(t)
<1>1. \A r \in prs : review'[r].branch = review[r].branch
  BY DEF RInv, Tables, RunTypeOK
<1> QED BY <1>1 DEF PullRequests, TaskOf

\* What the terms of the cost do when nobody is touched but the tame.
LEMMA TermsStill ==
    ASSUME NEW t, Still(t), \A w \in Workers : Tame(w, t)
    PROVE  /\ Astray(t)' \subseteq Astray(t)
           /\ Exposed(t)' => Exposed(t)
           /\ Spent(t) => Spent(t)'
<1>1. Astray(t)' \subseteq Astray(t)
  BY DEF Astray, Tame
<1>2. Exposed(t)' => Exposed(t)
  BY DEF Exposed, Tame, Still
<1>3. Spent(t) => Spent(t)'
  BY DEF Spent, Tame, Still, Held
<1> QED BY <1>1, <1>2, <1>3

\* The terms as numbers.
LEMMA TermNumbers ==
    ASSUME NEW t
    PROVE  /\ Risk(t)' <= Risk(t) + 1 /\ Unspent(t)' <= Unspent(t) + 1
           /\ (Exposed(t)' => Exposed(t)) => Risk(t)' <= Risk(t) + 0
           /\ (Spent(t) => Spent(t)') => Unspent(t)' <= Unspent(t) + 0
           /\ ~Exposed(t)' /\ Exposed(t) => Risk(t)' <= Risk(t) + (0 - 1)
           /\ ~Spent(t) /\ Spent(t)' => Unspent(t)' <= Unspent(t) + (0 - 1)
BY DEF Risk, Unspent

\* The sums Balance asks for.
LEMMA Paid ==
    ASSUME RInv, RInv'
    PROVE  /\ ops + faults <= ops' + faults' =>
                /\ ops + faults + (0 + 0 + 0 + 0) <= ops' + faults'
                /\ ops + faults + (0 + 1 + (0 - 1) + 0) <= ops' + faults'
                /\ ops + faults + (0 + 0 + (0 - 1) + 1) <= ops' + faults'
                /\ ops + faults + (0 + (0 - 1) + 0 + 1) <= ops' + faults'
                /\ ops + faults + (1 + (0 - 1) + 0 + 0) <= ops' + faults'
                /\ ops + faults + (1 + 0 + 0 + (0 - 1)) <= ops' + faults'
           /\ ops + faults + 1 <= ops' + faults' =>
                /\ ops + faults + (1 + 0 + 0 + 0) <= ops' + faults'
                /\ ops + faults + (0 + 1 + 0 + 0) <= ops' + faults'
                /\ ops + faults + (0 + 0 + 1 + 0) <= ops' + faults'
                /\ ops + faults + (0 + 0 + 0 + 1) <= ops' + faults'
<1> DEFINE m1 == ops' n1 == faults'
<1>1. ops \in Nat /\ faults \in Nat
  BY DEF RInv, Inv, TypeOK
<1>2. m1 \in Nat /\ n1 \in Nat
  BY DEF RInv, Inv, TypeOK
<1> HIDE DEF m1, n1
<1>3. /\ ops + faults <= m1 + n1 =>
           /\ ops + faults + (0 + 0 + 0 + 0) <= m1 + n1
           /\ ops + faults + (0 + 1 + (0 - 1) + 0) <= m1 + n1
           /\ ops + faults + (0 + 0 + (0 - 1) + 1) <= m1 + n1
           /\ ops + faults + (0 + (0 - 1) + 0 + 1) <= m1 + n1
           /\ ops + faults + (1 + (0 - 1) + 0 + 0) <= m1 + n1
           /\ ops + faults + (1 + 0 + 0 + (0 - 1)) <= m1 + n1
      /\ ops + faults + 1 <= m1 + n1 =>
           /\ ops + faults + (1 + 0 + 0 + 0) <= m1 + n1
           /\ ops + faults + (0 + 1 + 0 + 0) <= m1 + n1
           /\ ops + faults + (0 + 0 + 1 + 0) <= m1 + n1
           /\ ops + faults + (0 + 0 + 0 + 1) <= m1 + n1
  BY <1>1, <1>2
<1> QED BY <1>3 DEF m1, n1

\* A step that costs nothing.
LEMMA CostFree ==
    ASSUME RInv, RInv', NEW t \in Tasks, CostOf(t), PullRequests(t)' = PullRequests(t),
           Astray(t)' \subseteq Astray(t), Exposed(t)' => Exposed(t), Spent(t) => Spent(t)',
           ops + faults <= ops' + faults'
    PROVE  CostOf(t)'
<1>1. /\ IsFiniteSet(PullRequests(t)')
      /\ Cardinality(PullRequests(t)') <= Cardinality(PullRequests(t)) + 0
  BY SetKeeps DEF CostOf
<1>2. IsFiniteSet(Astray(t)') /\ Cardinality(Astray(t)') <= Cardinality(Astray(t)) + 0
  BY SetKeeps DEF CostOf
<1>3. Risk(t)' <= Risk(t) + 0 /\ Unspent(t)' <= Unspent(t) + 0
  BY TermNumbers
<1>4. ops + faults + (0 + 0 + 0 + 0) <= ops' + faults'
  BY Paid
<1> QED BY <1>1, <1>2, <1>3, <1>4, Balance

\* A fault or an operator's step pays for one term.
LEMMA CostPaid ==
    ASSUME RInv, RInv', NEW t \in Tasks, CostOf(t), PullRequests(t)' = PullRequests(t),
           ops + faults + 1 <= ops' + faults', NEW x,
           \/ /\ Astray(t)' \subseteq Astray(t)
              /\ (Exposed(t)' => Exposed(t)) \/ (Spent(t) => Spent(t)')
           \/ /\ Astray(t)' \subseteq Astray(t) \cup {x}
              /\ Exposed(t)' => Exposed(t)
              /\ Spent(t) => Spent(t)'
    PROVE  CostOf(t)'
<1>1. /\ IsFiniteSet(PullRequests(t)')
      /\ Cardinality(PullRequests(t)') <= Cardinality(PullRequests(t)) + 0
  BY SetKeeps DEF CostOf
<1>a. 0 \in Int /\ 1 \in Int
  OBVIOUS
<1>3. CASE Astray(t)' \subseteq Astray(t) /\ (Exposed(t)' => Exposed(t))
  <2>1. IsFiniteSet(Astray(t)') /\ Cardinality(Astray(t)') <= Cardinality(Astray(t)) + 0
    BY <1>3, SetKeeps DEF CostOf
  <2>2. Risk(t)' <= Risk(t) + 0 /\ Unspent(t)' <= Unspent(t) + 1
    BY <1>3, TermNumbers
  <2>3. ops + faults + (0 + 0 + 0 + 1) <= ops' + faults'
    BY Paid
  <2> QED BY <1>1, <1>a, <2>1, <2>2, <2>3, Balance
<1>4. CASE Astray(t)' \subseteq Astray(t) /\ (Spent(t) => Spent(t)')
  <2>1. IsFiniteSet(Astray(t)') /\ Cardinality(Astray(t)') <= Cardinality(Astray(t)) + 0
    BY <1>4, SetKeeps DEF CostOf
  <2>2. Risk(t)' <= Risk(t) + 1 /\ Unspent(t)' <= Unspent(t) + 0
    BY <1>4, TermNumbers
  <2>3. ops + faults + (0 + 0 + 1 + 0) <= ops' + faults'
    BY Paid
  <2> QED BY <1>1, <1>a, <2>1, <2>2, <2>3, Balance
<1>5. CASE /\ Astray(t)' \subseteq Astray(t) \cup {x}
           /\ Exposed(t)' => Exposed(t)
           /\ Spent(t) => Spent(t)'
  <2>1. IsFiniteSet(Astray(t)') /\ Cardinality(Astray(t)') <= Cardinality(Astray(t)) + 1
    BY <1>5, SetAdds DEF CostOf
  <2>2. Risk(t)' <= Risk(t) + 0 /\ Unspent(t)' <= Unspent(t) + 0
    BY <1>5, TermNumbers
  <2>3. ops + faults + (0 + 1 + 0 + 0) <= ops' + faults'
    BY Paid
  <2> QED BY <1>1, <1>a, <2>1, <2>2, <2>3, Balance
<1> QED BY <1>3, <1>4, <1>5

\* A holder that loses its task joins the astray or takes back its report, in
\* exchange for the risk it was under (the sweep) or for the stale worker that
\* took the task away (a late fail).
LEMMA CostTraded ==
    ASSUME RInv, RInv', NEW t \in Tasks, CostOf(t), PullRequests(t)' = PullRequests(t),
           ops + faults <= ops' + faults', ~Exposed(t)', NEW v, NEW x,
           \/ Exposed(t) /\ Astray(t)' \subseteq Astray(t) \cup {v} /\ (Spent(t) => Spent(t)')
           \/ Exposed(t) /\ Astray(t)' \subseteq Astray(t)
           \/ x \in Astray(t) /\ Astray(t)' \subseteq (Astray(t) \ {x}) \cup {v}
              /\ (Spent(t) => Spent(t)')
           \/ x \in Astray(t) /\ Astray(t)' \subseteq Astray(t) \ {x}
    PROVE  CostOf(t)'
<1>1. /\ IsFiniteSet(PullRequests(t)')
      /\ Cardinality(PullRequests(t)') <= Cardinality(PullRequests(t)) + 0
  BY SetKeeps DEF CostOf
<1>a. IsFiniteSet(Astray(t)) /\ 0 \in Int /\ 1 \in Int /\ 0 - 1 \in Int
  BY DEF CostOf
<1>3. CASE Exposed(t) /\ Astray(t)' \subseteq Astray(t) \cup {v} /\ (Spent(t) => Spent(t)')
  <2>1. IsFiniteSet(Astray(t)') /\ Cardinality(Astray(t)') <= Cardinality(Astray(t)) + 1
    BY <1>3, <1>a, SetAdds
  <2>2. Risk(t)' <= Risk(t) + (0 - 1) /\ Unspent(t)' <= Unspent(t) + 0
    BY <1>3, TermNumbers
  <2>4. ops + faults + (0 + 1 + (0 - 1) + 0) <= ops' + faults'
    BY Paid
  <2> QED BY <1>1, <1>a, <2>1, <2>2, <2>4, Balance
<1>4. CASE Exposed(t) /\ Astray(t)' \subseteq Astray(t)
  <2>1. IsFiniteSet(Astray(t)') /\ Cardinality(Astray(t)') <= Cardinality(Astray(t)) + 0
    BY <1>4, <1>a, SetKeeps
  <2>2. Risk(t)' <= Risk(t) + (0 - 1) /\ Unspent(t)' <= Unspent(t) + 1
    BY <1>4, TermNumbers
  <2>4. ops + faults + (0 + 0 + (0 - 1) + 1) <= ops' + faults'
    BY Paid
  <2> QED BY <1>1, <1>a, <2>1, <2>2, <2>4, Balance
<1>5. CASE x \in Astray(t) /\ Astray(t)' \subseteq (Astray(t) \ {x}) \cup {v}
           /\ (Spent(t) => Spent(t)')
  <2>1. IsFiniteSet(Astray(t)') /\ Cardinality(Astray(t)') <= Cardinality(Astray(t))
    BY <1>5, <1>a, SetSwaps
  <2>2. Cardinality(Astray(t)') <= Cardinality(Astray(t)) + 0
    BY <1>a, <2>1, FS_CardinalityType
  <2>3. Risk(t)' <= Risk(t) + 0 /\ Unspent(t)' <= Unspent(t) + 0
    BY <1>5, TermNumbers
  <2>4. ops + faults + (0 + 0 + 0 + 0) <= ops' + faults'
    BY Paid
  <2> QED BY <1>1, <1>a, <2>1, <2>2, <2>3, <2>4, Balance
<1>6. CASE x \in Astray(t) /\ Astray(t)' \subseteq Astray(t) \ {x}
  <2>1. IsFiniteSet(Astray(t)') /\ Cardinality(Astray(t)') <= Cardinality(Astray(t)) - 1
    BY <1>6, <1>a, SetDrops
  <2>2. Cardinality(Astray(t)') <= Cardinality(Astray(t)) + (0 - 1)
    BY <1>a, <2>1, FS_CardinalityType
  <2>3. Risk(t)' <= Risk(t) + 0 /\ Unspent(t)' <= Unspent(t) + 1
    BY TermNumbers
  <2>4. ops + faults + (0 + (0 - 1) + 0 + 1) <= ops' + faults'
    BY Paid
  <2> QED BY <1>1, <1>a, <2>1, <2>2, <2>3, <2>4, Balance
<1> QED BY <1>3, <1>4, <1>5, <1>6

\* A pull request is paid for by a fault, by the astray worker that opened it
\* or by the holder, which has then nothing more to publish.
LEMMA CostOpened ==
    ASSUME RInv, RInv', NEW t \in Tasks, CostOf(t), NEW x, NEW w,
           PullRequests(t)' \subseteq PullRequests(t) \cup {x}, Exposed(t)' => Exposed(t),
           \/ /\ ops + faults + 1 <= ops' + faults' /\ Astray(t)' \subseteq Astray(t)
              /\ Spent(t) => Spent(t)'
           \/ /\ ops + faults <= ops' + faults' /\ w \in Astray(t)
              /\ Astray(t)' \subseteq Astray(t) \ {w} /\ (Spent(t) => Spent(t)')
           \/ /\ ops + faults <= ops' + faults' /\ Astray(t)' \subseteq Astray(t)
              /\ ~Spent(t) /\ Spent(t)'
    PROVE  CostOf(t)'
<1>1. /\ IsFiniteSet(PullRequests(t)')
      /\ Cardinality(PullRequests(t)') <= Cardinality(PullRequests(t)) + 1
  BY SetAdds DEF CostOf
<1>a. /\ IsFiniteSet(Astray(t)) /\ 0 \in Int /\ 1 \in Int /\ 0 - 1 \in Int
      /\ ops \in Nat /\ faults \in Nat /\ ops' \in Nat /\ faults' \in Nat
  BY DEF CostOf, RInv, Inv, TypeOK
<1>b. Risk(t)' <= Risk(t) + 0
  BY TermNumbers
<1>3. CASE /\ ops + faults + 1 <= ops' + faults' /\ Astray(t)' \subseteq Astray(t)
           /\ Spent(t) => Spent(t)'
  <2>1. IsFiniteSet(Astray(t)') /\ Cardinality(Astray(t)') <= Cardinality(Astray(t)) + 0
    BY <1>3, <1>a, SetKeeps
  <2>2. Unspent(t)' <= Unspent(t) + 0
    BY <1>3, TermNumbers
  <2>3. ops + faults + (1 + 0 + 0 + 0) <= ops' + faults'
    BY <1>3, Paid
  <2> QED BY <1>1, <1>a, <1>b, <2>1, <2>2, <2>3, Balance
<1>4. CASE /\ ops + faults <= ops' + faults' /\ w \in Astray(t)
           /\ Astray(t)' \subseteq Astray(t) \ {w} /\ (Spent(t) => Spent(t)')
  <2>1. IsFiniteSet(Astray(t)') /\ Cardinality(Astray(t)') <= Cardinality(Astray(t)) - 1
    BY <1>4, <1>a, SetDrops
  <2>2. Cardinality(Astray(t)') <= Cardinality(Astray(t)) + (0 - 1)
    BY <1>a, <2>1, FS_CardinalityType
  <2>3. Unspent(t)' <= Unspent(t) + 0
    BY <1>4, TermNumbers
  <2>4. ops + faults + (1 + (0 - 1) + 0 + 0) <= ops' + faults'
    BY <1>4, Paid
  <2> QED BY <1>1, <1>a, <1>b, <2>1, <2>2, <2>3, <2>4, Balance
<1>5. CASE /\ ops + faults <= ops' + faults' /\ Astray(t)' \subseteq Astray(t)
           /\ ~Spent(t) /\ Spent(t)'
  <2>1. IsFiniteSet(Astray(t)') /\ Cardinality(Astray(t)') <= Cardinality(Astray(t)) + 0
    BY <1>5, <1>a, SetKeeps
  <2>2. Unspent(t)' <= Unspent(t) + (0 - 1)
    BY <1>5, TermNumbers
  <2>3. ops + faults + (1 + 0 + 0 + (0 - 1)) <= ops' + faults'
    BY <1>5, Paid
  <2> QED BY <1>1, <1>a, <1>b, <2>1, <2>2, <2>3, Balance
<1> QED BY <1>3, <1>4, <1>5

-----------------------------------------------------------------------------
(* The cost of the handler's steps.                                        *)

\* The queue's variables by name.
LEMMA Apart == UNCHANGED vars => UNCHANGED <<row, pc, job, beat, ops, faults>>
BY DEF vars

\* A handler's step that opens nothing.
LEMMA HandlerFree ==
    ASSUME RInv, RInv', NEW w \in Workers, StepOf(w), UNCHANGED vars, prs' = prs,
           stage'[w] = "mergeable" => Owns(w, job[w].task),
           stage[w] \in {"done", "endedOk"} =>
               stage'[w] \in {"done", "endedOk"} /\ mine'[w] = mine[w],
           NEW t \in Tasks, CostOf(t)
    PROVE  CostOf(t)'
<1>1. UNCHANGED <<row, pc, job, beat, ops, faults>>
  BY Apart
<1>2. Still(t)
  BY <1>1 DEF Still
<1>3. ASSUME NEW v \in Workers PROVE Tame(v, t)
  <2>1. CASE v # w
    <3>1. Stays(v)
      BY <1>1, <2>1 DEF StepOf, Stays
    <3> QED BY <1>2, <3>1, StaysTame
  <2>2. CASE v = w
    <3>1. Loose(w, t)' => Loose(w, t)
      BY <1>1 DEF Loose, Owns
    <3>2. Holds(w, t)' => Holds(w, t) /\ (beat'[w] \/ ~beat[w])
      BY <1>1 DEF Holds, Owns
    <3>3. Reports(w, t) => Reports(w, t)'
      BY <1>1 DEF Reports, Holds, Owns
    <3> QED BY <2>2, <3>1, <3>2, <3>3 DEF Tame
  <2> QED BY <2>1, <2>2
<1>4. PullRequests(t)' = PullRequests(t)
  BY PrsSame DEF StepOf, TablesGrow
<1>5. ops + faults <= ops' + faults'
  BY <1>1 DEF RInv, Inv, TypeOK
<1> QED BY <1>2, <1>3, <1>4, <1>5, TermsStill, CostFree

LEMMA HandleCosts ==
    ASSUME RInv, NEW w \in Workers, NEW t \in Tasks, CostOf(t),
           \/ LoadTask(w) \/ Prepare(w) \/ Review(w) \/ Commit(w) \/ Record(w)
           \/ Guard(w) \/ Push(w) \/ Finish(w)
    PROVE  CostOf(t)'
<1>1. StepOf(w) /\ RInv'
  BY LoadKeeps, PrepareKeeps, ReviewKeeps, CommitKeeps, RecordKeeps, GuardKeeps, PushKeeps,
     FinishKeeps
<1>2. UNCHANGED vars /\ prs' = prs
  BY DEF LoadTask, Prepare, Review, Commit, Record, Guard, Push, Finish, storeVars
<1>3. stage \in [Workers -> Stage]
  BY DEF RInv, RunTypeOK
<1>4. /\ stage'[w] = "mergeable" => Owns(w, job[w].task)
      /\ stage[w] \in {"done", "endedOk"} =>
           stage'[w] \in {"done", "endedOk"} /\ mine'[w] = mine[w]
  <2>1. CASE LoadTask(w) \/ Prepare(w) \/ Review(w) \/ Commit(w)
    BY <1>3, <2>1 DEF LoadTask, Prepare, Review, Commit, InHandler, Goto
  <2>2. CASE Record(w) \/ Push(w)
    BY <1>3, <2>2 DEF Record, Push, InHandler, Goto
  <2>3. CASE Guard(w)
    BY <1>3, <2>3 DEF Guard, Goto
  <2>4. CASE Finish(w)
    BY <1>3, <2>4 DEF Finish, Goto
  <2> QED BY <2>1, <2>2, <2>3, <2>4
<1> QED BY <1>1, <1>2, <1>4, HandlerFree

\* create_pull_request, its answer heard or lost.
LEMMA OpenCosts ==
    ASSUME RInv, NEW w \in Workers, NEW t \in Tasks, CostOf(t), OpenPr(w) \/ OpenPrLost(w)
    PROVE  CostOf(t)'
<1>1. StepOf(w) /\ RInv'
  BY OpenKeeps
<1>2. /\ UNCHANGED <<row, pc, job, beat, ops, mine, review>>
      /\ pc[w] = "working" /\ stage[w] = "mergeable"
      /\ \A v \in Workers \ {w} : stage'[v] = stage[v]
      /\ prs' \in {prs, prs \cup {mine[w]}}
  BY <1>1 DEF OpenPr, OpenPrLost, InHandler, StepOf, vars, workerVars
<1>3. stage \in [Workers -> Stage] /\ ops \in Nat /\ faults \in Nat
  BY DEF RInv, RunTypeOK, Inv, TypeOK
<1>4. /\ \/ stage'[w] = "done" /\ prs' = prs \cup {mine[w]} /\ faults' = faults
         \/ stage'[w] = "failed" /\ prs' = prs /\ faults' = faults
         \/ stage'[w] = "failed" /\ faults' = faults + 1
  BY <1>3, Apart DEF OpenPr, OpenPrLost, Goto
<1>5. Still(t)
  BY <1>2 DEF Still
<1>6. ASSUME NEW v \in Workers PROVE Tame(v, t)
  <2>1. CASE v # w
    <3>1. Stays(v) /\ prs \subseteq prs'
      BY <1>2, <2>1 DEF Stays
    <3> QED BY <1>5, <3>1, StaysTame
  <2>2. CASE v = w
    <3>1. stage'[w] \in {"done", "failed"}
      BY <1>4
    <3>2. Loose(w, t)' => Loose(w, t)
      BY <1>2, <3>1 DEF Loose, Owns
    <3>3. Holds(w, t)' => Holds(w, t) /\ (beat'[w] \/ ~beat[w])
      BY <1>2 DEF Holds, Owns
    <3>4. ~Reports(w, t)
      BY <1>2 DEF Reports
    <3> QED BY <2>2, <3>2, <3>3, <3>4 DEF Tame
  <2> QED BY <2>1, <2>2
<1>7. /\ Astray(t)' \subseteq Astray(t)
      /\ Exposed(t)' => Exposed(t)
      /\ Spent(t) => Spent(t)'
  BY <1>5, <1>6, TermsStill
<1>8. mine[w] \in Runs /\ TaskOf(mine[w]) = job[w].task
  <2>1. mine[w] \in Runs /\ review[mine[w]].branch = BranchOf(w)
    BY <1>2 DEF RInv, InRun, Opened, Stage
  <2>2. BranchOf(w)[1] = job[w].task
    BY DEF BranchOf
  <2> QED BY <2>1, <2>2 DEF TaskOf
<1>9. /\ PullRequests(t)' \subseteq PullRequests(t) \cup {mine[w]}
      /\ t # job[w].task => PullRequests(t)' = PullRequests(t)
  BY <1>2, <1>8 DEF PullRequests, TaskOf
<1>10. CASE faults' = faults + 1
  <2>1. ops + faults + 1 <= ops' + faults'
    BY <1>2, <1>3, <1>10
  <2> QED BY <1>1, <1>7, <1>9, <2>1, CostOpened
<1>11. CASE faults' = faults
  <2>1. ops + faults <= ops' + faults'
    BY <1>2, <1>3, <1>11
  <2>2. CASE PullRequests(t)' = PullRequests(t)
    BY <1>1, <1>7, <2>1, <2>2, CostFree
  <2>3. CASE PullRequests(t)' # PullRequests(t)
    <3>1. t = job[w].task /\ prs' # prs
      BY <1>2, <1>9, <2>3 DEF PullRequests, TaskOf
    <3>2. stage'[w] = "done" /\ prs' = prs \cup {mine[w]}
      BY <1>3, <1>4, <1>11, <3>1
    <3>3. CASE Owns(w, t)
      <4>1. Reports(w, t)'
        BY <1>2, <3>1, <3>2, <3>3 DEF Reports, Holds, Owns, Block
      <4>2. Spent(t)'
        BY <4>1 DEF Spent
      <4>3. ~Spent(t)
        <5>1. row[t].status \in Held /\ row[t].owner = w
          BY <3>3 DEF Owns
        <5>2. ASSUME NEW v \in Workers, Reports(v, t) PROVE FALSE
          BY <1>2, <5>1, <5>2 DEF Reports, Holds, Owns
        <5> QED BY <5>1, <5>2 DEF Spent, Held
      <4> QED BY <1>1, <1>7, <1>9, <2>1, <4>2, <4>3, CostOpened
    <3>4. CASE ~Owns(w, t)
      <4>1. w \in Astray(t)
        BY <1>2, <3>1, <3>4 DEF Astray, Loose
      <4>2. ~Loose(w, t)'
        BY <1>2, <3>2 DEF Loose
      <4>3. Astray(t)' \subseteq Astray(t) \ {w}
        BY <1>7, <4>2 DEF Astray
      <4> QED BY <1>1, <1>7, <1>9, <2>1, <4>1, <4>3, CostOpened
    <3> QED BY <3>3, <3>4
  <2> QED BY <2>2, <2>3
<1> QED BY <1>4, <1>10, <1>11

\* The handler raises after its pull request: a fault takes back the report.
LEMMA RaiseCosts ==
    ASSUME RInv, NEW w \in Workers, NEW t \in Tasks, CostOf(t), FinishRaises(w)
    PROVE  CostOf(t)'
<1>1. StepOf(w) /\ RInv'
  BY RaiseKeeps
<1>2. /\ UNCHANGED <<row, pc, job, beat, ops, mine, review, prs>>
      /\ pc[w] = "working" /\ faults' = faults + 1 /\ stage'[w] = "endedBad"
      /\ \A v \in Workers \ {w} : stage'[v] = stage[v]
  BY <1>1 DEF FinishRaises, StepOf, workerVars, storeVars, Goto, RInv, RunTypeOK
<1>3. Astray(t)' \subseteq Astray(t)
  BY <1>2 DEF Astray, Loose, Owns
<1>4. Exposed(t)' => Exposed(t)
  BY <1>2 DEF Exposed, Holds, Owns
<1>5. PullRequests(t)' = PullRequests(t)
  BY <1>2 DEF PullRequests, TaskOf
<1>6. ops + faults + 1 <= ops' + faults'
  BY <1>2 DEF RInv, Inv, TypeOK
<1> QED BY <1>1, <1>3, <1>4, <1>5, <1>6, CostPaid

-----------------------------------------------------------------------------
(* The cost of the queue's steps.                                          *)

\* A step of worker w alone.
Alone(w) == \A v \in Workers \ {w} : Stays(v)

\* Task t loses its owner in a step of w: the owner may join the astray, unless
\* it has its report ready.
LEMMA Loses ==
    ASSUME RInv, NEW t \in Tasks, NEW w, Alone(w), prs' = prs,
           w \in Workers => ~Loose(w, t)', row'[t].owner = NoWorker
    PROVE  /\ ~Exposed(t)'
           /\ \/ \E v \in Workers \ {w} :
                   /\ Holds(v, t) /\ ~Spent(t)
                   /\ Astray(t)' \subseteq (Astray(t) \ {w}) \cup {v}
              \/ \E v \in Workers \ {w} :
                   Holds(v, t) /\ Astray(t)' \subseteq Astray(t) \ {w}
              \/ /\ \A v \in Workers \ {w} : ~Holds(v, t)
                 /\ Astray(t)' \subseteq Astray(t) \ {w}
<1>1. \A v \in Workers : ~Owns(v, t)'
  BY DEF Owns
<1>2. ~Exposed(t)'
  BY <1>1 DEF Exposed, Holds
<1>3. ASSUME NEW v \in Astray(t)'
      PROVE  v \in Workers \ {w} /\ (v \in Astray(t) \/ Holds(v, t))
  BY <1>3 DEF Astray, Loose, Holds, Alone, Stays, Block
<1>4. CASE \A v \in Workers \ {w} : ~Holds(v, t)
  BY <1>2, <1>3, <1>4
<1>5. ASSUME NEW v \in Workers \ {w}, Holds(v, t)
      PROVE  \/ ~Spent(t) /\ Astray(t)' \subseteq (Astray(t) \ {w}) \cup {v}
             \/ Astray(t)' \subseteq Astray(t) \ {w}
  <2>1. row[t].owner = v /\ row[t].status \in Held
    BY <1>5 DEF Holds, Owns
  <2>2. \A x \in Workers : Holds(x, t) => x = v
    BY <2>1 DEF Holds, Owns
  <2>3. CASE Reports(v, t)
    <3>1. stage[v] \in {"done", "endedOk"} /\ Stays(v)
      BY <2>3 DEF Reports, Alone
    <3>2. pc[v] = "working"
      BY <3>1 DEF RInv, InRun
    <3>3. ~Loose(v, t)'
      BY <3>1, <3>2 DEF Loose, Stays
    <3>4. v \notin Astray(t)'
      BY <3>3 DEF Astray
    <3> QED BY <1>3, <2>2, <3>4
  <2>4. CASE ~Reports(v, t)
    <3>1. ~Spent(t)
      BY <2>1, <2>2, <2>4 DEF Spent, Reports, Held
    <3> QED BY <1>3, <2>2, <3>1
  <2> QED BY <2>3, <2>4
<1> QED BY <1>2, <1>4, <1>5

\* What the steps outside the handlers leave alone.
LEMMA OutsideSame ==
    ASSUME RInv, UNCHANGED runVars, NEW t
    PROVE  PullRequests(t)' = PullRequests(t) /\ prs' = prs /\ UNCHANGED <<stage, mine>>
<1>1. UNCHANGED <<stage, mine, review, prs>>
  BY DEF runVars, storeVars
<1> QED BY <1>1 DEF PullRequests, TaskOf

LEMMA CostStill ==
    ASSUME RInv, RInv', UNCHANGED runVars, NEW t \in Tasks, CostOf(t), Still(t),
           \A w \in Workers : Tame(w, t), ops + faults <= ops' + faults'
    PROVE  CostOf(t)'
BY OutsideSame, TermsStill, CostFree

\* A worker that is in no block before and after the step.
LEMMA OutOfBlock ==
    ASSUME NEW w, NEW t, pc[w] \notin Block, pc'[w] \notin Block PROVE Tame(w, t)
BY DEF Tame, Loose, Holds, Reports, Block

\* Everybody is tame when one worker moves outside its block.
LEMMA ClaimTame ==
    ASSUME RInv, NEW w \in Workers, NEW t, Alone(w), Still(t), prs' = prs,
           pc[w] \notin Block, pc'[w] \notin Block
    PROVE  \A v \in Workers : Tame(v, t)
BY OutOfBlock, StaysTame DEF Alone

\* The rows a step does not name.
LEMMA OtherStill ==
    ASSUME RInv, NEW u, NEW t \in Tasks, t # u, NEW y, row' = [row EXCEPT ![u] = y]
    PROVE  Still(t)
<1>1. row'[t] = row[t]
  BY DEF RInv, Inv, TypeOK
<1> QED BY <1>1 DEF Still

\* The counters of a step that is no fault and no operator's.
LEMMA Unpaid ==
    ASSUME RInv, UNCHANGED <<ops, faults>> PROVE ops + faults <= ops' + faults'
BY DEF RInv, Inv, TypeOK

\* The sweep: the holder of an expired lease was exposed.
LEMMA ReclaimCosts ==
    ASSUME RInv, RInv', NEW w \in Workers, NEW t \in Tasks, CostOf(t), Reclaim(w),
           UNCHANGED runVars
    PROVE  CostOf(t)'
<1>0. row \in [Tasks -> Row] /\ pc \in [Workers -> Pc]
  BY DEF RInv, Inv, TypeOK
<1>1. PullRequests(t)' = PullRequests(t) /\ prs' = prs /\ UNCHANGED <<stage, mine>>
  BY OutsideSame
<1>2. /\ pc[w] = "idle" /\ pc' = [pc EXCEPT ![w] = "reclaimed"]
      /\ UNCHANGED <<job, beat, ops, faults>>
      /\ row'[t] = IF Abandoned(t) THEN Released(row[t], row[t].attempts + 1, TRUE) ELSE row[t]
  BY DEF Reclaim
<1>3. Alone(w)
  BY <1>0, <1>1, <1>2 DEF Alone, Stays
<1>4. pc[w] \notin Block /\ pc'[w] \notin Block
  BY <1>0, <1>2 DEF Block
<1>5. ops + faults <= ops' + faults'
  BY <1>2, Unpaid
<1>6. CASE ~Abandoned(t)
  <2>1. Still(t)
    BY <1>2, <1>6 DEF Still
  <2> QED BY <1>1, <1>3, <1>4, <1>5, <2>1, ClaimTame, CostStill
<1>7. CASE Abandoned(t)
  <2>1. row'[t].owner = NoWorker
    BY <1>0, <1>2, <1>7 DEF Released, Row
  <2>2. ~Loose(w, t)' /\ ~Loose(w, t)
    BY <1>4 DEF Loose, Block
  <2>3. ~Exposed(t)'
    BY <1>1, <1>3, <2>1, <2>2, Loses
  <2>4. ASSUME NEW v \in Workers, Holds(v, t) PROVE Exposed(t)
    BY <1>7, <2>4 DEF Exposed, Abandoned
  <2>5. Astray(t) \ {w} = Astray(t)
    BY <2>2 DEF Astray
  <2>6. CASE \A v \in Workers \ {w} : ~Holds(v, t)
    <3>1. \A v \in Workers : ~Holds(v, t)
      BY <1>4, <2>6 DEF Holds
    <3>2. ~Spent(t)
      BY <1>7, <3>1 DEF Spent, Reports, Abandoned, Held
    <3>3. Astray(t)' \subseteq Astray(t)
      BY <1>1, <1>3, <2>1, <2>2, <2>5, <2>6, Loses
    <3> QED BY <1>1, <1>5, <2>3, <3>2, <3>3, CostFree
  <2>7. CASE \E v \in Workers \ {w} : /\ Holds(v, t) /\ ~Spent(t)
                                      /\ Astray(t)' \subseteq (Astray(t) \ {w}) \cup {v}
    BY <1>1, <1>5, <2>3, <2>4, <2>5, <2>7, CostTraded
  <2>8. CASE \E v \in Workers \ {w} : Holds(v, t) /\ Astray(t)' \subseteq Astray(t) \ {w}
    BY <1>1, <1>5, <2>3, <2>4, <2>5, <2>8, CostTraded
  <2> QED BY <1>1, <1>3, <2>1, <2>2, <2>6, <2>7, <2>8, Loses
<1> QED BY <1>6, <1>7

\* fail() writes by primary key: a stale worker gives up its own chance for
\* what it takes from the holder.
LEMMA FailCosts ==
    ASSUME RInv, RInv', NEW w \in Workers, NEW t \in Tasks, CostOf(t), FailWrite(w),
           UNCHANGED runVars
    PROVE  CostOf(t)'
<1> DEFINE u == job[w].task
           y == Released(row[u], job[w].seen + 1,
                         IF job[w].seen + 1 >= MaxAttempts THEN row[u].due ELSE FALSE)
<1>0. row \in [Tasks -> Row] /\ pc \in [Workers -> Pc] /\ u \in Tasks /\ stage[w] = "none"
      /\ DOMAIN job = Workers /\ DOMAIN beat = Workers
  BY DEF RInv, Inv, TypeOK, JobInv, InJob, InRun, FailWrite
<1>1. PullRequests(t)' = PullRequests(t) /\ prs' = prs /\ UNCHANGED <<stage, mine>>
  BY OutsideSame
<1>2. /\ pc[w] = "failing" /\ pc' = [pc EXCEPT ![w] = "idle"] /\ UNCHANGED <<ops, faults>>
      /\ job' = [job EXCEPT ![w] = NoJob] /\ beat' = [beat EXCEPT ![w] = FALSE]
      /\ row' = [row EXCEPT ![u] = y]
  BY <1>0 DEF FailWrite, LeaveBlock
<1>3. Alone(w)
  BY <1>0, <1>1, <1>2 DEF Alone, Stays
<1>4. pc'[w] = "idle"
  BY <1>0, <1>2
<1>5. ops + faults <= ops' + faults'
  BY <1>2, Unpaid
<1>6. ~Loose(w, t)' /\ ~Holds(w, t)' /\ ~Reports(w, t)
  BY <1>0, <1>4 DEF Loose, Holds, Reports, Block
<1>a. y.owner = NoWorker
  BY <1>0 DEF Released, Row
<1> HIDE DEF y, u
<1>7. CASE t # u
  <2>1. Still(t)
    BY <1>2, <1>7, OtherStill
  <2>2. Tame(w, t)
    BY <1>6 DEF Tame
  <2>3. \A v \in Workers : Tame(v, t)
    BY <1>1, <1>3, <2>1, <2>2, StaysTame DEF Alone
  <2> QED BY <1>5, <2>1, <2>3, CostStill
<1>8. CASE t = u
  <2>1. row'[t].owner = NoWorker
    BY <1>0, <1>2, <1>8, <1>a
  <2>2. ~Exposed(t)'
    BY <1>1, <1>3, <1>6, <2>1, Loses
  <2>3. CASE Owns(w, t)
    <3>1. \A v \in Workers \ {w} : ~Holds(v, t)
      BY <2>3 DEF Holds, Owns
    <3>2. ~Spent(t)
      BY <1>6, <2>3, <3>1 DEF Spent, Reports, Owns, Held
    <3>3. Astray(t)' \subseteq Astray(t)
      BY <1>1, <1>3, <1>6, <2>1, <3>1, Loses
    <3> QED BY <1>1, <1>5, <2>2, <3>2, <3>3, CostFree
  <2>4. CASE ~Owns(w, t)
    <3>1. w \in Astray(t)
      BY <1>2, <1>8, <2>4 DEF Astray, Loose, u
    <3>2. CASE \E v \in Workers \ {w} : /\ Holds(v, t) /\ ~Spent(t)
                                        /\ Astray(t)' \subseteq (Astray(t) \ {w}) \cup {v}
      BY <1>1, <1>5, <2>2, <3>1, <3>2, CostTraded
    <3>3. CASE Astray(t)' \subseteq Astray(t) \ {w}
      BY <1>1, <1>5, <2>2, <3>1, <3>3, CostTraded
    <3> QED BY <1>1, <1>3, <1>6, <2>1, <3>2, <3>3, Loses
  <2> QED BY <2>3, <2>4
<1> QED BY <1>7, <1>8

\* A claim commits on a queued row, which nobody holds.
LEMMA CommitCosts ==
    ASSUME RInv, RInv', NEW w \in Workers, NEW t \in Tasks, CostOf(t), ClaimCommit(w),
           UNCHANGED runVars
    PROVE  CostOf(t)'
<1> DEFINE u == job[w].task
           y == LeasedTo(row[u], w)
<1>0. row \in [Tasks -> Row] /\ pc \in [Workers -> Pc] /\ u \in Tasks /\ row[u].status = "queued"
      /\ DOMAIN beat = Workers
  BY DEF RInv, Inv, TypeOK, SelectedIsQueued, ClaimCommit
<1>1. PullRequests(t)' = PullRequests(t) /\ prs' = prs /\ UNCHANGED <<stage, mine>>
  BY OutsideSame
<1>2. /\ pc[w] = "selected" /\ pc' = [pc EXCEPT ![w] = "claimed"] /\ UNCHANGED <<job, ops, faults>>
      /\ beat' = [beat EXCEPT ![w] = TRUE] /\ row' = [row EXCEPT ![u] = y]
  BY <1>0 DEF ClaimCommit
<1>3. Alone(w) /\ pc'[w] = "claimed" /\ beat'[w]
  BY <1>0, <1>1, <1>2 DEF Alone, Stays
<1>4. ops + faults <= ops' + faults'
  BY <1>2, Unpaid
<1>a. y.owner = w /\ y.lease = "live"
  BY <1>0 DEF LeasedTo, Row
<1> HIDE DEF y, u
<1>5. CASE t # u
  <2>1. Still(t)
    BY <1>2, <1>5, OtherStill
  <2>2. Tame(w, t)
    BY <1>2, <1>5 DEF Tame, Loose, Holds, Reports, u
  <2>3. \A v \in Workers : Tame(v, t)
    BY <1>1, <1>3, <2>1, <2>2, StaysTame DEF Alone
  <2> QED BY <1>4, <2>1, <2>3, CostStill
<1>6. CASE t = u
  <2>1. row'[t].owner = w /\ row'[t].lease = "live"
    BY <1>0, <1>2, <1>6, <1>a
  <2>2. \A v \in Workers : ~Owns(v, t)
    BY <1>0, <1>6 DEF Owns, Held
  <2>3. ~Exposed(t)'
    BY <1>3, <2>1 DEF Exposed, Holds, Owns
  <2>4. ~Spent(t)
    BY <1>0, <1>6, <2>2 DEF Spent, Reports, Holds
  <2>5. ~Loose(w, t)'
    BY <1>3 DEF Loose
  <2>6. Astray(t)' \subseteq Astray(t)
    BY <1>3, <2>2, <2>5 DEF Astray, Loose, Alone, Stays
  <2> QED BY <1>1, <1>4, <2>3, <2>4, <2>6, CostFree
<1> QED BY <1>5, <1>6

\* mark_running, with the lease or without it.
LEMMA MarkCosts ==
    ASSUME RInv, RInv', NEW w \in Workers, NEW t \in Tasks, CostOf(t), MarkRunning(w),
           UNCHANGED runVars
    PROVE  CostOf(t)'
<1>0. row \in [Tasks -> Row] /\ pc \in [Workers -> Pc] /\ job[w].task \in Tasks
      /\ stage[w] = "none"
  BY DEF RInv, Inv, TypeOK, JobInv, InJob, InRun, MarkRunning
<1>1. PullRequests(t)' = PullRequests(t) /\ prs' = prs /\ UNCHANGED <<stage, mine>>
  BY OutsideSame
<1>2. /\ pc[w] = "claimed" /\ pc' = [pc EXCEPT ![w] = "working"]
      /\ UNCHANGED <<job, beat, ops, faults>>
  BY DEF MarkRunning
<1>3. Alone(w) /\ pc'[w] = "working"
  BY <1>0, <1>1, <1>2 DEF Alone, Stays
<1>4. Still(t)
  <2>1. CASE row' = row
    BY <2>1 DEF Still
  <2>2. CASE /\ row[job[w].task].status = "leased"
             /\ row' = [row EXCEPT ![job[w].task] = Running(row[job[w].task])]
    <3>1. CASE t # job[w].task
      BY <2>2, <3>1, OtherStill
    <3>2. CASE t = job[w].task
      BY <1>0, <2>2, <3>2 DEF Still, Running, Row, Held
    <3> QED BY <3>1, <3>2
  <2> QED BY <2>1, <2>2 DEF MarkRunning
<1>5. Tame(w, t)
  BY <1>0, <1>1, <1>2, <1>3, <1>4 DEF Tame, Loose, Holds, Reports, Block, Still, Owns
<1>6. \A v \in Workers : Tame(v, t)
  BY <1>1, <1>3, <1>4, <1>5, StaysTame DEF Alone
<1>7. ops + faults <= ops' + faults'
  BY <1>2, Unpaid
<1> QED BY <1>4, <1>6, <1>7, CostStill

\* A renewal takes the risk away; a beat without the lease ends the thread.
LEMMA BeatCosts ==
    ASSUME RInv, RInv', NEW w \in Workers, NEW t \in Tasks, CostOf(t), Heartbeat(w),
           UNCHANGED runVars
    PROVE  CostOf(t)'
<1> DEFINE u == job[w].task
           y == WithLease(row[u], "live")
<1>0. row \in [Tasks -> Row] /\ u \in Tasks /\ DOMAIN beat = Workers
  BY DEF RInv, Inv, TypeOK, JobInv, InJob, Heartbeat
<1>1. PullRequests(t)' = PullRequests(t) /\ prs' = prs /\ UNCHANGED <<stage, mine>>
  BY OutsideSame
<1>2. beat[w] /\ UNCHANGED <<pc, job, ops, faults>>
  BY DEF Heartbeat
<1>3. ops + faults <= ops' + faults'
  BY <1>2, Unpaid
<1>4. CASE ~Owns(w, u)
  <2>1. row' = row /\ beat' = [beat EXCEPT ![w] = FALSE]
    BY <1>4 DEF Heartbeat
  <2>2. Still(t)
    BY <2>1 DEF Still
  <2>3. ASSUME NEW v \in Workers PROVE Tame(v, t)
    <3>1. CASE v = w
      BY <1>1, <1>2, <1>4, <2>1, <3>1 DEF Tame, Loose, Holds, Reports, Owns
    <3>2. CASE v # w
      <4>1. Stays(v)
        BY <1>1, <1>2, <2>1, <3>2 DEF Stays
      <4> QED BY <1>1, <2>2, <4>1, StaysTame
    <3> QED BY <3>1, <3>2
  <2> QED BY <1>3, <2>2, <2>3, CostStill
<1>5. CASE Owns(w, u)
  <2>1. row' = [row EXCEPT ![u] = y] /\ beat' = beat
    BY <1>0, <1>5 DEF Heartbeat
  <2>2. \A v \in Workers : Stays(v)
    BY <1>1, <1>2, <2>1 DEF Stays
  <2>3. CASE t # u
    <3> HIDE DEF y, u
    <3>1. Still(t)
      BY <2>1, <2>3, OtherStill
    <3> QED BY <1>1, <1>3, <2>2, <3>1, StaysTame, CostStill
  <2>4. CASE t = u
    <3>1. /\ row'[t].owner = row[t].owner /\ row'[t].status = row[t].status
          /\ row'[t].lease = "live"
      BY <1>0, <2>1, <2>4 DEF WithLease, Row
    <3>2. Astray(t)' \subseteq Astray(t)
      BY <2>2, <3>1 DEF Astray, Loose, Stays, Owns
    <3>3. Spent(t) => Spent(t)'
      BY <1>1, <2>2, <3>1 DEF Spent, Reports, Holds, Stays, Owns
    <3>4. ~Exposed(t)'
      BY <1>2, <1>5, <2>1, <2>4, <3>1 DEF Exposed, Holds, Owns
    <3> QED BY <1>1, <1>3, <3>2, <3>3, <3>4, CostFree
  <2> QED BY <2>3, <2>4
<1> QED BY <1>4, <1>5

\* The steps of a claim, and a restart, are outside every block.
LEMMA IdleCosts ==
    ASSUME RInv, RInv', NEW w \in Workers, NEW t \in Tasks, CostOf(t), UNCHANGED runVars,
           \/ ClaimBegin(w) \/ ClaimNothing(w) \/ (\E r \in Repos : ClaimLock(w, r))
           \/ (\E s \in Tasks : ClaimSelect(w, s)) \/ Restart(w)
    PROVE  CostOf(t)'
<1>0. pc \in [Workers -> Pc] /\ DOMAIN job = Workers
  BY DEF RInv, Inv, TypeOK
<1>1. prs' = prs /\ UNCHANGED <<stage, mine>>
  BY OutsideSame
<1>2. /\ UNCHANGED <<row, beat, ops, faults>> /\ pc[w] \notin Block /\ pc'[w] \notin Block
      /\ \A v \in Workers \ {w} : pc'[v] = pc[v] /\ job'[v] = job[v]
  <2>1. CASE ClaimBegin(w)
    BY <1>0, <2>1 DEF ClaimBegin, dbVars, Block
  <2>2. CASE ClaimNothing(w)
    BY <1>0, <2>2 DEF ClaimNothing, dbVars, Block
  <2>3. CASE \E r \in Repos : ClaimLock(w, r)
    BY <1>0, <2>3 DEF ClaimLock, dbVars, Block
  <2>4. CASE \E s \in Tasks : ClaimSelect(w, s)
    BY <1>0, <2>4 DEF ClaimSelect, dbVars, Block
  <2>5. CASE Restart(w)
    BY <1>0, <2>5 DEF Restart, dbVars, Block
  <2> QED BY <2>1, <2>2, <2>3, <2>4, <2>5
<1>3. Alone(w)
  BY <1>1, <1>2 DEF Alone, Stays
<1>4. Still(t)
  BY <1>2 DEF Still
<1>5. \A v \in Workers : Tame(v, t)
  BY <1>1, <1>2, <1>3, <1>4, ClaimTame
<1>6. ops + faults <= ops' + faults'
  BY <1>2, Unpaid
<1> QED BY <1>4, <1>5, <1>6, CostStill

\* A heartbeat thread that dies is a fault, and leaves its worker exposed.
LEMMA DiesCosts ==
    ASSUME RInv, RInv', NEW w \in Workers, NEW t \in Tasks, CostOf(t), HeartbeatDies(w),
           UNCHANGED runVars
    PROVE  CostOf(t)'
<1>1. PullRequests(t)' = PullRequests(t) /\ prs' = prs /\ UNCHANGED <<stage, mine>>
  BY OutsideSame
<1>2. UNCHANGED <<row, pc, job, ops>> /\ faults' = faults + 1
  BY DEF HeartbeatDies, dbVars
<1>3. Astray(t)' \subseteq Astray(t)
  BY <1>1, <1>2 DEF Astray, Loose, Owns
<1>4. Spent(t) => Spent(t)'
  BY <1>1, <1>2 DEF Spent, Reports, Holds, Owns
<1>5. ops + faults + 1 <= ops' + faults'
  BY <1>2 DEF RInv, Inv, TypeOK
<1> QED BY <1>1, <1>3, <1>4, <1>5, CostPaid

LEMMA QueueCosts ==
    ASSUME RInv, NEW w \in Workers, NEW t \in Tasks, CostOf(t), QueueStep(w) PROVE CostOf(t)'
<1>1. RInv' /\ UNCHANGED runVars
  BY OutsideKeeps
<1> QED BY <1>1, ReclaimCosts, FailCosts, CommitCosts, MarkCosts, BeatCosts, IdleCosts, DiesCosts
        DEF QueueStep

\* The outcome of a handler: succeed() of the holder retires the task.
LEMMA SettleCosts ==
    ASSUME RInv, NEW w \in Workers, NEW t \in Tasks, CostOf(t), Settle(w) PROVE CostOf(t)'
<1> DEFINE u == job[w].task
<1>0. /\ row \in [Tasks -> Row] /\ pc \in [Workers -> Pc]
      /\ DOMAIN beat = Workers /\ DOMAIN job = Workers
      /\ pc[w] = "working" /\ u \in Tasks
  BY DEF RInv, Inv, TypeOK, JobInv, InJob, Settle, Succeed, FailLost, FailRead
<1>1. RInv' /\ StepOf(w)
  BY LeaveKeeps
<1>2. UNCHANGED <<review, prs>> /\ stage'[w] = "none"
  BY DEF Settle, Leave, storeVars, Goto, RInv, RunTypeOK
<1>3. PullRequests(t)' = PullRequests(t)
  BY <1>2 DEF PullRequests, TaskOf
<1>4. UNCHANGED <<ops, faults>>
  BY DEF Settle, Succeed, FailLost, FailRead
<1>5. Alone(w)
  <2>1. \A v \in Workers \ {w} : pc'[v] = pc[v] /\ job'[v] = job[v] /\ beat'[v] = beat[v]
    BY <1>0 DEF Settle, Succeed, FailLost, FailRead, LeaveBlock
  <2> QED BY <1>1, <2>1 DEF Alone, Stays, StepOf
<1>6. ops + faults <= ops' + faults'
  BY <1>4, Unpaid
<1>7. ASSUME Still(t), Tame(w, t) PROVE CostOf(t)'
  <2>1. \A v \in Workers : Tame(v, t)
    BY <1>2, <1>5, <1>7, StaysTame DEF Alone
  <2> QED BY <1>1, <1>3, <1>6, <1>7, <2>1, TermsStill, CostFree
<1>8. CASE FailRead(w) /\ stage[w] = "endedBad"
  <2>1. row' = row /\ beat' = beat /\ Owns(w, u) /\ job'[w].task = u
    BY <1>0, <1>8 DEF FailRead, dbVars
  <2>2. Still(t)
    BY <2>1 DEF Still
  <2>3. Tame(w, t)
    BY <1>0, <1>8, <2>1 DEF Tame, Loose, Holds, Reports, Owns, Block
  <2> QED BY <1>7, <2>2, <2>3
<1>9. ASSUME pc'[w] = "idle", ~Reports(w, t), Still(t) PROVE CostOf(t)'
  <2>1. Tame(w, t)
    BY <1>9 DEF Tame, Loose, Holds, Block
  <2> QED BY <1>7, <1>9, <2>1
<1>10. CASE FailLost(w) /\ stage[w] = "endedBad"
  <2>1. row' = row /\ pc'[w] = "idle" /\ ~Reports(w, t)
    BY <1>0, <1>10 DEF FailLost, LeaveBlock, dbVars, Reports
  <2> QED BY <1>9, <2>1 DEF Still
<1>11. CASE Succeed(w)
  <2>1. pc'[w] = "idle"
    BY <1>0, <1>11 DEF Succeed, LeaveBlock
  <2>2. CASE ~Owns(w, u)
    <3>1. row' = row
      BY <1>11, <2>2 DEF Succeed
    <3>2. ~Reports(w, t)
      BY <2>2 DEF Reports, Holds
    <3> QED BY <1>9, <2>1, <3>1, <3>2 DEF Still
  <2>3. CASE Owns(w, u) /\ t # u
    <3>1. row' = [row EXCEPT ![u] = Done(row[u])]
      BY <1>0, <1>11, <2>3 DEF Succeed
    <3>2. Still(t)
      <4> HIDE DEF u
      <4> QED BY <2>3, <3>1, OtherStill
    <3>3. ~Reports(w, t)
      BY <2>3 DEF Reports, Holds
    <3> QED BY <1>9, <2>1, <3>2, <3>3
  <2>4. CASE Owns(w, u) /\ t = u
    <3>1. row' = [row EXCEPT ![u] = Done(row[u])]
      BY <1>0, <1>11, <2>4 DEF Succeed
    <3>2. row'[t].status = "done" /\ row'[t].owner = NoWorker
      BY <1>0, <2>4, <3>1 DEF Done, Row
    <3>3. Spent(t)'
      BY <3>2 DEF Spent
    <3>4. ~Exposed(t)'
      BY <3>2 DEF Exposed, Holds, Owns
    <3>5. ~Loose(w, t)'
      BY <2>1 DEF Loose
    <3>6. Astray(t)' \subseteq Astray(t)
      BY <1>5, <2>4, <3>5 DEF Astray, Loose, Alone, Stays, Owns
    <3> QED BY <1>1, <1>3, <1>6, <3>3, <3>4, <3>6, CostFree
  <2> QED BY <2>2, <2>3, <2>4
<1> QED BY <1>8, <1>10, <1>11 DEF Settle

\* A crash is a fault; it may take back a report.
LEMMA CrashCosts ==
    ASSUME RInv, NEW w \in Workers, NEW t \in Tasks, CostOf(t), RunCrash(w) PROVE CostOf(t)'
<1>1. RInv' /\ StepOf(w)
  BY LeaveKeeps
<1>2. /\ UNCHANGED <<review, prs, row, ops>> /\ faults' = faults + 1 /\ pc'[w] = "down"
      /\ \A v \in Workers \ {w} : pc'[v] = pc[v] /\ job'[v] = job[v] /\ beat'[v] = beat[v]
  BY DEF RunCrash, Crash, Leave, storeVars, dbVars, RInv, Inv, TypeOK
<1>3. Alone(w)
  BY <1>1, <1>2 DEF Alone, Stays, StepOf
<1>4. PullRequests(t)' = PullRequests(t)
  BY <1>2 DEF PullRequests, TaskOf
<1>5. Astray(t)' \subseteq Astray(t)
  BY <1>2, <1>3 DEF Astray, Loose, Alone, Stays, Owns
<1>6. Exposed(t)' => Exposed(t)
  BY <1>2, <1>3 DEF Exposed, Holds, Alone, Stays, Owns, Block
<1>7. ops + faults + 1 <= ops' + faults'
  BY <1>2 DEF RInv, Inv, TypeOK
<1> QED BY <1>1, <1>4, <1>5, <1>6, <1>7, CostPaid

\* Producers, the operator and the passing of time touch rows only.
LEMMA OthersCost ==
    ASSUME RInv, NEW t \in Tasks, CostOf(t), Others PROVE CostOf(t)'
<1>0. row \in [Tasks -> Row] /\ ops \in Nat /\ faults \in Nat /\ NoWorker \notin Workers
  BY DEF RInv, Inv, TypeOK
<1>1. RInv' /\ UNCHANGED runVars
  BY OutsideKeeps
<1>2. PullRequests(t)' = PullRequests(t) /\ prs' = prs /\ UNCHANGED <<stage, mine>>
  BY <1>1, OutsideSame
<1>3. UNCHANGED <<pc, job, beat>>
  BY DEF Others, Produce, EnqueueInsert, EnqueueCheck, Operate, Retry, Cancel, SetRunner, Tick,
         LeaseExpires, BecomesDue, Stall, workerVars
<1>4. \A v \in Workers : Stays(v)
  BY <1>2, <1>3 DEF Stays
<1>5. ASSUME Still(t), ops + faults <= ops' + faults' PROVE CostOf(t)'
  BY <1>1, <1>2, <1>4, <1>5, StaysTame, CostStill
<1>6. ASSUME UNCHANGED <<ops, faults>>, NEW y, NEW u \in Tasks, row' = [row EXCEPT ![u] = y], t # u
      PROVE  CostOf(t)'
  BY <1>5, <1>6, OtherStill, Unpaid
<1>7. ASSUME \A v \in Workers : ~Owns(v, t), \A v \in Workers : ~Owns(v, t)'
      PROVE  /\ ~Exposed(t)' /\ Astray(t)' \subseteq Astray(t)
             /\ Spent(t) => row[t].status \in {"done", "dead"}
  BY <1>4, <1>7 DEF Exposed, Astray, Loose, Spent, Reports, Holds, Stays
<1>8. CASE \E p \in Producers : Produce(p)
  <2>1. UNCHANGED <<ops, faults>>
    BY <1>8 DEF Produce, EnqueueInsert, EnqueueCheck
  <2>2. CASE row' = row
    BY <1>5, <2>1, <2>2, Unpaid DEF Still
  <2>3. ASSUME NEW p \in Producers, NEW u \in Tasks, row[u].status = "absent",
               row' = [row EXCEPT ![u] = NewRow(prod[p])]
        PROVE  CostOf(t)'
    <3>1. CASE t # u
      BY <1>6, <2>1, <2>3, <3>1
    <3>2. CASE t = u
      <4>1. row'[t].owner = NoWorker
        BY <1>0, <2>3, <3>2 DEF NewRow
      <4>2. ~Exposed(t)' /\ Astray(t)' \subseteq Astray(t) /\ ~Spent(t)
        BY <1>0, <1>7, <2>3, <3>2, <4>1 DEF Owns, Held
      <4> QED BY <1>1, <1>2, <2>1, <4>2, CostFree, Unpaid
    <3> QED BY <3>1, <3>2
  <2> QED BY <1>8, <2>2, <2>3 DEF Produce, EnqueueInsert, EnqueueCheck, dbVars
<1>9. ASSUME NEW u \in Tasks, Retry(u) PROVE CostOf(t)'
  <2>1. /\ row' = [row EXCEPT ![u] = Requeued(row[u])] /\ row[u].status = "dead"
        /\ ops' = ops + 1 /\ faults' = faults
    BY <1>0, <1>9 DEF Retry
  <2>2. ops + faults + 1 <= ops' + faults' /\ ops + faults <= ops' + faults'
    BY <1>0, <2>1
  <2>3. CASE t # u
    BY <1>5, <2>1, <2>2, <2>3, OtherStill
  <2>4. CASE t = u
    <3>1. row'[t].owner = NoWorker
      BY <1>0, <2>1, <2>4 DEF Requeued, Row
    <3>2. ~Exposed(t)' /\ Astray(t)' \subseteq Astray(t)
      BY <1>0, <1>7, <2>1, <2>4, <3>1 DEF Owns, Held
    <3> QED BY <1>1, <1>2, <2>2, <3>2, CostPaid
  <2> QED BY <2>3, <2>4
<1>10. ASSUME NEW u \in Tasks, Cancel(u) PROVE CostOf(t)'
  <2>1. /\ row' = [row EXCEPT ![u] = Parked(row[u])] /\ ops' = ops + 1 /\ faults' = faults
    BY <1>0, <1>10 DEF Cancel
  <2>2. ops + faults + 1 <= ops' + faults' /\ ops + faults <= ops' + faults'
    BY <1>0, <2>1
  <2>3. CASE t # u
    BY <1>5, <2>1, <2>2, <2>3, OtherStill
  <2>4. CASE t = u
    <3>1. row'[t].owner = NoWorker /\ row'[t].status = "dead"
      BY <1>0, <2>1, <2>4 DEF Parked, Row
    <3>2. Spent(t)'
      BY <3>1 DEF Spent
    <3>3. Alone(NoWorker) /\ NoWorker \notin Workers
      BY <1>0, <1>4 DEF Alone
    <3>4. ~Exposed(t)' /\ \E x : Astray(t)' \subseteq Astray(t) \cup {x}
      BY <1>2, <3>1, <3>3, Loses
    <3> QED BY <1>1, <1>2, <2>2, <3>2, <3>4, CostPaid
  <2> QED BY <2>3, <2>4
<1>11. ASSUME NEW r \in Repos, NEW s, SetRunner(r, s) PROVE CostOf(t)'
  <2>1. row' = row /\ ops + faults <= ops' + faults'
    BY <1>0, <1>11 DEF SetRunner
  <2> QED BY <1>5, <2>1 DEF Still
<1>12. ASSUME NEW u \in Tasks, BecomesDue(u) PROVE CostOf(t)'
  <2>1. row' = [row EXCEPT ![u] = NowDue(row[u])] /\ UNCHANGED <<ops, faults>>
    BY <1>0, <1>12 DEF BecomesDue
  <2>2. CASE t # u
    BY <1>6, <2>1, <2>2
  <2>3. CASE t = u
    <3>1. Still(t)
      BY <1>0, <2>1, <2>3 DEF NowDue, Row, Still
    <3> QED BY <1>5, <2>1, <3>1, Unpaid
  <2> QED BY <2>2, <2>3
<1>13. ASSUME NEW u \in Tasks, LeaseExpires(u) \/ Stall(u) PROVE CostOf(t)'
  <2>1. /\ row' = [row EXCEPT ![u] = WithLease(row[u], "expired")] /\ ops' = ops
        /\ \/ ~Renewed(u) /\ faults' = faults
           \/ faults' = faults + 1
    BY <1>0, <1>13 DEF LeaseExpires, Stall
  <2>2. ops + faults <= ops' + faults' /\ (faults' = faults + 1 => ops + faults + 1 <= ops' + faults')
    BY <1>0, <2>1
  <2>3. CASE t # u
    BY <1>5, <2>1, <2>2, <2>3, OtherStill
  <2>4. CASE t = u
    <3>1. row'[t].owner = row[t].owner /\ row'[t].status = row[t].status
      BY <1>0, <2>1, <2>4 DEF WithLease, Row
    <3>2. \A v \in Workers : Owns(v, t)' <=> Owns(v, t)
      BY <3>1 DEF Owns
    <3>3. Astray(t)' \subseteq Astray(t)
      BY <1>4, <3>2 DEF Astray, Loose, Stays
    <3>4. Spent(t) => Spent(t)'
      BY <1>2, <1>4, <3>1, <3>2 DEF Spent, Reports, Holds, Stays
    <3>5. CASE faults' = faults + 1
      BY <1>1, <1>2, <2>2, <3>3, <3>4, <3>5, CostPaid
    <3>6. CASE ~Renewed(u)
      <4>1. \A v \in Workers : Holds(v, t) => ~beat[v]
        BY <2>4, <3>6 DEF Renewed, Holds
      <4>2. Exposed(t)' => Exposed(t)
        BY <1>4, <3>2, <4>1 DEF Exposed, Holds, Stays
      <4> QED BY <1>1, <1>2, <2>2, <3>3, <3>4, <4>2, CostFree
    <3> QED BY <2>1, <3>5, <3>6
  <2> QED BY <2>3, <2>4
<1> QED BY <1>8, <1>9, <1>10, <1>11, <1>12, <1>13 DEF Others, Operate, Tick

\* Before the first claim nothing is published and nobody is astray.
LEMMA CostsStart == RunInit => Costs
<1> SUFFICES ASSUME RunInit, NEW t \in Tasks PROVE CostOf(t)
  BY DEF Costs
<1>1. PullRequests(t) = {} /\ Astray(t) = {} /\ ~Exposed(t) /\ ops = 0 /\ faults = 0
  BY DEF RunInit, Init, PullRequests, Astray, Loose, Exposed, Holds, Block
<1>2. IsFiniteSet({}) /\ Cardinality({}) = 0
  BY FS_EmptySet
<1>3. Risk(t) = 0 /\ Unspent(t) \in {0, 1}
  BY <1>1 DEF Risk, Unspent
<1>4. Cost(t) = 0 + 0 + 0 + Unspent(t)
  BY <1>1, <1>2, <1>3 DEF Cost
<1> QED BY <1>1, <1>2, <1>3, <1>4 DEF CostOf

\* Every step of the system keeps its balance.
LEMMA CostsNext == RInv /\ Costs /\ [RunNext]_allVars => Costs'
<1> SUFFICES ASSUME RInv, Costs, [RunNext]_allVars, NEW t \in Tasks PROVE CostOf(t)'
  BY DEF Costs
<1>1. CostOf(t)
  BY DEF Costs
<1>2. CASE UNCHANGED allVars
  <2>1. UNCHANGED <<row, pc, job, beat, ops, faults, stage, mine, review, prs>>
    BY <1>2 DEF allVars, vars, runVars, storeVars
  <2>2. PullRequests(t)' = PullRequests(t) /\ Astray(t)' = Astray(t)
    BY <2>1 DEF PullRequests, TaskOf, Astray, Loose, Owns
  <2>3. Risk(t)' = Risk(t) /\ Unspent(t)' = Unspent(t)
    BY <2>1 DEF Risk, Unspent, Exposed, Spent, Reports, Holds, Owns
  <2> QED BY <1>1, <2>1, <2>2, <2>3 DEF CostOf, Cost
<1> QED BY <1>1, <1>2, HandleCosts, OpenCosts, RaiseCosts, SettleCosts, CrashCosts, QueueCosts,
           OthersCost DEF RunNext, Handle

\* Every pull request of a task beyond the first is paid for by a fault or an
\* operator's action: neither the advisory lease, nor a sweep, nor a
\* stale fail() opens a second one by itself, however many replicas meet.
THEOREM DuplicatesPaid == RunSpec => []DuplicatesCost
<1>1. RInv /\ Costs => DuplicatesCost
  <2> SUFFICES ASSUME RInv, Costs, NEW t \in Tasks
               PROVE  Cardinality(PullRequests(t)) <= 1 + ops + faults
    BY DEF DuplicatesCost
  <2>1. IsFiniteSet(PullRequests(t)) /\ IsFiniteSet(Astray(t)) /\ Cost(t) <= 1 + ops + faults
    BY DEF Costs, CostOf
  <2>2. Cardinality(PullRequests(t)) \in Nat /\ Cardinality(Astray(t)) \in Nat
    BY <2>1, FS_CardinalityType
  <2>3. Risk(t) \in Nat /\ Unspent(t) \in Nat /\ ops \in Nat /\ faults \in Nat
    BY DEF Risk, Unspent, RInv, Inv, TypeOK
  <2> QED BY <2>1, <2>2, <2>3 DEF Cost
<1>2. RunSpec => []Costs
  <2>1. Costs /\ (RInv /\ RInv') /\ [RunNext]_allVars => Costs'
    BY CostsNext
  <2> QED BY <2>1, CostsStart, RunInvHolds, PTL DEF RunSpec
<1> QED BY <1>1, <1>2, RunInvHolds, PTL
=============================================================================
