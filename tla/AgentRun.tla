------------------------------ MODULE AgentRun ------------------------------
(***************************************************************************)
(* What a worker does between mark_running and the outcome write: the      *)
(* handler of backend/services/agent_worker.py and the six steps of        *)
(* AgentRunner.run in backend/services/agent_runner.py, composed with the  *)
(* task queue.  A run opens a review_runs row, prepares a checkout,        *)
(* reviews and edits it, commits, records its findings, pushes a branch    *)
(* and opens a pull request.                                               *)
(*                                                                         *)
(* Two workers can be inside the same task, because the lease is advisory; *)
(* they meet in the work directory, on the remote branch and in the table. *)
(* The forge is external: a branch and a pull request outlive every crash. *)
(***************************************************************************)
EXTENDS AgentQueue

CONSTANTS
    Runs,     \* review_runs ids, given out in increasing order
    Kinds,    \* the kinds of task producers enqueue
    NoRun

ASSUME RunAssumption == Runs \subseteq Nat /\ NoRun \notin Runs

VARIABLES
    kind,     \* kind[t]: the kind of task t, fixed when it is enqueued
    stage,    \* stage[w]: where w is in the handler
    mine,     \* mine[w]: the review run w opened
    review,   \* the review_runs table
    dir,      \* dir[d]: uncommitted edits and HEAD of the checkout in d
    remote,   \* remote[b]: who pushed branch b, and the edits it carries
    prs,      \* the runs that have an open pull request
    link      \* link[t]: the run whose pull request agent_tasks.pr_url names

storeVars == <<review, dir, remote, prs, link>>
runVars == <<kind, stage, mine, storeVars>>
allVars == <<vars, runVars>>

Writers == {"fix", "checks"}
Supported == {"review"} \cup Writers     \* SUPPORTED_KINDS
Stage == {"none", "opened", "cloned", "reported", "edited", "committed",
          "recorded", "pushable", "pushed", "mergeable", "done", "failed",
          "endedOk", "endedBad"}

Branches == Tasks \X (0..MaxAttempts)
Workdirs == Tasks \X (0..MaxAttempts)

NoReview == [branch |-> <<NoTask, 0>>, status |-> "absent", ingested |-> FALSE,
             publish |-> FALSE]
NoBranch == [by |-> NoRun, edits |-> {}]
Fresh == [edits |-> {}, head |-> {}]

RunTypeOK ==
    /\ kind \in [Tasks -> Kinds]
    /\ stage \in [Workers -> Stage]
    /\ mine \in [Workers -> Runs \cup {NoRun}]
    /\ review \in [Runs -> [branch : Branches \cup {<<NoTask, 0>>},
                            status : {"absent", "running", "ok", "error"},
                            ingested : BOOLEAN, publish : BOOLEAN]]
    /\ dir \in [Workdirs -> [edits : SUBSET Runs, head : SUBSET Runs]]
    /\ remote \in [Branches -> [by : Runs \cup {NoRun}, edits : SUBSET Runs]]
    /\ prs \subseteq Runs
    /\ link \in [Tasks -> Runs \cup {NoRun}]

-----------------------------------------------------------------------------
(* Names.                                                                  *)

\* Mutation of BranchOf: the suffix counts one attempt too many.
BranchOfOffByOne(w) ==
    <<job[w].task, IF kind[job[w].task] \in Writers THEN job[w].attempt + 2 ELSE 0>>

\* agent/fix-<id>-a<n> for a writing task; a review that escalates to a fix
\* falls back to the fixed name agent/fix-<id>.
BranchOf(w) ==
    <<job[w].task, IF kind[job[w].task] \in Writers THEN job[w].attempt + 1 ELSE 0>>

\* <root>/<id>, with -attempt<n> from the second attempt on.
WorkdirOf(w) == <<job[w].task, job[w].attempt>>

BranchAt(r) == review[r].branch
TaskOf(r) == review[r].branch[1]
PullRequests(t) == {r \in prs : TaskOf(r) = t}

Goto(w, s) == stage' = [stage EXCEPT ![w] = s]
InHandler(w, s) == pc[w] = "working" /\ stage[w] = s

-----------------------------------------------------------------------------
RunInit ==
    /\ Init
    /\ kind \in [Tasks -> Kinds]
    /\ stage = [w \in Workers |-> "none"]
    /\ mine = [w \in Workers |-> NoRun]
    /\ review = [r \in Runs |-> NoReview]
    /\ dir = [d \in Workdirs |-> Fresh]
    /\ remote = [b \in Branches |-> NoBranch]
    /\ prs = {}
    /\ link = [t \in Tasks |-> NoRun]

-----------------------------------------------------------------------------
(* The handler.                                                            *)

\* _load_task refuses an unsupported kind or a disabled runner, and any read
\* may fail; then _open_review_run commits the row findings will refer to.
LoadTask(w) ==
    /\ InHandler(w, "none")
    /\ \/ /\ Goto(w, "endedBad")
          /\ UNCHANGED <<mine, review>>
       \/ /\ kind[job[w].task] \in Supported
          /\ Runnable(job[w].task)
          /\ \E r \in Runs :
               /\ review[r].status = "absent"
               /\ \A s \in Runs : review[s].status = "absent" => r <= s
               /\ review' = [review EXCEPT ![r].status = "running",
                                           ![r].branch = BranchOf(w)]
               /\ mine' = [mine EXCEPT ![w] = r]
          /\ Goto(w, "opened")
    /\ UNCHANGED <<vars, kind, dir, remote, prs, link>>

\* prepare removes whatever checkout is there, clone makes a new one.
Prepare(w) ==
    /\ InHandler(w, "opened")
    /\ dir' = [dir EXCEPT ![WorkdirOf(w)] = Fresh]
    /\ Goto(w, "cloned") \/ Goto(w, "failed")
    /\ UNCHANGED <<vars, kind, mine, review, remote, prs, link>>

\* read, gates, review, search, validate, path guard: any of them may fail.
\* The run publishes when it writes (a fix, a curator proposal, a review that
\* escalates) and the policy is not "never".  A writer may leave no edit.
Review(w) ==
    /\ InHandler(w, "cloned")
    /\ \/ /\ Goto(w, "failed") \/ Goto(w, "reported")
          /\ UNCHANGED <<dir, review>>
       \/ /\ Goto(w, "edited")
          /\ review' = [review EXCEPT ![mine[w]].publish = TRUE]
          /\ \/ dir' = [dir EXCEPT ![WorkdirOf(w)].edits = @ \cup {mine[w]}]
             \/ UNCHANGED dir
    /\ UNCHANGED <<vars, kind, mine, remote, prs, link>>

\* commit stages everything in the checkout and refuses an empty commit; with
\* on_green a red re-run of the frozen suite ends the run after the commit.
Commit(w) ==
    LET d == WorkdirOf(w)
    IN  /\ InHandler(w, "edited")
        /\ \/ /\ dir[d].edits = {}
              /\ Goto(w, "failed")
              /\ UNCHANGED dir
           \/ /\ dir[d].edits # {}
              /\ dir' = [dir EXCEPT ![d] = [edits |-> {}, head |-> @.head \cup @.edits]]
              /\ Goto(w, "committed") \/ Goto(w, "failed")
        /\ UNCHANGED <<vars, kind, mine, review, remote, prs, link>>

\* emit and record_findings: the durable record comes before the publication.
Record(w) ==
    /\ stage[w] \in {"committed", "reported"}
    /\ pc[w] = "working"
    /\ \/ /\ review' = [review EXCEPT ![mine[w]].ingested = TRUE]
          /\ Goto(w, IF stage[w] = "reported" THEN "done" ELSE "recorded")
       \/ /\ Goto(w, "failed")
          /\ UNCHANGED review
    /\ UNCHANGED <<vars, kind, mine, dir, remote, prs, link>>

\* Mutation of Guard: publication is cleared before the findings are recorded.
GuardBeforeRecord(w) ==
    /\ pc[w] = "working"
    /\ stage[w] \in {"committed", "recorded", "pushed"}
    /\ IF Owns(w, job[w].task)
       THEN Goto(w, IF stage[w] = "pushed" THEN "mergeable" ELSE "pushable")
       ELSE Goto(w, "failed")
    /\ UNCHANGED <<vars, kind, mine, storeVars>>

\* _publish: re-read the task row before the push and before the pull request.
Guard(w) ==
    /\ pc[w] = "working"
    /\ stage[w] \in {"recorded", "pushed"}
    /\ IF Owns(w, job[w].task)
       THEN Goto(w, IF stage[w] = "recorded" THEN "pushable" ELSE "mergeable")
       ELSE Goto(w, "failed")
    /\ UNCHANGED <<vars, kind, mine, storeVars>>

Pushed(w) == [by |-> mine[w], edits |-> dir[WorkdirOf(w)].head]

\* Mutation of Push: an existing branch is overwritten.
PushForced(w) ==
    /\ InHandler(w, "pushable")
    /\ remote' = [remote EXCEPT ![BranchOf(w)] = Pushed(w)]
    /\ Goto(w, "pushed")
    /\ UNCHANGED <<vars, kind, mine, review, dir, prs, link>>

\* push refuses a branch that exists with another head, takes one that has this
\* very head for its own, and otherwise pushes the HEAD of the directory; git
\* refuses what is no fast-forward, so the look and the push are one step.
\* The reply may be lost.
Push(w) ==
    /\ InHandler(w, "pushable")
    /\ \/ /\ remote[BranchOf(w)] = NoBranch
          /\ remote' = [remote EXCEPT ![BranchOf(w)] = Pushed(w)]
          /\ Goto(w, "pushed") \/ Goto(w, "failed")
       \/ /\ remote[BranchOf(w)] # NoBranch
          /\ remote[BranchOf(w)].edits = dir[WorkdirOf(w)].head
          /\ Goto(w, "pushed")
          /\ UNCHANGED remote
       \/ /\ Goto(w, "failed")
          /\ UNCHANGED remote
    /\ UNCHANGED <<vars, kind, mine, review, dir, prs, link>>

\* create_pull_request answers with the URL, or fails and changes nothing.
OpenPr(w) ==
    /\ InHandler(w, "mergeable")
    /\ \/ /\ prs' = prs \cup {mine[w]}
          /\ Goto(w, "done")
       \/ /\ Goto(w, "failed")
          /\ UNCHANGED prs
    /\ UNCHANGED <<vars, kind, mine, review, dir, remote, link>>

\* The answer is lost: the pull request exists and the run fails.
OpenPrLost(w) ==
    /\ InHandler(w, "mergeable")
    /\ faults < MaxFaults
    /\ faults' = faults + 1
    /\ prs' = prs \cup {mine[w]}
    /\ Goto(w, "failed")
    /\ UNCHANGED <<row, runner, prod, workerVars, ops>>
    /\ UNCHANGED <<kind, mine, review, dir, remote, link>>

\* Mutation of Finish: a failed outcome is returned like a result.
FinishAlwaysOk(w) ==
    /\ pc[w] = "working"
    /\ stage[w] \in {"done", "failed"}
    /\ review' = [review EXCEPT ![mine[w]].status = IF stage[w] = "done" THEN "ok" ELSE "error"]
    /\ \/ /\ stage[w] = "done" /\ mine[w] \in prs
          /\ link' = [link EXCEPT ![job[w].task] = mine[w]]
       \/ UNCHANGED link
    /\ Goto(w, "endedOk")
    /\ UNCHANGED <<vars, kind, mine, dir, remote, prs>>

\* Mutation of Finish: losing the pull request link fails the task.
FinishLinkRequired(w) ==
    /\ pc[w] = "working"
    /\ stage[w] \in {"done", "failed"}
    /\ review' = [review EXCEPT ![mine[w]].status = IF stage[w] = "done" THEN "ok" ELSE "error"]
    /\ \/ /\ stage[w] = "done" /\ mine[w] \in prs
          /\ link' = [link EXCEPT ![job[w].task] = mine[w]]
          /\ Goto(w, "endedOk")
       \/ /\ Goto(w, IF stage[w] = "done" /\ mine[w] \notin prs
                     THEN "endedOk" ELSE "endedBad")
          /\ UNCHANGED link
    /\ UNCHANGED <<vars, kind, mine, dir, remote, prs>>

\* _finish_review_run and the best-effort _record_pr_link (its write may be
\* lost); then the handler returns, or raises the outcome's error.
Finish(w) ==
    /\ pc[w] = "working"
    /\ stage[w] \in {"done", "failed"}
    /\ review' = [review EXCEPT ![mine[w]].status = IF stage[w] = "done" THEN "ok" ELSE "error"]
    /\ \/ /\ stage[w] = "done" /\ mine[w] \in prs
          /\ link' = [link EXCEPT ![job[w].task] = mine[w]]
       \/ UNCHANGED link
    /\ Goto(w, IF stage[w] = "done" THEN "endedOk" ELSE "endedBad")
    /\ UNCHANGED <<vars, kind, mine, dir, remote, prs>>

\* A database error in _finish_review_run raises out of the handler.
FinishRaises(w) ==
    /\ pc[w] = "working"
    /\ stage[w] \in {"done", "failed"}
    /\ faults < MaxFaults
    /\ faults' = faults + 1
    /\ Goto(w, "endedBad")
    /\ UNCHANGED <<row, runner, prod, workerVars, ops>>
    /\ UNCHANGED <<kind, mine, storeVars>>

Handle(w) ==
    \/ LoadTask(w)
    \/ Prepare(w)
    \/ Review(w)
    \/ Commit(w)
    \/ Record(w)
    \/ Guard(w)
    \/ Push(w)
    \/ OpenPr(w)
    \/ Finish(w)

-----------------------------------------------------------------------------
(* The queue around the handler.                                           *)

Leave(w) ==
    /\ Goto(w, "none")
    /\ mine' = [mine EXCEPT ![w] = NoRun]
    /\ UNCHANGED <<kind, storeVars>>

Settle(w) ==
    \/ stage[w] = "endedOk" /\ Succeed(w) /\ Leave(w)
    \/ stage[w] = "endedBad" /\ (FailLost(w) \/ FailRead(w)) /\ Leave(w)

RunCrash(w) == Crash(w) /\ Leave(w)

\* The queue's steps outside the handler.
QueueStep(w) ==
    /\ \/ Reclaim(w) \/ ClaimBegin(w) \/ ClaimNothing(w)
       \/ \E r \in Repos : ClaimLock(w, r)
       \/ \E t \in Tasks : ClaimSelect(w, t)
       \/ ClaimCommit(w) \/ MarkRunning(w) \/ FailWrite(w)
       \/ Heartbeat(w) \/ Restart(w) \/ HeartbeatDies(w)
    /\ UNCHANGED runVars

Others ==
    /\ \/ \E p \in Producers : Produce(p)
       \/ Operate
       \/ Tick
       \/ \E t \in Tasks : Stall(t)
    /\ UNCHANGED runVars

RunNext ==
    \/ \E w \in Workers :
         \/ Handle(w) \/ OpenPrLost(w) \/ FinishRaises(w)
         \/ Settle(w) \/ RunCrash(w) \/ QueueStep(w)
    \/ Others

RunSpec == RunInit /\ [][RunNext]_allVars

-----------------------------------------------------------------------------
(* Safety.                                                                 *)

\* What is under review never changes: the branch a pull request shows exists
\* and keeps its head, whatever later attempts, operator retries and stale
\* replicas push to the same name.
PullRequestHead ==
    [][\A r \in prs : /\ remote[BranchAt(r)] # NoBranch
                      /\ remote'[BranchAt(r)] = remote[BranchAt(r)]]_allVars

\* "Durable record before the first external side effect": whatever is on
\* the forge, after any crash, the run that published it is recorded.
RecordedBeforePublish ==
    \A b \in Branches : remote[b].by # NoRun =>
        review[remote[b].by].ingested /\ review[remote[b].by].publish

\* Every attempt works on the branch, run and phase its task gave it, and
\* publishes only what it has recorded.
RunConsistent == RunTypeOK /\ RecordedBeforePublish

\* A task is never retired silently: when its row says done, a run of this
\* task is recorded as ok, its findings are in, and a run that set out to
\* publish has its pull request.
DoneIsEarned ==
    \A t \in Tasks : row[t].status = "done" =>
        \E r \in Runs : /\ TaskOf(r) = t
                        /\ review[r].status = "ok"
                        /\ review[r].ingested
                        /\ review[r].publish => r \in prs

\* A second pull request for one task has a cause outside the code: every
\* one beyond the first costs a fault or an operator's intervention.
DuplicatesCost ==
    \A t \in Tasks : Cardinality(PullRequests(t)) <= 1 + ops + faults

-----------------------------------------------------------------------------
(* What the comments promise and the code does not keep.                   *)

\* _make_publish_guard: "refusing to publish unless *this* worker still holds
\* the lease".  The check and the publication are two steps.
PublishOnlyByHolder ==
    [][\A w \in Workers :
         (remote' # remote \/ prs' # prs) /\ stage'[w] # stage[w]
            => Owns(w, job[w].task)]_allVars

\* w is in a step that uses its checkout.
Inside(w) == pc[w] = "working" /\ stage[w] \in Stage \ {"none", "opened", "endedOk", "endedBad"}

\* prepare: "the queue lease guarantees no other replica is inside this task
\* directory", so two replicas never use one directory.
WorkdirExclusive ==
    \A v, w \in Workers : Inside(v) /\ Inside(w) /\ v # w => WorkdirOf(v) # WorkdirOf(w)
=============================================================================
