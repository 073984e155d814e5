----------------------------- MODULE RepoImport -----------------------------
(***************************************************************************)
(* Import jobs of one repository: backend/services/repo_import.py and the  *)
(* routes that create them (backend/routes/repos.py).                      *)
(*                                                                         *)
(* A job walks validate, migrate, poll, mirror_issues, index_commits and   *)
(* done; every step commits its rows, then the cursor twice.  Whoever runs *)
(* a job may stop between steps, die between commits, or run it again.     *)
(* Issues and commits are numbers in the order the forge lists them.       *)
(***************************************************************************)
EXTENDS Integers, FiniteSets, FiniteSetsExt

CONSTANTS
    Jobs,           \* import jobs of the repository
    PullRequests,   \* numbers of the issues that are pull requests
    Commits,        \* number of commits of the repository
    GitFaults,      \* may reading the local mirror fail?
    Size,           \* IMPORT page size
    MaxIssues, MaxCommits, PollAttempts,   \* IMPORT ceilings
    FirstIssues, LastIssues,   \* issues when the model starts; bound: issues ever
    MaxFaults       \* bound: failing calls and deaths

ASSUME RepoImportAssumption ==
    /\ Size \in Nat \ {0} /\ PollAttempts \in Nat \ {0} /\ Commits \in Nat
    /\ MaxIssues \in Nat \ {0} /\ MaxCommits \in Nat \ {0} /\ MaxFaults \in Nat
    /\ FirstIssues \in Nat /\ LastIssues \in Nat /\ FirstIssues <= LastIssues /\ GitFaults \in BOOLEAN

VARIABLES
    forge,     \* the repository on the forge: its migration and its issues
    repo,      \* the repository's row; "policy": the review policy it caches
    job,       \* job[j]: the row; "before": the issues there were when it was created
    runner,    \* runner[j]: the process running j, with the cursor in its memory
    issues,    \* numbers with a row in repo_issues
    commits,   \* commits with a row in repo_commits
    faults

importVars == <<forge, repo, job, runner, issues, commits, faults>>

NewCursor(phase, include) ==
    [phase |-> phase, number |-> 0, page |-> 1, seen |-> 0, stored |-> 0, commits |-> 0,
     partial |-> FALSE, polls |-> 0, git |-> FALSE, policy_read |-> FALSE, include |-> include]
NoJob == [status |-> "none", cursor |-> NewCursor("validate", "all"), before |-> 0]
Idle == [pc |-> "idle", cursor |-> NewCursor("validate", "all"), rows |-> {}, new |-> {},
         policy |-> ""]
\* An import creates an upstream; a workspace was created by hand.  An older
\* release cached the file's policy on upstreams too.
NoRepo == [row |-> FALSE, kind |-> "upstream", forgejo |-> FALSE, sync |-> "pending",
           issues |-> 0, commits |-> 0, policy |-> "unset"]

ImportInit ==
    /\ forge = [migration |-> "none", issues |-> FirstIssues]
    /\ repo \in {NoRepo, [NoRepo EXCEPT !.row = TRUE, !.kind = "workspace"],
                [NoRepo EXCEPT !.row = TRUE, !.policy = "file"]}
    /\ job = [j \in Jobs |-> NoJob]
    /\ runner = [j \in Jobs |-> Idle]
    /\ issues = {} /\ commits = {} /\ faults = 0

Fault == faults < MaxFaults /\ faults' = faults + 1

-----------------------------------------------------------------------------
(* The forge: a migration ends, an issue is opened.                        *)

MigrationEnds ==
    /\ forge.migration = "running" /\ forge' = [forge EXCEPT !.migration = "finished"]
    /\ UNCHANGED <<repo, job, runner, issues, commits, faults>>

IssueOpened ==
    /\ forge.issues < LastIssues /\ forge' = [forge EXCEPT !.issues = @ + 1]
    /\ UNCHANGED <<repo, job, runner, issues, commits, faults>>

-----------------------------------------------------------------------------
(* Creating jobs.                                                          *)

\* The repository by slug; a missing one is added when the job is committed.
create_job(j) ==
    /\ job[j].status = "none" /\ runner[j].pc = "idle"
    /\ runner' = [runner EXCEPT ![j].pc = IF repo.row THEN "reuse" ELSE "add"]
    /\ UNCHANGED <<forge, repo, job, issues, commits, faults>>

\* The bodies of POST /repos/import and /sync; mode "issues" is run as "code+issues".
RepoSyncRequest == [mode : {"code", "code+issues"}, include_prs : BOOLEAN, full : BOOLEAN]
RepoImportRequest == {body \in RepoSyncRequest : body.full}

\* Where a job starts: sync_repo skips the migration of a known repository.
start_phase(body) == IF body.full \/ ~repo.forgejo THEN "validate" ELSE "mirror_issues"

\* What a job mirrors.  The row has no column for include_prs: a job that begins
\* with the migration mirrors pull requests whatever was asked.
include(body) ==
    IF body.mode = "code" THEN "none"
    ELSE IF body.include_prs \/ start_phase(body) = "validate" THEN "all" ELSE "issues"

\* Two creations of one new slug: the second meets the unique constraint (409).
create_job_commit(j) ==
    /\ runner[j].pc \in {"add", "reuse"}
    /\ IF runner[j].pc = "add" /\ repo.row THEN UNCHANGED <<repo, job>>
       ELSE \E body \in RepoImportRequest \cup RepoSyncRequest :
              /\ job' = [job EXCEPT ![j] =
                   [status |-> "queued", before |-> forge.issues,
                    cursor |-> NewCursor(start_phase(body), include(body))]]
              /\ repo' = [repo EXCEPT !.row = TRUE, !.sync = "pending"]
    /\ runner' = [runner EXCEPT ![j] = Idle]
    /\ UNCHANGED <<forge, issues, commits, faults>>

-----------------------------------------------------------------------------
(* Running a job: what every step does.                                    *)

\* Picks a job up, from its cursor.
run(j) ==
    /\ job[j].status \in {"queued", "running", "failed"} /\ runner[j].pc = "idle"
    /\ job' = [job EXCEPT ![j].status = "running"]
    /\ runner' = [runner EXCEPT ![j] = [Idle EXCEPT !.pc = "step", !.cursor = job[j].cursor]]
    /\ UNCHANGED <<forge, repo, issues, commits, faults>>

\* max_steps is reached, or the poll has waited its budget.
run_returns(j) ==
    /\ runner[j].pc = "step" /\ runner[j].cursor.phase # "done"
    /\ runner' = [runner EXCEPT ![j] = Idle]
    /\ UNCHANGED <<forge, repo, job, issues, commits, faults>>

RunnerDies(j) ==
    /\ runner[j].pc \notin {"idle", "add", "reuse"} /\ Fault
    /\ runner' = [runner EXCEPT ![j] = Idle]
    /\ UNCHANGED <<forge, repo, job, issues, commits>>

\* What a step has written to the row, "" for nothing, goes with its next commit.
Cached(row, policy) == IF policy = "" THEN row ELSE [row EXCEPT !.policy = policy]

\* The error and the cursor of the failed step.
_fail(j, cursor, policy) ==
    /\ job' = [job EXCEPT ![j] = [@ EXCEPT !.status = "failed", !.cursor = cursor]]
    /\ repo' = [Cached(repo, policy) EXCEPT !.sync = "error"]
    /\ runner' = [runner EXCEPT ![j] = Idle]

At(j, phase) == runner[j].pc = "step" /\ runner[j].cursor.phase = phase

\* The runner of j goes on to pc with the cursor it has now.
Goes(j, pc, cursor) == runner' = [runner EXCEPT ![j] = [Idle EXCEPT !.pc = pc, !.cursor = cursor]]

\* A call to the forge failed for good: the step fails.
StepFails(j) ==
    /\ \E phase \in {"migrate", "poll", "mirror_issues"} : At(j, phase)
    /\ At(j, "mirror_issues") => runner[j].cursor.include # "none"
    /\ Fault /\ _fail(j, runner[j].cursor, "")
    /\ UNCHANGED <<forge, issues, commits>>

\* The cursor after the step, phase included.
_write(j) ==
    /\ runner[j].pc = "write"
    /\ job' = [job EXCEPT ![j].cursor = runner[j].cursor]
    /\ repo' = [repo EXCEPT !.sync = IF job[j].cursor.phase = "validate" THEN "pending" ELSE @]
    /\ Goes(j, "step", runner[j].cursor)
    /\ UNCHANGED <<forge, issues, commits, faults>>

-----------------------------------------------------------------------------
(* validate, migrate, poll.                                                *)

\* An unreachable source is noted, not an error.
_step_validate(j) ==
    /\ At(j, "validate")
    /\ Goes(j, "write", [runner[j].cursor EXCEPT !.phase = "migrate"])
    /\ UNCHANGED <<forge, repo, job, issues, commits, faults>>

\* The forge takes the name and begins to copy.
trigger_migration == [forge EXCEPT !.migration = IF @ = "none" THEN "running" ELSE @]

\* A repository the row knows is not migrated again.  The POST is retried when
\* its answer is lost, and the forge refuses a name it has.
_step_migrate(j) ==
    /\ At(j, "migrate")
    /\ IF repo.forgejo \/ forge.migration = "none"
       THEN /\ forge' = trigger_migration
            /\ Goes(j, "migrated", runner[j].cursor)
            /\ UNCHANGED <<repo, job, faults>>
       ELSE _fail(j, runner[j].cursor, "") /\ UNCHANGED <<forge, faults>>
    /\ UNCHANGED <<issues, commits>>

\* trigger_migration's answer is lost: the retried POST meets the first one's repository.
migrate_retried(j) ==
    /\ At(j, "migrate") /\ ~repo.forgejo /\ forge.migration = "none" /\ Fault
    /\ forge' = trigger_migration
    /\ _fail(j, runner[j].cursor, "")
    /\ UNCHANGED <<issues, commits>>

\* The forge's name of the repository, committed with the cursor.
_step_migrate_commit(j) ==
    /\ runner[j].pc = "migrated"
    /\ repo' = [repo EXCEPT !.forgejo = TRUE, !.sync = "cloning"]
    /\ job' = [job EXCEPT ![j].cursor = runner[j].cursor]
    /\ Goes(j, "write", [runner[j].cursor EXCEPT !.phase = "poll"])
    /\ UNCHANGED <<forge, issues, commits, faults>>

migration_finished == forge.migration = "finished"

\* Polls are counted over all the runs of the job.
_step_poll(j) ==
    LET polled == [runner[j].cursor EXCEPT !.polls = @ + 1] IN
    /\ At(j, "poll")
    /\ IF polled.polls > PollAttempts
       THEN _fail(j, [polled EXCEPT !.polls = PollAttempts], "")
       ELSE /\ job' = [job EXCEPT ![j].cursor = polled]
            /\ Goes(j, "write", IF migration_finished
                                THEN [polled EXCEPT !.phase = "mirror_issues"] ELSE polled)
            /\ UNCHANGED repo
    /\ UNCHANGED <<forge, issues, commits, faults>>

-----------------------------------------------------------------------------
(* mirror_issues.                                                          *)

Smallest(S, n) == {x \in S : Cardinality({y \in S : y < x}) < n}
Max0(S) == IF S = {} THEN 0 ELSE Max(S)

RawPage(offset) == {i \in 1 .. forge.issues : (i - 1) \div Size = offset \div Size}

\* The page of the forge at an offset, from the offset on, above the cursor's number.
stream_issues(c) == {i \in RawPage(c.seen) : (i - 1) % Size >= c.seen % Size /\ i > c.number}
More(c) == Cardinality(RawPage(c.seen)) >= Size

Included(c) == {i \in stream_issues(c) : c.include = "all" \/ i \notin PullRequests}
Room(c) == IF c.stored >= MaxIssues THEN 0 ELSE MaxIssues - c.stored
Overfull(c) == Cardinality(Included(c)) > Room(c)
Kept(c) == Smallest(Included(c), Room(c))

\* The cursor after a page; "seen" only grows, and a page that is not full ends the phase.
Advanced(c) ==
    LET page == stream_issues(c)
        consumed == IF Overfull(c) THEN Cardinality(page)
                    ELSE IF More(c) THEN c.seen + Cardinality(page) ELSE 0 IN
    [c EXCEPT !.stored = @ + Cardinality(Kept(c)),
              !.partial = @ \/ Overfull(c),
              !.seen = Max({@, IF consumed = 0 THEN Cardinality(page) ELSE consumed}),
              !.number = Max({@, Max0(Kept(c))})]

\* A job of the code only.
_step_mirror_issues_none(j) ==
    /\ At(j, "mirror_issues") /\ runner[j].cursor.include = "none"
    /\ Goes(j, "write", [runner[j].cursor EXCEPT !.phase = "index_commits"])
    /\ UNCHANGED <<forge, repo, job, issues, commits, faults>>

_step_mirror_issues_cursor_first(j) ==
    LET c == runner[j].cursor IN
    /\ At(j, "mirror_issues") /\ c.include # "none"
    /\ runner' = [runner EXCEPT ![j] =
         [pc |-> IF Kept(c) = {} THEN "mirrored" ELSE "upsert", cursor |-> Advanced(c),
          rows |-> Kept(c), new |-> Kept(c) \ issues, policy |-> ""]]
    /\ job' = [job EXCEPT ![j].cursor = Advanced(c)]
    /\ UNCHANGED <<forge, repo, issues, commits, faults>>

\* The page, and for each of its rows whether the table has one.
_step_mirror_issues(j) ==
    LET c == runner[j].cursor IN
    /\ At(j, "mirror_issues") /\ c.include # "none"
    /\ runner' = [runner EXCEPT ![j] =
         [pc |-> IF Kept(c) = {} THEN "mirrored" ELSE "upsert", cursor |-> [Advanced(c) EXCEPT !.phase =
              IF Overfull(c) \/ ~More(c) THEN "index_commits" ELSE @],
          rows |-> Kept(c), new |-> Kept(c) \ issues, policy |-> ""]]
    /\ UNCHANGED <<forge, repo, job, issues, commits, faults>>

\* A row another job added since meets the unique constraint; run raises, since
\* its handler reads through the failed transaction.
_upsert_issues(j) ==
    /\ runner[j].pc = "upsert"
    /\ IF runner[j].new \cap issues # {}
       THEN runner' = [runner EXCEPT ![j] = Idle] /\ UNCHANGED <<repo, issues>>
       ELSE /\ issues' = issues \cup runner[j].rows
            /\ repo' = [repo EXCEPT !.sync = "issues"]
            /\ runner' = [runner EXCEPT ![j].pc = "mirrored"]
    /\ UNCHANGED <<forge, job, commits, faults>>

\* The counts of the page, in the phase the job is still in.
_mirror_state(j) ==
    /\ runner[j].pc = "mirrored"
    /\ job' = [job EXCEPT ![j].cursor = [runner[j].cursor EXCEPT !.phase = "mirror_issues"]]
    /\ repo' = [repo EXCEPT !.sync = IF runner[j].rows = {} THEN "issues" ELSE @]
    /\ Goes(j, "write", runner[j].cursor)
    /\ UNCHANGED <<forge, issues, commits, faults>>

-----------------------------------------------------------------------------
(* index_commits.                                                          *)

ApiPage(page) == {k \in 1 .. Commits : (k - 1) \div Size = page - 1}

\* The policy file at the head: "" when there is none, or none that can be read.
read_file == {"", "file"}

_clear_repo_policy == "unset"

\* A workspace's own file decides; an upstream's was written by somebody else,
\* and whatever the row has is cleared.
_refresh_repo_policy(text) ==
    IF repo.kind # "workspace" THEN _clear_repo_policy
    ELSE IF text = "" THEN "default" ELSE text

\* git log of the local mirror, newest first.
stream(limit) == Smallest(1 .. Commits, limit)

\* The API page, or, when it is empty or failed, the local mirror, once: the
\* newest commits, one more than there is room for.  The job's first page reads
\* the policy.
_step_index_commits(j) ==
    LET c == runner[j].cursor
        room == IF c.commits >= MaxCommits THEN 0 ELSE MaxCommits - c.commits IN
    /\ At(j, "index_commits")
    /\ \E answered \in BOOLEAN, readable \in BOOLEAN, text \in read_file :
         LET policy == IF c.policy_read THEN "" ELSE _refresh_repo_policy(text)
             page == IF answered THEN ApiPage(c.page) ELSE {}
             fallback == page = {} /\ ~c.git
             rows == IF fallback THEN stream(room + 1) ELSE page
             kept == Smallest(rows, room)
             next == answered /\ Cardinality(page) >= Size
             read == c.commits + Cardinality(kept)
             full == Cardinality(rows) > room
             done == ~next \/ full \/ fallback \/ read >= MaxCommits IN
         /\ IF answered /\ readable THEN UNCHANGED faults ELSE Fault
         /\ ~readable => GitFaults
         /\ c.policy_read => text = ""
         /\ IF fallback /\ ~readable
            THEN _fail(j, [c EXCEPT !.git = TRUE, !.policy_read = TRUE], policy)
            ELSE /\ runner' = [runner EXCEPT ![j] =
                      [pc |-> IF kept = {} THEN "indexed" ELSE "index", rows |-> kept, new |-> kept \ commits,
                       policy |-> policy,
                       cursor |-> [c EXCEPT !.policy_read = TRUE, !.git = @ \/ fallback,
                                            !.page = @ + 1, !.commits = read,
                                            !.partial = @ \/ full \/ (done /\ next),
                                            !.phase = IF done THEN "done" ELSE @]]]
                 /\ UNCHANGED <<repo, job>>
    /\ UNCHANGED <<forge, issues, commits>>

_upsert_commits(j) ==
    /\ runner[j].pc = "index"
    /\ IF runner[j].new \cap commits # {}
       THEN runner' = [runner EXCEPT ![j] = Idle] /\ UNCHANGED <<repo, commits>>
       ELSE /\ commits' = commits \cup runner[j].rows
            /\ repo' = [Cached(repo, runner[j].policy) EXCEPT !.sync = "indexing"]
            /\ runner' = [runner EXCEPT ![j] = [@ EXCEPT !.pc = "indexed", !.policy = ""]]
    /\ UNCHANGED <<forge, job, issues, faults>>

_step_index_commits_state(j) ==
    /\ runner[j].pc = "indexed"
    /\ job' = [job EXCEPT ![j].cursor = runner[j].cursor]
    /\ repo' = [Cached(repo, runner[j].policy) EXCEPT
                            !.sync = IF runner[j].rows = {} THEN "indexing" ELSE @,
                            !.commits = IF runner[j].cursor.phase = "done"
                                        THEN runner[j].cursor.commits ELSE @]
    /\ Goes(j, "write", runner[j].cursor)
    /\ UNCHANGED <<forge, issues, commits, faults>>

\* The counts of the tables, whichever job filled them.
_finish(j) ==
    /\ At(j, "done")
    /\ repo' = [repo EXCEPT !.sync = "ready", !.issues = Cardinality(issues),
                            !.commits = Cardinality(commits)]
    /\ job' = [job EXCEPT ![j] = [@ EXCEPT !.status = "done", !.cursor = runner[j].cursor]]
    /\ runner' = [runner EXCEPT ![j] = Idle]
    /\ UNCHANGED <<forge, issues, commits, faults>>

-----------------------------------------------------------------------------
Step(j) ==
    \/ create_job(j) \/ create_job_commit(j) \/ run(j) \/ run_returns(j) \/ RunnerDies(j)
    \/ StepFails(j) \/ _write(j) \/ _step_validate(j)
    \/ _step_migrate(j) \/ migrate_retried(j) \/ _step_migrate_commit(j) \/ _step_poll(j)
    \/ _step_mirror_issues_none(j) \/ _step_mirror_issues(j) \/ _upsert_issues(j) \/ _mirror_state(j)
    \/ _step_index_commits(j) \/ _upsert_commits(j) \/ _step_index_commits_state(j) \/ _finish(j)

ImportNext == MigrationEnds \/ IssueOpened \/ \E j \in Jobs : Step(j)

-----------------------------------------------------------------------------
(* Properties.                                                             *)

Phases == {"validate", "migrate", "poll", "mirror_issues", "index_commits", "done"}
CursorType(c) ==
    /\ c.phase \in Phases /\ {c.number, c.page, c.seen, c.stored, c.commits, c.polls} \subseteq Nat
    /\ c.stored <= MaxIssues /\ c.commits <= MaxCommits /\ c.polls <= PollAttempts
    /\ {c.partial, c.git, c.policy_read} \subseteq BOOLEAN /\ c.include \in {"none", "issues", "all"}

Repo == [row : BOOLEAN, kind : {"upstream", "workspace"}, forgejo : BOOLEAN,
         sync : {"pending", "cloning", "issues", "indexing", "ready", "error"},
         issues : 0 .. LastIssues, commits : 0 .. MaxCommits, policy : {"unset", "default", "file"}]
ImportJob(row) ==
    /\ row.status \in {"none", "queued", "running", "failed", "done"}
    /\ CursorType(row.cursor) /\ row.before \in 0 .. LastIssues

\* The ceilings bound what one job counts, and the counters have their types.
ImportTypeOK ==
    /\ forge.migration \in {"none", "running", "finished"} /\ forge.issues \in 0 .. LastIssues
    /\ repo \in Repo
    /\ repo.forgejo => repo.row /\ forge.migration # "none"
    /\ \A j \in Jobs : ImportJob(job[j]) /\ CursorType(runner[j].cursor)
    /\ issues \subseteq 1 .. LastIssues /\ commits \subseteq 1 .. Commits

\* What GET /imports/<job_id> tells of a job.
partial_of(row) == row.cursor.partial
job_payload(row) == [status |-> row.status, phase |-> row.cursor.phase, partial |-> partial_of(row)]

Complete(j) == LET told == job_payload(job[j]) IN told.status = "done" /\ ~told.partial

Wanted(c, n) ==
    {i \in 1 .. n : c.include = "all" \/ (c.include = "issues" /\ i \notin PullRequests)}

\* A job that is done and not partial has mirrored every issue there was when it
\* was created, whatever died, failed or ran beside it: "truncation is reported,
\* never silent" (routes/repos.py:817).
MirrorComplete ==
    \A j \in Jobs : Complete(j) => Wanted(job[j].cursor, job[j].before) \subseteq issues

\* A stored cursor never counts a row that is not committed: a job resumed from
\* it re-reads a page rather than skipping one (_step_mirror_issues).
CursorBehindRows ==
    \A j \in Jobs : LET c == job[j].cursor IN
        ~c.partial => Wanted(c, Max({c.seen, c.number})) \cap (1 .. forge.issues) \subseteq issues

\* A job that is done and not partial has indexed every commit: when neither the
\* API nor the mirror can be read it fails, rather than "report a repository with
\* no history as done" (_step_index_commits).  Only while the mirror can be read:
\* with GitFaults a job retried while the API still fails has git = TRUE, does not
\* fall back again, and is done (two faults).
HistoryTold ==
    \A j \in Jobs : Complete(j) => commits = 1 .. Commits

\* A cursor that says the policy was read stands for a row that has it, whoever
\* died or failed in between, and only a workspace's row takes it from the file:
\* "an upstream mirror's copy [...] must not decide what the platform does"
\* (_refresh_repo_policy).
PolicyOwned ==
    \A j \in Jobs : job[j].cursor.policy_read => (repo.policy = "unset" <=> repo.kind = "upstream")
=============================================================================
