------------------------------ MODULE Runners -------------------------------
(***************************************************************************)
(* A repository's logical runner (services/repo_runner.py, the runner      *)
(* routes of routes/repos.py), the way a task takes its credential and its *)
(* work root from it (services/agent_worker.py _load_task), the uid the    *)
(* repository's code runs under (services/sandbox_identity.py) and the     *)
(* retention sweep (services/agent_runner.py).  Requests and workers read, *)
(* insert and commit in separate steps; the mapper's UPDATE names only the *)
(* columns whose value differs from the one it read.                       *)
(***************************************************************************)
EXTENDS Integers, Sequences, SequencesExt, FiniteSets, TLC

CONSTANTS
    Repos, Operators, Workers,
    Subdirs,        \* workspace_subdir values a request carries; <<>> is ""
    Tokens,         \* tokens an operator may store
    Shared,         \* FORGEJO_RUNNER_TOKEN; "" is unset
    Sandboxes,      \* [conf, capable]: AGENT_SANDBOX_UID/GID and the capabilities
    RETENTION,
    MaxAsks,        \* bound: requests, tasks and key rotations
    MaxTasks, MaxTime

ASSUME RunnersAssumption ==
    /\ RETENTION \in Nat /\ MaxAsks \in Nat /\ MaxTasks \in Nat /\ MaxTime \in Nat
    /\ Operators \cap Workers = {} /\ Subdirs \subseteq Seq(STRING)

VARIABLES
    rows,       \* repo_runners, committed: a function from the repositories that have one
    ids,        \* the last id handed out
    act,        \* act[a]: the request or the task a is in
    tasks,      \* tasks[t]: the repository of task t
    dirs,       \* the directories below AGENT_WORK_ROOT, by path; <<>> is the root itself
    key,        \* RUNNER_CREDENTIAL_KEY; 0 is unset
    sandbox,
    now, swept, \* the clock, and when the documented cron line last ran
    asked

runnerVars == <<rows, ids, act, tasks, dirs, key, sandbox, now, swept, asked>>

Actors == Operators \cup Workers
Never == -1
NoToken == ""
NoSeal == [token |-> NoToken, under |-> 0]
NoTask == [pc |-> "idle", goal |-> "", repo |-> 0, body |-> <<>>, id |-> 0, read |-> <<>>, task |-> 0,
          token |-> NoToken, source |-> "", root |-> <<>>, uid |-> ""]

-----------------------------------------------------------------------------
(* Work roots.                                                             *)

DEFAULT_WORKSPACE_SUBDIR == "runners"

\* The validated path: the explicit one, or runners/<id>.
safe_workspace_subdir(value, id) ==
    IF value = <<>> THEN <<DEFAULT_WORKSPACE_SUBDIR, ToString(id)>> ELSE value
_effective_subdir(row) == safe_workspace_subdir(row.subdir, row.id)
_workspace_conflict_none(r, candidate) == FALSE
_workspace_conflict(r, candidate) ==
    \E s \in DOMAIN rows \ {r} : _effective_subdir(rows[s]) = candidate

_default_row(id) == [id |-> id, enabled |-> TRUE, max_concurrency |-> 0, subdir |-> <<>>,
                     kind |-> "shared", seal |-> NoSeal, expires |-> Never, last_task_at |-> Never]

\* f laid over g.
Over(f, g) == [x \in DOMAIN f \cup DOMAIN g |-> IF x \in DOMAIN f THEN f[x] ELSE g[x]]

Real(p) == p \in DOMAIN dirs /\ dirs[p].real
Private == [real |-> TRUE, group |-> FALSE, done |-> Never]
MakeDirs(ps) == dirs' = [p \in DOMAIN dirs \cup ps |-> IF p \in DOMAIN dirs THEN dirs[p] ELSE Private]
require_real_directory(p) == Real(p)

-----------------------------------------------------------------------------
(* Credentials.                                                            *)

shared_runner_token == Shared
_require_cipher == key # 0
_decrypt(row) == IF _require_cipher /\ row.seal.under = key THEN row.seal.token ELSE NoToken
_reject_expired(row) == row.expires # Never /\ row.expires <= now

\* Refused, or what the git steps of the task authenticate with ("" is nothing).
credential_refused(r) ==
    r \in DOMAIN rows /\ rows[r].kind = "repo" /\ (_reject_expired(rows[r]) \/ _decrypt(rows[r]) = NoToken)
credential(r) ==
    IF r \in DOMAIN rows /\ rows[r].kind = "repo"
      THEN [token |-> _decrypt(rows[r]), source |-> "repo"]
      ELSE [token |-> shared_runner_token, source |-> "shared"]

-----------------------------------------------------------------------------
(* The sandbox identity.                                                   *)

\* Both blank is the development mode; anything but a pair of positive ids is an error.
configured_identity == CASE sandbox.conf = "unset" -> "none" [] sandbox.conf = "pair" -> "sandbox" [] OTHER -> "error"
privilege_drop_capable == sandbox.capable
untrusted_popen_kwargs ==
    CASE configured_identity = "none" -> "worker"
      [] configured_identity = "sandbox" /\ privilege_drop_capable -> "sandbox"
      [] OTHER -> "error"

_ancestor_dirs(p) == Prefixes(p) \ {p}
_relax(ps) == [q \in DOMAIN dirs |-> IF q \in ps THEN [dirs[q] EXCEPT !.group = TRUE] ELSE dirs[q]]
prepare_untrusted_workdir_only(p) ==
    IF configured_identity = "none" THEN dirs ELSE _relax({p})
prepare_untrusted_workdir(p) ==
    IF configured_identity = "none" THEN dirs ELSE _relax({p} \cup _ancestor_dirs(p))

-----------------------------------------------------------------------------
RunnersInit ==
    /\ rows = [r \in {} |-> 0] /\ ids = 0 /\ tasks = <<>>
    /\ act = [a \in Actors |-> NoTask]
    /\ dirs = [p \in {<<>>} |-> Private]
    /\ key = 1 /\ sandbox \in Sandboxes
    /\ now = 0 /\ swept = Never /\ asked = 0

Proceeds(a, fields) == act' = [act EXCEPT ![a] = Over(fields, @)]
Refuse(a) == act' = [act EXCEPT ![a] = NoTask]
Asks == asked < MaxAsks /\ asked' = asked + 1
Elsewhere == UNCHANGED <<key, sandbox, now, swept, asked>>

\* PATCH .../runner, PUT and DELETE .../runner/credential, once the body is
\* valid: update's checks and the cipher come before any row is touched.
Request(o, r, goal, body) ==
    /\ act[o].pc = "idle" /\ Asks
    /\ goal = "set" => _require_cipher
    /\ Proceeds(o, [pc |-> "find", goal |-> goal, repo |-> r, body |-> body])
    /\ UNCHANGED <<rows, ids, tasks, dirs, key, sandbox, now, swept>>

update_runner(o, r) ==
    \E body \in {[workspace_subdir |-> s] : s \in Subdirs} \cup {[enabled |-> FALSE], [max_concurrency |-> 1]} :
        Request(o, r, "update", body)
put_runner_credential(o, r) ==
    \E t \in Tokens, e \in {Never, 1} : Request(o, r, "set", [token |-> t, expires_at |-> e])
delete_runner_credential(o, r) == Request(o, r, "clear", <<>>)

\* _find; a repository without a row goes on to _create.
_runner_row(a) ==
    LET r == act[a].repo IN
    /\ act[a].pc = "find"
    /\ IF r \in DOMAIN rows THEN Proceeds(a, [pc |-> "found", read |-> rows[r]]) ELSE Proceeds(a, [pc |-> "insert"])
    /\ UNCHANGED <<rows, ids, tasks, dirs>> /\ Elsewhere

\* _create: the flush waits for another transaction's row of the same
\* repository and then meets the unique constraint; the default work root is
\* compared with the rows committed by now.
_create(a) ==
    LET r == act[a].repo IN
    /\ act[a].pc = "insert"
    /\ \/ /\ r \in DOMAIN rows
          /\ Proceeds(a, [pc |-> "found", read |-> rows[r]])
          /\ UNCHANGED ids
       \/ /\ r \notin DOMAIN rows
          /\ \A b \in Actors : act[b].pc = "flushed" => act[b].repo # r
          /\ ids' = ids + 1
          /\ IF _workspace_conflict(r, safe_workspace_subdir(<<>>, ids + 1))
               THEN Refuse(a) ELSE Proceeds(a, [pc |-> "flushed", id |-> ids + 1])
    /\ UNCHANGED <<rows, tasks, dirs>> /\ Elsewhere

_create_commit(a) ==
    LET row == _default_row(act[a].id) IN
    /\ act[a].pc = "flushed"
    /\ rows' = Over(rows, [r \in {act[a].repo} |-> row])
    /\ Proceeds(a, [pc |-> "found", read |-> row])
    /\ UNCHANGED <<ids, tasks, dirs>> /\ Elsewhere

\* The columns that differ from what was read.
_persist(a, values) ==
    LET r == act[a].repo
        changed == {c \in DOMAIN values : values[c] # act[a].read[c]} IN
    rows' = [rows EXCEPT ![r] = Over([c \in changed |-> values[c]], @)]

\* update's second half: the check reads the committed rows, the commit follows.
update_check(o) ==
    LET asked_for == act[o].body.workspace_subdir
        effective == safe_workspace_subdir(asked_for, act[o].read.id) IN
    /\ act[o].pc = "found" /\ act[o].goal = "update"
    /\ IF "workspace_subdir" \in DOMAIN act[o].body /\ _workspace_conflict(act[o].repo, effective)
         THEN Refuse(o) ELSE Proceeds(o, [pc |-> "write"])
    /\ UNCHANGED <<rows, ids, tasks, dirs>> /\ Elsewhere

update_row(o) ==
    LET b == act[o].body IN
    /\ act[o].pc = "write"
    /\ _persist(o, IF "workspace_subdir" \in DOMAIN b
                     THEN [subdir |-> safe_workspace_subdir(b.workspace_subdir, act[o].read.id)] ELSE b)
    /\ Refuse(o)
    /\ UNCHANGED <<ids, tasks, dirs>> /\ Elsewhere

set_credential(o) ==
    /\ act[o].pc = "found" /\ act[o].goal = "set"
    /\ _persist(o, [kind |-> "repo", seal |-> [token |-> act[o].body.token, under |-> key],
                    expires |-> act[o].body.expires_at])
    /\ Refuse(o)
    /\ UNCHANGED <<ids, tasks, dirs>> /\ Elsewhere

clear_credential(o) ==
    /\ act[o].pc = "found" /\ act[o].goal = "clear"
    /\ _persist(o, [kind |-> "shared", seal |-> NoSeal, expires |-> Never])
    /\ Refuse(o)
    /\ UNCHANGED <<ids, tasks, dirs>> /\ Elsewhere

-----------------------------------------------------------------------------
(* A task: _load_task, then the runner up to the untrusted process.        *)

\* A claim: a new task, or an operator's retry of one that ended (attempts back
\* at 0, so the same directory).  A disabled runner refuses it.
_load_task(w) ==
    /\ act[w].pc = "idle" /\ Asks
    /\ \E r \in Repos, t \in 1 .. MaxTasks :
          /\ t \in DOMAIN tasks => tasks[t] = r /\ \A v \in Workers : act[v].task # t
          /\ t \notin DOMAIN tasks => t = Len(tasks) + 1
          /\ tasks' = IF t \in DOMAIN tasks THEN tasks ELSE Append(tasks, r)
          /\ IF r \in DOMAIN rows /\ ~rows[r].enabled THEN Refuse(w)
             ELSE Proceeds(w, [pc |-> "find", goal |-> "task", repo |-> r, task |-> t])
    /\ UNCHANGED <<rows, ids, dirs, key, sandbox, now, swept>>

record_task(w) ==
    /\ act[w].pc = "found" /\ act[w].goal = "task"
    /\ _persist(w, [last_task_at |-> now])
    /\ Proceeds(w, [pc |-> "credential"])
    /\ UNCHANGED <<ids, tasks, dirs>> /\ Elsewhere

resolve_credential(w) ==
    /\ act[w].pc = "credential"
    /\ IF credential_refused(act[w].repo) THEN Refuse(w)
       ELSE Proceeds(w, Over([pc |-> "root"], credential(act[w].repo)))
    /\ UNCHANGED <<rows, ids, tasks, dirs>> /\ Elsewhere

\* workspace_root: every segment made or opened in turn, none of them through a link.
workspace_root(w) ==
    LET root == _effective_subdir(rows[act[w].repo]) IN
    /\ act[w].pc = "root"
    /\ IF \E p \in Prefixes(root) : p \in DOMAIN dirs /\ ~require_real_directory(p)
         THEN Refuse(w) /\ UNCHANGED dirs
         ELSE Proceeds(w, [pc |-> "clone", root |-> root]) /\ MakeDirs(Prefixes(root))
    /\ UNCHANGED <<rows, ids, tasks>> /\ Elsewhere

workdir(w) == Append(act[w].root, ToString(act[w].task))

\* prepare and clone into <root>/<task_id>; a marker left there stays.
clone(w) ==
    /\ act[w].pc = "clone"
    /\ IF ~require_real_directory(act[w].root) THEN Refuse(w) /\ UNCHANGED dirs
       ELSE Proceeds(w, [pc |-> "handover"]) /\ MakeDirs(Prefixes(workdir(w)))
    /\ UNCHANGED <<rows, ids, tasks>> /\ Elsewhere

handover(w) ==
    /\ act[w].pc = "handover"
    /\ IF configured_identity = "error" \/ (configured_identity = "sandbox" /\ ~require_real_directory(workdir(w)))
         THEN Refuse(w) /\ UNCHANGED dirs
         ELSE Proceeds(w, [pc |-> "spawn"]) /\ dirs' = prepare_untrusted_workdir(workdir(w))
    /\ UNCHANGED <<rows, ids, tasks>> /\ Elsewhere

\* The review command and the gates (subprocess.run with **untrusted_popen_kwargs()).
spawn(w) ==
    /\ act[w].pc = "spawn"
    /\ Proceeds(w, IF untrusted_popen_kwargs = "error" THEN [pc |-> "end"]
               ELSE [pc |-> "running", uid |-> untrusted_popen_kwargs])
    /\ UNCHANGED <<rows, ids, tasks, dirs>> /\ Elsewhere

mark_finished(w) ==
    /\ act[w].pc \in {"running", "end"}
    /\ dirs' = IF workdir(w) \in DOMAIN dirs THEN [dirs EXCEPT ![workdir(w)].done = now] ELSE dirs
    /\ Refuse(w)
    /\ UNCHANGED <<rows, ids, tasks>> /\ Elsewhere

-----------------------------------------------------------------------------
(* Around them: the sweep, the clock, a new key, something in a path's way. *)

\* Finished directories directly under root, past their retention.
sweep_workdirs(root) ==
    {p \in DOMAIN dirs : /\ Len(p) = Len(root) + 1 /\ IsPrefix(root, p) /\ dirs[p].done # Never
                         /\ dirs[p].done <= now - RETENTION}
remove_workdirs(ps) ==
    [q \in {q \in DOMAIN dirs : \A p \in ps : ~IsPrefix(p, q)} |-> dirs[q]]

\* The daily cron line of docker/runner/README.md: AgentRunner().sweep(), whose
\* root is AGENT_WORK_ROOT.
sweep ==
    /\ now >= RETENTION
    /\ dirs' = remove_workdirs(sweep_workdirs(<<>>)) /\ swept' = now
    /\ UNCHANGED <<rows, ids, act, tasks, key, sandbox, now, asked>>

Tick == now < MaxTime /\ now' = now + 1
        /\ UNCHANGED <<rows, ids, act, tasks, dirs, key, sandbox, swept, asked>>
Rekey == Asks /\ key' \in {0, 2} \ {key} /\ UNCHANGED <<rows, ids, act, tasks, dirs, sandbox, now, swept>>
Obstruct ==
    /\ Asks
    /\ \E p \in DOMAIN dirs \ {<<>>} :
          /\ \A w \in Workers : act[w].pc \in {"spawn", "running", "end"} => ~IsPrefix(p, workdir(w))
          /\ dirs' = [q \in {q \in DOMAIN dirs : q = p \/ ~IsPrefix(p, q)} |->
                         IF q = p THEN [dirs[q] EXCEPT !.real = FALSE] ELSE dirs[q]]
    /\ UNCHANGED <<rows, ids, act, tasks, key, sandbox, now, swept>>

RunnersNext ==
    \/ \E o \in Operators, r \in Repos :
          update_runner(o, r) \/ put_runner_credential(o, r) \/ delete_runner_credential(o, r)
    \/ \E a \in Actors : _runner_row(a) \/ _create(a) \/ _create_commit(a)
    \/ \E o \in Operators : update_check(o) \/ update_row(o) \/ set_credential(o) \/ clear_credential(o)
    \/ \E w \in Workers :
          \/ _load_task(w) \/ record_task(w) \/ resolve_credential(w) \/ workspace_root(w)
          \/ clone(w) \/ handover(w) \/ spawn(w) \/ mark_finished(w)
    \/ sweep \/ Tick \/ Rekey \/ Obstruct

RunnersSpec == RunnersInit /\ [][RunnersNext]_runnerVars

-----------------------------------------------------------------------------
(* Properties.                                                             *)

\* Two repositories never share a work root (update, _create): holds while one
\* operator edits and no explicit path lies under runners/.
WorkspacesApart ==
    \A r, s \in DOMAIN rows : r # s => _effective_subdir(rows[r]) # _effective_subdir(rows[s])

\* Untrusted code has the worker's uid only when no identity is configured, and
\* under the sandbox uid it can reach its directory through every ancestor,
\* whoever made or re-made them in between.
UntrustedApart ==
    \A w \in Workers : act[w].pc = "running" =>
        /\ act[w].uid = "worker" <=> sandbox.conf = "unset"
        /\ act[w].uid = "sandbox" => \A p \in Prefixes(workdir(w)) : Real(p) /\ dirs[p].group

\* No two tasks at work are in one directory, or in each other's.
CheckoutsApart ==
    \A v, w \in Workers : v # w /\ act[v].pc = "running" /\ act[w].pc = "running" =>
        ~IsPrefix(workdir(v), workdir(w))

\* Whatever operators set while tasks run, no workspace holds another's, a run's
\* code acts as the user the deployment asked for, and two runs share no checkout
\* (repo_runner.py, sandbox_identity.py, agent_runner.py).
RunnersTrue == WorkspacesApart /\ UntrustedApart /\ CheckoutsApart

\* A stored row uses its own token exactly when it holds one (set_credential,
\* clear_credential): not so when the two overlap.
CredentialCoherent == \A r \in DOMAIN rows : rows[r].kind = "repo" <=> rows[r].seal # NoSeal

\* After the documented sweep no directory is left that finished a retention
\* period before it (docker/runner/README.md section 5).
SweepReclaims == swept # Never => \A p \in DOMAIN dirs : dirs[p].done # Never => dirs[p].done > swept - RETENTION
=============================================================================
