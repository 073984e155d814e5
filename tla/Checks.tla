------------------------------- MODULE Checks -------------------------------
(***************************************************************************)
(* Who judges an agent's change (services/gates.py, check_suite.py,        *)
(* check_discovery.py, check_validation.py, check_curator.py,              *)
(* check_trust.py, review_policy.py and the policy half of                 *)
(* agent_runner.py): a repository that holds its own review policy and its *)
(* own checks, runs that freeze the suites of their base commit, let a     *)
(* model edit the checkout, guard the edited paths, judge the result and   *)
(* open a pull request, and people who merge, commit and let time pass.    *)
(* A file's content is abstracted to what running it shows: a "sharp"      *)
(* check fails exactly when the source is bad, a "blunt" one never fails,  *)
(* an "unportable" one fails wherever it is not run in a full checkout.    *)
(***************************************************************************)
EXTENDS Integers, Sequences, FiniteSets

CONSTANTS
    Kinds,          \* task kinds: "review", "fix", "checks"
    Scripts,        \* what a check may be: "", "sharp", "blunt", "unportable"
    Manifests,      \* what .agent/checks/checks.yml may be
    Policies,       \* what .agent/review-policy.yml may be: NoPolicy or a document
    Overrides,      \* OPENFISH_AGENT_PR_POLICY: "" or a policy
    SeedTimesOut,   \* may a check outlive its budget on a seeded copy?
    MaxCheckTasks, MaxCommitted, MaxDays, MaxOpen, MaxProposals  \* bounds

ASSUME ChecksAssumption ==
    /\ Kinds \subseteq {"review", "fix", "checks"} /\ SeedTimesOut \in BOOLEAN
    /\ {MaxCheckTasks, MaxCommitted, MaxDays, MaxOpen, MaxProposals} \subseteq Nat

VARIABLES
    tree,       \* the default branch: a file's content by name
    checkDay,
    task,       \* the run in progress
    pulls,      \* pull requests its predecessors opened
    override,   \* the deployment's pr policy
    tasks, committed

checksVars == <<tree, checkDay, task, pulls, override, tasks, committed>>

NoPolicyDoc == [checks |-> FALSE, pr_policy |-> "", auto_fix |-> FALSE, due |-> 0]
NoTask == [pc |-> "idle"]
DEFAULT_PR_POLICY == "on_green"

-----------------------------------------------------------------------------
(* The policy.  A document whose exception is due is refused as a whole,   *)
(* and a refused document is the default view.                             *)

validate_document(doc) == doc.due > checkDay
builtin_default == [checks |-> FALSE, pr_policy |-> DEFAULT_PR_POLICY, auto_fix |-> FALSE]
parse_document(doc) == [checks |-> doc.checks, pr_policy |-> doc.pr_policy, auto_fix |-> doc.auto_fix]
load_policy(doc) ==
    IF doc # NoPolicyDoc /\ validate_document(doc) THEN parse_document(doc) ELSE builtin_default

_effective_pr_policy(policy) == IF override # "" THEN override ELSE policy.pr_policy

-----------------------------------------------------------------------------
(* Resolving the two suites from a checkout.                               *)

Check(id, file, gating) == [id |-> id, runs |-> file, gating |-> gating]
Suite(source, checks) == [source |-> source, checks |-> checks]

python_checks(t) == IF t.tests # "" THEN {Check("pytest", "tests", TRUE)} ELSE {}
makefile_checks(t) == IF t.makefile # "" THEN {Check("make:test", "makefile", TRUE)} ELSE {}
\* The first provider that yields a command wins.
discover_checks(t) == IF python_checks(t) # {} THEN python_checks(t) ELSE makefile_checks(t)
policy_checks(policy) == IF policy.checks THEN {Check("ci", "ci", TRUE)} ELSE {}

resolve_user_suite(t, policy) ==
    IF policy_checks(policy) # {} THEN Suite("policy", policy_checks(policy))
    ELSE IF discover_checks(t) # {} THEN Suite("discovery", discover_checks(t))
    ELSE Suite("unverified", {})

\* A manifest that does not parse is an empty suite; without one every
\* check_*.py is taken, unvalidated.
_load_manifest(t) ==
    IF t.manifest = "malformed" THEN {} ELSE {Check("a", "script", t.manifest = "validated")}
load_agent_checks(t) ==
    Suite("agent-checks",
          IF t.manifest # "" THEN _load_manifest(t)
          ELSE IF t.script # "" THEN {Check("a", "script", FALSE)} ELSE {})

\* Two entries of one id make the suite's own validator raise.
CheckSuiteRaises(t) == t.manifest = "twice"

-----------------------------------------------------------------------------
(* Running a suite, and the verdict.                                       *)

\* late: the budget ran out; the process group is killed and the exit is 124.
run_command(check, t, copy, late) ==
    /\ ~late
    /\ CASE t[check.runs] = "sharp" -> t.source = "good"
         [] t[check.runs] = "blunt" -> TRUE
         [] t[check.runs] = "unportable" -> ~copy
         [] OTHER -> FALSE

gating(suite) == {c \in suite.checks : c.gating}
summarize(failed, passed) == IF failed # {} THEN "failed" ELSE IF passed # {} THEN "passed" ELSE "unverified"

run_suite(suite, t, late) ==
    LET passed == {c \in gating(suite) : run_command(c, t, FALSE, late)} IN
    summarize(gating(suite) \ passed, passed)

assess_assurance(user, ai) ==
    IF user # "unverified" THEN [level |-> "L2", may_open_pr |-> user = "passed"]
    ELSE IF ai # "unverified" THEN [level |-> "L1", may_open_pr |-> ai = "passed"]
    ELSE [level |-> "L0", may_open_pr |-> FALSE]

-----------------------------------------------------------------------------
(* The falsifiability validator, and what it writes into the manifest.     *)

Seeded(t) == [t EXCEPT !.source = "bad"]
validate_check_unseeded(check, t, late) == run_command(check, t, FALSE, FALSE)

validate_check(check, t, late) ==
    /\ run_command(check, t, FALSE, FALSE)
    /\ ~run_command(check, Seeded(t), TRUE, late)

apply_validations(t, late) ==
    IF t.manifest \in {"", "malformed"} THEN t
    ELSE [t EXCEPT !.manifest =
            IF \A c \in load_agent_checks(t).checks : validate_check(c, t, late) THEN "validated" ELSE "unvalidated"]

curate_workspace(t, late) == apply_validations(t, late)

-----------------------------------------------------------------------------
(* The guards over the changed paths.                                      *)

Files == {"source", "script", "manifest", "policy", "makefile", "tests", "ci"}
changed_paths(t, u) == {f \in Files : t[f] # u[f]}

suite_script_paths(suite) == {c.runs : c \in suite.checks} \cap {"ci", "script"}
FIX_PROTECTED == {"script", "manifest", "policy"}
is_test_path(f) == f = "tests"
SUITE_DECLARATION_NAMES == {"makefile"}

fix_guard_scripts_only(paths, suite) == paths \cap (FIX_PROTECTED \cup suite_script_paths(suite))

fix_guard_violations(paths, suite) ==
    {f \in paths : f \in FIX_PROTECTED \/ is_test_path(f) \/ f \in suite_script_paths(suite)
                   \/ f \in SUITE_DECLARATION_NAMES}
curator_guard_violations(paths) == {f \in paths : f \notin {"script", "manifest"} /\ ~is_test_path(f)}

_guard_task_paths(r) ==
    IF r.kind = "checks" THEN curator_guard_violations(changed_paths(r.base, r.work)) = {}
    ELSE fix_guard_violations(changed_paths(r.base, r.work), r.user) = {}

-----------------------------------------------------------------------------
(* A run.                                                                  *)

Trees == [source : {"good", "bad"}, script : Scripts, manifest : Manifests, policy : Policies,
          makefile : Scripts, tests : Scripts, ci : Scripts]

ChecksInit ==
    /\ tree \in {t \in Trees : t.script = "" /\ t.manifest = "" /\ t.ci = "sharp" /\ t.source = "good"
                               /\ t.tests \in {"", "sharp"} /\ t.makefile \in {"", "sharp"}
                               /\ ~(t.tests # "" /\ t.makefile # "")}
    /\ checkDay = 0 /\ task = NoTask /\ pulls = {} /\ override \in Overrides
    /\ tasks = 0 /\ committed = 0

\* Clone, read the policy, resolve both suites and freeze them; nothing is
\* resolved again from the edited tree.
starts(kind) ==
    /\ task.pc = "idle" /\ tasks < MaxCheckTasks /\ tasks' = tasks + 1 /\ Cardinality(pulls) < MaxOpen
    /\ kind = "checks" => Cardinality({p \in pulls : p.kind = "checks"}) < MaxProposals
    /\ LET policy == load_policy(tree.policy) IN
       task' = IF CheckSuiteRaises(tree) THEN NoTask
               ELSE [pc |-> "gates", kind |-> kind, base |-> tree, work |-> tree, policy |-> policy,
                     user |-> resolve_user_suite(tree, policy), ai |-> load_agent_checks(tree),
                     verdict |-> <<"unverified", "unverified">>]
    /\ UNCHANGED <<tree, checkDay, pulls, override, committed>>

Verdict(r, t, late) == <<run_suite(r.user, t, late), run_suite(r.ai, t, late)>>

run_gates ==
    /\ task.pc = "gates"
    /\ \E late \in BOOLEAN :
        task' = [task EXCEPT !.pc = "review", !.verdict = Verdict(task, task.base, late)]
    /\ UNCHANGED <<tree, checkDay, pulls, override, tasks, committed>>

\* What a model may leave in the checkout: one file, or a check and its entry.
Write(t, f, x, g, y) == [h \in Files |-> IF h = f THEN x ELSE IF h = g THEN y ELSE t[h]]
Edited(t) ==
    {Write(t, "script", x, "source", s) : x \in Scripts, s \in {"good", "bad"}}
    \cup {Write(t, "script", x, "manifest", m) : x \in Scripts, m \in Manifests}
    \cup {Write(t, f, x, "source", s) : f \in {"makefile", "tests", "ci"}, x \in Scripts, s \in {"good", "bad"}}
    \cup {Write(t, "policy", p, "policy", p) : p \in Policies}

review ==
    /\ task.pc = "review"
    /\ \E t \in Edited(task.base), late \in BOOLEAN :
        /\ late => SeedTimesOut
        /\ task' = IF task.kind = "checks" /\ CheckSuiteRaises(t) THEN NoTask
                   ELSE [task EXCEPT !.pc = "publish",
                            !.work = IF task.kind = "checks" THEN curate_workspace(t, late) ELSE t]
    /\ UNCHANGED <<tree, checkDay, pulls, override, tasks, committed>>

escalate(r) == r.kind = "review" /\ r.policy.auto_fix /\ r.verdict[1] = "failed"
writes_source(r) == r.kind \in {"fix", "checks"} \/ escalate(r)

\* The guard, the commit (an empty one is refused), under on_green the frozen
\* suites once more over the committed tree, then the push and the pull request.
publish ==
    /\ task.pc = "publish" /\ task' = NoTask
    /\ LET rule == _effective_pr_policy(task.policy)
           fresh == rule = "on_green" /\ task.kind # "checks"
           opens == /\ writes_source(task) /\ _guard_task_paths(task)
                    /\ rule # "never" /\ task.work # task.base IN
       \E late \in BOOLEAN :
        LET verdict == IF fresh THEN Verdict(task, task.work, late) ELSE task.verdict
            assurance == assess_assurance(verdict[1], verdict[2]) IN
        /\ late => fresh
        /\ pulls' = IF ~opens \/ (fresh /\ ~assurance.may_open_pr) THEN pulls
                    ELSE pulls \cup {[kind |-> task.kind, base |-> task.base, work |-> task.work, rule |-> rule,
                                      user |-> task.user, ai |-> task.ai, body |-> verdict, level |-> assurance.level]}
    /\ UNCHANGED <<tree, checkDay, override, tasks, committed>>

-----------------------------------------------------------------------------
(* People.                                                                 *)

Merges(p) ==
    /\ \A f \in changed_paths(p.base, p.work) : tree[f] = p.base[f]
    /\ tree' = [f \in Files |-> IF p.work[f] # p.base[f] THEN p.work[f] ELSE tree[f]]
    /\ pulls' = pulls \ {p}
    /\ UNCHANGED <<checkDay, task, override, tasks, committed>>

Closes(p) == pulls' = pulls \ {p} /\ UNCHANGED <<tree, checkDay, task, override, tasks, committed>>

SuiteCommits ==
    /\ committed < MaxCommitted /\ committed' = committed + 1
    /\ \/ \E s \in {"good", "bad"} : tree' = [tree EXCEPT !.source = s]
       \/ \E p \in Policies : validate_document(p) /\ tree' = [tree EXCEPT !.policy = p]
       \/ \E m \in Manifests \cap {"malformed", "twice"} : tree' = [tree EXCEPT !.manifest = m]
       \/ tree' = [tree EXCEPT !.makefile = "sharp"]
    /\ UNCHANGED <<checkDay, task, pulls, override, tasks>>

DayPasses ==
    /\ checkDay < MaxDays /\ task.pc = "idle" /\ checkDay' = checkDay + 1
    /\ UNCHANGED <<tree, task, pulls, override, tasks, committed>>

ChecksNext ==
    \/ \E kind \in Kinds : starts(kind)
    \/ run_gates \/ review \/ publish
    \/ \E p \in pulls : Merges(p) \/ Closes(p)
    \/ SuiteCommits \/ DayPasses

ChecksSpec == ChecksInit /\ [][ChecksNext]_checksVars

-----------------------------------------------------------------------------
(* Properties.                                                             *)

\* "One run may never both produce a fix and weaken the checks that judge it":
\* a pull request that on_green opened passes every gating check its base had,
\* as the base had them, over the source it publishes (_guard_task_paths).
JudgedFairly ==
    \A p \in pulls : p.kind # "checks" /\ p.rule = "on_green" =>
        LET judges == IF gating(p.user) # {} THEN gating(p.user) ELSE gating(p.ai)
            unweakened == [p.base EXCEPT !.source = p.work.source] IN
        judges # {} /\ \A c \in judges : run_command(c, unweakened, FALSE, FALSE)

\* "A check earns the right to gate by demonstrating it can fail": whatever the
\* model wrote in its proposal, an entry the default branch calls validated is
\* a check that tells a good source from a bad one (validate_check).
ValidatedCanTell == tree.manifest = "validated" => tree.script = "sharp"

\* Nobody edits the judge in passing: only a proposal changes the AI suite, and
\* a proposal changes nothing but it and the tests (curator_guard_violations).
RolesApart ==
    \A p \in pulls : IF p.kind = "checks" THEN p.work.source = p.base.source /\ p.work.policy = p.base.policy
                     ELSE p.work.script = p.base.script /\ p.work.manifest = p.base.manifest

\* What a run publishes was judged by the checks of its base and not by checks it
\* wrote itself, a check called validated has told a good tree from a bad one,
\* and no run changes both code and checks (agent_runner.py, check_curator.py).
SuiteHolds == JudgedFairly /\ ValidatedCanTell /\ RolesApart

\* "never: only findings, no commit, push or pull request": a repository that
\* says so gets none (docker/runner/README.md, _effective_pr_policy).
NeverMeansNever == \A p \in pulls : override = "" => p.base.policy.pr_policy # "never"

\* "Pasting a green base summary into the PR would claim a state the fix has
\* not earned": the body shows what the suites say of what is published.
BodyEarned ==
    \A p \in pulls : p.kind # "checks" /\ p.body[1] = "passed" =>
        \A c \in gating(p.user) : run_command(c, p.work, FALSE, FALSE)
=============================================================================
