------------------------------- MODULE Webhook -------------------------------
(***************************************************************************)
(* The forge's webhook: backend/routes/repo_webhook.py, with the curator's *)
(* rate gate and the suite snapshots of backend/services/check_store.py    *)
(* and the curator task of backend/services/check_curator.py.              *)
(*                                                                         *)
(* Forgejo may deliver one signed body any number of times, to several     *)
(* worker processes at once.  A handler is a sequence of database round    *)
(* trips: what it read in one is used in the next ones.  The worker that   *)
(* runs a task appears by what it stores: the findings its review run saw, *)
(* the proposal of a curator task, and, later, the pull request's link.    *)
(***************************************************************************)
EXTENDS Naturals, Sequences, FiniteSets, SequencesExt

CONSTANTS
    Handlers,     \* requests in flight
    Commits,      \* heads pushed to the default branch
    Issues,       \* issues that carry the agent label
    Marks,        \* findings
    Settings,     \* repos.curator and repos.auto_review values considered
    Cooldown,     \* is curator_min_interval_seconds positive?
    Ceiling,      \* tasks a repository may have in flight
    MaxTasks,     \* bound: tasks ever queued
    MaxPosts,     \* bound: requests Forgejo sends
    MaxFaults     \* bound: database faults and handlers that die

ASSUME WebhookAssumption ==
    /\ Settings \subseteq [curator : {"off", "bootstrap", "auto"}, auto_review : BOOLEAN]
    /\ Cooldown \in BOOLEAN
    /\ \A n \in {Ceiling, MaxTasks, MaxPosts, MaxFaults} : n \in Nat

VARIABLES
    imported,    \* the repository has a row
    settings,    \* repos.curator, repos.auto_review
    seen,        \* webhook_deliveries
    queue,       \* agent_tasks, oldest first
    proposed,    \* an AI suite snapshot exists
    marks,       \* findings: first_seen_run, last_seen_run, pr_url
    hook,        \* hook[h]: what handler h is doing
    posts, faults,
    unguarded,   \* bodies accepted while the deliveries table was unreachable
    owed,        \* <<body, kind>> planned, and not yet queued, refused or lost to a fault
    seers        \* seers[f]: tasks whose run saw f

webhookVars == <<imported, settings, seen, queue, proposed, marks, hook, posts, faults,
                 unguarded, owed, seers>>
Ledger == <<posts, faults, unguarded, owed, seers>>

\* What parse_event makes of the bodies the platform acts on; a side branch
\* and a deleted branch stand for every body it ignores.
Body == [kind : {"push"}, on : Commits] \cup [kind : {"issues"}, on : Issues]
        \cup [kind : {"merged"}, on : 1 .. MaxTasks] \cup [kind : {"branch"}, on : {0}]

\* A row holds the digest of the signed body.
WebhookDelivery == Body

Waiting == [pc |-> "idle", body |-> [kind |-> "branch", on |-> 0], todo |-> <<>>]

WebhookInit ==
    /\ imported \in BOOLEAN /\ settings \in Settings
    /\ seen = {} /\ queue = <<>> /\ proposed = FALSE
    /\ marks = [f \in Marks |-> [first |-> 0, last |-> 0, pr |-> 0]]
    /\ hook = [h \in Handlers |-> Waiting]
    /\ posts = 0 /\ faults = 0
    /\ unguarded = {} /\ owed = {} /\ seers = [f \in Marks |-> {}]

At(h, pc) == hook[h].pc = pc
Answer(h) == hook' = [hook EXCEPT ![h] = Waiting]
Open(k) == queue[k].status = "active"

-----------------------------------------------------------------------------
(* One delivery.                                                           *)

\* A merge is announced once the pull request exists.
Postable(b) == b.kind = "merged" => b.on \in DOMAIN queue /\ queue[b.on].pr # "none"

\* A body with a bad signature is answered 401 and changes nothing.
verify_signature(h) ==
    /\ At(h, "idle") /\ posts < MaxPosts
    /\ posts' = posts + 1
    /\ \E b \in Body :
         Postable(b) /\ hook' = [hook EXCEPT ![h] = [Waiting EXCEPT !.pc = "seen", !.body = b]]
    /\ UNCHANGED <<imported, settings, seen, queue, proposed, marks, faults, unguarded,
                   owed, seers>>

\* An unreadable table counts as not seen.
delivery_seen(h) ==
    /\ At(h, "seen")
    /\ \/ /\ IF hook[h].body \in seen THEN Answer(h)
             ELSE hook' = [hook EXCEPT ![h].pc = "claim"]
          /\ UNCHANGED faults
       \/ /\ faults < MaxFaults /\ faults' = faults + 1
          /\ hook' = [hook EXCEPT ![h].pc = "claim"]
    /\ UNCHANGED <<imported, settings, seen, queue, proposed, marks, posts, unguarded,
                   owed, seers>>

claim_delivery_after_check(h) ==
    /\ At(h, "claim")
    /\ IF imported
       THEN /\ hook' = [hook EXCEPT ![h].pc = "gate"] /\ seen' = seen \cup {hook[h].body}
       ELSE Answer(h) /\ UNCHANGED seen
    /\ UNCHANGED <<imported, settings, queue, proposed, marks, Ledger>>

\* resolve_repo, then the insert whose unique key decides; any other fault of
\* the insert lets the request through.
claim_delivery(h) ==
    LET b == hook[h].body IN
    /\ At(h, "claim")
    /\ \/ /\ ~imported \/ b \in seen
          /\ Answer(h)
          /\ UNCHANGED <<seen, faults, unguarded>>
       \/ /\ imported /\ b \notin seen
          /\ seen' = seen \cup {b}
          /\ hook' = [hook EXCEPT ![h].pc = "gate"]
          /\ UNCHANGED <<faults, unguarded>>
       \/ /\ imported /\ faults < MaxFaults
          /\ faults' = faults + 1 /\ unguarded' = unguarded \cup {b}
          /\ hook' = [hook EXCEPT ![h].pc = "gate"]
          /\ UNCHANGED seen
    /\ UNCHANGED <<imported, settings, queue, proposed, marks, posts, owed, seers>>

-----------------------------------------------------------------------------
(* What a delivery asks for.                                               *)

Checks == {k \in DOMAIN queue : queue[k].kind = "checks"}

curator_should_enqueue_cooldown_only ==
    /\ settings.curator = "bootstrap" => ~proposed
    /\ \A k \in Checks : ~queue[k].fresh

curator_should_enqueue ==
    /\ \A k \in Checks : ~Open(k)
    /\ settings.curator = "bootstrap" => ~proposed
    /\ \A k \in Checks : ~queue[k].fresh

\* The kinds of task and their dedup keys, in the order they are queued.
plan_actions(b, allowed) ==
    CASE b.kind = "push" ->
           (IF settings.auto_review THEN <<[kind |-> "review", key |-> b.on]>> ELSE <<>>) \o
           (IF settings.curator \in {"bootstrap", "auto"} /\ allowed
            THEN <<[kind |-> "checks", key |-> b.on]>> ELSE <<>>)
      [] b.kind = "issues" -> <<[kind |-> "fix", key |-> b.on]>>
      [] OTHER -> <<>>

\* The gate is read for pushes only, before anything of this delivery is queued.
curator_enqueue_allowed(h) ==
    LET b == hook[h].body
        ok == b.kind = "push" => curator_should_enqueue IN
    /\ At(h, "gate")
    /\ hook' = [hook EXCEPT ![h].todo = plan_actions(b, ok),
                            ![h].pc = IF plan_actions(b, ok) # <<>> THEN "enqueue" ELSE "backfill"]
    /\ owed' = owed \cup {<<b, a.kind>> : a \in ToSet(plan_actions(b, ok))}
    /\ UNCHANGED <<imported, settings, seen, queue, proposed, marks, posts, faults,
                   unguarded, seers>>

\* Inside the cooling-off interval; only curator tasks are asked about it.
Fresh(a) == Cooldown /\ a.kind = "checks"

\* The queue refuses a twin that is still active, and a full repository.
Refused(a) ==
    \/ \E k \in DOMAIN queue : Open(k) /\ queue[k].kind = a.kind /\ queue[k].key = a.key
    \/ Cardinality({k \in DOMAIN queue : Open(k)}) >= Ceiling

Advance(h, rest) ==
    hook' = [hook EXCEPT ![h].todo = rest, ![h].pc = IF rest = <<>> THEN "backfill" ELSE "enqueue"]

Task(h, a) == [kind |-> a.kind, key |-> a.key, by |-> hook[h].body, status |-> "active",
               fresh |-> Fresh(a), pr |-> "none",
               during |-> {hook[g].body : g \in {i \in Handlers \ {h} : At(i, "enqueue")}}]

enqueue_task_first_refusal_ends(h) ==
    LET a == Head(hook[h].todo) IN
    /\ At(h, "enqueue")
    /\ owed' = owed \ {<<hook[h].body, a.kind>>}
    /\ IF Refused(a) THEN Advance(h, <<>>) /\ UNCHANGED queue
       ELSE /\ Len(queue) < MaxTasks /\ queue' = Append(queue, Task(h, a))
            /\ Advance(h, Tail(hook[h].todo))
    /\ UNCHANGED <<imported, settings, seen, proposed, marks, posts, faults, unguarded, seers>>

\* A refusal or a queue fault is noted and the next action is still tried.
enqueue_task(h) ==
    LET a == Head(hook[h].todo) IN
    /\ At(h, "enqueue")
    /\ Advance(h, Tail(hook[h].todo))
    /\ owed' = owed \ {<<hook[h].body, a.kind>>}
    /\ \/ /\ ~Refused(a) /\ Len(queue) < MaxTasks
          /\ queue' = Append(queue, Task(h, a))
          /\ UNCHANGED faults
       \/ Refused(a) /\ UNCHANGED <<queue, faults>>
       \/ faults < MaxFaults /\ faults' = faults + 1 /\ UNCHANGED queue
    /\ UNCHANGED <<imported, settings, seen, proposed, marks, posts, unguarded, seers>>

\* Findings without a link that a run of the pull request's task saw first or last.
Linkable(k) == {f \in Marks : marks[f].pr = 0 /\ k \in {marks[f].first, marks[f].last}}
LinkableAny(k) == {f \in Marks : marks[f].pr = 0 /\ marks[f].first # 0}

Linked(k) == k \in DOMAIN queue /\ queue[k].pr = "linked"

backfill_pr_url_unscoped(h) ==
    LET b == hook[h].body IN
    /\ At(h, "backfill") /\ Answer(h)
    /\ marks' = IF b.kind = "merged" /\ Linked(b.on)
                THEN [f \in Marks |-> IF f \in LinkableAny(b.on)
                                      THEN [marks[f] EXCEPT !.pr = b.on] ELSE marks[f]]
                ELSE marks
    /\ UNCHANGED <<imported, settings, seen, queue, proposed, Ledger>>

\* A merge whose link the worker has not stored yet finds no task.
backfill_pr_url(h) ==
    LET b == hook[h].body IN
    /\ At(h, "backfill") /\ Answer(h)
    /\ marks' = IF b.kind = "merged" /\ Linked(b.on)
                THEN [f \in Marks |-> IF f \in Linkable(b.on)
                                      THEN [marks[f] EXCEPT !.pr = b.on] ELSE marks[f]]
                ELSE marks
    /\ UNCHANGED <<imported, settings, seen, queue, proposed, Ledger>>

HandlerDies(h) ==
    /\ ~At(h, "idle") /\ faults < MaxFaults /\ faults' = faults + 1
    /\ owed' = owed \ {<<hook[h].body, a.kind>> : a \in ToSet(hook[h].todo)}
    /\ Answer(h)
    /\ UNCHANGED <<imported, settings, seen, queue, proposed, marks, posts, unguarded, seers>>

-----------------------------------------------------------------------------
(* The worker's side, and the rest of the platform.                        *)

\* _make_ingest commits what the task's review run saw.
ingest_run(k) ==
    /\ Open(k) /\ queue[k].pr = "none"
    /\ \E f \in Marks :
         /\ k \notin seers[f]
         /\ marks' = [marks EXCEPT ![f].last = k, ![f].first = IF @ = 0 THEN k ELSE @]
         /\ seers' = [seers EXCEPT ![f] = @ \cup {k}]
    /\ UNCHANGED <<imported, settings, seen, queue, proposed, hook, posts, faults,
                   unguarded, owed>>

\* The pull request is public before the worker stores its link.
publish_run(k) ==
    /\ Open(k) /\ queue[k].pr = "none"
    /\ queue' = [queue EXCEPT ![k].pr = "public"]
    /\ UNCHANGED <<imported, settings, seen, proposed, marks, hook, Ledger>>

_record_pr_link(k) ==
    /\ queue[k].pr = "public"
    /\ queue' = [queue EXCEPT ![k].pr = "linked"]
    /\ UNCHANGED <<imported, settings, seen, proposed, marks, hook, Ledger>>

\* The task settles; a curator task whose run proposed a suite leaves a snapshot.
record_check_artifacts(k) ==
    /\ Open(k) /\ queue[k].pr # "public"
    /\ queue' = [queue EXCEPT ![k].status = "done"]
    /\ \/ queue[k].kind = "checks" /\ proposed' = TRUE
       \/ UNCHANGED proposed
    /\ UNCHANGED <<imported, settings, seen, marks, hook, Ledger>>

\* The interval since the task was created is over.
Cooled(k) ==
    /\ queue[k].fresh /\ queue' = [queue EXCEPT ![k].fresh = FALSE]
    /\ UNCHANGED <<imported, settings, seen, proposed, marks, hook, Ledger>>

import_repo ==
    /\ ~imported /\ imported' = TRUE
    /\ UNCHANGED <<settings, seen, queue, proposed, marks, hook, Ledger>>

\* The steps of one request, in this order.
forgejo_webhook(h) ==
    \/ verify_signature(h) \/ delivery_seen(h) \/ claim_delivery(h)
    \/ curator_enqueue_allowed(h) \/ enqueue_task(h) \/ backfill_pr_url(h)

WebhookNext ==
    \/ \E h \in Handlers : forgejo_webhook(h) \/ HandlerDies(h)
    \/ \E k \in DOMAIN queue :
         ingest_run(k) \/ publish_run(k) \/ _record_pr_link(k) \/ record_check_artifacts(k) \/ Cooled(k)
    \/ import_repo

WebhookSpec == WebhookInit /\ [][WebhookNext]_webhookVars

-----------------------------------------------------------------------------
(* Properties.                                                             *)

WebhookTypeOK ==
    /\ seen \subseteq WebhookDelivery /\ Len(queue) <= MaxTasks
    /\ \A k \in DOMAIN queue : queue[k].by \in Body /\ queue[k].fresh \in BOOLEAN
    /\ marks \in [Marks -> [first : 0 .. MaxTasks, last : 0 .. MaxTasks, pr : 0 .. MaxTasks]]
    /\ \A h \in Handlers : hook[h].body \in Body

\* A replay costs nothing: however often a body is delivered, and to however
\* many processes, it queues each kind of task at most once, unless the
\* deliveries table could not be written (claim_delivery's unique insert).
AtMostOnce ==
    \A j, k \in DOMAIN queue :
        j # k /\ queue[j].by = queue[k].by /\ queue[j].kind = queue[k].kind
            => queue[j].by \in unguarded

\* Every task planned for a body is queued, refused by the queue, or lost to a
\* crash or a fault: one refusal never costs the delivery its other task (the
\* loop over plan_actions in forgejo_webhook).
NothingSkipped ==
    \A p \in owed : \E h \in Handlers :
        hook[h].body = p[1] /\ \E a \in ToSet(hook[h].todo) : a.kind = p[2]

\* Two curator proposals are open together only if the second delivery had
\* already passed the gate when the first was queued: the gate lets a burst
\* through only to requests that race it (curator_should_enqueue).
ProposalsRaced ==
    \A j, k \in Checks : j < k /\ Open(j) /\ Open(k) => queue[k].by \in queue[j].during

\* A finding is linked to a pull request only if a run of the task that made
\* the pull request saw the finding, whatever order the merge, the link and
\* the ingests arrive in (backfill_pr_url).
LinkedBySeer == \A f \in Marks : marks[f].pr # 0 => marks[f].pr \in seers[f]

\* What a delivery plans is queued once, whatever is replayed, refused or lost
\* beside it; only racing pushes propose checks twice; and a merge links its
\* pull request to findings its own task saw.
DeliveriesTrue == WebhookTypeOK /\ AtMostOnce /\ NothingSkipped /\ ProposalsRaced /\ LinkedBySeer

\* What curator_should_enqueue says it keeps: one proposal in flight.
OneProposal == Cardinality({k \in Checks : Open(k)}) <= 1
=============================================================================
