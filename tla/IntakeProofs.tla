----------------------------- MODULE IntakeProofs -----------------------------
(***************************************************************************)
(* Proofs about the forge's webhook, the findings table, the suites that   *)
(* judge an agent's change and the device flow.                            *)
(*                                                                         *)
(* Deliveries: a body belongs to the handler whose insert claimed it, as   *)
(* long as the deliveries table could be written; what that handler still  *)
(* has to queue has not been queued.                                       *)
(*                                                                         *)
(* Findings: a transaction that saw a row unchanged until its commit       *)
(* leaves a row its event describes; every other one marks the row as      *)
(* overlapped.                                                             *)
(*                                                                         *)
(* Suites: a run is judged by what it froze of its base, its guard keeps   *)
(* the files those checks read as they were, and at most one proposal to   *)
(* change them is open, over a suite that is still the branch's.           *)
(*                                                                         *)
(* Devices: the document and every snapshot of it are well formed however  *)
(* many stores there are; with one store a thread inside the critical      *)
(* section sees the document as it is, and then each key is in one place   *)
(* at a time: with the thread that minted it, in one entry, with the poll  *)
(* that took it, or handed out.                                            *)
(***************************************************************************)
EXTENDS Webhook, Findings, Checks, DeviceAuth, FiniteSetTheorems, SequenceTheorems, TLAPS

TaskKinds == {"review", "checks", "fix"}
Action == [kind : TaskKinds, key : Commits \cup Issues]
QueuedTask == [kind : TaskKinds, key : Commits \cup Issues, by : Body, status : {"active", "done"},
               fresh : BOOLEAN, pr : {"none", "public", "linked"}, during : SUBSET Body]
Mark == [first : 0 .. MaxTasks, last : 0 .. MaxTasks, pr : 0 .. MaxTasks]
Handler == [pc : {"idle", "seen", "claim", "gate", "enqueue", "backfill"}, body : Body,
            todo : Seq(Action)]

\* Handlers past claim_delivery.
Accepted == {"gate", "enqueue", "backfill"}

WebhookTypes ==
    /\ imported \in BOOLEAN /\ settings \in Settings /\ proposed \in BOOLEAN
    /\ seen \subseteq Body /\ unguarded \subseteq Body
    /\ queue \in Seq(QueuedTask) /\ Len(queue) <= MaxTasks
    /\ marks \in [Marks -> Mark] /\ seers \in [Marks -> SUBSET (1 .. MaxTasks)]
    /\ hook \in [Handlers -> Handler]
    /\ posts \in Nat /\ faults \in Nat /\ owed \subseteq Body \X TaskKinds

\* A handler has something to queue in the enqueue loop only, and at most one
\* task of a kind.
Todos ==
    \A h \in Handlers :
        /\ hook[h].todo = <<>> <=> hook[h].pc # "enqueue"
        /\ \A i, j \in DOMAIN hook[h].todo : hook[h].todo[i].kind = hook[h].todo[j].kind => i = j

\* A guarded body is with one handler, and in the table.
Claimed ==
    /\ \A h \in Handlers : hook[h].pc \in Accepted => hook[h].body \in seen \cup unguarded
    /\ \A g, h \in Handlers :
         hook[g].pc \in Accepted /\ hook[h].pc \in Accepted /\ hook[g].body = hook[h].body
             => g = h \/ hook[h].body \in unguarded
    /\ \A k \in DOMAIN queue : queue[k].by \in seen \cup unguarded

\* What the handler of a guarded body has not done is not in the queue.
Unqueued ==
    \A h \in Handlers, k \in DOMAIN queue : queue[k].by = hook[h].body =>
        /\ hook[h].pc = "gate" => hook[h].body \in unguarded
        /\ \A i \in DOMAIN hook[h].todo :
             hook[h].todo[i].kind = queue[k].kind => hook[h].body \in unguarded

\* A handler that still has to queue a proposal was in the loop when the
\* proposals that are open now were queued.
Racing ==
    \A h \in Handlers, k \in Checks : Open(k) =>
        \A i \in DOMAIN hook[h].todo :
            hook[h].todo[i].kind = "checks" => hook[h].body \in queue[k].during

\* The runs that saw a finding first and last saw it.
Seen ==
    \A f \in Marks : /\ marks[f].first # 0 => marks[f].first \in seers[f]
                     /\ marks[f].last # 0 => marks[f].last \in seers[f]

WInv ==
    /\ WebhookTypes /\ Todos /\ Claimed /\ Unqueued /\ Racing /\ Seen
    /\ AtMostOnce /\ NothingSkipped /\ ProposalsRaced /\ LinkedBySeer

-----------------------------------------------------------------------------
(* Sequences.                                                              *)

\* The rows of a queue after one more was appended.
LEMMA Appended ==
    ASSUME NEW S, NEW s \in Seq(S), NEW x \in S
    PROVE  /\ Append(s, x) \in Seq(S) /\ Len(s) \in Nat /\ Len(Append(s, x)) = Len(s) + 1
           /\ DOMAIN s = 1 .. Len(s) /\ DOMAIN Append(s, x) = 1 .. Len(s) + 1
           /\ \A i \in 1 .. Len(s) : Append(s, x)[i] = s[i]
           /\ Append(s, x)[Len(s) + 1] = x
OBVIOUS

\* The list of actions after its first one was taken.
LEMMA Taken ==
    ASSUME NEW S, NEW s \in Seq(S), s # <<>>
    PROVE  /\ Tail(s) \in Seq(S) /\ Head(s) \in S /\ Head(s) = s[1] /\ 1 \in DOMAIN s
           /\ \A i \in DOMAIN Tail(s) : i + 1 \in DOMAIN s /\ Tail(s)[i] = s[i + 1] /\ i \in Nat
           /\ \A i \in DOMAIN s : i # 1 => i - 1 \in DOMAIN Tail(s) /\ Tail(s)[i - 1] = s[i]
<1>1. Tail(s) \in Seq(S) /\ Len(s) \in Nat /\ Len(s) # 0 /\ Len(Tail(s)) = Len(s) - 1
      /\ DOMAIN s = 1 .. Len(s) /\ DOMAIN Tail(s) = 1 .. Len(s) - 1
  OBVIOUS
<1>2. \A i \in 1 .. Len(s) - 1 : Tail(s)[i] = s[i + 1]
  OBVIOUS
<1>3. Head(s) = s[1] /\ s[1] \in S
  BY <1>1
<1> QED BY <1>1, <1>2, <1>3

\* A row of the queue is a task.
LEMMA RowTypes ==
    ASSUME WebhookTypes, NEW k \in DOMAIN queue
    PROVE  queue[k] \in QueuedTask /\ k \in 1 .. MaxTasks /\ DOMAIN queue = 1 .. Len(queue)
BY WebhookAssumption DEF WebhookTypes

\* A handler that waits is one.
LEMMA WaitingType == /\ Waiting \in Handler /\ Waiting.pc = "idle" /\ Waiting.todo = <<>>
                     /\ [kind |-> "branch", on |-> 0] \in Body
<1>1. [kind |-> "branch", on |-> 0] \in Body
  BY DEF Body
<1>2. <<>> \in Seq(Action)
  OBVIOUS
<1> QED BY <1>1, <1>2 DEF Waiting, Handler

-----------------------------------------------------------------------------
(* What the parts of the invariant need of a step.                         *)

\* The parts that do not speak of marks.
Deliveries == /\ Todos /\ Claimed /\ Unqueued /\ Racing
              /\ AtMostOnce /\ NothingSkipped /\ ProposalsRaced
Links == Seen /\ LinkedBySeer

LEMMA LinksStay ==
    ASSUME WInv, UNCHANGED <<marks, seers>> PROVE Links'
BY DEF WInv, Links, Seen, LinkedBySeer

\* A handler is where nothing is owed or queued: it waits, or it has not
\* claimed its body.
LEMMA Leaves ==
    ASSUME WInv, NEW h \in Handlers, NEW x \in Handler, hook' = [hook EXCEPT ![h] = x],
           x.pc \notin Accepted, x.todo = <<>>, UNCHANGED <<queue, seen, unguarded>>,
           owed' = owed \ {<<hook[h].body, a.kind>> : a \in ToSet(hook[h].todo)}
    PROVE  Deliveries' /\ hook' \in [Handlers -> Handler]
<1> USE DEF WInv
<1>1. /\ hook'[h] = x /\ hook' \in [Handlers -> Handler]
      /\ \A g \in Handlers : g # h => hook'[g] = hook[g]
  BY DEF WebhookTypes
<1>2. Todos'
  BY <1>1 DEF Todos, Accepted
<1>3. Claimed'
  BY <1>1 DEF Claimed
<1>4. DOMAIN x.todo = {}
  OBVIOUS
<1>5. Unqueued'
  <2> SUFFICES ASSUME NEW g \in Handlers, NEW k \in DOMAIN queue, queue[k].by = hook'[g].body
               PROVE  /\ hook'[g].pc = "gate" => hook'[g].body \in unguarded
                      /\ \A i \in DOMAIN hook'[g].todo :
                           hook'[g].todo[i].kind = queue[k].kind => hook'[g].body \in unguarded
    BY DEF Unqueued
  <2>1. CASE g = h
    BY <1>1, <1>4, <2>1 DEF Accepted
  <2>2. CASE g # h
    BY <1>1, <2>2 DEF Unqueued
  <2> QED BY <2>1, <2>2
<1>6. Racing'
  <2> SUFFICES ASSUME NEW g \in Handlers, NEW k \in Checks, Open(k),
                      NEW i \in DOMAIN hook'[g].todo, hook'[g].todo[i].kind = "checks"
               PROVE  hook'[g].body \in queue[k].during
    BY DEF Racing, Checks, Open
  <2>1. g # h
    BY <1>1, <1>4
  <2> QED BY <1>1, <2>1 DEF Racing
<1>7. NothingSkipped'
  <2> SUFFICES ASSUME NEW p \in owed'
               PROVE  \E g \in Handlers : hook'[g].body = p[1]
                          /\ \E a \in ToSet(hook'[g].todo) : a.kind = p[2]
    BY DEF NothingSkipped
  <2>1. PICK g \in Handlers : hook[g].body = p[1] /\ \E a \in ToSet(hook[g].todo) : a.kind = p[2]
    BY DEF NothingSkipped
  <2>2. g # h
    <3>1. p = <<p[1], p[2]>>
      BY DEF WebhookTypes
    <3>2. p \notin {<<hook[h].body, a.kind>> : a \in ToSet(hook[h].todo)}
      OBVIOUS
    <3> QED BY <2>1, <3>1, <3>2
  <2> QED BY <1>1, <2>1, <2>2
<1>8. AtMostOnce' /\ ProposalsRaced'
  BY DEF AtMostOnce, ProposalsRaced, Checks, Open
<1> QED BY <1>1, <1>2, <1>3, <1>5, <1>6, <1>7, <1>8 DEF Deliveries

\* One column of a task changes; an active task may settle.
LEMMA TaskChanges ==
    ASSUME WInv, NEW k \in DOMAIN queue, NEW y \in QueuedTask, queue' = [queue EXCEPT ![k] = y],
           y.kind = queue[k].kind, y.by = queue[k].by, y.during = queue[k].during,
           y.status = "active" => queue[k].status = "active",
           UNCHANGED <<hook, seen, unguarded, owed>>
    PROVE  Deliveries' /\ queue' \in Seq(QueuedTask) /\ Len(queue') = Len(queue)
<1> USE DEF WInv
<1>1. /\ queue' \in Seq(QueuedTask) /\ Len(queue') = Len(queue)
      /\ DOMAIN queue' = DOMAIN queue /\ queue'[k] = y
      /\ \A j \in DOMAIN queue : j # k => queue'[j] = queue[j]
  BY DEF WebhookTypes
<1>2. \A j \in DOMAIN queue :
        /\ queue'[j].kind = queue[j].kind /\ queue'[j].by = queue[j].by
        /\ queue'[j].during = queue[j].during
        /\ queue'[j].status = "active" => queue[j].status = "active"
  BY <1>1
<1>3. Todos' /\ Claimed' /\ NothingSkipped'
  BY <1>1, <1>2 DEF Todos, Claimed, NothingSkipped
<1>4. Unqueued' /\ AtMostOnce'
  BY <1>1, <1>2 DEF Unqueued, AtMostOnce
<1>5. Racing' /\ ProposalsRaced'
  BY <1>1, <1>2 DEF Racing, ProposalsRaced, Checks, Open
<1> QED BY <1>1, <1>3, <1>4, <1>5 DEF Deliveries

\* Nothing a delivery is about changes.
LEMMA DeliveriesStay ==
    ASSUME WInv, UNCHANGED <<queue, hook, seen, unguarded, owed>> PROVE Deliveries'
BY DEF WInv, Deliveries, Todos, Claimed, Unqueued, Racing, AtMostOnce, NothingSkipped,
       ProposalsRaced, Checks, Open

-----------------------------------------------------------------------------
(* One lemma per step.                                                     *)

\* A request arrives: nothing is read for it yet.
LEMMA VerifyKeeps ==
    ASSUME WInv, NEW h \in Handlers, verify_signature(h) PROVE WInv'
<1> USE DEF WInv
<1>1. PICK b \in Body : hook' = [hook EXCEPT ![h] = [Waiting EXCEPT !.pc = "seen", !.body = b]]
  BY DEF verify_signature
<1> DEFINE x == [Waiting EXCEPT !.pc = "seen", !.body = b]
<1>2. x \in Handler /\ x.pc = "seen" /\ x.todo = <<>> /\ x.pc \notin Accepted
  BY WaitingType DEF Waiting, Handler, Accepted
<1>3. hook[h].todo = <<>>
  BY DEF verify_signature, At, Todos
<1>4. owed' = owed \ {<<hook[h].body, a.kind>> : a \in ToSet(hook[h].todo)}
  BY <1>3 DEF verify_signature, ToSet
<1>5. UNCHANGED <<queue, seen, unguarded, marks, seers>>
  BY DEF verify_signature
<1> HIDE DEF x
<1>6. Deliveries' /\ hook' \in [Handlers -> Handler]
  BY <1>1, <1>2, <1>4, <1>5, Leaves DEF x
<1>7. WebhookTypes'
  BY <1>6 DEF verify_signature, WebhookTypes
<1> QED BY <1>5, <1>6, <1>7, LinksStay DEF Deliveries, Links

\* A handler answers and forgets: the empty list it had owed nothing.
LEMMA AnswerLeaves ==
    ASSUME WInv, NEW h \in Handlers, Answer(h), hook[h].todo = <<>>,
           UNCHANGED <<queue, seen, unguarded, owed>>
    PROVE  Deliveries' /\ hook' \in [Handlers -> Handler]
<1>1. owed' = owed \ {<<hook[h].body, a.kind>> : a \in ToSet(hook[h].todo)}
  BY DEF ToSet
<1>2. Waiting.pc \notin Accepted
  BY WaitingType DEF Accepted
<1> QED BY <1>1, <1>2, WaitingType, Leaves DEF Answer

\* The lookup of the digest.
LEMMA SeenKeeps ==
    ASSUME WInv, NEW h \in Handlers, delivery_seen(h) PROVE WInv'
<1> USE DEF WInv
<1>1. hook[h].todo = <<>> /\ hook[h] \in Handler
  BY DEF delivery_seen, At, Todos, WebhookTypes
<1>2. UNCHANGED <<queue, seen, unguarded, owed, marks, seers>>
  BY DEF delivery_seen
<1>3. Deliveries' /\ hook' \in [Handlers -> Handler]
  <2>1. CASE Answer(h)
    BY <1>1, <1>2, <2>1, AnswerLeaves
  <2>2. CASE hook' = [hook EXCEPT ![h].pc = "claim"]
    <3> DEFINE x == [hook[h] EXCEPT !.pc = "claim"]
    <3>1. x \in Handler /\ x.pc \notin Accepted /\ x.todo = <<>>
      BY <1>1 DEF Handler, Accepted
    <3>2. hook' = [hook EXCEPT ![h] = x]
      BY <2>2
    <3>3. owed' = owed \ {<<hook[h].body, a.kind>> : a \in ToSet(hook[h].todo)}
      BY <1>1, <1>2 DEF ToSet
    <3> HIDE DEF x
    <3> QED BY <1>2, <3>1, <3>2, <3>3, Leaves
  <2> QED BY <2>1, <2>2 DEF delivery_seen
<1>4. WebhookTypes'
  BY <1>3 DEF delivery_seen, WebhookTypes
<1> QED BY <1>2, <1>3, <1>4, LinksStay DEF Deliveries, Links

\* The insert into webhook_deliveries: a body that is not in the table, and
\* was never let through without it, has no other handler and no task.
LEMMA ClaimKeeps ==
    ASSUME WInv, NEW h \in Handlers, claim_delivery(h) PROVE WInv'
<1> USE DEF WInv
<1> DEFINE b == hook[h].body
<1>1. hook[h].todo = <<>> /\ hook[h] \in Handler /\ hook[h].pc = "claim" /\ b \in Body
  BY DEF claim_delivery, At, Todos, WebhookTypes, Handler
<1>2. UNCHANGED <<queue, owed, marks, seers>>
  BY DEF claim_delivery
<1>3. CASE Answer(h) /\ UNCHANGED <<seen, faults, unguarded>>
  <2>1. Deliveries' /\ hook' \in [Handlers -> Handler]
    BY <1>1, <1>2, <1>3, AnswerLeaves
  <2>2. WebhookTypes'
    BY <1>3, <2>1 DEF claim_delivery, WebhookTypes
  <2> QED BY <1>2, <2>1, <2>2, LinksStay DEF Deliveries, Links
<1>4. CASE /\ hook' = [hook EXCEPT ![h].pc = "gate"]
           /\ \/ b \notin seen /\ seen' = seen \cup {b} /\ unguarded' = unguarded /\ faults' = faults
              \/ seen' = seen /\ unguarded' = unguarded \cup {b} /\ faults' = faults + 1
  <2>1. /\ hook'[h].pc = "gate" /\ hook'[h].body = b /\ hook'[h].todo = <<>>
        /\ hook'[h] \in Handler /\ hook' \in [Handlers -> Handler]
        /\ \A g \in Handlers : g # h => hook'[g] = hook[g]
    BY <1>1, <1>4 DEF WebhookTypes, Handler
  <2>2. /\ b \in seen' \cup unguarded' /\ seen \cup unguarded \subseteq seen' \cup unguarded'
        /\ unguarded \subseteq unguarded'
        /\ b \notin unguarded' => b \notin seen \cup unguarded
    BY <1>4
  <2>3. WebhookTypes'
    BY <1>1, <1>2, <1>4, <2>1 DEF claim_delivery, WebhookTypes
  <2>4. Todos'
    BY <2>1 DEF Todos
  <2>5. Claimed'
    <3>1. \A g \in Handlers : hook'[g].pc \in Accepted => hook'[g].body \in seen' \cup unguarded'
      BY <2>1, <2>2 DEF Claimed
    <3>2. ASSUME NEW g \in Handlers, g # h, hook[g].pc \in Accepted, hook[g].body = b
          PROVE  b \in unguarded'
      BY <2>2, <3>2 DEF Claimed
    <3>3. \A k \in DOMAIN queue : queue[k].by \in seen' \cup unguarded'
      BY <2>2 DEF Claimed
    <3>4. ASSUME NEW f \in Handlers, NEW g \in Handlers, hook'[f].pc \in Accepted,
                 hook'[g].pc \in Accepted, hook'[f].body = hook'[g].body, f # g
          PROVE  hook'[g].body \in unguarded'
      <4>1. CASE f = h
        BY <2>1, <3>2, <3>4, <4>1
      <4>2. CASE g = h
        BY <2>1, <3>2, <3>4, <4>2
      <4>3. CASE f # h /\ g # h
        BY <2>1, <2>2, <3>4, <4>3 DEF Claimed
      <4> QED BY <4>1, <4>2, <4>3
    <3> QED BY <1>2, <3>1, <3>3, <3>4 DEF Claimed
  <2>6. Unqueued'
    <3>1. ASSUME NEW k \in DOMAIN queue, queue[k].by = b PROVE b \in unguarded'
      BY <2>2, <3>1 DEF Claimed
    <3>2. DOMAIN <<>> = {}
      OBVIOUS
    <3> QED BY <1>2, <2>1, <2>2, <3>1, <3>2 DEF Unqueued
  <2>7. Racing'
    BY <1>2, <2>1 DEF Racing, Checks, Open
  <2>8. NothingSkipped'
    <3>1. \A g \in Handlers : hook'[g].body = hook[g].body /\ hook'[g].todo = hook[g].todo
      BY <1>1, <2>1
    <3> QED BY <1>2, <3>1 DEF NothingSkipped
  <2>9. AtMostOnce' /\ ProposalsRaced'
    BY <1>2, <2>2 DEF AtMostOnce, ProposalsRaced, Checks, Open
  <2> QED BY <1>2, <2>3, <2>4, <2>5, <2>6, <2>7, <2>8, <2>9, LinksStay DEF Links
<1> QED BY <1>3, <1>4 DEF claim_delivery

\* The tasks a delivery asks for: of different kinds, and a proposal only where
\* the gate is open.
LEMMA Planned ==
    ASSUME NEW b \in Body, NEW ok \in BOOLEAN, settings \in Settings
    PROVE  /\ plan_actions(b, ok) \in Seq(Action)
           /\ \A i, j \in DOMAIN plan_actions(b, ok) :
                plan_actions(b, ok)[i].kind = plan_actions(b, ok)[j].kind => i = j
           /\ \A i \in DOMAIN plan_actions(b, ok) :
                plan_actions(b, ok)[i].kind = "checks" => b.kind = "push" /\ ok
<1> DEFINE r == [kind |-> "review", key |-> b.on]
           c == [kind |-> "checks", key |-> b.on]
           x == [kind |-> "fix", key |-> b.on]
<1>1. CASE b.kind = "push"
  <2>1. b.on \in Commits
    BY <1>1 DEF Body
  <2>2. r \in Action /\ c \in Action /\ r.kind = "review" /\ c.kind = "checks"
    BY <2>1 DEF Action, TaskKinds
  <2> DEFINE p == plan_actions(b, ok)
             s == IF settings.auto_review THEN <<r>> ELSE <<>>
             t == IF settings.curator \in {"bootstrap", "auto"} /\ ok THEN <<c>> ELSE <<>>
  <2>3. p = s \o t
    BY <1>1 DEF plan_actions
  <2>4. s = <<>> \/ (s = <<r>> /\ Len(s) = 1 /\ s[1] = r)
    OBVIOUS
  <2>5. t = <<>> \/ (ok /\ t = <<c>> /\ Len(t) = 1 /\ t[1] = c)
    OBVIOUS
  <2> HIDE DEF r, c, s, t, p
  <2>6. /\ s \in Seq(Action) /\ t \in Seq(Action) /\ Len(<<>>) = 0
        /\ p \in Seq(Action) /\ Len(p) = Len(s) + Len(t)
        /\ \A i \in 1 .. Len(p) : p[i] = IF i <= Len(s) THEN s[i] ELSE t[i - Len(s)]
    <3>1. /\ <<>> \in Seq(Action) /\ <<r>> \in Seq(Action) /\ <<c>> \in Seq(Action)
          /\ Len(<<>>) = 0
      BY <2>2
    <3>2. s \in Seq(Action) /\ t \in Seq(Action)
      BY <2>4, <2>5, <3>1
    <3> QED BY <2>3, <3>1, <3>2, ConcatProperties
  <2>7. \A i \in 1 .. Len(p) : \/ i = 1 /\ s # <<>> /\ p[i] = r
                               \/ i = Len(s) + 1 /\ ok /\ p[i] = c
    BY <2>4, <2>5, <2>6
  <2>8. DOMAIN p = 1 .. Len(p) /\ Len(s) \in Nat
    BY <2>6
  <2>9. /\ \A i, j \in DOMAIN p : p[i].kind = p[j].kind => i = j
        /\ \A i \in DOMAIN p : p[i].kind = "checks" => ok
    BY <2>2, <2>7, <2>8
  <2> QED BY <1>1, <2>6, <2>9 DEF p
<1>2. CASE b.kind = "issues"
  <2>1. b.on \in Issues
    BY <1>2 DEF Body
  <2>2. x \in Action /\ x.kind = "fix"
    BY <2>1 DEF Action, TaskKinds
  <2>3. plan_actions(b, ok) = <<x>>
    BY <1>2 DEF plan_actions
  <2> HIDE DEF x
  <2> QED BY <2>2, <2>3
<1>3. CASE b.kind # "push" /\ b.kind # "issues"
  <2>1. plan_actions(b, ok) = <<>>
    BY <1>3 DEF plan_actions
  <2> QED BY <2>1
<1> QED BY <1>1, <1>2, <1>3

\* The gate is read and the plan is made.
LEMMA GateKeeps ==
    ASSUME WInv, NEW h \in Handlers, curator_enqueue_allowed(h) PROVE WInv'
<1> USE DEF WInv
<1> DEFINE b == hook[h].body
           ok == b.kind = "push" => curator_should_enqueue
           p == plan_actions(b, ok)
<1>1. hook[h].todo = <<>> /\ hook[h] \in Handler /\ hook[h].pc = "gate" /\ b \in Body
  BY DEF curator_enqueue_allowed, At, Todos, WebhookTypes, Handler
<1>2. UNCHANGED <<imported, settings, seen, queue, proposed, marks, posts, faults, unguarded, seers>>
  BY DEF curator_enqueue_allowed
<1>3. /\ p \in Seq(Action)
      /\ \A i, j \in DOMAIN p : p[i].kind = p[j].kind => i = j
      /\ \A i \in DOMAIN p : p[i].kind = "checks" => curator_should_enqueue
  <2>1. ok \in BOOLEAN /\ settings \in Settings
    BY DEF WebhookTypes
  <2> HIDE DEF ok
  <2>2. /\ p \in Seq(Action)
        /\ \A i, j \in DOMAIN p : p[i].kind = p[j].kind => i = j
        /\ \A i \in DOMAIN p : p[i].kind = "checks" => b.kind = "push" /\ ok
    BY <1>1, <2>1, Planned
  <2> HIDE DEF p
  <2> QED BY <2>2 DEF ok
<1>4. /\ hook' = [hook EXCEPT ![h].todo = p, ![h].pc = IF p # <<>> THEN "enqueue" ELSE "backfill"]
      /\ owed' = owed \cup {<<b, a.kind>> : a \in ToSet(p)}
  BY DEF curator_enqueue_allowed
<1> HIDE DEF p, ok
<1>5. /\ hook'[h].body = b /\ hook'[h].todo = p
      /\ hook'[h].pc = IF p # <<>> THEN "enqueue" ELSE "backfill"
      /\ hook' \in [Handlers -> Handler]
      /\ \A g \in Handlers : g # h => hook'[g] = hook[g]
  BY <1>1, <1>3, <1>4 DEF WebhookTypes, Handler
<1>6. WebhookTypes'
  <2>1. \A a \in ToSet(p) : a.kind \in TaskKinds
    <3>1. \A i \in DOMAIN p : p[i] \in Action
      BY <1>3
    <3> QED BY <3>1 DEF ToSet, Action
  <2>2. owed' \subseteq Body \X TaskKinds
    BY <1>1, <1>4, <2>1 DEF WebhookTypes
  <2> QED BY <1>2, <1>5, <2>2 DEF WebhookTypes
<1>7. Todos'
  BY <1>3, <1>5 DEF Todos
<1>8. Claimed'
  <2>1. \A g \in Handlers : /\ hook'[g].pc \in Accepted <=> hook[g].pc \in Accepted
                            /\ hook'[g].body = hook[g].body
    BY <1>1, <1>5 DEF Accepted
  <2> QED BY <1>2, <2>1 DEF Claimed
<1>9. Unqueued'
  <2>1. \A k \in DOMAIN queue : queue[k].by = b => b \in unguarded
    BY <1>1 DEF Unqueued
  <2> QED BY <1>2, <1>5, <2>1 DEF Unqueued
<1>10. Racing'
  <2> SUFFICES ASSUME NEW g \in Handlers, NEW k \in Checks, Open(k),
                      NEW i \in DOMAIN hook'[g].todo, hook'[g].todo[i].kind = "checks"
               PROVE  hook'[g].body \in queue[k].during
    BY <1>2 DEF Racing, Checks, Open
  <2>1. CASE g = h
    BY <1>3, <1>5, <2>1 DEF curator_should_enqueue
  <2>2. CASE g # h
    BY <1>5, <2>2 DEF Racing
  <2> QED BY <2>1, <2>2
<1>11. NothingSkipped'
  <2> SUFFICES ASSUME NEW q \in owed'
               PROVE  \E g \in Handlers : hook'[g].body = q[1]
                          /\ \E a \in ToSet(hook'[g].todo) : a.kind = q[2]
    BY DEF NothingSkipped
  <2>1. CASE q \in owed
    <3>1. PICK g \in Handlers : hook[g].body = q[1] /\ \E a \in ToSet(hook[g].todo) : a.kind = q[2]
      BY <2>1 DEF NothingSkipped
    <3>2. ToSet(<<>>) = {}
      BY DEF ToSet
    <3>3. g # h
      BY <1>1, <3>1, <3>2
    <3> QED BY <1>5, <3>1, <3>3
  <2>2. CASE q \notin owed
    <3>1. PICK a \in ToSet(p) : q = <<b, a.kind>>
      BY <1>4, <2>2
    <3> QED BY <1>5, <3>1
  <2> QED BY <2>1, <2>2
<1>12. AtMostOnce' /\ ProposalsRaced'
  BY <1>2 DEF AtMostOnce, ProposalsRaced, Checks, Open
<1> QED BY <1>2, <1>6, <1>7, <1>8, <1>9, <1>10, <1>11, <1>12, LinksStay DEF Links

\* One action of the plan is tried: queued, refused or lost to a fault.
LEMMA EnqueueKeeps ==
    ASSUME WInv, NEW h \in Handlers, enqueue_task(h) PROVE WInv'
<1> USE DEF WInv
<1> DEFINE b == hook[h].body
           s == hook[h].todo
           a == Head(s)
           y == Task(h, a)
<1>1. /\ hook[h] \in Handler /\ hook[h].pc = "enqueue" /\ b \in Body
      /\ s \in Seq(Action) /\ s # <<>>
  BY DEF enqueue_task, At, Todos, WebhookTypes, Handler
<1>2. UNCHANGED <<imported, settings, seen, proposed, marks, posts, unguarded, seers>>
  BY DEF enqueue_task
<1>3. /\ Tail(s) \in Seq(Action) /\ a \in Action /\ a = s[1] /\ 1 \in DOMAIN s
      /\ \A i \in DOMAIN Tail(s) : i + 1 \in DOMAIN s /\ Tail(s)[i] = s[i + 1] /\ i \in Nat
      /\ \A i \in DOMAIN s : i # 1 => i - 1 \in DOMAIN Tail(s) /\ Tail(s)[i - 1] = s[i]
  BY <1>1, Taken
<1>4. /\ hook' = [hook EXCEPT ![h].todo = Tail(s),
                              ![h].pc = IF Tail(s) = <<>> THEN "backfill" ELSE "enqueue"]
      /\ owed' = owed \ {<<b, a.kind>>}
      /\ \/ queue' = Append(queue, y) /\ Len(queue) < MaxTasks /\ faults' = faults
         \/ queue' = queue /\ faults' \in {faults, faults + 1}
  BY DEF enqueue_task, Advance
<1>5. /\ hook'[h].body = b /\ hook'[h].todo = Tail(s)
      /\ hook'[h].pc = IF Tail(s) = <<>> THEN "backfill" ELSE "enqueue"
      /\ hook' \in [Handlers -> Handler]
      /\ \A g \in Handlers : g # h => hook'[g] = hook[g]
  BY <1>1, <1>3, <1>4 DEF WebhookTypes, Handler
<1>6. /\ y \in QueuedTask /\ y.kind = a.kind /\ y.by = b
      /\ \A g \in Handlers : g # h /\ hook[g].pc = "enqueue" => hook[g].body \in y.during
  <2>1. Fresh(a) \in BOOLEAN
    BY WebhookAssumption DEF Fresh
  <2>2. \A g \in Handlers : hook[g].body \in Body
    BY DEF WebhookTypes, Handler
  <2>3. {hook[g].body : g \in {i \in Handlers \ {h} : At(i, "enqueue")}} \subseteq Body
    BY <2>2
  <2>4. a.kind \in TaskKinds /\ a.key \in Commits \cup Issues
    BY <1>3 DEF Action
  <2>5. y \in QueuedTask
    BY <1>1, <2>1, <2>3, <2>4 DEF Task, QueuedTask
  <2> QED BY <2>5 DEF Task, At
<1>7. \A i \in DOMAIN Tail(s) : Tail(s)[i].kind # a.kind
  BY <1>3 DEF Todos
<1>8. /\ Len(queue) \in Nat /\ DOMAIN queue = 1 .. Len(queue)
      /\ queue' \in Seq(QueuedTask) /\ Len(queue') <= MaxTasks
      /\ DOMAIN queue \subseteq DOMAIN queue'
      /\ \A k \in DOMAIN queue : queue'[k] = queue[k]
      /\ \A k \in DOMAIN queue' :
           k \in DOMAIN queue \/ (k = Len(queue) + 1 /\ queue'[k] = y)
  <2> HIDE DEF y
  <2>1. queue \in Seq(QueuedTask) /\ Len(queue) <= MaxTasks /\ MaxTasks \in Nat
    BY WebhookAssumption DEF WebhookTypes
  <2>2. CASE queue' = queue
    BY <2>1, <2>2
  <2>3. CASE queue' = Append(queue, y) /\ Len(queue) < MaxTasks
    <3>1. /\ Append(queue, y) \in Seq(QueuedTask) /\ Len(queue) \in Nat
          /\ Len(Append(queue, y)) = Len(queue) + 1
          /\ DOMAIN queue = 1 .. Len(queue) /\ DOMAIN Append(queue, y) = 1 .. Len(queue) + 1
          /\ \A i \in 1 .. Len(queue) : Append(queue, y)[i] = queue[i]
          /\ Append(queue, y)[Len(queue) + 1] = y
      BY <1>6, <2>1, Appended
    <3> QED BY <2>1, <2>3, <3>1
  <2> QED BY <1>4, <2>2, <2>3
<1> HIDE DEF y, s, a
<1>9. WebhookTypes'
  BY <1>2, <1>4, <1>5, <1>8 DEF WebhookTypes
<1>10. Todos'
  <2>1. \A i, j \in DOMAIN Tail(s) : Tail(s)[i].kind = Tail(s)[j].kind => i = j
    BY <1>3 DEF Todos, s
  <2> QED BY <1>5, <2>1 DEF Todos
<1>11. Claimed'
  <2>1. \A g \in Handlers : /\ hook'[g].pc \in Accepted <=> hook[g].pc \in Accepted
                            /\ hook'[g].body = hook[g].body
    BY <1>1, <1>5 DEF Accepted
  <2>2. b \in seen \cup unguarded
    BY <1>1 DEF Claimed, Accepted
  <2> QED BY <1>2, <1>6, <1>8, <2>1, <2>2 DEF Claimed
<1>12. \A g \in Handlers : g # h /\ hook[g].pc \in Accepted /\ hook[g].body = b => b \in unguarded
  BY <1>1 DEF Claimed, Accepted
<1>13. Unqueued'
  <2> SUFFICES ASSUME NEW g \in Handlers, NEW k \in DOMAIN queue', queue'[k].by = hook'[g].body
               PROVE  /\ hook'[g].pc = "gate" => hook'[g].body \in unguarded
                      /\ \A i \in DOMAIN hook'[g].todo :
                           hook'[g].todo[i].kind = queue'[k].kind => hook'[g].body \in unguarded
    BY <1>2 DEF Unqueued
  <2>1. CASE g # h /\ k \in DOMAIN queue
    BY <1>5, <1>8, <2>1 DEF Unqueued
  <2>2. CASE g # h /\ k \notin DOMAIN queue
    <3>1. queue'[k] = y /\ hook'[g] = hook[g] /\ hook[g].body = b
      BY <1>5, <1>6, <1>8, <2>2
    <3>2. hook[g].pc \in Accepted => b \in unguarded
      BY <1>12, <2>2, <3>1
    <3>3. hook[g].pc \notin Accepted => DOMAIN hook[g].todo = {}
      BY DEF Todos, Accepted
    <3> QED BY <3>1, <3>2, <3>3 DEF Accepted
  <2>3. CASE g = h
    <3>1. hook'[g].pc # "gate"
      BY <1>5, <2>3
    <3>2. ASSUME NEW i \in DOMAIN Tail(s), Tail(s)[i].kind = queue'[k].kind PROVE b \in unguarded
      <4>1. k \in DOMAIN queue
        BY <1>6, <1>7, <1>8, <3>2
      <4>2. i + 1 \in DOMAIN s /\ s[i + 1].kind = queue[k].kind /\ queue[k].by = b
        BY <1>3, <1>5, <1>8, <2>3, <3>2, <4>1
      <4> QED BY <4>1, <4>2 DEF Unqueued, s
    <3> QED BY <1>5, <2>3, <3>1, <3>2
  <2> QED BY <2>1, <2>2, <2>3
<1>14. Racing'
  <2> SUFFICES ASSUME NEW g \in Handlers, NEW k \in DOMAIN queue', queue'[k].kind = "checks",
                      queue'[k].status = "active",
                      NEW i \in DOMAIN hook'[g].todo, hook'[g].todo[i].kind = "checks"
               PROVE  hook'[g].body \in queue'[k].during
    BY DEF Racing, Checks, Open
  <2>1. CASE k \in DOMAIN queue
    <3>1. \E j \in DOMAIN hook[g].todo : hook[g].todo[j].kind = "checks"
      <4>1. CASE g = h
        <5>1. i + 1 \in DOMAIN s /\ s[i + 1].kind = "checks"
          <6>1. hook'[g].todo = Tail(s)
            BY <1>5, <4>1
          <6>2. i \in DOMAIN Tail(s) /\ Tail(s)[i].kind = "checks"
            BY <6>1
          <6> QED BY <1>3, <6>2
        <5> QED BY <4>1, <5>1 DEF s
      <4>2. CASE g # h
        BY <1>5, <4>2
      <4> QED BY <4>1, <4>2
    <3> QED BY <1>5, <1>8, <2>1, <3>1 DEF Racing, Checks, Open
  <2>2. CASE k \notin DOMAIN queue
    <3>1. queue'[k] = y /\ a.kind = "checks"
      BY <1>6, <1>8, <2>2
    <3>2. g # h
      BY <1>5, <1>7, <3>1
    <3>3. hook[g].pc = "enqueue"
      <4>1. hook[g].todo # <<>>
        BY <1>5, <3>2
      <4> QED BY <4>1 DEF Todos
    <3> QED BY <1>5, <1>6, <3>1, <3>2, <3>3
  <2> QED BY <2>1, <2>2
<1>15. NothingSkipped'
  <2> SUFFICES ASSUME NEW q \in owed'
               PROVE  \E g \in Handlers : hook'[g].body = q[1]
                          /\ \E c \in ToSet(hook'[g].todo) : c.kind = q[2]
    BY DEF NothingSkipped
  <2>1. PICK g \in Handlers : hook[g].body = q[1] /\ \E c \in ToSet(hook[g].todo) : c.kind = q[2]
    BY <1>4 DEF NothingSkipped
  <2>2. CASE g # h
    BY <1>5, <2>1, <2>2
  <2>3. CASE g = h
    <3>1. q = <<q[1], q[2]>> /\ q # <<b, a.kind>>
      BY <1>4 DEF WebhookTypes
    <3>2. PICK c \in ToSet(s) : c.kind = q[2]
      BY <2>1, <2>3 DEF s
    <3>3. PICK i \in DOMAIN s : s[i] = c
      BY <3>2 DEF ToSet
    <3>4. c.kind # a.kind
      BY <2>1, <2>3, <3>1, <3>2
    <3>5. c \in ToSet(Tail(s))
      BY <1>3, <3>3, <3>4 DEF ToSet
    <3> QED BY <1>5, <2>1, <2>3, <3>2, <3>5
  <2> QED BY <2>2, <2>3
<1>16. AtMostOnce'
  <2>1. ASSUME NEW k \in DOMAIN queue, queue[k].by = b, queue[k].kind = a.kind PROVE b \in unguarded
    BY <1>3, <2>1 DEF Unqueued, s
  <2> SUFFICES ASSUME NEW j \in DOMAIN queue', NEW k \in DOMAIN queue', j # k,
                      queue'[j].by = queue'[k].by, queue'[j].kind = queue'[k].kind
               PROVE  queue'[j].by \in unguarded
    BY <1>2 DEF AtMostOnce
  <2>2. CASE j \in DOMAIN queue /\ k \in DOMAIN queue
    BY <1>8, <2>2 DEF AtMostOnce
  <2>3. CASE j \notin DOMAIN queue
    BY <1>6, <1>8, <2>1, <2>3
  <2>4. CASE k \notin DOMAIN queue
    BY <1>6, <1>8, <2>1, <2>4
  <2> QED BY <2>2, <2>3, <2>4
<1>17. ProposalsRaced'
  <2> SUFFICES ASSUME NEW j \in DOMAIN queue', NEW k \in DOMAIN queue', j < k,
                      queue'[j].kind = "checks", queue'[k].kind = "checks",
                      queue'[j].status = "active", queue'[k].status = "active"
               PROVE  queue'[k].by \in queue'[j].during
    BY DEF ProposalsRaced, Checks, Open
  <2>1. CASE k \in DOMAIN queue
    <3>1. j \in DOMAIN queue
      BY <1>8, <2>1
    <3> QED BY <1>8, <2>1, <3>1 DEF ProposalsRaced, Checks, Open
  <2>2. CASE k \notin DOMAIN queue
    <3>1. j \in DOMAIN queue /\ queue'[k] = y /\ y.by = b /\ a.kind = "checks"
      BY <1>6, <1>8, <2>2
    <3>2. b \in queue[j].during
      BY <1>3, <1>8, <3>1 DEF Racing, Checks, Open, s
    <3> QED BY <1>8, <3>1, <3>2
  <2> QED BY <2>1, <2>2
<1> QED BY <1>2, <1>9, <1>10, <1>11, <1>13, <1>14, <1>15, <1>16, <1>17, LinksStay DEF Links

\* The merge's link goes to findings that a run of its task saw first or last.
LEMMA BackfillKeeps ==
    ASSUME WInv, NEW h \in Handlers, backfill_pr_url(h) PROVE WInv'
<1> USE DEF WInv
<1> DEFINE b == hook[h].body
<1>1. hook[h].todo = <<>> /\ Answer(h)
  BY DEF backfill_pr_url, At, Todos
<1>2. UNCHANGED <<imported, settings, seen, queue, proposed, posts, faults, unguarded, owed, seers>>
  BY DEF backfill_pr_url, Ledger
<1>3. Deliveries' /\ hook' \in [Handlers -> Handler]
  BY <1>1, <1>2, AnswerLeaves
<1>4. marks \in [Marks -> Mark]
  BY DEF WebhookTypes
<1>5. CASE marks' = marks
  <2>1. WebhookTypes'
    BY <1>2, <1>3, <1>5 DEF WebhookTypes
  <2> QED BY <1>2, <1>3, <1>5, <2>1, LinksStay DEF Deliveries, Links
<1>6. CASE /\ b.on \in DOMAIN queue
           /\ marks' = [f \in Marks |-> IF f \in Linkable(b.on)
                                        THEN [marks[f] EXCEPT !.pr = b.on] ELSE marks[f]]
  <2>1. b.on \in 1 .. MaxTasks
    BY <1>6, RowTypes
  <2>2. ASSUME NEW f \in Marks
        PROVE  /\ marks'[f] \in Mark
               /\ marks'[f].first = marks[f].first /\ marks'[f].last = marks[f].last
               /\ marks'[f].pr # 0 => marks'[f].pr \in seers[f]
    <3>1. marks[f] \in Mark
      BY <1>4
    <3>2. CASE f \in Linkable(b.on)
      <4>1. marks'[f] = [marks[f] EXCEPT !.pr = b.on]
        BY <1>6, <3>2
      <4>2. b.on \in seers[f]
        BY <2>1, <3>2 DEF Linkable, Seen
      <4> HIDE DEF b
      <4> QED BY <2>1, <3>1, <4>1, <4>2 DEF Mark
    <3>3. CASE f \notin Linkable(b.on)
      BY <1>6, <3>1, <3>3 DEF LinkedBySeer
    <3> QED BY <3>2, <3>3
  <2>3. marks' \in [Marks -> Mark]
    BY <1>6, <2>2
  <2>4. WebhookTypes'
    BY <1>2, <1>3, <2>3 DEF WebhookTypes
  <2>5. Seen' /\ LinkedBySeer'
    BY <1>2, <2>2 DEF Seen, LinkedBySeer
  <2> QED BY <1>3, <2>4, <2>5 DEF Deliveries
<1> QED BY <1>5, <1>6 DEF backfill_pr_url, Linked

\* The process of a handler dies: what it had not queued is lost with it.
LEMMA DiesKeeps ==
    ASSUME WInv, NEW h \in Handlers, HandlerDies(h) PROVE WInv'
<1> USE DEF WInv
<1>1. /\ UNCHANGED <<imported, settings, seen, queue, proposed, marks, posts, unguarded, seers>>
      /\ faults' = faults + 1 /\ hook' = [hook EXCEPT ![h] = Waiting]
      /\ owed' = owed \ {<<hook[h].body, a.kind>> : a \in ToSet(hook[h].todo)}
  BY DEF HandlerDies, Answer
<1>2. Waiting.pc \notin Accepted
  BY WaitingType DEF Accepted
<1>3. Deliveries' /\ hook' \in [Handlers -> Handler]
  BY <1>1, <1>2, WaitingType, Leaves
<1>4. WebhookTypes'
  <2>1. owed' \subseteq Body \X TaskKinds
    BY <1>1 DEF WebhookTypes
  <2> QED BY <1>1, <1>3, <2>1 DEF WebhookTypes
<1> QED BY <1>1, <1>3, <1>4, LinksStay DEF Deliveries, Links

\* A review run saw a finding.
LEMMA IngestKeeps ==
    ASSUME WInv, NEW k \in DOMAIN queue, ingest_run(k) PROVE WInv'
<1> USE DEF WInv
<1>1. UNCHANGED <<imported, settings, seen, queue, proposed, hook, posts, faults, unguarded, owed>>
  BY DEF ingest_run
<1>2. PICK f \in Marks :
        /\ marks' = [marks EXCEPT ![f].last = k, ![f].first = IF @ = 0 THEN k ELSE @]
        /\ seers' = [seers EXCEPT ![f] = @ \cup {k}]
  BY DEF ingest_run
<1>3. /\ k \in 1 .. MaxTasks /\ marks \in [Marks -> Mark] /\ marks[f] \in Mark
      /\ seers \in [Marks -> SUBSET (1 .. MaxTasks)]
  BY RowTypes DEF WebhookTypes
<1> DEFINE n == IF marks[f].first = 0 THEN k ELSE marks[f].first
<1>4. /\ marks'[f] \in Mark /\ marks'[f].last = k /\ marks'[f].pr = marks[f].pr
      /\ marks'[f].first = n
      /\ \A e \in Marks : e # f => marks'[e] = marks[e]
      /\ marks' \in [Marks -> Mark]
  <2> DEFINE x == [marks[f] EXCEPT !.last = k, !.first = n]
  <2>1. n \in 0 .. MaxTasks /\ k \in 0 .. MaxTasks
    BY <1>3 DEF Mark
  <2>2. marks' = [marks EXCEPT ![f] = x]
    BY <1>2, <1>3
  <2> HIDE DEF n
  <2>3. x \in Mark /\ x.last = k /\ x.pr = marks[f].pr /\ x.first = n
    BY <1>3, <2>1 DEF Mark
  <2> HIDE DEF x
  <2> QED BY <1>3, <2>2, <2>3
<1>5. /\ seers'[f] = seers[f] \cup {k} /\ \A e \in Marks : e # f => seers'[e] = seers[e]
      /\ seers' \in [Marks -> SUBSET (1 .. MaxTasks)]
  BY <1>2, <1>3
<1>6. WebhookTypes'
  BY <1>1, <1>4, <1>5 DEF WebhookTypes
<1>7. Seen' /\ LinkedBySeer'
  BY <1>4, <1>5 DEF Seen, LinkedBySeer
<1>8. Deliveries'
  BY <1>1, DeliveriesStay
<1> QED BY <1>6, <1>7, <1>8 DEF Deliveries

\* A worker's write to its task: the pull request, its link, the end of the
\* task; or the interval after it passes.
LEMMA WorkerKeeps ==
    ASSUME WInv, NEW k \in DOMAIN queue,
           publish_run(k) \/ _record_pr_link(k) \/ record_check_artifacts(k) \/ Cooled(k)
    PROVE  WInv'
<1> USE DEF WInv
<1>1. queue[k] \in QueuedTask
  BY RowTypes
<1>2. /\ UNCHANGED <<imported, settings, seen, marks, hook, posts, faults, unguarded, owed, seers>>
      /\ proposed' \in BOOLEAN
  BY DEF publish_run, _record_pr_link, record_check_artifacts, Cooled, Ledger, WebhookTypes
<1>3. Deliveries' /\ queue' \in Seq(QueuedTask) /\ Len(queue') = Len(queue)
  <2>1. CASE publish_run(k)
    <3> DEFINE y == [queue[k] EXCEPT !.pr = "public"]
    <3>1. /\ y \in QueuedTask /\ y.kind = queue[k].kind /\ y.by = queue[k].by
          /\ y.during = queue[k].during /\ y.status = queue[k].status
      BY <1>1 DEF QueuedTask
    <3>2. queue' = [queue EXCEPT ![k] = y]
      BY <2>1 DEF publish_run
    <3> HIDE DEF y
    <3> QED BY <1>2, <3>1, <3>2, TaskChanges
  <2>2. CASE _record_pr_link(k)
    <3> DEFINE y == [queue[k] EXCEPT !.pr = "linked"]
    <3>1. /\ y \in QueuedTask /\ y.kind = queue[k].kind /\ y.by = queue[k].by
          /\ y.during = queue[k].during /\ y.status = queue[k].status
      BY <1>1 DEF QueuedTask
    <3>2. queue' = [queue EXCEPT ![k] = y]
      BY <2>2 DEF _record_pr_link
    <3> HIDE DEF y
    <3> QED BY <1>2, <3>1, <3>2, TaskChanges
  <2>3. CASE record_check_artifacts(k)
    <3> DEFINE y == [queue[k] EXCEPT !.status = "done"]
    <3>1. /\ y \in QueuedTask /\ y.kind = queue[k].kind /\ y.by = queue[k].by
          /\ y.during = queue[k].during /\ y.status = "done"
      BY <1>1 DEF QueuedTask
    <3>2. queue' = [queue EXCEPT ![k] = y]
      BY <2>3 DEF record_check_artifacts
    <3> HIDE DEF y
    <3> QED BY <1>2, <3>1, <3>2, TaskChanges
  <2>4. CASE Cooled(k)
    <3> DEFINE y == [queue[k] EXCEPT !.fresh = FALSE]
    <3>1. /\ y \in QueuedTask /\ y.kind = queue[k].kind /\ y.by = queue[k].by
          /\ y.during = queue[k].during /\ y.status = queue[k].status
      BY <1>1 DEF QueuedTask
    <3>2. queue' = [queue EXCEPT ![k] = y]
      BY <2>4 DEF Cooled
    <3> HIDE DEF y
    <3> QED BY <1>2, <3>1, <3>2, TaskChanges
  <2> QED BY <2>1, <2>2, <2>3, <2>4
<1>4. WebhookTypes'
  BY <1>2, <1>3 DEF WebhookTypes
<1> QED BY <1>2, <1>3, <1>4, LinksStay DEF Deliveries, Links

\* The repository is imported, or nothing changes.
LEMMA StillKeeps ==
    ASSUME WInv, import_repo \/ UNCHANGED webhookVars PROVE WInv'
<1> USE DEF WInv
<1>1. /\ UNCHANGED <<settings, seen, queue, proposed, marks, hook, posts, faults, unguarded, owed, seers>>
      /\ imported' \in BOOLEAN
  BY DEF import_repo, webhookVars, Ledger, WebhookTypes
<1>2. WebhookTypes'
  BY <1>1 DEF WebhookTypes
<1>3. Deliveries' /\ Links'
  BY <1>1, DeliveriesStay, LinksStay
<1> QED BY <1>2, <1>3 DEF Deliveries, Links

\* No task, no delivery, no finding seen.
LEMMA WebhookStart == WebhookInit => WInv
<1> SUFFICES ASSUME WebhookInit PROVE WInv
  OBVIOUS
<1>1. /\ queue \in Seq(QueuedTask) /\ Len(queue) = 0 /\ DOMAIN queue = {} /\ MaxTasks \in Nat
  BY WebhookAssumption DEF WebhookInit
<1>2. hook \in [Handlers -> Handler] /\ \A h \in Handlers : hook[h].pc = "idle" /\ hook[h].todo = <<>>
  BY WaitingType DEF WebhookInit
<1>3. marks \in [Marks -> Mark] /\ \A f \in Marks : marks[f].first = 0 /\ marks[f].last = 0 /\ marks[f].pr = 0
  BY <1>1 DEF WebhookInit, Mark
<1>4. WebhookTypes
  <2>1. seers \in [Marks -> SUBSET (1 .. MaxTasks)]
    BY DEF WebhookInit
  <2>2. /\ imported \in BOOLEAN /\ settings \in Settings /\ proposed \in BOOLEAN
        /\ seen \subseteq Body /\ unguarded \subseteq Body
        /\ posts \in Nat /\ faults \in Nat /\ owed \subseteq Body \X TaskKinds
    BY DEF WebhookInit
  <2> QED BY <1>1, <1>2, <1>3, <2>1, <2>2 DEF WebhookTypes
<1>5. Todos /\ Claimed /\ Unqueued
  BY <1>1, <1>2 DEF Todos, Claimed, Unqueued, Accepted
<1>6. Racing /\ AtMostOnce /\ ProposalsRaced
  BY <1>1 DEF Racing, AtMostOnce, ProposalsRaced, Checks
<1>7. NothingSkipped
  BY DEF NothingSkipped, WebhookInit
<1>8. Seen /\ LinkedBySeer
  BY <1>3 DEF Seen, LinkedBySeer
<1> QED BY <1>4, <1>5, <1>6, <1>7, <1>8 DEF WInv

\* Every step of a handler, of a worker and of the importer keeps the invariant.
LEMMA WebhookStep == WInv /\ [WebhookNext]_webhookVars => WInv'
<1> SUFFICES ASSUME WInv, [WebhookNext]_webhookVars PROVE WInv'
  OBVIOUS
<1>1. CASE \E h \in Handlers : forgejo_webhook(h) \/ HandlerDies(h)
  BY <1>1, VerifyKeeps, SeenKeeps, ClaimKeeps, GateKeeps, EnqueueKeeps, BackfillKeeps, DiesKeeps
     DEF forgejo_webhook
<1>2. CASE \E k \in DOMAIN queue :
             ingest_run(k) \/ publish_run(k) \/ _record_pr_link(k) \/ record_check_artifacts(k) \/ Cooled(k)
  BY <1>2, IngestKeeps, WorkerKeeps
<1>3. CASE import_repo \/ UNCHANGED webhookVars
  BY <1>3, StillKeeps
<1> QED BY <1>1, <1>2, <1>3 DEF WebhookNext

\* However many handlers race, die or lose a database round trip, the delivery
\* log, the queue and the findings stand in the relations of WInv.
THEOREM Delivered == WebhookSpec => []WInv
BY WebhookStart, WebhookStep, PTL DEF WebhookSpec

\* Whatever is replayed, refused or lost, forgejo_webhook queues what a guarded
\* body plans at most once, drops no planned task but by refusal, fault or
\* death, proposes checks twice only to racing pushes, and backfill_pr_url
\* links a finding only to a pull request whose task saw it.
THEOREM DeliveriesHold == WebhookSpec => []DeliveriesTrue
<1>1. WInv => DeliveriesTrue
  <2> SUFFICES ASSUME WInv PROVE DeliveriesTrue
    OBVIOUS
  <2> USE DEF WInv
  <2>1. \A k \in DOMAIN queue : queue[k].by \in Body /\ queue[k].fresh \in BOOLEAN
    BY RowTypes DEF QueuedTask
  <2>2. \A h \in Handlers : hook[h].body \in Body
    BY DEF WebhookTypes, Handler
  <2>3. WebhookTypeOK
    BY <2>1, <2>2 DEF WebhookTypeOK, WebhookTypes, WebhookDelivery, Mark
  <2> QED BY <2>3 DEF DeliveriesTrue
<1> QED BY <1>1, Delivered, PTL

-----------------------------------------------------------------------------
(* The findings table.                                                     *)

Reasons == {"matched", "escalation", "code_drift", "due", "no", "accepted", "false_positive"}
Event == [to : Statuses, by : {"run", "person"}, reason : Reasons]
Chosen == [row : Finding, why : {"matched", "escalation", "code_drift", "due", "no"}]

FindingsTypes ==
    /\ rows \in [AllFindings -> Finding] /\ events \in [AllFindings -> Seq(Event)]
    /\ today \in 0 .. MaxDay /\ overlapped \subseteq AllFindings
    /\ accepted \in [AllFindings -> Nat]

\* A timeline fits the bound on events.
Bounded == \A f \in AllFindings : Len(events[f]) <= MaxEvents

\* What a run has read of a finding, and what it is going to do about it.
RunTypes ==
    /\ DOMAIN run = Ingests
    /\ \A w \in Ingests :
         /\ DOMAIN run[w].read \subseteq Matches
         /\ Reading(w) => run[w].ctx \in Contexts
         /\ \A f \in DOMAIN run[w].read : run[w].read[f] \in Chosen

\* The reason a run has for a finding was true of the row it read.
Caused ==
    \A w \in Ingests : \A f \in DOMAIN run[w].read :
        LET e == run[w].read[f] IN
        /\ e.why = "matched" => e.row.status = "none"
        /\ e.why = "due" => e.row.due # 0 /\ e.row.due <= today
        /\ e.why = "escalation" => run[w].ctx.threshold # NoPolicy

\* A decision that waits for its flush obeys I2 and I3.
DecisionRules ==
    /\ decision.pc \in {"idle", "flush"}
    /\ decision.pc = "flush" =>
         /\ decision.on \in AllFindings /\ decision.to \in Deferred \cup {"fixed"}
         /\ decision.reason \in {"accepted", "false_positive"}
         /\ decision.owner \in 0 .. 1 /\ decision.due \in 0 .. MaxDay
         /\ decision.was \in Finding
         /\ decision.to \in Deferred =>
              decision.on \notin Blocking /\ decision.owner # 0 /\ decision.due # 0

FInv ==
    /\ FindingsTypes /\ Bounded /\ RunTypes /\ Caused /\ DecisionRules
    /\ DeferralRules /\ TimelineTrue

\* The bound on events leaves room on every timeline.
LEMMA Roomy ==
    ASSUME FindingsTypes, Bounded, NEW n \in Nat, Room(n), NEW f \in AllFindings
    PROVE  Len(events[f]) + n <= MaxEvents
<1> DEFINE m == Len(events[f])
           own == {f} \X (1 .. m)
<1>1. m \in Nat /\ m <= MaxEvents /\ MaxEvents \in Nat
  BY FindingsAssumption DEF FindingsTypes, Bounded
<1>2. IsFiniteSet(AllFindings)
  BY FindingsAssumption, FS_AddElement DEF AllFindings
<1>3. IsFiniteSet(AllFindings \X (1 .. MaxEvents))
  <2>1. IsFiniteSet(1 .. MaxEvents)
    BY <1>1, FS_Interval
  <2> QED BY <1>2, <2>1, FS_Product
<1>4. Logged \subseteq AllFindings \X (1 .. MaxEvents)
  BY DEF Logged
<1>5. IsFiniteSet(Logged)
  BY <1>3, <1>4, FS_Subset
<1>6. DOMAIN events[f] = 1 .. m
  BY DEF FindingsTypes
<1>7. own \subseteq Logged
  <2> SUFFICES ASSUME NEW e \in own PROVE e \in Logged
    OBVIOUS
  <2>1. e[1] = f /\ e[2] \in 1 .. m /\ e = <<f, e[2]>>
    OBVIOUS
  <2>2. e[2] \in 1 .. MaxEvents
    BY <1>1, <2>1
  <2> QED BY <1>6, <2>1, <2>2 DEF Logged
<1>8. IsFiniteSet({f}) /\ Cardinality({f}) = 1 /\ IsFiniteSet(1 .. m) /\ Cardinality(1 .. m) = m
  <2>1. IsFiniteSet({f}) /\ Cardinality({f}) = 1
    BY FS_Singleton
  <2> HIDE DEF m
  <2>2. m \in Int /\ 1 \in Int
    BY <1>1
  <2>3. IsFiniteSet(1 .. m) /\ Cardinality(1 .. m) = IF 1 > m THEN 0 ELSE m - 1 + 1
    BY <2>2, FS_Interval
  <2> QED BY <1>1, <2>1, <2>3
<1>9. Cardinality(own) = m
  BY <1>1, <1>8, FS_Product
<1>10. Cardinality(own) <= Cardinality(Logged) /\ Cardinality(Logged) \in Nat
  BY <1>5, <1>7, FS_Subset, FS_CardinalityType
<1> HIDE DEF own, m
<1>11. m + n <= MaxEvents
  BY <1>1, <1>9, <1>10 DEF Room
<1> QED BY <1>11 DEF m

\* A set of findings of the rule that is not empty counts.
LEMMA Counted ==
    ASSUME NEW N, N \subseteq Matches, NEW f \in N
    PROVE  Cardinality(N) \in Nat /\ Cardinality(N) >= 1
<1>1. IsFiniteSet(N)
  BY FindingsAssumption, FS_Subset
<1>2. Cardinality(N) \in Nat
  BY <1>1, FS_CardinalityType
<1>3. Cardinality(N) # 0
  BY <1>1, FS_EmptySet
<1> QED BY <1>2, <1>3

\* A finding is as it was, or its timeline grew by the event that names its
\* new status.
Told(f) ==
    \/ rows'[f] = rows[f] /\ events'[f] = events[f]
    \/ /\ Len(events[f]) < MaxEvents
       /\ \E e \in Event : /\ events'[f] = Append(events[f], e)
                           /\ f \notin overlapped' => e.to = rows'[f].status
       /\ rows'[f].status \in Deferred =>
            f \notin Blocking /\ (f \notin overlapped' => rows'[f].owner # 0 /\ rows'[f].due # 0)

LEMMA TableKeeps ==
    ASSUME FInv, \A f \in AllFindings : Told(f), rows' \in [AllFindings -> Finding],
           events' = [f \in AllFindings |-> events'[f]],
           overlapped \subseteq overlapped', overlapped' \subseteq AllFindings
    PROVE  events' \in [AllFindings -> Seq(Event)] /\ Bounded' /\ DeferralRules' /\ TimelineTrue'
<1> USE DEF FInv
<1> SUFFICES ASSUME NEW f \in AllFindings
             PROVE  /\ events'[f] \in Seq(Event) /\ Len(events'[f]) <= MaxEvents
                    /\ rows'[f].status \in Deferred =>
                         /\ f \notin Blocking
                         /\ f \notin overlapped' => rows'[f].owner # 0 /\ rows'[f].due # 0
                    /\ f \notin overlapped' =>
                         IF events'[f] = <<>> THEN rows'[f].status = "none"
                         ELSE events'[f][Len(events'[f])].to = rows'[f].status
  BY DEF Bounded, DeferralRules, TimelineTrue
<1>1. events[f] \in Seq(Event) /\ Len(events[f]) <= MaxEvents /\ Told(f) /\ MaxEvents \in Nat
  BY FindingsAssumption DEF FindingsTypes, Bounded
<1>2. CASE rows'[f] = rows[f] /\ events'[f] = events[f]
  <2>1. f \notin overlapped' => f \notin overlapped
    OBVIOUS
  <2>2. rows'[f].status \in Deferred =>
          f \notin Blocking /\ (f \notin overlapped' => rows'[f].owner # 0 /\ rows'[f].due # 0)
    BY <1>2, <2>1 DEF DeferralRules
  <2>3. f \notin overlapped' =>
          IF events'[f] = <<>> THEN rows'[f].status = "none"
          ELSE events'[f][Len(events'[f])].to = rows'[f].status
    BY <1>2, <2>1 DEF TimelineTrue
  <2> QED BY <1>1, <1>2, <2>2, <2>3
<1>3. CASE ~(rows'[f] = rows[f] /\ events'[f] = events[f])
  <2>1. PICK e \in Event : /\ events'[f] = Append(events[f], e)
                           /\ f \notin overlapped' => e.to = rows'[f].status
    BY <1>1, <1>3 DEF Told
  <2>2. /\ Len(events[f]) < MaxEvents
        /\ rows'[f].status \in Deferred =>
             f \notin Blocking /\ (f \notin overlapped' => rows'[f].owner # 0 /\ rows'[f].due # 0)
    BY <1>1, <1>3 DEF Told
  <2>3. /\ events'[f] \in Seq(Event) /\ Len(events'[f]) = Len(events[f]) + 1
        /\ Len(events[f]) \in Nat /\ events'[f][Len(events'[f])] = e /\ events'[f] # <<>>
    BY <1>1, <2>1, Appended
  <2> QED BY <1>1, <2>1, <2>2, <2>3
<1> QED BY <1>2, <1>3

\* The table is not written.
LEMMA TableStays ==
    ASSUME FInv, UNCHANGED <<rows, events, overlapped>>
    PROVE  /\ rows' \in [AllFindings -> Finding] /\ events' \in [AllFindings -> Seq(Event)]
           /\ overlapped' \subseteq AllFindings /\ Bounded' /\ DeferralRules' /\ TimelineTrue'
BY DEF FInv, FindingsTypes, Bounded, DeferralRules, TimelineTrue

\* The runs keep what they read; a finding that was due stays due.
LEMMA RunsStay ==
    ASSUME FInv, UNCHANGED run, today' \in Nat, today <= today'
    PROVE  RunTypes' /\ Caused'
<1> USE DEF FInv
<1>1. RunTypes'
  BY DEF RunTypes, Reading
<1>2. ASSUME NEW w \in Ingests, NEW f \in DOMAIN run[w].read, run[w].read[f].why = "due"
      PROVE  run[w].read[f].row.due # 0 /\ run[w].read[f].row.due <= today'
  <2>1. run[w].read[f] \in Chosen
    BY DEF RunTypes
  <2>2. run[w].read[f].row \in Finding
    BY <2>1 DEF Chosen
  <2>3. run[w].read[f].row.due \in Nat /\ today \in Nat
    BY <2>2 DEF Finding, FindingsTypes
  <2>4. run[w].read[f].row.due # 0 /\ run[w].read[f].row.due <= today
    BY <1>2 DEF Caused
  <2> QED BY <2>3, <2>4
<1>3. Caused'
  BY <1>2 DEF Caused
<1> QED BY <1>1, <1>3

\* A run that ended has read nothing.
LEMMA RunRests ==
    ASSUME FInv, NEW w \in Ingests, run' = [run EXCEPT ![w] = Resting], UNCHANGED today
    PROVE  RunTypes' /\ Caused'
<1> USE DEF FInv
<1>1. DOMAIN Resting.read = {}
  BY DEF Resting
<1>2. DOMAIN run' = Ingests /\ run'[w] = Resting /\ \A v \in Ingests : v # w => run'[v] = run[v]
  BY DEF RunTypes
<1>3. RunTypes'
  BY <1>1, <1>2 DEF RunTypes, Reading
<1>4. Caused'
  <2> SUFFICES ASSUME NEW v \in Ingests, NEW f \in DOMAIN run'[v].read
               PROVE  LET e == run'[v].read[f] IN
                      /\ e.why = "matched" => e.row.status = "none"
                      /\ e.why = "due" => e.row.due # 0 /\ e.row.due <= today
                      /\ e.why = "escalation" => run'[v].ctx.threshold # NoPolicy
    BY DEF Caused
  <2>1. v # w
    BY <1>1, <1>2
  <2> QED BY <1>2, <2>1 DEF Caused
<1> QED BY <1>3, <1>4

\* The decision waits.
LEMMA DecisionStays ==
    ASSUME FInv, UNCHANGED decision PROVE DecisionRules'
BY DEF FInv, DecisionRules

\* What a run decides about a row is true of the row it read.
LEMMA WhyTrue ==
    ASSUME NEW r, NEW c, NEW day
    PROVE  /\ Reactivated(r, c, day) \in {"matched", "escalation", "code_drift", "due", "no"}
           /\ Reactivated(r, c, day) = "matched" => r.status = "none"
           /\ Reactivated(r, c, day) = "due" => r.due # 0 /\ r.due <= day
           /\ Reactivated(r, c, day) = "escalation" => c.threshold # NoPolicy
<1> DEFINE s == should_reactivate(r, c, day)
<1>1. /\ s \in {"escalation", "code_drift", "due", "no"}
      /\ s = "due" => r.due # 0 /\ r.due <= day
      /\ s = "escalation" => c.threshold # NoPolicy
  BY DEF should_reactivate
<1> HIDE DEF s
<1>2. \/ Reactivated(r, c, day) = "matched" /\ r.status = "none"
      \/ Reactivated(r, c, day) = s
      \/ Reactivated(r, c, day) = "no"
  BY DEF Reactivated, s
<1> QED BY <1>1, <1>2

\* One query of a run.
LEMMA ReadKeeps ==
    ASSUME FInv, NEW w \in Ingests, _make_ingest(w) PROVE FInv'
<1> USE DEF FInv
<1>1. PICK f \in Matches \ DOMAIN run[w].read, c \in Contexts :
        /\ Reading(w) => c = run[w].ctx
        /\ run' = [run EXCEPT ![w] =
             [ctx |-> c, read |-> [g \in DOMAIN @.read \cup {f} |->
                IF g = f THEN [row |-> rows[f], why |-> Reactivated(rows[f], c, today)]
                ELSE @.read[g]]]]
  BY DEF _make_ingest
<1> DEFINE why == Reactivated(rows[f], c, today)
           x == [row |-> rows[f], why |-> why]
           read == run[w].read
           more == [g \in DOMAIN read \cup {f} |-> IF g = f THEN x ELSE read[g]]
<1>2. UNCHANGED <<rows, events, decision, today, overlapped, accepted>>
  BY DEF _make_ingest
<1>3. run' = [run EXCEPT ![w] = [ctx |-> c, read |-> more]]
  BY <1>1
<1>4. /\ why \in {"matched", "escalation", "code_drift", "due", "no"}
      /\ why = "matched" => rows[f].status = "none"
      /\ why = "due" => rows[f].due # 0 /\ rows[f].due <= today
      /\ why = "escalation" => c.threshold # NoPolicy
  BY WhyTrue
<1> HIDE DEF why
<1>5. x \in Chosen /\ x.row = rows[f] /\ x.why = why
  BY <1>4 DEF Chosen, FindingsTypes, AllFindings
<1> HIDE DEF x
<1>6. /\ DOMAIN more = DOMAIN read \cup {f} /\ more[f] = x
      /\ \A g \in DOMAIN read : more[g] = read[g] /\ g # f
  OBVIOUS
<1> HIDE DEF more
<1>7. /\ DOMAIN run' = Ingests /\ run'[w].ctx = c /\ run'[w].read = more
      /\ \A v \in Ingests : v # w => run'[v] = run[v]
  BY <1>3 DEF RunTypes
<1>8. RunTypes'
  <2>1. DOMAIN more \subseteq Matches /\ \A g \in DOMAIN more : more[g] \in Chosen
    BY <1>5, <1>6 DEF RunTypes
  <2> QED BY <1>7, <2>1 DEF RunTypes, Reading
<1>9. Caused'
  <2> SUFFICES ASSUME NEW v \in Ingests, NEW g \in DOMAIN run'[v].read
               PROVE  LET e == run'[v].read[g] IN
                      /\ e.why = "matched" => e.row.status = "none"
                      /\ e.why = "due" => e.row.due # 0 /\ e.row.due <= today
                      /\ e.why = "escalation" => run'[v].ctx.threshold # NoPolicy
    BY <1>2 DEF Caused
  <2>1. CASE v # w
    BY <1>7, <2>1 DEF Caused
  <2>2. CASE v = w /\ g = f
    BY <1>4, <1>5, <1>6, <1>7, <2>2
  <2>3. CASE v = w /\ g # f
    <3>1. g \in DOMAIN read /\ run'[v].read[g] = read[g] /\ c = run[w].ctx
      BY <1>1, <1>6, <1>7, <2>3 DEF Reading
    <3> QED BY <1>7, <2>3, <3>1 DEF Caused
  <2> QED BY <2>1, <2>2, <2>3
<1>10. FindingsTypes'
  BY <1>2 DEF FindingsTypes
<1> QED BY <1>2, <1>8, <1>9, <1>10, TableStays, DecisionStays

\* The commit of a run: what it does to one finding.
LEMMA IngestTells ==
    ASSUME FInv, NEW w \in Ingests, ingest(w), NEW f \in AllFindings
    PROVE  /\ Told(f) /\ rows'[f] \in Finding
           /\ f \in Matches /\ rows[f].status \in Deferred /\ rows'[f].status = "open" =>
                LET why == events'[f][Len(events'[f])].reason IN
                \/ f \in DOMAIN run[w].read /\ why = run[w].read[f].why /\ why # "no"
                \/ /\ why = "escalation" /\ run[w].ctx.threshold # NoPolicy
                   /\ Cardinality({g \in Matches : rows[g].status \in Deferred})
                        > run[w].ctx.threshold
<1> USE DEF FInv
<1> DEFINE read == run[w].read
           entry == [g \in AllFindings |-> IF g \in DOMAIN read THEN Written(g, read[g]) ELSE rows[g]]
           more == _apply_escalation(w, entry)
           noted == {g \in DOMAIN read : read[g].why # "no"} \cup more
<1>1. /\ Room(Cardinality(noted)) /\ DOMAIN read # {}
      /\ rows'[f] = IF f \in more THEN [entry[f] EXCEPT !.status = "open", !.owner = 0, !.due = 0]
                    ELSE entry[f]
      /\ events'[f] = IF f \notin noted THEN events[f]
                      ELSE Append(events[f], [to |-> "open", by |-> "run",
                             reason |-> IF f \in more THEN "escalation" ELSE read[f].why])
  BY DEF ingest, Reading
<1>2. entry[f] = IF f \in DOMAIN read THEN Written(f, read[f]) ELSE rows[f]
  OBVIOUS
<1>3. more \subseteq Matches /\ more \cap DOMAIN read = {}
  BY DEF _apply_escalation
<1>4. f \in more => /\ run[w].ctx.threshold # NoPolicy
                    /\ Cardinality({g \in Matches : rows[g].status \in Deferred})
                         > run[w].ctx.threshold
  <2> SUFFICES ASSUME f \in more
               PROVE  /\ run[w].ctx.threshold # NoPolicy
                      /\ Cardinality({g \in Matches : rows[g].status \in Deferred})
                           > run[w].ctx.threshold
    OBVIOUS
  <2> DEFINE old == {g \in Matches : rows[g].status \in Deferred}
             new == {g \in Matches : entry[g].status \in Deferred}
  <2>1. run[w].ctx.threshold # NoPolicy /\ Cardinality(new) > run[w].ctx.threshold
    BY DEF _apply_escalation
  <2>2. new \subseteq old
    <3> SUFFICES ASSUME NEW g \in new PROVE g \in old
      OBVIOUS
    <3>1. g \in Matches /\ entry[g].status \in Deferred /\ g \in AllFindings
      BY DEF AllFindings
    <3>2. entry[g] = rows[g] \/ entry[g] = [status |-> "open", owner |-> 0, due |-> 0]
      BY <3>1 DEF Written
    <3> HIDE DEF entry
    <3> QED BY <3>1, <3>2 DEF Deferred
  <2> HIDE DEF entry, old, new
  <2>3. IsFiniteSet(old)
    BY FindingsAssumption, FS_Subset DEF old
  <2>4. Cardinality(new) <= Cardinality(old) /\ Cardinality(old) \in Nat /\ Cardinality(new) \in Nat
    BY <2>2, <2>3, FS_Subset, FS_CardinalityType
  <2>5. run[w].ctx.threshold \in Nat
    <3>1. run[w].ctx \in Contexts
      BY <1>1 DEF RunTypes, Reading
    <3> QED BY <2>1, <3>1, FindingsAssumption
  <2>6. Cardinality(old) > run[w].ctx.threshold
    BY <2>1, <2>4, <2>5
  <2> QED BY <2>1, <2>6 DEF old
<1>5. rows[f] \in Finding /\ events[f] \in Seq(Event)
  BY DEF FindingsTypes
<1>6. [status |-> "open", owner |-> 0, due |-> 0] \in Finding
  BY FindingsAssumption DEF Finding, Statuses
<1>7. noted \subseteq Matches
  BY <1>3 DEF RunTypes
<1> HIDE DEF entry, more, noted
<1>8. CASE f \notin noted
  <2>1. f \notin more /\ (f \in DOMAIN read => read[f].why = "no")
    BY <1>8 DEF noted
  <2>2. rows'[f] = rows[f] /\ events'[f] = events[f]
    BY <1>1, <1>2, <1>8, <2>1 DEF Written
  <2>3. rows[f].status \in Deferred => rows'[f].status # "open"
    BY <2>2 DEF Deferred
  <2> QED BY <1>5, <2>2, <2>3 DEF Told
<1>9. CASE f \in noted
  <2> DEFINE why == IF f \in more THEN "escalation" ELSE read[f].why
             e == [to |-> "open", by |-> "run", reason |-> why]
  <2>1. f \notin more => f \in DOMAIN read /\ read[f].why # "no"
    BY <1>9 DEF noted
  <2>2. rows'[f] \in Finding /\ rows'[f].status = "open"
    <3>1. CASE f \in more
      <4>1. f \notin DOMAIN read /\ entry[f] = rows[f]
        BY <1>2, <1>3, <3>1
      <4>2. rows'[f] = [rows[f] EXCEPT !.status = "open", !.owner = 0, !.due = 0]
        BY <1>1, <3>1, <4>1
      <4>3. rows'[f] = [status |-> "open", owner |-> 0, due |-> 0]
        BY <1>5, <4>2 DEF Finding
      <4> QED BY <1>6, <4>3
    <3>2. CASE f \notin more
      <4>1. rows'[f] = [status |-> "open", owner |-> 0, due |-> 0]
        BY <1>1, <1>2, <2>1, <3>2 DEF Written
      <4> QED BY <1>6, <4>1
    <3> QED BY <3>1, <3>2
  <2>3. why \in Reasons
    <3>1. f \notin more => read[f] \in Chosen
      BY <2>1 DEF RunTypes
    <3> QED BY <3>1 DEF Reasons, Chosen
  <2>4. events'[f] = Append(events[f], e)
    BY <1>1, <1>9
  <2>5. e \in Event /\ e.to = "open" /\ e.reason = why
    BY <2>3 DEF Event, Statuses
  <2>6. Len(events[f]) < MaxEvents
    <3>1. Cardinality(noted) \in Nat /\ Cardinality(noted) >= 1
      BY <1>7, <1>9, Counted
    <3>2. Len(events[f]) + Cardinality(noted) <= MaxEvents
      BY <1>1, <3>1, Roomy
    <3>3. Len(events[f]) \in Nat /\ MaxEvents \in Nat
      BY <1>5, FindingsAssumption
    <3> QED BY <3>1, <3>2, <3>3
  <2>7. events'[f][Len(events'[f])].reason = why
    <3> HIDE DEF e
    <3>1. events'[f][Len(events'[f])] = e
      BY <1>5, <2>4, <2>5, Appended
    <3> QED BY <2>5, <3>1
  <2> HIDE DEF e
  <2>8. Told(f)
    BY <2>2, <2>4, <2>5, <2>6 DEF Told, Deferred
  <2>9. \/ f \in DOMAIN read /\ why = read[f].why /\ why # "no"
        \/ f \in more /\ why = "escalation"
    BY <2>1
  <2> HIDE DEF why
  <2> QED BY <1>4, <2>2, <2>7, <2>8, <2>9
<1> QED BY <1>8, <1>9

\* The commit of a run.
LEMMA CommitKeeps ==
    ASSUME FInv, NEW w \in Ingests, ingest(w) PROVE FInv'
<1> USE DEF FInv
<1>1. /\ run' = [run EXCEPT ![w] = Resting] /\ UNCHANGED <<decision, today, accepted>>
      /\ overlapped' = overlapped \cup {f \in DOMAIN run[w].read : rows[f] # run[w].read[f].row}
      /\ rows' = [f \in AllFindings |-> rows'[f]] /\ events' = [f \in AllFindings |-> events'[f]]
  BY DEF ingest
<1>2. overlapped \subseteq overlapped' /\ overlapped' \subseteq AllFindings
  BY <1>1 DEF FindingsTypes, RunTypes, AllFindings
<1>3. \A f \in AllFindings : Told(f) /\ rows'[f] \in Finding
  BY IngestTells
<1>4. rows' \in [AllFindings -> Finding]
  BY <1>1, <1>3
<1>5. events' \in [AllFindings -> Seq(Event)] /\ Bounded' /\ DeferralRules' /\ TimelineTrue'
  BY <1>1, <1>2, <1>3, <1>4, TableKeeps
<1>6. FindingsTypes'
  BY <1>1, <1>2, <1>4, <1>5 DEF FindingsTypes
<1>7. RunTypes' /\ Caused' /\ DecisionRules'
  BY <1>1, RunRests, DecisionStays
<1> QED BY <1>5, <1>6, <1>7

\* A run rolled back.
LEMMA RollbackKeeps ==
    ASSUME FInv, NEW w \in Ingests, ingest_fails(w) PROVE FInv'
<1>1. /\ run' = [run EXCEPT ![w] = Resting]
      /\ UNCHANGED <<rows, events, decision, today, overlapped, accepted>>
  BY DEF ingest_fails
<1>2. FindingsTypes'
  BY <1>1 DEF FInv, FindingsTypes
<1> QED BY <1>1, <1>2, TableStays, RunRests, DecisionStays DEF FInv

\* A decision passed the rules.
LEMMA DecideKeeps ==
    ASSUME FInv, NEW f \in AllFindings, decide(f) PROVE FInv'
<1> USE DEF FInv
<1>1. UNCHANGED <<rows, events, run, today, overlapped, accepted>>
  BY DEF decide
<1>2. rows[f] \in Finding /\ today \in Nat
  BY DEF FindingsTypes
<1>3. DecisionRules'
  <2>1. CASE \E to \in Deferred, owner \in 0 .. 1, due \in 0 .. MaxDay :
               /\ Deferrable(f, owner, due)
               /\ decision' = [pc |-> "flush", on |-> f, to |-> to, reason |-> "accepted",
                               owner |-> owner, due |-> due, was |-> rows[f]]
    BY <1>2, <2>1 DEF DecisionRules, Deferrable
  <2>2. CASE \E why \in {"accepted", "false_positive"} :
               decision' = [pc |-> "flush", on |-> f, to |-> "fixed", reason |-> why,
                            owner |-> rows[f].owner, due |-> rows[f].due, was |-> rows[f]]
    BY <1>2, <2>2 DEF DecisionRules, Finding, Deferred
  <2> QED BY <2>1, <2>2 DEF decide
<1>4. FindingsTypes'
  BY <1>1 DEF FindingsTypes
<1>5. RunTypes' /\ Caused'
  BY <1>1, <1>2, RunsStay
<1> QED BY <1>1, <1>3, <1>4, <1>5, TableStays

\* What the flush of a decision leaves in the row: the decision, unless another
\* transaction changed the row since it was read; never an open row that was
\* deferred.
LEMMA Flushed ==
    ASSUME FInv, decision.pc = "flush"
    PROVE  LET d == decision
               r == [rows[d.on] EXCEPT !.status = Column(d.was.status, d.to, @),
                                       !.owner = Column(d.was.owner, d.owner, @),
                                       !.due = Column(d.was.due, d.due, @)]
           IN  /\ r \in Finding /\ r.status \in {d.to, rows[d.on].status}
               /\ rows[d.on] = d.was => r.status = d.to /\ r.owner = d.owner /\ r.due = d.due
<1> USE DEF FInv
<1> DEFINE d == decision
           now == rows[d.on]
           s == Column(d.was.status, d.to, now.status)
           o == Column(d.was.owner, d.owner, now.owner)
           u == Column(d.was.due, d.due, now.due)
           r == [now EXCEPT !.status = s, !.owner = o, !.due = u]
<1>1. /\ now \in Finding /\ d.to \in Statuses /\ d.owner \in 0 .. 1 /\ d.due \in 0 .. MaxDay
  BY DEF FindingsTypes, DecisionRules, Statuses, Deferred
<1>2. /\ s \in {d.to, now.status} /\ o \in {d.owner, now.owner} /\ u \in {d.due, now.due}
  BY DEF Column
<1>3. now = d.was => s = d.to /\ o = d.owner /\ u = d.due
  BY DEF Column
<1> HIDE DEF s, o, u, d, now
<1>4. s \in Statuses /\ o \in 0 .. 1 /\ u \in 0 .. MaxDay
  BY <1>1, <1>2 DEF Finding
<1>5. r \in Finding /\ r.status = s /\ r.owner = o /\ r.due = u
  BY <1>1, <1>4 DEF Finding
<1>6. /\ r \in Finding /\ r.status \in {d.to, now.status}
      /\ now = d.was => r.status = d.to /\ r.owner = d.owner /\ r.due = d.due
  BY <1>2, <1>3, <1>5
<1> QED BY <1>6 DEF r, s, o, u, d, now

\* The flush of a decision: what it does to one finding.
LEMMA FlushTells ==
    ASSUME FInv, decide_finding, NEW f \in AllFindings
    PROVE  /\ Told(f) /\ rows'[f] \in Finding
           /\ rows[f].status \in Deferred => rows'[f].status # "open"
<1> USE DEF FInv
<1> DEFINE d == decision
           r == [rows[d.on] EXCEPT !.status = Column(d.was.status, d.to, @),
                                   !.owner = Column(d.was.owner, d.owner, @),
                                   !.due = Column(d.was.due, d.due, @)]
           e == [to |-> d.to, by |-> "person", reason |-> d.reason]
<1>1. d.pc = "flush" /\ Room(1) /\ rows[f] \in Finding
  BY DEF decide_finding, FindingsTypes
<1>2. CASE f # d.on \/ ~Committing
  <2>1. rows'[f] = rows[f] /\ events'[f] = events[f]
    BY <1>2 DEF decide_finding, FindingsTypes
  <2> QED BY <1>1, <2>1 DEF Told, Deferred
<1>3. CASE f = d.on /\ Committing
  <2>1. /\ rows'[f] = r /\ events'[f] = Append(events[f], e)
        /\ overlapped' = IF rows[f] # d.was THEN overlapped \cup {f} ELSE overlapped
    BY <1>3 DEF decide_finding, FindingsTypes
  <2>2. /\ r \in Finding /\ r.status \in {d.to, rows[f].status}
        /\ rows[f] = d.was => r.status = d.to /\ r.owner = d.owner /\ r.due = d.due
    BY <1>1, <1>3, Flushed
  <2>3. /\ d.to \in Deferred \cup {"fixed"} /\ d.reason \in {"accepted", "false_positive"}
        /\ d.to \in Deferred => f \notin Blocking /\ d.owner # 0 /\ d.due # 0
    BY <1>1, <1>3 DEF DecisionRules
  <2>4. e \in Event /\ e.to = d.to
    BY <2>3 DEF Event, Statuses, Reasons
  <2>5. Len(events[f]) < MaxEvents
    <3>1. Len(events[f]) + 1 <= MaxEvents
      BY <1>1, Roomy
    <3>2. Len(events[f]) \in Nat /\ MaxEvents \in Nat
      BY FindingsAssumption DEF FindingsTypes
    <3> QED BY <3>1, <3>2
  <2> HIDE DEF r, e
  <2>6. f \notin overlapped' => rows[f] = d.was
    BY <2>1
  <2>7. r.status \in Deferred => f \notin Blocking
    <3>1. CASE r.status = d.to
      BY <2>3, <3>1
    <3>2. CASE r.status = rows[f].status
      BY <3>2 DEF DeferralRules
    <3> QED BY <2>2, <3>1, <3>2
  <2>8. Told(f)
    BY <2>1, <2>2, <2>3, <2>4, <2>5, <2>6, <2>7 DEF Told
  <2>9. rows[f].status \in Deferred => r.status # "open"
    BY <2>2, <2>3 DEF Deferred
  <2> QED BY <2>1, <2>2, <2>8, <2>9
<1> QED BY <1>2, <1>3

\* The end of a decision's request.
LEMMA FlushKeeps ==
    ASSUME FInv, decide_finding PROVE FInv'
<1> USE DEF FInv
<1> DEFINE d == decision
<1>1. UNCHANGED <<run, today>> /\ decision' = Undecided /\ d.on \in AllFindings
      /\ accepted' = [accepted EXCEPT ![d.on] = @ + 1]
  BY DEF decide_finding, DecisionRules
<1>2. overlapped \subseteq overlapped' /\ overlapped' \subseteq AllFindings
  BY <1>1 DEF decide_finding, FindingsTypes
<1>3. \A f \in AllFindings : Told(f) /\ rows'[f] \in Finding
  BY FlushTells
<1>4. rows' = [f \in AllFindings |-> rows'[f]] /\ events' = [f \in AllFindings |-> events'[f]]
  BY DEF decide_finding, FindingsTypes
<1>5. rows' \in [AllFindings -> Finding]
  BY <1>3, <1>4
<1>6. events' \in [AllFindings -> Seq(Event)] /\ Bounded' /\ DeferralRules' /\ TimelineTrue'
  BY <1>2, <1>3, <1>4, <1>5, TableKeeps
<1>7. FindingsTypes'
  <2>1. accepted \in [AllFindings -> Nat] /\ accepted[d.on] + 1 \in Nat
    BY <1>1 DEF FindingsTypes
  <2>2. accepted' \in [AllFindings -> Nat]
    BY <1>1, <2>1
  <2> QED BY <1>1, <1>2, <1>5, <1>6, <2>2 DEF FindingsTypes
<1>8. DecisionRules'
  BY <1>1 DEF DecisionRules, Undecided
<1>9. RunTypes' /\ Caused'
  BY <1>1, RunsStay DEF FindingsTypes
<1> QED BY <1>6, <1>7, <1>8, <1>9

\* The rule-quality finding opens, or opens again.
LEMMA WatchKeeps ==
    ASSUME FInv, rule_quality_watch PROVE FInv' /\ \A f \in Matches : rows'[f] = rows[f]
<1> USE DEF FInv
<1> DEFINE why == IF rows[Meta] = NoFinding THEN "false_positive" ELSE "escalation"
           e == [to |-> "open", by |-> "run", reason |-> why]
<1>1. /\ UNCHANGED <<run, decision, today, overlapped, accepted>> /\ Room(1)
      /\ rows' = [rows EXCEPT ![Meta].status = "open"]
      /\ events' = [events EXCEPT ![Meta] = Append(@, e)]
  BY DEF rule_quality_watch
<1>2. Meta \in AllFindings /\ Meta \notin Matches /\ rows[Meta] \in Finding
  BY FindingsAssumption DEF AllFindings, FindingsTypes
<1>3. e \in Event /\ e.to = "open"
  BY DEF Event, Statuses, Reasons
<1> HIDE DEF e
<1>4. /\ rows' \in [AllFindings -> Finding] /\ rows'[Meta].status = "open"
      /\ events'[Meta] = Append(events[Meta], e)
      /\ events' = [f \in AllFindings |-> events'[f]]
      /\ \A f \in AllFindings : f # Meta => rows'[f] = rows[f] /\ events'[f] = events[f]
  <2>1. rows'[Meta] = [rows[Meta] EXCEPT !.status = "open"]
    BY <1>1, <1>2 DEF FindingsTypes
  <2>2. rows'[Meta] \in Finding /\ rows'[Meta].status = "open"
    BY <1>2, <2>1 DEF Finding, Statuses
  <2> QED BY <1>1, <1>2, <2>2 DEF FindingsTypes
<1>5. Len(events[Meta]) < MaxEvents
  <2>1. Len(events[Meta]) + 1 <= MaxEvents
    BY <1>1, <1>2, Roomy
  <2>2. Len(events[Meta]) \in Nat /\ MaxEvents \in Nat
    BY <1>2, FindingsAssumption DEF FindingsTypes
  <2> QED BY <2>1, <2>2
<1>6. \A f \in AllFindings : Told(f)
  BY <1>3, <1>4, <1>5 DEF Told, Deferred
<1>7. overlapped' = overlapped /\ overlapped \subseteq AllFindings
  BY <1>1 DEF FindingsTypes
<1>8. events' \in [AllFindings -> Seq(Event)] /\ Bounded' /\ DeferralRules' /\ TimelineTrue'
  BY <1>4, <1>6, <1>7, TableKeeps
<1>9. FindingsTypes'
  BY <1>1, <1>4, <1>7, <1>8 DEF FindingsTypes
<1>10. RunTypes' /\ Caused' /\ DecisionRules'
  BY <1>1, RunsStay, DecisionStays DEF FindingsTypes
<1>11. \A f \in Matches : rows'[f] = rows[f]
  BY <1>2, <1>4 DEF AllFindings
<1> QED BY <1>8, <1>9, <1>10, <1>11

\* A day passes, or nothing changes.
LEMMA DayKeeps ==
    ASSUME FInv, NextDay \/ UNCHANGED findingsVars PROVE FInv'
<1> USE DEF FInv
<1>1. /\ UNCHANGED <<rows, events, run, decision, overlapped, accepted>>
      /\ today' \in 0 .. MaxDay /\ today \in Nat /\ today <= today'
  BY FindingsAssumption DEF NextDay, findingsVars, FindingsTypes
<1>2. FindingsTypes'
  BY <1>1 DEF FindingsTypes
<1> QED BY <1>1, <1>2, TableStays, RunsStay, DecisionStays

\* No finding, no run, no decision.
LEMMA FindingsStart == FindingsInit => FInv
<1> SUFFICES ASSUME FindingsInit PROVE FInv
  OBVIOUS
<1>1. NoFinding \in Finding /\ NoFinding.status = "none"
  BY FindingsAssumption DEF NoFinding, Finding, Statuses
<1>2. FindingsTypes
  BY <1>1, FindingsAssumption DEF FindingsInit, FindingsTypes
<1>3. \A f \in AllFindings : events[f] = <<>> /\ rows[f].status = "none"
  BY <1>1 DEF FindingsInit
<1>4. Bounded /\ DeferralRules /\ TimelineTrue
  BY <1>3, FindingsAssumption DEF Bounded, DeferralRules, TimelineTrue, Deferred
<1>5. DOMAIN Resting.read = {}
  BY DEF Resting
<1>6. RunTypes /\ Caused
  BY <1>5 DEF FindingsInit, RunTypes, Caused, Reading
<1>7. DecisionRules
  BY DEF FindingsInit, DecisionRules, Undecided
<1> QED BY <1>2, <1>4, <1>6, <1>7 DEF FInv

\* Every step of a run, of a decision and of the calendar keeps the invariant.
LEMMA FindingsStep == FInv /\ [FindingsNext]_findingsVars => FInv'
<1> SUFFICES ASSUME FInv, [FindingsNext]_findingsVars PROVE FInv'
  OBVIOUS
<1> QED BY ReadKeeps, CommitKeeps, RollbackKeeps, DecideKeeps, FlushKeeps, WatchKeeps, DayKeeps
        DEF FindingsNext

\* Whatever transactions overlap on a finding, its row, its timeline and what
\* runs and decisions have read of it stand in the relations of FInv.
THEOREM Recorded == FindingsSpec => []FInv
BY FindingsStart, FindingsStep, PTL DEF FindingsSpec

\* A blocking finding is never deferred, a deferral keeps its owner and its due
\* date, and the last event of a finding names its status, after any decisions
\* (decide, decide_finding), ingests and reopenings that did not overlap on it.
THEOREM FindingsHold == FindingsSpec => []FindingsTrue
<1>1. FInv => FindingsTrue
  BY DEF FInv, FindingsTrue, FindingsTypeOK, FindingsTypes, Bounded, RunTypes
<1> QED BY <1>1, Recorded, PTL

\* What a reopening's event says of a deferral that no transaction overlapped
\* was true of the row (should_reactivate, _apply_escalation).
THEOREM CauseHolds == FindingsSpec => ReopenedForCause
<1>1. FInv /\ [FindingsNext]_findingsVars
        => [\A f \in Matches :
             /\ rows[f].status \in Deferred /\ rows'[f].status = "open" /\ f \notin overlapped'
             => LET why == events'[f][Len(events'[f])].reason IN
                /\ why = "due" => rows[f].due # 0 /\ rows[f].due <= today
                /\ why = "escalation" => \E w \in Ingests :
                     /\ Reading(w) /\ run[w].ctx.threshold # NoPolicy
                     /\ \/ f \in DOMAIN run[w].read
                        \/ Cardinality({g \in Matches : rows[g].status \in Deferred})
                             > run[w].ctx.threshold
                /\ why \in {"due", "escalation", "code_drift"}]_findingsVars
  <2> SUFFICES ASSUME FInv, FindingsNext, NEW f \in Matches,
                      rows[f].status \in Deferred, rows'[f].status = "open", f \notin overlapped'
               PROVE  LET why == events'[f][Len(events'[f])].reason IN
                      /\ why = "due" => rows[f].due # 0 /\ rows[f].due <= today
                      /\ why = "escalation" => \E w \in Ingests :
                           /\ Reading(w) /\ run[w].ctx.threshold # NoPolicy
                           /\ \/ f \in DOMAIN run[w].read
                              \/ Cardinality({g \in Matches : rows[g].status \in Deferred})
                                   > run[w].ctx.threshold
                      /\ why \in {"due", "escalation", "code_drift"}
    OBVIOUS
  <2> USE DEF FInv
  <2>1. f \in AllFindings
    BY DEF AllFindings
  <2>2. rows'[f] # rows[f]
    BY DEF Deferred
  <2>3. PICK w \in Ingests : ingest(w)
    <3>1. ~rule_quality_watch
      BY <2>2, WatchKeeps
    <3>2. ~decide_finding
      BY <2>1, FlushTells
    <3> QED BY <2>2, <3>1, <3>2 DEF FindingsNext, _make_ingest, ingest_fails, decide, NextDay
  <2> DEFINE why == events'[f][Len(events'[f])].reason
             read == run[w].read
  <2>4. Reading(w)
    BY <2>3 DEF ingest
  <2>5. \/ f \in DOMAIN read /\ why = read[f].why /\ why # "no"
        \/ /\ why = "escalation" /\ run[w].ctx.threshold # NoPolicy
           /\ Cardinality({g \in Matches : rows[g].status \in Deferred}) > run[w].ctx.threshold
    BY <2>1, <2>3, IngestTells
  <2> HIDE DEF why
  <2>6. CASE f \in DOMAIN read /\ why = read[f].why /\ why # "no"
    <3>1. read[f].row = rows[f]
      BY <2>3, <2>6 DEF ingest
    <3>2. read[f] \in Chosen
      BY <2>6 DEF RunTypes
    <3>3. why \in {"matched", "escalation", "code_drift", "due", "no"}
      BY <2>6, <3>2 DEF Chosen
    <3>4. /\ why = "matched" => rows[f].status = "none"
          /\ why = "due" => rows[f].due # 0 /\ rows[f].due <= today
          /\ why = "escalation" => run[w].ctx.threshold # NoPolicy
      BY <2>6, <3>1 DEF Caused
    <3>5. why # "matched"
      BY <3>4 DEF Deferred
    <3> QED BY <2>4, <2>6, <3>3, <3>4, <3>5 DEF why
  <2>7. CASE /\ why = "escalation" /\ run[w].ctx.threshold # NoPolicy
             /\ Cardinality({g \in Matches : rows[g].status \in Deferred}) > run[w].ctx.threshold
    BY <2>4, <2>7 DEF why
  <2> QED BY <2>5, <2>6, <2>7
<1> QED BY <1>1, Recorded, PTL DEF FindingsSpec, ReopenedForCause

-----------------------------------------------------------------------------
(* The suites that judge a run: what a run froze, and what its pull request *)
(* says of it.                                                              *)

IsTree(t) == DOMAIN t = Files

RunFields == {"pc", "kind", "base", "work", "policy", "user", "ai", "verdict"}
\* The suites of a run are those of its base: each check runs one of the files
\* its provider reads, and none of them is the source.
RunFrozen ==
    task.pc # "idle" =>
      /\ DOMAIN task = RunFields /\ IsTree(task.base) /\ IsTree(task.work)
      /\ \A c \in task.user.checks : c.runs \in {"tests", "makefile", "ci"}
      /\ \A c \in task.ai.checks : c.runs = "script"

PullJudged(p) ==
    p.kind # "checks" /\ p.rule = "on_green" =>
        LET judges == IF gating(p.user) # {} THEN gating(p.user) ELSE gating(p.ai)
            unweakened == [p.base EXCEPT !.source = p.work.source] IN
        judges # {} /\ \A c \in judges : run_command(c, unweakened, FALSE, FALSE)
PullApart(p) ==
    IF p.kind = "checks" THEN p.work.source = p.base.source /\ p.work.policy = p.base.policy
    ELSE p.work.script = p.base.script /\ p.work.manifest = p.base.manifest

JudgeInv ==
    /\ IsTree(tree) /\ task.pc \in {"idle", "gates", "review", "publish"} /\ RunFrozen
    /\ \A p \in pulls : IsTree(p.base) /\ IsTree(p.work) /\ PullJudged(p) /\ PullApart(p)

LEMMA SuiteFiles ==
    ASSUME NEW t, NEW policy
    PROVE  /\ \A c \in resolve_user_suite(t, policy).checks : c.runs \in {"tests", "makefile", "ci"}
           /\ \A c \in load_agent_checks(t).checks : c.runs = "script"
<1>1. \A c \in policy_checks(policy) : c.runs = "ci"
  <2>1. Check("ci", "ci", TRUE).runs = "ci"
    BY DEF Check
  <2> QED
    BY <2>1, Zenon DEF policy_checks
<1>2. \A c \in discover_checks(t) : c.runs \in {"tests", "makefile"}
  <2>1. Check("pytest", "tests", TRUE).runs = "tests" /\ Check("make:test", "makefile", TRUE).runs = "makefile"
    BY DEF Check
  <2>2. \A c \in python_checks(t) : c.runs = "tests"
    BY <2>1, Zenon DEF python_checks
  <2>3. \A c \in makefile_checks(t) : c.runs = "makefile"
    BY <2>1, Zenon DEF makefile_checks
  <2> QED
    BY <2>2, <2>3 DEF discover_checks
<1>3. resolve_user_suite(t, policy).checks \in {policy_checks(policy), discover_checks(t), {}}
  BY DEF resolve_user_suite, Suite
<1>4. \A c \in load_agent_checks(t).checks : c.runs = "script"
  <2>1. load_agent_checks(t).checks = IF t.manifest # "" THEN _load_manifest(t)
                                      ELSE IF t.script # "" THEN {Check("a", "script", FALSE)} ELSE {}
    BY DEF load_agent_checks, Suite
  <2>2. /\ Check("a", "script", FALSE).runs = "script"
        /\ Check("a", "script", t.manifest = "validated").runs = "script"
    BY DEF Check
  <2>3. \A c \in _load_manifest(t) : c.runs = "script"
    BY <2>2, Zenon DEF _load_manifest
  <2> QED
    BY <2>1, <2>2, <2>3, Zenon
<1> QED
  BY <1>1, <1>2, <1>3, <1>4

\* An edit, and what the curator writes into the manifest, keep a tree's shape.
LEMMA EditedTree ==
    ASSUME NEW t, IsTree(t), NEW u \in Edited(t), NEW slow
    PROVE  IsTree(u) /\ IsTree(curate_workspace(u, slow))
<1>1. PICK f, g, x, y : f \in Files /\ g \in Files /\ u = Write(t, f, x, g, y)
  BY DEF Edited, Files
<1>2. IsTree(u)
  BY <1>1 DEF IsTree, Write
<1> QED
  BY <1>2 DEF IsTree, curate_workspace, apply_validations

LEMMA UnchangedFiles ==
    ASSUME NEW t, NEW u, NEW f \in Files, f \notin changed_paths(t, u)
    PROVE  t[f] = u[f]
BY DEF changed_paths

\* A fix leaves its judges alone.
LEMMA FixGuard ==
    ASSUME NEW t, NEW u, NEW suite, fix_guard_violations(changed_paths(t, u), suite) = {}
    PROVE  /\ t.script = u.script /\ t.manifest = u.manifest /\ t.policy = u.policy
           /\ t.tests = u.tests /\ t.makefile = u.makefile
           /\ \A c \in suite.checks : c.runs = "ci" => t.ci = u.ci
<1>1. \A f \in changed_paths(t, u) : f \notin FIX_PROTECTED /\ ~is_test_path(f) /\ f \notin suite_script_paths(suite)
                                    /\ f \notin SUITE_DECLARATION_NAMES
  BY DEF fix_guard_violations
<1>2. {"script", "manifest", "policy", "tests", "makefile"} \cap changed_paths(t, u) = {}
  BY <1>1 DEF FIX_PROTECTED, is_test_path, SUITE_DECLARATION_NAMES
<1>3. {"script", "manifest", "policy", "tests", "makefile", "ci"} \subseteq Files
  BY DEF Files
<1>4. ASSUME NEW c \in suite.checks, c.runs = "ci" PROVE t.ci = u.ci
  <2>1. "ci" \in suite_script_paths(suite)
    BY <1>4 DEF suite_script_paths
  <2> QED
    BY <2>1, <1>1, <1>3, UnchangedFiles
<1> QED
  BY <1>2, <1>3, <1>4, UnchangedFiles

\* The curator leaves the source and the policy alone.
LEMMA CuratorGuard ==
    ASSUME NEW t, NEW u, curator_guard_violations(changed_paths(t, u)) = {}
    PROVE  t.source = u.source /\ t.policy = u.policy
<1>1. \A f \in changed_paths(t, u) : f \in {"script", "manifest"} \/ is_test_path(f)
  BY DEF curator_guard_violations
<1>2. {"source", "policy"} \cap changed_paths(t, u) = {} /\ {"source", "policy"} \subseteq Files
  BY <1>1 DEF is_test_path, Files
<1> QED
  BY <1>2, UnchangedFiles

\* A check that reads an unchanged file says of the base with the edited source
\* what it said of the edited tree.
LEMMA SameJudgement ==
    ASSUME NEW t, IsTree(t), NEW u, NEW c, c.runs \in Files \ {"source"}, t[c.runs] = u[c.runs], NEW slow,
           run_command(c, u, FALSE, slow)
    PROVE  run_command(c, [t EXCEPT !.source = u.source], FALSE, FALSE)
<1> DEFINE w == [t EXCEPT !.source = u.source]
<1>1. "source" \in Files
  BY DEF Files
<1>2. w.source = u.source /\ w[c.runs] = u[c.runs]
  BY <1>1 DEF IsTree
<1> HIDE DEF w
<1>3. run_command(c, w, FALSE, FALSE)
  BY <1>2 DEF run_command
<1> QED
  BY <1>3 DEF w

\* A suite that was summarised as passed has a check, and all of them passed.
LEMMA SuitePassed ==
    ASSUME NEW suite, NEW t, NEW slow
    PROVE  /\ run_suite(suite, t, slow) = "passed" =>
                gating(suite) # {} /\ \A c \in gating(suite) : run_command(c, t, FALSE, slow)
           /\ run_suite(suite, t, slow) = "unverified" => gating(suite) = {}
BY DEF run_suite, summarize

JudgesOf(p) == IF gating(p.user) # {} THEN gating(p.user) ELSE gating(p.ai)
\* A fix that passed its frozen suites over the tree it publishes passes them
\* with the checks of its base.
LEMMA Unweakened ==
    ASSUME NEW r, IsTree(r.base), NEW slow,
           fix_guard_violations(changed_paths(r.base, r.work), r.user) = {},
           \A c \in r.user.checks : c.runs \in {"tests", "makefile", "ci"},
           \A c \in r.ai.checks : c.runs = "script",
           assess_assurance(run_suite(r.user, r.work, slow), run_suite(r.ai, r.work, slow)).may_open_pr
    PROVE  /\ JudgesOf(r) # {}
           /\ \A c \in JudgesOf(r) :
                run_command(c, [r.base EXCEPT !.source = r.work.source], FALSE, FALSE)
<1> DEFINE user == run_suite(r.user, r.work, slow)
           ai == run_suite(r.ai, r.work, slow)
<1>1. IF user # "unverified" THEN user = "passed" ELSE ai # "unverified" /\ ai = "passed"
  BY DEF assess_assurance
<1>2. user = "unverified" => gating(r.user) = {}
  BY SuitePassed
<1>3. user = "passed" => gating(r.user) # {} /\ \A c \in gating(r.user) : run_command(c, r.work, FALSE, slow)
  BY SuitePassed
<1>4. ai = "passed" => gating(r.ai) # {} /\ \A c \in gating(r.ai) : run_command(c, r.work, FALSE, slow)
  BY SuitePassed
<1> HIDE DEF user, ai
<1>5. JudgesOf(r) # {} /\ \A c \in JudgesOf(r) : run_command(c, r.work, FALSE, slow)
  BY <1>1, <1>2, <1>3, <1>4 DEF JudgesOf
<1>6. ASSUME NEW c \in JudgesOf(r) PROVE c.runs \in Files \ {"source"} /\ r.base[c.runs] = r.work[c.runs]
  <2>1. c \in r.user.checks \/ c \in r.ai.checks
    BY <1>6 DEF JudgesOf, gating
  <2>2. CASE c \in r.user.checks
    BY <2>2, FixGuard DEF Files
  <2>3. CASE c \in r.ai.checks
    BY <2>3, FixGuard DEF Files
  <2> QED
    BY <2>1, <2>2, <2>3
<1> QED
  BY <1>5, <1>6, SameJudgement

LEMMA JudgeInit == ChecksInit => JudgeInv
<1> SUFFICES ASSUME ChecksInit PROVE JudgeInv
  OBVIOUS
<1>1. IsTree(tree)
  BY DEF ChecksInit, Trees, IsTree, Files
<1> QED
  BY <1>1 DEF ChecksInit, JudgeInv, RunFrozen, NoTask

LEMMA JudgeStarts == ASSUME JudgeInv, NEW kind \in Kinds, starts(kind) PROVE JudgeInv'
<1> DEFINE policy == load_policy(tree.policy)
           r == [pc |-> "gates", kind |-> kind, base |-> tree, work |-> tree, policy |-> policy,
                 user |-> resolve_user_suite(tree, policy), ai |-> load_agent_checks(tree),
                 verdict |-> <<"unverified", "unverified">>]
<1>1. task' = NoTask \/ task' = r
  BY DEF starts
<1>2. UNCHANGED <<tree, pulls>>
  BY DEF starts
<1>3. \A c \in r.user.checks : c.runs \in {"tests", "makefile", "ci"}
  BY SuiteFiles
<1>4. \A c \in r.ai.checks : c.runs = "script"
  BY SuiteFiles
<1>5. DOMAIN r = RunFields /\ r.base = tree /\ r.work = tree /\ r.pc = "gates"
  BY DEF RunFields
<1> HIDE DEF r
<1>6. task'.pc \in {"idle", "gates", "review", "publish"} /\ RunFrozen'
  BY <1>1, <1>2, <1>3, <1>4, <1>5 DEF RunFrozen, NoTask, JudgeInv, IsTree
<1> QED
  BY <1>2, <1>6 DEF JudgeInv, IsTree, PullJudged, PullApart

LEMMA JudgeGates == ASSUME JudgeInv, run_gates PROVE JudgeInv'
<1>1. PICK v : task' = [task EXCEPT !.pc = "review", !.verdict = v]
  BY DEF run_gates
<1>2. UNCHANGED <<tree, pulls>> /\ task.pc = "gates"
  BY DEF run_gates
<1>3. /\ DOMAIN task' = RunFields /\ task'.pc = "review" /\ task'.base = task.base /\ task'.work = task.work
      /\ task'.user = task.user /\ task'.ai = task.ai
  BY <1>1, <1>2 DEF JudgeInv, RunFrozen, RunFields
<1>4. RunFrozen'
  BY <1>2, <1>3 DEF JudgeInv, RunFrozen, IsTree
<1> QED
  BY <1>2, <1>3, <1>4 DEF JudgeInv, IsTree, PullJudged, PullApart

LEMMA JudgeReview == ASSUME JudgeInv, review PROVE JudgeInv'
<1>1. PICK t \in Edited(task.base), slow \in BOOLEAN :
        task' = IF task.kind = "checks" /\ CheckSuiteRaises(t) THEN NoTask
                ELSE [task EXCEPT !.pc = "publish",
                        !.work = IF task.kind = "checks" THEN curate_workspace(t, slow) ELSE t]
  BY DEF review
<1>2. UNCHANGED <<tree, pulls>> /\ task.pc = "review"
  BY DEF review
<1>3. IsTree(t) /\ IsTree(curate_workspace(t, slow))
  BY <1>2, EditedTree DEF JudgeInv, RunFrozen
<1>4. CASE task' = NoTask
  BY <1>2, <1>4 DEF JudgeInv, IsTree, PullJudged, PullApart, RunFrozen, NoTask
<1>5. CASE task' # NoTask
  <2>1. PICK w : IsTree(w) /\ task' = [task EXCEPT !.pc = "publish", !.work = w]
    BY <1>1, <1>3, <1>5
  <2>2. /\ DOMAIN task' = RunFields /\ task'.pc = "publish" /\ task'.base = task.base /\ task'.work = w
        /\ task'.user = task.user /\ task'.ai = task.ai
    BY <2>1, <1>2 DEF JudgeInv, RunFrozen, RunFields
  <2>3. RunFrozen'
    BY <2>1, <2>2, <1>2 DEF JudgeInv, RunFrozen, IsTree
  <2> QED
    BY <1>2, <2>2, <2>3 DEF JudgeInv, IsTree, PullJudged, PullApart
<1> QED
  BY <1>4, <1>5

\* Publishing the run adds at most the pull request below, opened when the guard
\* and, under on_green, the frozen suites agree.
NewPull(r, rule, v, level) ==
    [kind |-> r.kind, base |-> r.base, work |-> r.work, rule |-> rule,
     user |-> r.user, ai |-> r.ai, body |-> v, level |-> level]
LEMMA Published ==
    ASSUME publish
    PROVE  /\ task.pc = "publish" /\ task' = NoTask /\ UNCHANGED tree
           /\ \/ pulls' = pulls
              \/ \E rule, v, level :
                   /\ pulls' = pulls \cup {NewPull(task, rule, v, level)}
                   /\ _guard_task_paths(task)
                   /\ rule = "on_green" /\ task.kind # "checks" =>
                        \E slow \in BOOLEAN :
                           assess_assurance(run_suite(task.user, task.work, slow),
                                            run_suite(task.ai, task.work, slow)).may_open_pr
<1> DEFINE rule == _effective_pr_policy(task.policy)
           fresh == rule = "on_green" /\ task.kind # "checks"
           v(slow) == IF fresh THEN Verdict(task, task.work, slow) ELSE task.verdict
           a(slow) == assess_assurance(v(slow)[1], v(slow)[2])
<1>1. PICK slow \in BOOLEAN :
        \/ pulls' = pulls
        \/ /\ _guard_task_paths(task) /\ (fresh => a(slow).may_open_pr)
           /\ pulls' = pulls \cup {NewPull(task, rule, v(slow), a(slow).level)}
  <2>1. PICK slow \in BOOLEAN :
          pulls' = IF ~(/\ writes_source(task) /\ _guard_task_paths(task)
                        /\ rule # "never" /\ task.work # task.base)
                      \/ (fresh /\ ~a(slow).may_open_pr)
                   THEN pulls ELSE pulls \cup {NewPull(task, rule, v(slow), a(slow).level)}
    BY Zenon DEF publish, NewPull
  <2> QED
    BY <2>1, Zenon
<1>2. fresh => /\ v(slow)[1] = run_suite(task.user, task.work, slow)
               /\ v(slow)[2] = run_suite(task.ai, task.work, slow)
  BY DEF Verdict
<1>3. task.pc = "publish" /\ task' = NoTask /\ UNCHANGED tree
  BY DEF publish
<1>4. fresh => a(slow) = assess_assurance(run_suite(task.user, task.work, slow), run_suite(task.ai, task.work, slow))
  BY <1>2
<1>5. CASE pulls' # pulls
  <2>1. rule = "on_green" /\ task.kind # "checks" =>
          assess_assurance(run_suite(task.user, task.work, slow), run_suite(task.ai, task.work, slow)).may_open_pr
    BY <1>1, <1>4, <1>5
  <2> HIDE DEF rule, fresh, v, a
  <2> QED
    BY <1>1, <1>3, <1>5, <2>1, Zenon
<1> QED
  BY <1>3, <1>5

LEMMA JudgePublish == ASSUME JudgeInv, publish PROVE JudgeInv'
<1>1. task.pc = "publish" /\ task' = NoTask /\ UNCHANGED tree
  BY Published
<1>2. RunFrozen /\ task.pc # "idle"
  BY <1>1 DEF JudgeInv
<1>3. CASE pulls' = pulls
  BY <1>1, <1>3 DEF JudgeInv, IsTree, PullJudged, PullApart, RunFrozen, NoTask
<1>4. ASSUME NEW rule, NEW v, NEW level, pulls' = pulls \cup {NewPull(task, rule, v, level)},
             _guard_task_paths(task),
             rule = "on_green" /\ task.kind # "checks" =>
               \E slow \in BOOLEAN : assess_assurance(run_suite(task.user, task.work, slow),
                                                     run_suite(task.ai, task.work, slow)).may_open_pr
      PROVE JudgeInv'
  <2> DEFINE p == NewPull(task, rule, v, level)
  <2>1. /\ p.kind = task.kind /\ p.base = task.base /\ p.work = task.work /\ p.rule = rule
        /\ p.user = task.user /\ p.ai = task.ai
    BY DEF NewPull
  <2> HIDE DEF p
  <2>2. PullApart(p)
    <3>1. CASE task.kind = "checks"
      BY <1>4, <2>1, <3>1, CuratorGuard DEF PullApart, _guard_task_paths
    <3>2. CASE task.kind # "checks"
      BY <1>4, <2>1, <3>2, FixGuard DEF PullApart, _guard_task_paths
    <3> QED
      BY <3>1, <3>2
  <2>3. PullJudged(p)
    <3> SUFFICES ASSUME task.kind # "checks", rule = "on_green" PROVE PullJudged(p)
      BY <2>1 DEF PullJudged
    <3>1. PICK slow \in BOOLEAN : assess_assurance(run_suite(task.user, task.work, slow),
                                                  run_suite(task.ai, task.work, slow)).may_open_pr
      BY <1>4
    <3>2. fix_guard_violations(changed_paths(task.base, task.work), task.user) = {}
      BY <1>4 DEF _guard_task_paths
    <3>3. /\ JudgesOf(task) # {}
          /\ \A c \in JudgesOf(task) :
               run_command(c, [task.base EXCEPT !.source = task.work.source], FALSE, FALSE)
      BY <3>1, <3>2, <1>2, Unweakened DEF RunFrozen
    <3> QED
      BY <3>3, <2>1 DEF PullJudged, JudgesOf
  <2>4. IsTree(p.base) /\ IsTree(p.work)
    BY <1>2, <2>1 DEF RunFrozen
  <2>5. pulls' = pulls \cup {p}
    BY <1>4 DEF p
  <2> QED
    BY <1>1, <2>2, <2>3, <2>4, <2>5 DEF JudgeInv, IsTree, PullJudged, PullApart, RunFrozen, NoTask
<1> QED
  BY <1>3, <1>4, Published

\* What people do to the branch leaves the run alone, and takes pull requests away.
LEMMA JudgePeople ==
    ASSUME JudgeInv, UNCHANGED task, pulls' \subseteq pulls, IsTree(tree)'
    PROVE  JudgeInv'
BY DEF JudgeInv, IsTree, PullJudged, PullApart, RunFrozen

LEMMA JudgeStep == JudgeInv /\ [ChecksNext]_checksVars => JudgeInv'
<1> SUFFICES ASSUME JudgeInv, [ChecksNext]_checksVars PROVE JudgeInv'
  OBVIOUS
<1>1. CASE \E kind \in Kinds : starts(kind)
  BY <1>1, JudgeStarts
<1>2. CASE run_gates \/ review \/ publish
  BY <1>2, JudgeGates, JudgeReview, JudgePublish
<1>3. ASSUME NEW p \in pulls, Merges(p) PROVE JudgeInv'
  BY <1>3, JudgePeople DEF Merges, IsTree
<1>4. ASSUME NEW p \in pulls, Closes(p) PROVE JudgeInv'
  BY <1>4, JudgePeople DEF Closes, IsTree, JudgeInv
<1>5. CASE SuiteCommits
  <2>1. IsTree(tree)'
    BY <1>5 DEF SuiteCommits, IsTree, JudgeInv
  <2> QED
    BY <1>5, <2>1, JudgePeople DEF SuiteCommits
<1>6. CASE DayPasses
  BY <1>6, JudgePeople DEF DayPasses, IsTree, JudgeInv
<1>7. CASE UNCHANGED checksVars
  BY <1>7, JudgePeople DEF checksVars, IsTree, JudgeInv
<1> QED
  BY <1>1, <1>2, <1>3, <1>4, <1>5, <1>6, <1>7 DEF ChecksNext

\* One run may never both produce a fix and weaken the checks that judge it: what
\* on_green opened passes the gating checks of its base as the base had them, and
\* no run changes both code and checks (_guard_task_paths, fix_guard_violations,
\* curator_guard_violations, _publish).  It holds for every bound and every suite.
THEOREM JudgesApart == ChecksSpec => [](JudgedFairly /\ RolesApart)
<1>1. JudgeInv => JudgedFairly /\ RolesApart
  BY DEF JudgeInv, JudgedFairly, RolesApart, PullJudged, PullApart
<1> QED
  BY <1>1, JudgeInit, JudgeStep, PTL DEF ChecksSpec

-----------------------------------------------------------------------------
(* The right to gate: one proposal open at a time, and no check that fails  *)
(* only for where or how long it runs.                                      *)

\* What the curator leaves in its checkout was validated there.
Validated(t) == t.manifest = "validated" => t.script = "sharp"
\* The suite a proposal started from is still the default branch's.
BaseCurrent(base) == base.script = tree.script /\ (tree.manifest = "validated" => base.manifest = "validated")
Proposals == {p \in pulls : p.kind = "checks"}

TaskCurrent ==
    task.pc # "idle" =>
      /\ task.base.script \in Scripts /\ task.work.script \in Scripts
      /\ task.kind = "checks" => Proposals = {} /\ BaseCurrent(task.base)
      /\ task.kind = "checks" /\ task.pc = "publish" => Validated(task.work)
PullCurrent(p) ==
    p.work.script \in Scripts /\ (p.kind = "checks" => BaseCurrent(p.base) /\ Validated(p.work))

SuiteInv ==
    /\ JudgeInv /\ tree.script \in Scripts /\ ValidatedCanTell /\ IsFiniteSet(pulls)
    /\ TaskCurrent /\ \A p \in pulls : PullCurrent(p)
    /\ \A p, q \in Proposals : p = q

\* An entry the curator calls validated is a check that tells good from bad.
LEMMA CuratedCanTell ==
    ASSUME NEW u, IsTree(u), u.script \in Scripts, "unportable" \notin Scripts
    PROVE  curate_workspace(u, FALSE).script = u.script /\ Validated(curate_workspace(u, FALSE))
<1>1. CASE u.manifest \in {"", "malformed"}
  BY <1>1 DEF curate_workspace, apply_validations, Validated
<1>2. CASE u.manifest \notin {"", "malformed"}
  <2> DEFINE c == Check("a", "script", u.manifest = "validated")
             told == \A d \in load_agent_checks(u).checks : validate_check(d, u, FALSE)
  <2>1. load_agent_checks(u).checks = {c}
    <3>1. load_agent_checks(u).checks = _load_manifest(u)
      BY <1>2 DEF load_agent_checks, Suite
    <3> QED
      BY <3>1, <1>2, Zenon DEF _load_manifest
  <2>2. c.runs = "script"
    BY DEF Check
  <2>3. "source" \in Files /\ "script" \in Files /\ "manifest" \in Files
    BY DEF Files
  <2>4. Seeded(u).source = "bad" /\ Seeded(u).script = u.script
    BY <2>3 DEF Seeded, IsTree
  <2> HIDE DEF c
  <2>5. validate_check(c, u, FALSE) => u.script = "sharp"
    BY <2>2, <2>4 DEF validate_check, run_command
  <2>6. told => u.script = "sharp"
    BY <2>1, <2>5
  <2>7. curate_workspace(u, FALSE) = [u EXCEPT !.manifest = IF told THEN "validated" ELSE "unvalidated"]
    BY <1>2 DEF curate_workspace, apply_validations
  <2> HIDE DEF told
  <2>8. /\ curate_workspace(u, FALSE).script = u.script
        /\ curate_workspace(u, FALSE).manifest = IF told THEN "validated" ELSE "unvalidated"
    BY <2>3, <2>7 DEF IsTree
  <2> QED
    BY <2>6, <2>8 DEF Validated
<1> QED
  BY <1>1, <1>2

LEMMA EditedScript ==
    ASSUME NEW t, IsTree(t), t.script \in Scripts, NEW u \in Edited(t)
    PROVE  IsTree(u) /\ u.script \in Scripts
<1>1. PICK f, g, x, y :
        /\ f \in Files /\ g \in Files /\ u = Write(t, f, x, g, y) /\ g # "script" /\ (f = "script" => x \in Scripts)
  BY DEF Edited, Files
<1>2. IsTree(u) /\ u.script = IF f = "script" THEN x ELSE t.script
  BY <1>1 DEF IsTree, Write, Files
<1> QED
  BY <1>1, <1>2

LEMMA SuiteInit == ChecksInit => SuiteInv
<1> SUFFICES ASSUME ChecksInit PROVE SuiteInv
  OBVIOUS
<1>1. tree.script \in Scripts /\ tree.manifest = ""
  BY DEF ChecksInit, Trees
<1>2. IsFiniteSet(pulls)
  BY FS_EmptySet DEF ChecksInit
<1> QED
  BY <1>1, <1>2, JudgeInit DEF ChecksInit, SuiteInv, ValidatedCanTell, TaskCurrent, Proposals, NoTask

LEMMA SuiteStarts ==
    ASSUME SuiteInv, MaxProposals = 1, NEW kind \in Kinds, starts(kind), JudgeInv'
    PROVE  SuiteInv'
<1>1. UNCHANGED <<tree, pulls>>
  BY DEF starts
<1>2. kind = "checks" => Proposals = {}
  <2>1. IsFiniteSet(Proposals)
    BY FS_Subset DEF SuiteInv, Proposals
  <2>2. kind = "checks" => Cardinality(Proposals) < 1
    BY DEF starts, Proposals
  <2> QED
    BY <2>1, <2>2, FS_EmptySet, FS_CardinalityType
<1>3. \/ task' = NoTask
      \/ /\ task'.kind = kind /\ task'.base = tree /\ task'.work = tree /\ task'.pc = "gates"
  BY DEF starts
<1>4. TaskCurrent'
  BY <1>1, <1>2, <1>3 DEF SuiteInv, TaskCurrent, Proposals, BaseCurrent, NoTask
<1> QED
  BY <1>1, <1>4 DEF SuiteInv, ValidatedCanTell, PullCurrent, Proposals, BaseCurrent

LEMMA SuiteGates == ASSUME SuiteInv, run_gates, JudgeInv' PROVE SuiteInv'
<1>1. PICK v : task' = [task EXCEPT !.pc = "review", !.verdict = v]
  BY DEF run_gates
<1>2. UNCHANGED <<tree, pulls>> /\ task.pc = "gates"
  BY DEF run_gates
<1>3. task'.pc = "review" /\ task'.kind = task.kind /\ task'.base = task.base /\ task'.work = task.work
  BY <1>1, <1>2 DEF SuiteInv, JudgeInv, RunFrozen, RunFields
<1> QED
  BY <1>2, <1>3 DEF SuiteInv, TaskCurrent, ValidatedCanTell, PullCurrent, Proposals, BaseCurrent

LEMMA SuiteReview ==
    ASSUME SuiteInv, ~SeedTimesOut, "unportable" \notin Scripts, review, JudgeInv'
    PROVE  SuiteInv'
<1>1. PICK t \in Edited(task.base), slow \in BOOLEAN :
        /\ slow => SeedTimesOut
        /\ task' = IF task.kind = "checks" /\ CheckSuiteRaises(t) THEN NoTask
                   ELSE [task EXCEPT !.pc = "publish",
                           !.work = IF task.kind = "checks" THEN curate_workspace(t, slow) ELSE t]
  BY DEF review
<1>2. UNCHANGED <<tree, pulls>> /\ task.pc = "review"
  BY DEF review
<1>3. IsTree(t) /\ t.script \in Scripts
  BY <1>2, EditedScript DEF SuiteInv, JudgeInv, RunFrozen, TaskCurrent
<1>4. slow = FALSE
  BY <1>1
<1>5. curate_workspace(t, slow).script = t.script /\ Validated(curate_workspace(t, slow))
  BY <1>3, <1>4, CuratedCanTell
<1>6. CASE task' = NoTask
  BY <1>2, <1>6 DEF SuiteInv, TaskCurrent, ValidatedCanTell, PullCurrent, Proposals, BaseCurrent, NoTask
<1>7. CASE task' # NoTask
  <2>1. PICK w : /\ w.script \in Scripts /\ (task.kind = "checks" => Validated(w))
                 /\ task' = [task EXCEPT !.pc = "publish", !.work = w]
    BY <1>1, <1>3, <1>5, <1>7
  <2>2. task'.pc = "publish" /\ task'.kind = task.kind /\ task'.base = task.base /\ task'.work = w
    BY <2>1, <1>2 DEF SuiteInv, JudgeInv, RunFrozen, RunFields
  <2>3. TaskCurrent'
    BY <2>1, <2>2, <1>2 DEF SuiteInv, TaskCurrent, Proposals, BaseCurrent
  <2> QED
    BY <1>2, <2>3 DEF SuiteInv, ValidatedCanTell, PullCurrent, Proposals, BaseCurrent
<1> QED
  BY <1>6, <1>7

LEMMA SuitePublish == ASSUME SuiteInv, publish, JudgeInv' PROVE SuiteInv'
<1>1. task.pc = "publish" /\ task' = NoTask /\ UNCHANGED tree
  BY Published
<1>2. TaskCurrent' /\ tree.script' \in Scripts /\ ValidatedCanTell'
  BY <1>1 DEF SuiteInv, TaskCurrent, NoTask, ValidatedCanTell
<1>3. CASE pulls' = pulls
  BY <1>1, <1>2, <1>3 DEF SuiteInv, PullCurrent, Proposals, BaseCurrent
<1>4. ASSUME NEW rule, NEW v, NEW level, pulls' = pulls \cup {NewPull(task, rule, v, level)}
      PROVE  SuiteInv'
  <2> DEFINE p == NewPull(task, rule, v, level)
  <2>1. p.kind = task.kind /\ p.base = task.base /\ p.work = task.work
    BY DEF NewPull
  <2>2. pulls' = pulls \cup {p}
    BY <1>4
  <2> HIDE DEF p
  <2>3. PullCurrent(p) /\ (p.kind = "checks" => Proposals = {})
    BY <1>1, <2>1 DEF SuiteInv, TaskCurrent, PullCurrent
  <2>4. \A q \in pulls' : PullCurrent(q)'
    BY <1>1, <2>2, <2>3 DEF SuiteInv, PullCurrent, BaseCurrent
  <2>5. \A q, r \in Proposals' : q = r
    BY <2>2, <2>3 DEF SuiteInv, Proposals
  <2>6. IsFiniteSet(pulls')
    BY <2>2, FS_AddElement DEF SuiteInv
  <2> QED
    BY <1>2, <2>4, <2>5, <2>6 DEF SuiteInv
<1> QED
  BY <1>3, <1>4, Published

\* A step that leaves the suite, or only stops calling it validated.
LEMMA SuitePeople ==
    ASSUME SuiteInv, JudgeInv', UNCHANGED task, pulls' \subseteq pulls, tree'.script = tree.script,
           tree'.manifest = "validated" => tree.manifest = "validated"
    PROVE  SuiteInv'
<1>1. IsFiniteSet(pulls')
  BY FS_Subset DEF SuiteInv
<1>2. Proposals' \subseteq Proposals
  BY DEF Proposals
<1>3. TaskCurrent'
  BY <1>2 DEF SuiteInv, TaskCurrent, BaseCurrent
<1>4. \A p \in pulls' : PullCurrent(p)'
  BY DEF SuiteInv, PullCurrent, BaseCurrent
<1> QED
  BY <1>1, <1>2, <1>3, <1>4 DEF SuiteInv, ValidatedCanTell

LEMMA SuiteMerges == ASSUME SuiteInv, NEW p \in pulls, Merges(p), JudgeInv' PROVE SuiteInv'
<1>1. /\ pulls' = pulls \ {p} /\ UNCHANGED task
      /\ tree'.script = IF p.work.script # p.base.script THEN p.work.script ELSE tree.script
      /\ tree'.manifest = IF p.work.manifest # p.base.manifest THEN p.work.manifest ELSE tree.manifest
  BY DEF Merges, Files
<1>2. CASE p.kind # "checks"
  <2>1. p.work.script = p.base.script /\ p.work.manifest = p.base.manifest
    BY <1>2 DEF SuiteInv, JudgeInv, PullApart
  <2> QED
    BY <1>1, <2>1, SuitePeople
<1>3. CASE p.kind = "checks"
  <2>1. BaseCurrent(p.base) /\ Validated(p.work) /\ p.work.script \in Scripts
    BY <1>3 DEF SuiteInv, PullCurrent
  <2>2. tree'.script = p.work.script /\ (tree'.manifest = "validated" => p.work.manifest = "validated")
    BY <1>1, <2>1 DEF BaseCurrent
  <2>3. Proposals' = {}
    BY <1>1, <1>3 DEF SuiteInv, Proposals
  <2>4. task.pc # "idle" => task.kind # "checks"
    BY <1>3 DEF SuiteInv, TaskCurrent, Proposals
  <2>5. TaskCurrent'
    BY <1>1, <2>4 DEF SuiteInv, TaskCurrent
  <2>6. \A q \in pulls' : PullCurrent(q)'
    BY <1>1, <2>3 DEF SuiteInv, PullCurrent, Proposals
  <2>7. IsFiniteSet(pulls')
    BY <1>1, FS_Subset DEF SuiteInv
  <2> QED
    BY <2>1, <2>2, <2>3, <2>5, <2>6, <2>7 DEF SuiteInv, ValidatedCanTell, Validated
<1> QED
  BY <1>2, <1>3

LEMMA SuiteStep ==
    ASSUME MaxProposals = 1, ~SeedTimesOut, "unportable" \notin Scripts,
           SuiteInv, [ChecksNext]_checksVars
    PROVE  SuiteInv'
<1> JudgeInv'
  BY JudgeStep DEF SuiteInv
<1>1. CASE \E kind \in Kinds : starts(kind)
  BY <1>1, SuiteStarts
<1>2. CASE run_gates \/ review \/ publish
  BY <1>2, SuiteGates, SuiteReview, SuitePublish
<1>3. ASSUME NEW p \in pulls, Merges(p) PROVE SuiteInv'
  BY <1>3, SuiteMerges
<1>4. ASSUME NEW p \in pulls, Closes(p) PROVE SuiteInv'
  BY <1>4, SuitePeople DEF Closes
<1>5. CASE SuiteCommits
  <2>1. /\ tree'.script = tree.script
        /\ tree'.manifest = "validated" => tree.manifest = "validated"
    BY <1>5 DEF SuiteCommits, SuiteInv, JudgeInv, IsTree, Files
  <2> QED
    BY <1>5, <2>1, SuitePeople DEF SuiteCommits
<1>6. CASE DayPasses
  BY <1>6, SuitePeople DEF DayPasses
<1>7. CASE UNCHANGED checksVars
  BY <1>7, SuitePeople DEF checksVars
<1> QED
  BY <1>1, <1>2, <1>3, <1>4, <1>5, <1>6, <1>7 DEF ChecksNext

\* With it, an entry the default branch calls validated is a check that tells a
\* good source from a bad one (validate_check): under the deduplication that
\* keeps one proposal open, and for checks that fail neither for being run in a
\* copy nor for outliving their budget there.
THEOREM SuitesHold ==
    ASSUME MaxProposals = 1, ~SeedTimesOut, "unportable" \notin Scripts
    PROVE  ChecksSpec => []SuiteHolds
<1>1. SuiteInv => SuiteHolds
  BY DEF SuiteInv, JudgeInv, SuiteHolds, JudgedFairly, RolesApart, PullJudged, PullApart
<1> QED
  BY <1>1, SuiteInit, SuiteStep, PTL DEF ChecksSpec

-----------------------------------------------------------------------------
(* The device flow: each key is in one place at a time.                    *)

\* A document whose entries are among the device codes in given.
DocOK(doc, given) ==
    /\ \A d \in Devices : doc[d].status # "absent" => d \in given
    /\ \A d \in Devices : doc[d].status = "approved" <=> doc[d].key # NoKey
    /\ \A d, e \in Devices :
         /\ doc[d].status # "absent"
         /\ doc[e].status # "absent"
         /\ doc[d].code = doc[e].code
         => d = e

DocInv == DocOK(file, used) /\ \A t \in Threads : DocOK(snap[t], used)

ThreadInv ==
    \A t \in Threads :
        /\ pc[t] \in {"acquire", "locked", "mint"} => at[t] \in Stores
        /\ pc[t] = "locked" => lock[at[t]] = t
        /\ req[t].op = "token" => req[t].dev \in Devices
        /\ pc[t] = "mint" => req[t].op = "check" /\ req[t].dev \in Devices
        /\ req[t].op = "bind" => key[t] \in Keys
        /\ pc[t] = "reply" => key[t] \in Keys
        /\ key[t] # NoKey => \/ req[t].op = "bind" /\ pc[t] \in {"acquire", "locked"}
                             \/ pc[t] = "reply"

OneStore == \A r, s \in Stores : r = s

SnapInv == \A t \in Threads : pc[t] = "locked" => snap[t] = file

KeyInv ==
    /\ \A k \in Keys : handed[k] <= 1
    /\ \A k \in Keys : minted[k] = NoDevice => handed[k] = 0
    /\ \A t \in Threads : key[t] # NoKey =>
         /\ minted[key[t]] # NoDevice
         /\ handed[key[t]] = 0
         /\ \A d \in Devices : file[d].key # key[t]
         /\ \A u \in Threads : key[u] = key[t] => u = t
    /\ \A d \in Devices : file[d].key # NoKey =>
         /\ minted[file[d].key] # NoDevice
         /\ handed[file[d].key] = 0
         /\ \A e \in Devices : file[e].key = file[d].key => e = d

Base == TypeOK /\ DocInv /\ ThreadInv

OneStoreInv == OneStore => SnapInv /\ KeyInv

-----------------------------------------------------------------------------
(* Facts about documents.                                                  *)

\* NoEntry is an entry, and the empty document is a document.
LEMMA EmptyType == NoEntry \in Entry /\ Empty \in [Devices -> Entry]
BY DEF NoEntry, Entry, Empty

\* Purging a document gives a document.
LEMMA PurgedType ==
    ASSUME NEW doc \in [Devices -> Entry] PROVE Purged(doc) \in [Devices -> Entry]
BY EmptyType DEF Purged

\* create appends a pending entry.
LEMMA AddedType ==
    ASSUME NEW doc \in [Devices -> Entry], NEW d \in Devices, NEW c \in UserCodes
    PROVE  Added(doc, d, c) \in [Devices -> Entry]
BY DEF Added, Entry

\* approve binds a key to an entry.
LEMMA ApprovedType ==
    ASSUME NEW doc \in [Devices -> Entry], NEW d \in Devices, NEW k \in Keys
    PROVE  Approved(doc, d, k) \in [Devices -> Entry]
BY DEF Approved, Entry

\* redeem drops an entry.
LEMMA DroppedType ==
    ASSUME NEW doc \in [Devices -> Entry], NEW d \in Devices
    PROVE  Dropped(doc, d) \in [Devices -> Entry]
BY EmptyType DEF Dropped

\* What describe and create_key make of a request is a request.
LEMMA RequestType ==
    /\ NoRequest \in Request
    /\ \A r \in Request : [r EXCEPT !.op = "bind"] \in Request
    /\ \A r \in Request, d \in Devices : [r EXCEPT !.dev = d] \in Request
BY DEF Request, NoRequest

\* A document stays well formed when more device codes are given out.
LEMMA DocOKMore ==
    ASSUME NEW doc, NEW u, NEW v, DocOK(doc, u), u \subseteq v PROVE DocOK(doc, v)
BY DEF DocOK

\* _purge drops entries and leaves the others as they are.
LEMMA PurgedOK ==
    ASSUME NEW doc \in [Devices -> Entry], NEW u, DocOK(doc, u)
    PROVE  DocOK(Purged(doc), u)
BY DEF Purged, DocOK, NoEntry

\* A new device code with a user code that is free can be added.
LEMMA AddedOK ==
    ASSUME NEW doc \in [Devices -> Entry], NEW u, NEW d \in Devices \ u,
           NEW c \in UserCodes \ Codes(doc), DocOK(doc, u)
    PROVE  DocOK(Added(doc, d, c), u \cup {d})
BY DEF Added, DocOK, Codes, Present

\* Dropping one entry leaves a well-formed document.
LEMMA DroppedOK ==
    ASSUME NEW doc \in [Devices -> Entry], NEW u, NEW d \in Devices, DocOK(doc, u)
    PROVE  DocOK(Dropped(doc, d), u)
BY DEF Dropped, DocOK, NoEntry

\* Binding a key to a pending entry leaves the document well formed.
LEMMA ApprovedOK ==
    ASSUME NEW doc \in [Devices -> Entry], NEW u, NEW d \in Devices, NEW k \in Keys,
           DocOK(doc, u), doc[d].status = "pending"
    PROVE  DocOK(Approved(doc, d, k), u)
BY KeyAssumption DEF Approved, DocOK, Entry

\* The empty document is well formed.
LEMMA EmptyOK == ASSUME NEW u PROVE DocOK(Empty, u)
BY DEF DocOK, Empty, NoEntry

\* _purge does not touch an entry it keeps.
LEMMA PurgedKeeps ==
    ASSUME NEW doc \in [Devices -> Entry], NEW d \in Devices,
           Purged(doc)[d].status # "absent"
    PROVE  Purged(doc)[d] = doc[d]
BY DEF Purged, NoEntry

-----------------------------------------------------------------------------
(* Types.                                                                  *)

\* Every step keeps the types.
LEMMA TypeStep == TypeOK /\ ThreadInv /\ [Next]_vars => TypeOK'
<1> SUFFICES ASSUME TypeOK, ThreadInv, [Next]_vars PROVE TypeOK'
  OBVIOUS
<1> USE DeviceAssumption, KeyAssumption, StoreAssumption, CrashAssumption
<1>1. ASSUME NEW t \in Threads, Arrive(t) PROVE TypeOK'
  <2>2. file' \in [Devices -> Entry]
    BY <1>1 DEF TypeOK, Arrive, Asked, storeVars, threadVars, keyVars
  <2>3. snap' \in [Threads -> [Devices -> Entry]]
    BY <1>1, EmptyType DEF TypeOK, Arrive, Asked, storeVars, threadVars, keyVars
  <2>4. req' \in [Threads -> Request] /\ key' \in [Threads -> Keys \cup {NoKey}]
    BY <1>1, RequestType
      DEF TypeOK, Arrive, Asked, storeVars, threadVars, keyVars, Request
  <2>5. minted' \in [Keys -> Devices \cup {NoDevice}] /\ handed' \in [Keys -> Nat]
    BY <1>1
      DEF TypeOK, ThreadInv, Request, Arrive, Asked, storeVars, threadVars,
          keyVars
  <2>6. QED
    BY <1>1, <2>2, <2>3, <2>4, <2>5
      DEF TypeOK, Arrive, Asked, storeVars, threadVars, keyVars
<1>2. ASSUME NEW t \in Threads, LookupStore(t) PROVE TypeOK'
  <2>2. file' \in [Devices -> Entry]
    BY <1>2 DEF TypeOK, LookupStore, storeVars, threadVars, keyVars
  <2>3. snap' \in [Threads -> [Devices -> Entry]]
    BY <1>2, EmptyType DEF TypeOK, LookupStore, storeVars, threadVars, keyVars
  <2>4. req' \in [Threads -> Request] /\ key' \in [Threads -> Keys \cup {NoKey}]
    BY <1>2, RequestType DEF TypeOK, LookupStore, storeVars, threadVars, keyVars
  <2>5. minted' \in [Keys -> Devices \cup {NoDevice}] /\ handed' \in [Keys -> Nat]
    BY <1>2
      DEF TypeOK, ThreadInv, Request, LookupStore, storeVars, threadVars,
          keyVars
  <2>6. QED
    BY <1>2, <2>2, <2>3, <2>4, <2>5
      DEF TypeOK, LookupStore, storeVars, threadVars, keyVars
<1>3. ASSUME NEW t \in Threads, BuildStore(t) PROVE TypeOK'
  <2>2. file' \in [Devices -> Entry]
    BY <1>3 DEF TypeOK, BuildStore, storeVars, threadVars, keyVars
  <2>3. snap' \in [Threads -> [Devices -> Entry]]
    BY <1>3, EmptyType DEF TypeOK, BuildStore, storeVars, threadVars, keyVars
  <2>4. req' \in [Threads -> Request] /\ key' \in [Threads -> Keys \cup {NoKey}]
    BY <1>3, RequestType DEF TypeOK, BuildStore, storeVars, threadVars, keyVars
  <2>5. minted' \in [Keys -> Devices \cup {NoDevice}] /\ handed' \in [Keys -> Nat]
    BY <1>3
      DEF TypeOK, ThreadInv, Request, BuildStore, storeVars, threadVars,
          keyVars
  <2>6. QED
    BY <1>3, <2>2, <2>3, <2>4, <2>5
      DEF TypeOK, BuildStore, storeVars, threadVars, keyVars
<1>4. ASSUME NEW t \in Threads, Acquire(t) PROVE TypeOK'
  <2>2. file' \in [Devices -> Entry]
    BY <1>4 DEF TypeOK, Acquire, storeVars, threadVars, keyVars
  <2>3. snap' \in [Threads -> [Devices -> Entry]]
    BY <1>4, EmptyType DEF TypeOK, Acquire, storeVars, threadVars, keyVars
  <2>4. req' \in [Threads -> Request] /\ key' \in [Threads -> Keys \cup {NoKey}]
    BY <1>4, RequestType DEF TypeOK, Acquire, storeVars, threadVars, keyVars
  <2>5. minted' \in [Keys -> Devices \cup {NoDevice}] /\ handed' \in [Keys -> Nat]
    BY <1>4
      DEF TypeOK, ThreadInv, Request, Acquire, storeVars, threadVars, keyVars
  <2>6. QED
    BY <1>4, <2>2, <2>3, <2>4, <2>5
      DEF TypeOK, Acquire, storeVars, threadVars, keyVars
<1>5. ASSUME NEW t \in Threads, Create(t) PROVE TypeOK'
  <2>1. snap[t] \in [Devices -> Entry] /\ Purged(snap[t]) \in [Devices -> Entry]
    BY PurgedType DEF TypeOK
  <2>2. file' \in [Devices -> Entry]
    BY <1>5, <2>1, AddedType DEF TypeOK, Create
  <2>3. snap' \in [Threads -> [Devices -> Entry]]
    BY <1>5, EmptyType
      DEF TypeOK, Create, Inside, Release, Forget, storeVars, threadVars,
          keyVars
  <2>4. req' \in [Threads -> Request] /\ key' \in [Threads -> Keys \cup {NoKey}]
    BY <1>5, RequestType
      DEF TypeOK, Create, Inside, Release, Forget, storeVars, threadVars,
          keyVars
  <2>5. minted' \in [Keys -> Devices \cup {NoDevice}] /\ handed' \in [Keys -> Nat]
    BY <1>5
      DEF TypeOK, ThreadInv, Request, Create, Inside, Release, Forget,
          storeVars, threadVars, keyVars
  <2>6. QED
    BY <1>5, <2>2, <2>3, <2>4, <2>5
      DEF TypeOK, Create, Inside, Release, Forget, storeVars, threadVars,
          keyVars
<1>6. ASSUME NEW t \in Threads, Describe(t) PROVE TypeOK'
  <2>1. snap[t] \in [Devices -> Entry] /\ Purged(snap[t]) \in [Devices -> Entry]
    BY PurgedType DEF TypeOK
  <2>2. file' \in [Devices -> Entry]
    BY <1>6, <2>1, PurgedType DEF TypeOK, Describe
  <2>3. snap' \in [Threads -> [Devices -> Entry]]
    BY <1>6, EmptyType
      DEF TypeOK, Describe, Inside, Release, Forget, Named, Present,
          storeVars, threadVars, keyVars
  <2>4. req' \in [Threads -> Request] /\ key' \in [Threads -> Keys \cup {NoKey}]
    <3>1. CASE Forget(t)
      BY <3>1, RequestType DEF TypeOK, Forget
    <3>2. CASE UNCHANGED <<at, key>> /\ \E d \in Devices : req' = [req EXCEPT ![t].dev = d]
      BY <3>2, RequestType DEF TypeOK
    <3>3. QED
      BY <1>6, <3>1, <3>2 DEF Describe, Named, Present
  <2>5. minted' \in [Keys -> Devices \cup {NoDevice}] /\ handed' \in [Keys -> Nat]
    BY <1>6
      DEF TypeOK, ThreadInv, Request, Describe, Inside, Release, Forget,
          Named, Present, storeVars, threadVars, keyVars
  <2>6. QED
    BY <1>6, <2>2, <2>3, <2>4, <2>5
      DEF TypeOK, Describe, Inside, Release, Forget, Named, Present,
          storeVars, threadVars, keyVars
<1>7. ASSUME NEW t \in Threads, Mint(t) PROVE TypeOK'
  <2>2. file' \in [Devices -> Entry]
    BY <1>7 DEF TypeOK, Mint, storeVars, threadVars, keyVars
  <2>3. snap' \in [Threads -> [Devices -> Entry]]
    BY <1>7, EmptyType DEF TypeOK, Mint, storeVars, threadVars, keyVars
  <2>4. req' \in [Threads -> Request] /\ key' \in [Threads -> Keys \cup {NoKey}]
    BY <1>7, RequestType DEF TypeOK, Mint, storeVars, threadVars, keyVars
  <2>5. minted' \in [Keys -> Devices \cup {NoDevice}] /\ handed' \in [Keys -> Nat]
    BY <1>7 DEF TypeOK, ThreadInv, Request, Mint, storeVars, threadVars, keyVars
  <2>6. QED
    BY <1>7, <2>2, <2>3, <2>4, <2>5
      DEF TypeOK, Mint, storeVars, threadVars, keyVars
<1>8. ASSUME NEW t \in Threads, MintFails(t) PROVE TypeOK'
  <2>2. file' \in [Devices -> Entry]
    BY <1>8 DEF TypeOK, MintFails, Forget, storeVars, threadVars, keyVars
  <2>3. snap' \in [Threads -> [Devices -> Entry]]
    BY <1>8, EmptyType
      DEF TypeOK, MintFails, Forget, storeVars, threadVars, keyVars
  <2>4. req' \in [Threads -> Request] /\ key' \in [Threads -> Keys \cup {NoKey}]
    BY <1>8, RequestType
      DEF TypeOK, MintFails, Forget, storeVars, threadVars, keyVars
  <2>5. minted' \in [Keys -> Devices \cup {NoDevice}] /\ handed' \in [Keys -> Nat]
    BY <1>8
      DEF TypeOK, ThreadInv, Request, MintFails, Forget, storeVars,
          threadVars, keyVars
  <2>6. QED
    BY <1>8, <2>2, <2>3, <2>4, <2>5
      DEF TypeOK, MintFails, Forget, storeVars, threadVars, keyVars
<1>9. ASSUME NEW t \in Threads, Approve(t) PROVE TypeOK'
  <2>0. key[t] \in Keys
    BY <1>9 DEF ThreadInv, Approve, Inside
  <2>1. snap[t] \in [Devices -> Entry] /\ Purged(snap[t]) \in [Devices -> Entry]
    BY PurgedType DEF TypeOK
  <2>2. file' \in [Devices -> Entry]
    BY <1>9, <2>1, ApprovedType, <2>0 DEF TypeOK, Approve, Named, Present
  <2>3. snap' \in [Threads -> [Devices -> Entry]]
    BY <1>9, EmptyType
      DEF TypeOK, Approve, Inside, Release, Forget, Named, Present, storeVars,
          threadVars, keyVars
  <2>4. req' \in [Threads -> Request] /\ key' \in [Threads -> Keys \cup {NoKey}]
    BY <1>9, RequestType
      DEF TypeOK, Approve, Inside, Release, Forget, Named, Present, storeVars,
          threadVars, keyVars
  <2>5. minted' \in [Keys -> Devices \cup {NoDevice}] /\ handed' \in [Keys -> Nat]
    BY <1>9
      DEF TypeOK, ThreadInv, Request, Approve, Inside, Release, Forget, Named,
          Present, storeVars, threadVars, keyVars
  <2>6. QED
    BY <1>9, <2>2, <2>3, <2>4, <2>5
      DEF TypeOK, Approve, Inside, Release, Forget, Named, Present, storeVars,
          threadVars, keyVars
<1>10. ASSUME NEW t \in Threads, Redeem(t) PROVE TypeOK'
  <2>1. snap[t] \in [Devices -> Entry] /\ req[t].dev \in Devices
    BY <1>10 DEF TypeOK, ThreadInv, Redeem, Inside
  <2>2. file' \in [Devices -> Entry]
    BY <1>10, <2>1, DroppedType DEF TypeOK, Redeem
  <2>3. snap' \in [Threads -> [Devices -> Entry]]
    BY <1>10, EmptyType DEF TypeOK, Redeem, Release
  <2>4. snap[t][req[t].dev].key \in Keys \cup {NoKey}
    BY <2>1 DEF Entry
  <2>5. req' \in [Threads -> Request] /\ key' \in [Threads -> Keys \cup {NoKey}]
    <3>1. CASE Forget(t)
      BY <3>1, RequestType DEF TypeOK, Forget
    <3>2. CASE UNCHANGED <<req, at>>
      BY <1>10, <2>4, <3>2, RequestType DEF TypeOK, Redeem, Forget
    <3>3. QED
      BY <1>10, <3>1, <3>2 DEF Redeem
  <2>6. QED
    BY <1>10, <2>2, <2>3, <2>5
      DEF TypeOK, Redeem, Inside, Release, Forget, storeVars, threadVars,
          keyVars
<1>11. ASSUME NEW t \in Threads, WriteFails(t) PROVE TypeOK'
  <2>2. file' \in [Devices -> Entry]
    BY <1>11
      DEF TypeOK, WriteFails, Release, Forget, storeVars, threadVars, keyVars
  <2>3. snap' \in [Threads -> [Devices -> Entry]]
    BY <1>11, EmptyType
      DEF TypeOK, WriteFails, Release, Forget, storeVars, threadVars, keyVars
  <2>4. req' \in [Threads -> Request] /\ key' \in [Threads -> Keys \cup {NoKey}]
    BY <1>11, RequestType
      DEF TypeOK, WriteFails, Release, Forget, storeVars, threadVars, keyVars
  <2>5. minted' \in [Keys -> Devices \cup {NoDevice}] /\ handed' \in [Keys -> Nat]
    BY <1>11
      DEF TypeOK, ThreadInv, Request, WriteFails, Release, Forget, storeVars,
          threadVars, keyVars
  <2>6. QED
    BY <1>11, <2>2, <2>3, <2>4, <2>5
      DEF TypeOK, WriteFails, Release, Forget, storeVars, threadVars, keyVars
<1>12. ASSUME NEW t \in Threads, Reply(t) PROVE TypeOK'
  <2>2. file' \in [Devices -> Entry]
    BY <1>12 DEF TypeOK, Reply, Forget, storeVars, threadVars, keyVars
  <2>3. snap' \in [Threads -> [Devices -> Entry]]
    BY <1>12, EmptyType DEF TypeOK, Reply, Forget, storeVars, threadVars, keyVars
  <2>4. req' \in [Threads -> Request] /\ key' \in [Threads -> Keys \cup {NoKey}]
    BY <1>12, RequestType
      DEF TypeOK, Reply, Forget, storeVars, threadVars, keyVars
  <2>5. minted' \in [Keys -> Devices \cup {NoDevice}] /\ handed' \in [Keys -> Nat]
    BY <1>12
      DEF TypeOK, ThreadInv, Request, Reply, Forget, storeVars, threadVars,
          keyVars
  <2>6. QED
    BY <1>12, <2>2, <2>3, <2>4, <2>5
      DEF TypeOK, Reply, Forget, storeVars, threadVars, keyVars
<1>13. ASSUME NEW d \in Devices, Expire(d) PROVE TypeOK'
  BY <1>13 DEF TypeOK, Expire, storeVars, threadVars, keyVars
<1>14. ASSUME Crash PROVE TypeOK'
  BY <1>14, EmptyType DEF TypeOK, Crash, Request, NoRequest, keyVars
<1>15. CASE UNCHANGED vars
  BY <1>15 DEF TypeOK, vars, storeVars, threadVars, keyVars
<1>16. QED
  BY <1>1, <1>2, <1>3, <1>4, <1>5, <1>6, <1>7, <1>8, <1>9, <1>10, <1>11,
     <1>12, <1>13, <1>14, <1>15
    DEF Next, Serve

-----------------------------------------------------------------------------
(* Threads and documents, however many stores there are.                   *)

\* Every step keeps the bookkeeping of the threads; the lock of a store is
\* held by the thread inside its critical section.
LEMMA ThreadStep == TypeOK /\ DocInv /\ ThreadInv /\ [Next]_vars => ThreadInv'
<1> SUFFICES ASSUME TypeOK, DocInv, ThreadInv, [Next]_vars PROVE ThreadInv'
  OBVIOUS
<1> USE DeviceAssumption, KeyAssumption, StoreAssumption, CrashAssumption
<1>1. ASSUME NEW t \in Threads, Arrive(t) PROVE ThreadInv'
  BY <1>1
    DEF TypeOK, ThreadInv, Arrive, Asked, Request, NoRequest, storeVars,
        threadVars, keyVars
<1>2. ASSUME NEW t \in Threads, LookupStore(t) PROVE ThreadInv'
  BY <1>2
    DEF TypeOK, ThreadInv, LookupStore, Request, NoRequest, storeVars,
        threadVars, keyVars
<1>3. ASSUME NEW t \in Threads, BuildStore(t) PROVE ThreadInv'
  BY <1>3
    DEF TypeOK, ThreadInv, BuildStore, Request, NoRequest, storeVars,
        threadVars, keyVars
<1>4. ASSUME NEW t \in Threads, Acquire(t) PROVE ThreadInv'
  BY <1>4
    DEF TypeOK, ThreadInv, Acquire, Request, NoRequest, storeVars, threadVars,
        keyVars
<1>5. ASSUME NEW t \in Threads, Create(t) PROVE ThreadInv'
  BY <1>5
    DEF TypeOK, ThreadInv, Create, Inside, Release, Forget, Request,
        NoRequest, storeVars, threadVars, keyVars
<1>6. ASSUME NEW t \in Threads, Describe(t) PROVE ThreadInv'
  BY <1>6
    DEF TypeOK, ThreadInv, Describe, Inside, Release, Forget, Named, Present,
        Request, NoRequest, storeVars, threadVars, keyVars
<1>7. ASSUME NEW t \in Threads, Mint(t) PROVE ThreadInv'
  BY <1>7
    DEF TypeOK, ThreadInv, Mint, Request, NoRequest, storeVars, threadVars,
        keyVars
<1>8. ASSUME NEW t \in Threads, MintFails(t) PROVE ThreadInv'
  BY <1>8
    DEF TypeOK, ThreadInv, MintFails, Forget, Request, NoRequest, storeVars,
        threadVars, keyVars
<1>9. ASSUME NEW t \in Threads, Approve(t) PROVE ThreadInv'
  BY <1>9
    DEF TypeOK, ThreadInv, Approve, Inside, Release, Forget, Named, Present,
        Request, NoRequest, storeVars, threadVars, keyVars
<1>10. ASSUME NEW t \in Threads, Redeem(t) PROVE ThreadInv'
  <2>1. \A d \in Devices : snap[t][d].status = "approved" => snap[t][d].key \in Keys
    BY DEF TypeOK, DocInv, DocOK, Entry
  <2>2. req[t].dev \in Devices /\ at[t] \in Stores
    BY <1>10 DEF ThreadInv, Redeem, Inside
  <2>3. CASE Forget(t)
    BY <1>10, <2>2, <2>3
      DEF TypeOK, ThreadInv, Redeem, Inside, Release, Forget, NoRequest
  <2>4. CASE UNCHANGED <<req, at>>
    BY <1>10, <2>1, <2>2, <2>4
      DEF TypeOK, ThreadInv, Redeem, Inside, Release, Forget, NoRequest
  <2>5. QED
    BY <1>10, <2>3, <2>4 DEF Redeem
<1>11. ASSUME NEW t \in Threads, WriteFails(t) PROVE ThreadInv'
  BY <1>11
    DEF TypeOK, ThreadInv, WriteFails, Release, Forget, Request, NoRequest,
        storeVars, threadVars, keyVars
<1>12. ASSUME NEW t \in Threads, Reply(t) PROVE ThreadInv'
  BY <1>12
    DEF TypeOK, ThreadInv, Reply, Forget, Request, NoRequest, storeVars,
        threadVars, keyVars
<1>13. ASSUME NEW d \in Devices, Expire(d) PROVE ThreadInv'
  BY <1>13 DEF TypeOK, ThreadInv, Expire, storeVars, threadVars, keyVars
<1>14. ASSUME Crash PROVE ThreadInv'
  BY <1>14 DEF TypeOK, ThreadInv, Crash, NoRequest, keyVars
<1>15. CASE UNCHANGED vars
  BY <1>15 DEF ThreadInv, vars, storeVars, threadVars, keyVars
<1>16. QED
  BY <1>1, <1>2, <1>3, <1>4, <1>5, <1>6, <1>7, <1>8, <1>9, <1>10, <1>11,
     <1>12, <1>13, <1>14, <1>15
    DEF Next, Serve

\* Every step keeps the document and all snapshots of it well formed.
LEMMA DocStep == TypeOK /\ DocInv /\ ThreadInv /\ [Next]_vars => DocInv'
<1> SUFFICES ASSUME TypeOK, DocInv, ThreadInv, [Next]_vars PROVE DocInv'
  OBVIOUS
<1> USE DeviceAssumption, KeyAssumption, StoreAssumption, CrashAssumption
<1>1. ASSUME NEW t \in Threads, Arrive(t) PROVE DocInv'
  BY <1>1 DEF DocInv, Arrive, Asked, storeVars, threadVars, keyVars
<1>2. ASSUME NEW t \in Threads, LookupStore(t) PROVE DocInv'
  BY <1>2 DEF DocInv, LookupStore, storeVars, threadVars, keyVars
<1>3. ASSUME NEW t \in Threads, BuildStore(t) PROVE DocInv'
  BY <1>3 DEF DocInv, BuildStore, storeVars, threadVars, keyVars
<1>4. ASSUME NEW t \in Threads, Acquire(t) PROVE DocInv'
  BY <1>4 DEF TypeOK, DocInv, Acquire, storeVars, threadVars, keyVars
<1>5. ASSUME NEW t \in Threads, Create(t) PROVE DocInv'
  <2>1. snap[t] \in [Devices -> Entry] /\ DocOK(snap[t], used)
    BY DEF TypeOK, DocInv
  <2>2. PICK d \in Devices \ used, c \in UserCodes \ Codes(Purged(snap[t])) :
               file' = Added(Purged(snap[t]), d, c) /\ used' = used \cup {d}
    BY <1>5 DEF Create
  <2>3. DocOK(Purged(snap[t]), used) /\ Purged(snap[t]) \in [Devices -> Entry]
    BY <2>1, PurgedOK, PurgedType
  <2>4. DocOK(file', used')
    BY <2>2, <2>3, AddedOK
  <2>5. \A u \in Threads : DocOK(snap'[u], used')
    BY <1>5, <2>2, EmptyOK, DocOKMore DEF TypeOK, DocInv, Create, Release
  <2>6. QED
    BY <2>4, <2>5 DEF DocInv
<1>6. ASSUME NEW t \in Threads, Describe(t) PROVE DocInv'
  <2>1. snap[t] \in [Devices -> Entry] /\ DocOK(snap[t], used)
    BY DEF TypeOK, DocInv
  <2>2. DocOK(file', used)
    BY <1>6, <2>1, PurgedOK DEF Describe
  <2>3. \A u \in Threads : DocOK(snap'[u], used)
    BY <1>6, EmptyOK DEF TypeOK, DocInv, Describe, Release
  <2>4. QED
    BY <1>6, <2>2, <2>3 DEF DocInv, Describe
<1>7. ASSUME NEW t \in Threads, Mint(t) PROVE DocInv'
  BY <1>7 DEF DocInv, Mint, storeVars, threadVars, keyVars
<1>8. ASSUME NEW t \in Threads, MintFails(t) PROVE DocInv'
  BY <1>8 DEF DocInv, MintFails, Forget, storeVars, threadVars, keyVars
<1>9. ASSUME NEW t \in Threads, Approve(t) PROVE DocInv'
  <2>1. snap[t] \in [Devices -> Entry] /\ DocOK(snap[t], used)
    BY DEF TypeOK, DocInv
  <2>2. key[t] \in Keys
    BY <1>9 DEF ThreadInv, Approve, Inside
  <2>3. DocOK(Purged(snap[t]), used) /\ Purged(snap[t]) \in [Devices -> Entry]
    BY <2>1, PurgedOK, PurgedType
  <2>4. \A d \in Named(Purged(snap[t]), req[t].code) : d \in Devices /\ Purged(snap[t])[d] = snap[t][d]
    BY <2>1, PurgedKeeps DEF Named, Present
  <2>5. DocOK(file', used)
    BY <1>9, <2>2, <2>3, <2>4, ApprovedOK DEF Approve, DocInv
  <2>6. \A u \in Threads : DocOK(snap'[u], used)
    BY <1>9, EmptyOK DEF TypeOK, DocInv, Approve, Release
  <2>7. QED
    BY <1>9, <2>5, <2>6 DEF DocInv, Approve
<1>10. ASSUME NEW t \in Threads, Redeem(t) PROVE DocInv'
  <2>1. snap[t] \in [Devices -> Entry] /\ DocOK(snap[t], used)
    BY DEF TypeOK, DocInv
  <2>2. req[t].dev \in Devices
    BY <1>10 DEF ThreadInv, Redeem, Inside
  <2>3. DocOK(Dropped(snap[t], req[t].dev), used)
    BY <2>1, <2>2, DroppedOK
  <2>4. DocOK(file', used)
    BY <1>10, <2>1, <2>3 DEF Redeem, DocInv
  <2>5. \A u \in Threads : DocOK(snap'[u], used)
    BY <1>10, EmptyOK DEF TypeOK, DocInv, Redeem, Release
  <2>6. QED
    BY <1>10, <2>4, <2>5 DEF DocInv, Redeem
<1>11. ASSUME NEW t \in Threads, WriteFails(t) PROVE DocInv'
  BY <1>11, EmptyOK DEF TypeOK, DocInv, WriteFails, Release
<1>12. ASSUME NEW t \in Threads, Reply(t) PROVE DocInv'
  BY <1>12 DEF DocInv, Reply, Forget, storeVars, threadVars, keyVars
<1>13. ASSUME NEW d \in Devices, Expire(d) PROVE DocInv'
  BY <1>13 DEF DocInv, Expire, storeVars, threadVars, keyVars
<1>14. ASSUME Crash PROVE DocInv'
  BY <1>14, EmptyOK DEF DocInv, Crash, keyVars
<1>15. CASE UNCHANGED vars
  BY <1>15 DEF DocInv, vars, storeVars, threadVars, keyVars
<1>16. QED
  BY <1>1, <1>2, <1>3, <1>4, <1>5, <1>6, <1>7, <1>8, <1>9, <1>10, <1>11,
     <1>12, <1>13, <1>14, <1>15
    DEF Next, Serve

-----------------------------------------------------------------------------
(* One store.                                                              *)

\* With one store no two threads are inside the critical section.
LEMMA Exclusive ==
    ASSUME ThreadInv, OneStore, NEW t \in Threads, NEW u \in Threads,
           pc[t] = "locked", pc[u] = "locked"
    PROVE  t = u
BY DEF ThreadInv, OneStore

\* Entries and threads may lose keys.
LEMMA KeysLost ==
    ASSUME KeyInv, UNCHANGED <<minted, handed>>,
           \A d \in Devices : file'[d].key # NoKey => file'[d].key = file[d].key,
           \A u \in Threads : key'[u] # NoKey => key'[u] = key[u]
    PROVE  KeyInv'
BY DEF KeyInv

\* A thread may leave its key in an entry.
LEMMA KeyPlaced ==
    ASSUME KeyInv, UNCHANGED <<minted, handed>>, NEW t \in Threads, NEW d \in Devices,
           key[t] # NoKey,
           \A e \in Devices \ {d} : file'[e].key # NoKey => file'[e].key = file[e].key,
           file'[d].key \in {NoKey, key[t]},
           key'[t] = NoKey, \A u \in Threads \ {t} : key'[u] = key[u]
    PROVE  KeyInv'
BY DEF KeyInv

\* A thread may take the key of an entry that leaves the document.
LEMMA KeyTaken ==
    ASSUME KeyInv, UNCHANGED <<minted, handed>>, NEW t \in Threads, NEW d \in Devices,
           \A e \in Devices \ {d} : file'[e].key = file[e].key,
           file'[d].key = NoKey, file[d].key # NoKey,
           key'[t] = file[d].key, \A u \in Threads \ {t} : key'[u] = key[u]
    PROVE  KeyInv'
BY DEF KeyInv

\* With one store a thread inside the critical section has read the document
\* as it is.
LEMMA SnapStep == TypeOK /\ ThreadInv /\ OneStore /\ SnapInv /\ [Next]_vars => SnapInv'
<1> SUFFICES ASSUME TypeOK, ThreadInv, OneStore, SnapInv, [Next]_vars PROVE SnapInv'
  OBVIOUS
<1> USE DeviceAssumption, KeyAssumption, StoreAssumption, CrashAssumption
<1>1. ASSUME NEW t \in Threads, Arrive(t) PROVE SnapInv'
  BY <1>1 DEF TypeOK, SnapInv, Arrive, Asked, storeVars, threadVars, keyVars
<1>2. ASSUME NEW t \in Threads, LookupStore(t) PROVE SnapInv'
  BY <1>2 DEF TypeOK, SnapInv, LookupStore, storeVars, threadVars, keyVars
<1>3. ASSUME NEW t \in Threads, BuildStore(t) PROVE SnapInv'
  BY <1>3 DEF TypeOK, SnapInv, BuildStore, storeVars, threadVars, keyVars
<1>4. ASSUME NEW t \in Threads, Acquire(t) PROVE SnapInv'
  BY <1>4 DEF TypeOK, SnapInv, Acquire, storeVars, threadVars, keyVars
<1>5. ASSUME NEW t \in Threads, Create(t) PROVE SnapInv'
  <2>1. pc[t] = "locked" /\ (\A u \in Threads : pc'[u] = "locked" => pc[u] = "locked" /\ u # t)
    BY <1>5 DEF TypeOK, Create, Inside, Release
  <2>2. QED
    BY <2>1, Exclusive DEF SnapInv
<1>6. ASSUME NEW t \in Threads, Describe(t) PROVE SnapInv'
  <2>1. pc[t] = "locked" /\ (\A u \in Threads : pc'[u] = "locked" => pc[u] = "locked" /\ u # t)
    BY <1>6 DEF TypeOK, Describe, Inside, Release
  <2>2. QED
    BY <2>1, Exclusive DEF SnapInv
<1>7. ASSUME NEW t \in Threads, Mint(t) PROVE SnapInv'
  BY <1>7 DEF TypeOK, SnapInv, Mint, storeVars, threadVars, keyVars
<1>8. ASSUME NEW t \in Threads, MintFails(t) PROVE SnapInv'
  BY <1>8 DEF TypeOK, SnapInv, MintFails, Forget, storeVars, threadVars, keyVars
<1>9. ASSUME NEW t \in Threads, Approve(t) PROVE SnapInv'
  <2>1. pc[t] = "locked" /\ (\A u \in Threads : pc'[u] = "locked" => pc[u] = "locked" /\ u # t)
    BY <1>9 DEF TypeOK, Approve, Inside, Release
  <2>2. QED
    BY <2>1, Exclusive DEF SnapInv
<1>10. ASSUME NEW t \in Threads, Redeem(t) PROVE SnapInv'
  <2>1. pc[t] = "locked" /\ (\A u \in Threads : pc'[u] = "locked" => pc[u] = "locked" /\ u # t)
    BY <1>10 DEF TypeOK, Redeem, Inside, Release
  <2>2. QED
    BY <2>1, Exclusive DEF SnapInv
<1>11. ASSUME NEW t \in Threads, WriteFails(t) PROVE SnapInv'
  <2>1. pc[t] = "locked" /\ (\A u \in Threads : pc'[u] = "locked" => pc[u] = "locked" /\ u # t)
    BY <1>11 DEF TypeOK, WriteFails, Inside, Release
  <2>2. QED
    BY <2>1, Exclusive DEF SnapInv
<1>12. ASSUME NEW t \in Threads, Reply(t) PROVE SnapInv'
  BY <1>12 DEF TypeOK, SnapInv, Reply, Forget, storeVars, threadVars, keyVars
<1>13. ASSUME NEW d \in Devices, Expire(d) PROVE SnapInv'
  BY <1>13 DEF SnapInv, Expire, storeVars, threadVars, keyVars
<1>14. ASSUME Crash PROVE SnapInv'
  BY <1>14 DEF SnapInv, Crash
<1>15. CASE UNCHANGED vars
  BY <1>15 DEF SnapInv, vars, storeVars, threadVars, keyVars
<1>16. QED
  BY <1>1, <1>2, <1>3, <1>4, <1>5, <1>6, <1>7, <1>8, <1>9, <1>10, <1>11,
     <1>12, <1>13, <1>14, <1>15
    DEF Next, Serve

\* With one store every step leaves each key in one place.
LEMMA KeyStep == TypeOK /\ DocInv /\ ThreadInv /\ SnapInv /\ KeyInv /\ [Next]_vars => KeyInv'
<1> SUFFICES ASSUME TypeOK, DocInv, ThreadInv, SnapInv, KeyInv, [Next]_vars PROVE KeyInv'
  OBVIOUS
<1> USE DeviceAssumption, KeyAssumption, StoreAssumption, CrashAssumption
<1>1. ASSUME NEW t \in Threads, Arrive(t) PROVE KeyInv'
  BY <1>1 DEF KeyInv, Arrive, Asked, storeVars, threadVars, keyVars
<1>2. ASSUME NEW t \in Threads, LookupStore(t) PROVE KeyInv'
  BY <1>2 DEF KeyInv, LookupStore, storeVars, threadVars, keyVars
<1>3. ASSUME NEW t \in Threads, BuildStore(t) PROVE KeyInv'
  BY <1>3 DEF KeyInv, BuildStore, storeVars, threadVars, keyVars
<1>4. ASSUME NEW t \in Threads, Acquire(t) PROVE KeyInv'
  BY <1>4 DEF KeyInv, Acquire, storeVars, threadVars, keyVars
<1>5. ASSUME NEW t \in Threads, Create(t) PROVE KeyInv'
  <2>1. snap[t] = file
    BY <1>5 DEF SnapInv, Create, Inside
  <2>2. \A d \in Devices : file'[d].key # NoKey => file'[d].key = file[d].key
    BY <1>5, <2>1 DEF TypeOK, Create, Added, Purged, NoEntry
  <2>3. (key' = [key EXCEPT ![t] = NoKey]) /\ UNCHANGED <<minted, handed>>
    BY <1>5 DEF Create, Forget, keyVars
  <2>4. \A u \in Threads : key'[u] # NoKey => key'[u] = key[u]
    BY <2>3 DEF TypeOK
  <2>5. QED
    BY <2>2, <2>3, <2>4, KeysLost
<1>6. ASSUME NEW t \in Threads, Describe(t) PROVE KeyInv'
  <2>1. snap[t] = file
    BY <1>6 DEF SnapInv, Describe, Inside
  <2>2. \A d \in Devices : file'[d].key # NoKey => file'[d].key = file[d].key
    BY <1>6, <2>1 DEF TypeOK, Describe, Purged, NoEntry
  <2>3. (key' = [key EXCEPT ![t] = NoKey] \/ key' = key) /\ UNCHANGED <<minted, handed>>
    BY <1>6 DEF Describe, Forget, keyVars
  <2>4. \A u \in Threads : key'[u] # NoKey => key'[u] = key[u]
    BY <2>3 DEF TypeOK
  <2>5. QED
    BY <2>2, <2>3, <2>4, KeysLost
<1>7. ASSUME NEW t \in Threads, Mint(t) PROVE KeyInv'
  <2>1. PICK k \in Keys : /\ minted[k] = NoDevice
                       /\ minted' = [minted EXCEPT ![k] = req[t].dev]
                       /\ key' = [key EXCEPT ![t] = k]
    BY <1>7 DEF Mint
  <2>2. req[t].dev \in Devices /\ UNCHANGED <<file, handed>>
    BY <1>7 DEF ThreadInv, Mint
  <2>3. QED
    BY <2>1, <2>2 DEF TypeOK, KeyInv
<1>8. ASSUME NEW t \in Threads, MintFails(t) PROVE KeyInv'
  BY <1>8 DEF TypeOK, KeyInv, MintFails, Forget, storeVars, threadVars, keyVars
<1>9. ASSUME NEW t \in Threads, Approve(t) PROVE KeyInv'
  <2>1. snap[t] = file
    BY <1>9 DEF SnapInv, Approve, Inside
  <2>2. key[t] \in Keys /\ key[t] # NoKey
    BY <1>9 DEF ThreadInv, Approve, Inside
  <2>3. key' = [key EXCEPT ![t] = NoKey] /\ UNCHANGED <<minted, handed>>
    BY <1>9 DEF Approve, Forget, keyVars
  <2>4. CASE UNCHANGED file
    BY <2>3, <2>4 DEF TypeOK, KeyInv
  <2>5. ASSUME NEW d \in Devices, file' = Approved(Purged(file), d, key[t]) PROVE KeyInv'
    <3>1. Purged(file) \in [Devices -> Entry]
      BY PurgedType DEF TypeOK
    <3>2. \A e \in Devices : Purged(file)[e].key # NoKey => Purged(file)[e].key = file[e].key
      BY DEF TypeOK, Purged, NoEntry
    <3>3. /\ \A e \in Devices \ {d} : file'[e] = Purged(file)[e]
          /\ file'[d].key = key[t]
      BY <2>5, <3>1 DEF Approved, Entry
    <3>4. key'[t] = NoKey /\ \A u \in Threads \ {t} : key'[u] = key[u]
      BY <2>3 DEF TypeOK
    <3>5. QED
      BY <2>2, <2>3, <3>2, <3>3, <3>4, KeyPlaced
  <2>6. QED
    BY <1>9, <2>1, <2>4, <2>5 DEF Approve, Named, Present
<1>10. ASSUME NEW t \in Threads, Redeem(t) PROVE KeyInv'
  <2>1. snap[t] = file
    BY <1>10 DEF SnapInv, Redeem, Inside
  <2>2. req[t].dev \in Devices /\ UNCHANGED <<minted, handed>>
    BY <1>10 DEF ThreadInv, Redeem, Inside, keyVars
  <2>3. \A d \in Devices : file'[d].key # NoKey => file'[d].key = file[d].key
    BY <1>10, <2>1, <2>2 DEF TypeOK, Redeem, Dropped, NoEntry
  <2>4. CASE key' = [key EXCEPT ![t] = NoKey]
    <3>1. \A u \in Threads : key'[u] # NoKey => key'[u] = key[u]
      BY <2>4 DEF TypeOK
    <3>2. QED
      BY <2>2, <2>3, <3>1, KeysLost
  <2>5. CASE /\ file' = Dropped(file, req[t].dev)
             /\ key' = [key EXCEPT ![t] = file[req[t].dev].key]
             /\ file[req[t].dev].status = "approved"
    <3>1. file'[req[t].dev].key = NoKey /\ file[req[t].dev].key # NoKey
      BY <2>2, <2>5 DEF TypeOK, DocInv, DocOK, Dropped, NoEntry
    <3>2. \A e \in Devices \ {req[t].dev} : file'[e].key = file[e].key
      BY <2>5 DEF TypeOK, Dropped
    <3>3. /\ key'[t] = file[req[t].dev].key
          /\ \A u \in Threads \ {t} : key'[u] = key[u]
      BY <2>5 DEF TypeOK
    <3>4. QED
      BY <2>2, <3>1, <3>2, <3>3, KeyTaken
  <2>6. QED
    BY <1>10, <2>1, <2>4, <2>5 DEF Redeem, Forget
<1>11. ASSUME NEW t \in Threads, WriteFails(t) PROVE KeyInv'
  BY <1>11
    DEF TypeOK, KeyInv, WriteFails, Release, Forget, storeVars, threadVars,
        keyVars
<1>12. ASSUME NEW t \in Threads, Reply(t) PROVE KeyInv'
  <2>1. key[t] \in Keys /\ key[t] # NoKey
    BY <1>12 DEF ThreadInv, Reply
  <2>2. QED
    BY <1>12, <2>1 DEF TypeOK, KeyInv, Reply, Forget, Entry
<1>13. ASSUME NEW d \in Devices, Expire(d) PROVE KeyInv'
  BY <1>13 DEF KeyInv, Expire, storeVars, threadVars, keyVars
<1>14. ASSUME Crash PROVE KeyInv'
  BY <1>14 DEF KeyInv, Crash, keyVars
<1>15. CASE UNCHANGED vars
  BY <1>15 DEF KeyInv, vars, storeVars, threadVars, keyVars
<1>16. QED
  BY <1>1, <1>2, <1>3, <1>4, <1>5, <1>6, <1>7, <1>8, <1>9, <1>10, <1>11,
     <1>12, <1>13, <1>14, <1>15
    DEF Next, Serve

-----------------------------------------------------------------------------
(* Theorems.                                                               *)

\* The initial state satisfies what holds with any number of stores.
LEMMA BaseInit == Init => Base
BY EmptyType, EmptyOK, RequestType, StoreAssumption, CrashAssumption
   DEF Init, Base, TypeOK, DocInv, ThreadInv, NoRequest, Empty

\* Initially no key is anywhere.
LEMMA OneStoreInit == Init => OneStoreInv
BY DEF Init, OneStoreInv, SnapInv, KeyInv, Empty, NoEntry

\* The inductive invariant: types, threads and documents always, and each key
\* in one place when the process has one store.
THEOREM InvHolds == Spec => [](Base /\ OneStoreInv)
<1>1. Init => Base /\ OneStoreInv
  BY BaseInit, OneStoreInit
<1>2. Base /\ OneStoreInv /\ [Next]_vars => (Base /\ OneStoreInv)'
  <2> SUFFICES ASSUME Base, OneStoreInv, [Next]_vars PROVE (Base /\ OneStoreInv)'
    OBVIOUS
  <2>1. Base'
    BY TypeStep, ThreadStep, DocStep DEF Base
  <2>2. OneStoreInv'
    BY SnapStep, KeyStep DEF Base, OneStoreInv, OneStore
  <2>3. QED
    BY <2>1, <2>2
<1>3. QED
  BY <1>1, <1>2, PTL DEF Spec

\* Every reachable state of the device flow is well typed.
THEOREM TypeCorrect == Spec => []TypeOK
<1>1. Base => TypeOK
  BY DEF Base
<1>2. QED
  BY InvHolds, <1>1, PTL

\* No two requests in the document share a user code, even when threads with
\* different stores overwrite each other's documents.
THEOREM CodesDistinct == Spec => []DistinctCodes
<1>1. Base => DistinctCodes
  BY DEF Base, DocInv, DocOK, DistinctCodes, Present
<1>2. QED
  BY InvHolds, <1>1, PTL

\* With one store redeem returns every key at most once.
THEOREM HandedOnce == ASSUME OneStore PROVE Spec => []KeyHandedOnce
<1>1. OneStoreInv => KeyHandedOnce
  BY DEF OneStoreInv, KeyInv, KeyHandedOnce
<1>2. QED
  BY InvHolds, <1>1, PTL

\* With one store a key in the document belongs to one approved entry and has
\* not been handed out.
THEOREM KeysBound == ASSUME OneStore PROVE Spec => []KeyBinding
<1>1. Base /\ OneStoreInv => KeyBinding
  BY DEF Base, DocInv, DocOK, OneStoreInv, KeyInv, KeyBinding
<1>2. QED
  BY InvHolds, <1>1, PTL

\* What a step may do to an approved entry.
KeepStep ==
    \A d \in Devices :
        file[d].status = "approved" /\ file'[d] # file[d] =>
            \/ d \in late
            \/ \E t \in Threads : pc'[t] = "reply" /\ key'[t] = file[d].key

\* Every step keeps approved entries, when the reader of the document saw it
\* as it is.
LEMMA KeepNext == ASSUME Base, SnapInv, [Next]_vars PROVE KeepStep
<1>1. ASSUME NEW t \in Threads, Arrive(t) PROVE KeepStep
  BY <1>1 DEF KeepStep, Arrive, Asked, storeVars, threadVars, keyVars
<1>2. ASSUME NEW t \in Threads, LookupStore(t) PROVE KeepStep
  BY <1>2 DEF KeepStep, LookupStore, storeVars, threadVars, keyVars
<1>3. ASSUME NEW t \in Threads, BuildStore(t) PROVE KeepStep
  BY <1>3 DEF KeepStep, BuildStore, storeVars, threadVars, keyVars
<1>4. ASSUME NEW t \in Threads, Acquire(t) PROVE KeepStep
  BY <1>4 DEF KeepStep, Acquire, storeVars, threadVars, keyVars
<1>5. ASSUME NEW t \in Threads, Create(t) PROVE KeepStep
  <2>1. snap[t] = file
    BY <1>5 DEF SnapInv, Create, Inside
  <2>2. \A d \in Devices : file[d].status = "approved" => d \in used
    BY DEF Base, DocInv, DocOK
  <2>3. QED
    BY <1>5, <2>1, <2>2 DEF KeepStep, Create, Added, Purged
<1>6. ASSUME NEW t \in Threads, Describe(t) PROVE KeepStep
  <2>1. snap[t] = file
    BY <1>6 DEF SnapInv, Describe, Inside
  <2>2. \A d \in Devices : file[d].status = "approved" => d \in used
    BY DEF Base, DocInv, DocOK
  <2>3. QED
    BY <1>6, <2>1, <2>2 DEF KeepStep, Describe, Purged
<1>7. ASSUME NEW t \in Threads, Mint(t) PROVE KeepStep
  BY <1>7 DEF KeepStep, Mint, storeVars, threadVars, keyVars
<1>8. ASSUME NEW t \in Threads, MintFails(t) PROVE KeepStep
  BY <1>8 DEF KeepStep, MintFails, Forget, storeVars, threadVars, keyVars
<1>9. ASSUME NEW t \in Threads, Approve(t) PROVE KeepStep
  <2>1. snap[t] = file
    BY <1>9 DEF SnapInv, Approve, Inside
  <2>2. \A d \in Devices : file[d].status = "approved" => d \in used
    BY DEF Base, DocInv, DocOK
  <2>3. \A d \in Devices \ late : Purged(file)[d] = file[d]
    BY DEF Purged
  <2>4. ASSUME NEW d \in Devices, file' = Approved(Purged(file), d, key[t]), file[d].status = "pending"
        PROVE  KeepStep
    BY <2>3, <2>4 DEF KeepStep, Approved, Purged
  <2>5. QED
    BY <1>9, <2>1, <2>4 DEF Approve, KeepStep, Named, Present
<1>10. ASSUME NEW t \in Threads, Redeem(t) PROVE KeepStep
  <2>1. snap[t] = file
    BY <1>10 DEF SnapInv, Redeem, Inside
  <2>2. \A d \in Devices : file[d].status = "approved" => d \in used
    BY DEF Base, DocInv, DocOK
  <2>3. ASSUME NEW d \in Devices, file'[d] # file[d], file[d].status = "approved", d \notin late
        PROVE  d = req[t].dev
    BY <1>10, <2>1, <2>3 DEF Base, TypeOK, Redeem, Dropped
  <2>4. ASSUME NEW d \in Devices, file'[d] # file[d], file[d].status = "approved", d \notin late
        PROVE  pc'[t] = "reply" /\ key'[t] = file[d].key
    BY <1>10, <2>1, <2>3, <2>4 DEF Base, TypeOK, Redeem, Release, Dropped, Present
  <2>5. QED
    BY <2>4 DEF KeepStep
<1>11. ASSUME NEW t \in Threads, WriteFails(t) PROVE KeepStep
  BY <1>11
    DEF KeepStep, WriteFails, Release, Forget, storeVars, threadVars, keyVars
<1>12. ASSUME NEW t \in Threads, Reply(t) PROVE KeepStep
  BY <1>12 DEF KeepStep, Reply, Forget, storeVars, threadVars, keyVars
<1>13. ASSUME NEW d \in Devices, Expire(d) PROVE KeepStep
  BY <1>13 DEF KeepStep, Expire
<1>14. ASSUME Crash PROVE KeepStep
  BY <1>14 DEF KeepStep, Crash
<1>15. CASE UNCHANGED vars
  BY <1>15 DEF KeepStep, vars
<1>16. QED
  BY <1>1, <1>2, <1>3, <1>4, <1>5, <1>6, <1>7, <1>8, <1>9, <1>10, <1>11,
     <1>12, <1>13, <1>14, <1>15
    DEF Next, Serve

\* With one store no operation overwrites an approval: it ends by expiring or
\* by being handed to a poll.
THEOREM ApprovalsKept == ASSUME OneStore PROVE Spec => ApprovalKept
<1>1. Base /\ OneStoreInv /\ [Next]_vars => [KeepStep]_vars
  BY KeepNext DEF OneStoreInv
<1>2. QED
  BY <1>1, InvHolds, PTL DEF Spec, ApprovalKept, KeepStep
=============================================================================
