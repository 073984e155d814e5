------------------------------ MODULE Findings ------------------------------
(***************************************************************************)
(* The findings table: backend/services/findings.py as the worker's ingest *)
(* (backend/services/agent_worker.py) and the decision route               *)
(* (backend/routes/findings.py) use it.                                    *)
(*                                                                         *)
(* An ingest and a decision are transactions on ORM rows: each reads the   *)
(* committed row, computes, and its commit writes only the columns it      *)
(* changed, so a commit in between is partly overwritten.  Dates are days, *)
(* 0 stands for NULL.                                                      *)
(***************************************************************************)
EXTENDS Naturals, Sequences, FiniteSets

CONSTANTS
    Matches,        \* fingerprints the review runs report
    Meta,           \* fingerprint of the rule-quality finding
    Blocking,       \* the fingerprints whose level is "blocking"
    Ingests,        \* review runs that ingest at the same time
    Contexts,       \* what the run knows: escalation threshold, drift
    NoPolicy,       \* threshold of a run without a policy
    NoiseThreshold, \* escalation.rule_noise_threshold
    Committing,     \* does the caller of decide commit its session?
    MaxDay, MaxEvents   \* bounds: today, events

ASSUME FindingsAssumption ==
    /\ IsFiniteSet(Matches) /\ Meta \notin Matches /\ Blocking \subseteq Matches
    /\ Contexts \subseteq [threshold : Nat \cup {NoPolicy}, drift : BOOLEAN]
    /\ Committing \in BOOLEAN /\ MaxDay \in Nat /\ MaxEvents \in Nat /\ NoiseThreshold \in Nat

VARIABLES
    rows,      \* findings
    events,    \* finding_events of each finding, oldest first
    run,       \* run[w]: what ingest w has read
    decision,  \* the decision in flight
    today,
    overlapped,\* findings changed between a transaction's read and its commit
    accepted   \* accepted[f]: decisions answered 200

findingsVars == <<rows, events, run, decision, today, overlapped, accepted>>

AllFindings == Matches \cup {Meta}
Deferred == {"acknowledged", "wontfix"}
NoFinding == [status |-> "none", owner |-> 0, due |-> 0]
Resting == [ctx |-> CHOOSE c \in Contexts : TRUE, read |-> [f \in {} |-> NoFinding]]
Undecided == [pc |-> "idle", on |-> Meta, to |-> "open", reason |-> "accepted",
              owner |-> 0, due |-> 0, was |-> NoFinding]

FindingsInit ==
    /\ rows = [f \in AllFindings |-> NoFinding]
    /\ events = [f \in AllFindings |-> <<>>]
    /\ run = [w \in Ingests |-> Resting]
    /\ decision = Undecided
    /\ today = 0 /\ overlapped = {} /\ accepted = [f \in AllFindings |-> 0]

Logged == {e \in AllFindings \X (1 .. MaxEvents) : e[2] \in DOMAIN events[e[1]]}
Room(n) == Cardinality(Logged) + n <= MaxEvents

-----------------------------------------------------------------------------
(* Reactivation.                                                           *)

\* Rows of the rule that are not fixed; every reported finding is of one rule.
OpenCount == Cardinality({f \in Matches : rows[f].status \in {"open"} \cup Deferred})

should_reactivate_strictly(r, ctx, day) ==
    CASE ctx.threshold # NoPolicy /\ OpenCount > ctx.threshold -> "escalation"
      [] ctx.drift -> "code_drift"
      [] r.due # 0 /\ r.due <= day + 1 -> "due"
      [] OTHER -> "no"

\* Escalation, then drift of the symbol, then the due date; "no" keeps the deferral.
should_reactivate(r, ctx, day) ==
    CASE ctx.threshold # NoPolicy /\ OpenCount > ctx.threshold -> "escalation"
      [] ctx.drift -> "code_drift"
      [] r.due # 0 /\ r.due <= day -> "due"
      [] OTHER -> "no"

\* What one entry of a run does to the row it read; a fixed row stays fixed.
Reactivated(r, ctx, day) ==
    IF r.status = "none" THEN "matched"
    ELSE IF r.status \in Deferred THEN should_reactivate(r, ctx, day) ELSE "no"

-----------------------------------------------------------------------------
(* ingest, one transaction.                                                *)

Reading(w) == DOMAIN run[w].read # {}

\* The run's findings, one query each; what the run knows is fixed at its start.
_make_ingest(w) ==
    /\ \E f \in Matches \ DOMAIN run[w].read, c \in Contexts :
         LET why == Reactivated(rows[f], c, today) IN
         /\ Reading(w) => c = run[w].ctx
         /\ run' = [run EXCEPT ![w] =
              [ctx |-> c, read |-> [g \in DOMAIN @.read \cup {f} |->
                 IF g = f THEN [row |-> rows[f], why |-> why] ELSE @.read[g]]]]
    /\ UNCHANGED <<rows, events, decision, today, overlapped, accepted>>

Written_unset(f, e) == IF e.why = "no" THEN rows[f] ELSE [rows[f] EXCEPT !.status = e.why]

\* The columns an entry writes that the properties read: a new row or a
\* reopened one (a match also counts, and refreshes the text).
Written(f, e) ==
    IF e.why = "no" THEN rows[f] ELSE [status |-> "open", owner |-> 0, due |-> 0]

\* Deferred rows of the rule beyond the threshold reopen too, the run's own excepted.
_apply_escalation(w, now) ==
    LET deferred == {f \in Matches : now[f].status \in Deferred} IN
    IF run[w].ctx.threshold # NoPolicy /\ Cardinality(deferred) > run[w].ctx.threshold
    THEN deferred \ DOMAIN run[w].read ELSE {}

ingest_reopens_all(w) ==
    LET read == run[w].read IN
    /\ Reading(w) /\ Room(Cardinality(DOMAIN read))
    /\ rows' = [f \in AllFindings |->
                  IF f \in DOMAIN read THEN [rows[f] EXCEPT !.status = "open"] ELSE rows[f]]
    /\ events' = [f \in AllFindings |->
                    IF f \in DOMAIN read /\ read[f].why # "no"
                    THEN Append(events[f], [to |-> "open", by |-> "run", reason |-> read[f].why])
                    ELSE events[f]]
    /\ overlapped' = overlapped \cup {f \in DOMAIN read : rows[f] # read[f].row}
    /\ run' = [run EXCEPT ![w] = Resting]
    /\ UNCHANGED <<decision, today, accepted>>

\* The commit of one run's transaction; two inserts of one fingerprint meet the
\* unique constraint and the later run loses everything it read.
ingest(w) ==
    LET read == run[w].read
        entry == [f \in AllFindings |-> IF f \in DOMAIN read THEN Written(f, read[f]) ELSE rows[f]]
        more == _apply_escalation(w, entry)
        noted == {f \in DOMAIN read : read[f].why # "no"} \cup more IN
    /\ Reading(w)
    /\ \A f \in DOMAIN read : read[f].why = "matched" => rows[f] = NoFinding
    /\ Room(Cardinality(noted))
    /\ rows' = [f \in AllFindings |->
                  IF f \in more THEN [entry[f] EXCEPT !.status = "open", !.owner = 0, !.due = 0]
                  ELSE entry[f]]
    /\ events' = [f \in AllFindings |->
                    IF f \notin noted THEN events[f]
                    ELSE Append(events[f], [to |-> "open", by |-> "run",
                           reason |-> IF f \in more THEN "escalation" ELSE read[f].why])]
    /\ overlapped' = overlapped \cup {f \in DOMAIN read : rows[f] # read[f].row}
    /\ run' = [run EXCEPT ![w] = Resting]
    /\ UNCHANGED <<decision, today, accepted>>

\* The unique constraint, a deadlock or the worker's death rolls the run back.
ingest_fails(w) ==
    /\ Reading(w)
    /\ run' = [run EXCEPT ![w] = Resting]
    /\ UNCHANGED <<rows, events, decision, today, overlapped, accepted>>

-----------------------------------------------------------------------------
(* decide.                                                                 *)

\* A deferral of a debt finding that is not fixed, with its owner and due date.
Deferrable_any_level(f, owner, due) == rows[f].status # "fixed" /\ owner # 0 /\ due # 0
Deferrable(f, owner, due) ==
    f \notin Blocking /\ rows[f].status # "fixed" /\ owner # 0 /\ due # 0

\* A rejected decision is answered 409 and changes nothing.  A false positive
\* is a fix confirmed by a second account.
decide(f) ==
    /\ decision.pc = "idle" /\ rows[f] # NoFinding
    /\ \/ \E to \in Deferred, owner \in 0 .. 1, due \in 0 .. MaxDay :
            /\ Deferrable(f, owner, due)
            /\ decision' = [pc |-> "flush", on |-> f, to |-> to, reason |-> "accepted",
                            owner |-> owner, due |-> due, was |-> rows[f]]
       \/ \E why \in {"accepted", "false_positive"} :
            decision' = [pc |-> "flush", on |-> f, to |-> "fixed", reason |-> why,
                         owner |-> rows[f].owner, due |-> rows[f].due, was |-> rows[f]]
    /\ UNCHANGED <<rows, events, run, today, overlapped, accepted>>

Column(old, new, now) == IF new = old THEN now ELSE new

\* The flush and the end of the request: with no commit the teardown rolls back.
decide_finding ==
    LET d == decision
        now == rows[d.on] IN
    /\ d.pc = "flush" /\ Room(1)
    /\ IF Committing
       THEN /\ rows' = [rows EXCEPT ![d.on] =
                 [now EXCEPT !.status = Column(d.was.status, d.to, @),
                             !.owner = Column(d.was.owner, d.owner, @),
                             !.due = Column(d.was.due, d.due, @)]]
            /\ events' = [events EXCEPT ![d.on] =
                 Append(@, [to |-> d.to, by |-> "person", reason |-> d.reason])]
            /\ overlapped' = IF now # d.was THEN overlapped \cup {d.on} ELSE overlapped
       ELSE UNCHANGED <<rows, events, overlapped>>
    /\ accepted' = [accepted EXCEPT ![d.on] = @ + 1]
    /\ decision' = Undecided
    /\ UNCHANGED <<run, today>>

-----------------------------------------------------------------------------
(* The noise of a rule.                                                    *)

_false_positive_counts ==
    Cardinality({e \in Logged : e[1] # Meta /\ events[e[1]][e[2]].reason = "false_positive"})

\* Opens the rule-quality finding, or reopens a fixed one.
rule_quality_watch ==
    LET r == rows[Meta]
        reopens == r = NoFinding \/ r.status = "fixed" IN
    /\ NoiseThreshold # 0 /\ _false_positive_counts >= NoiseThreshold
    /\ reopens /\ Room(1)
    /\ rows' = [rows EXCEPT ![Meta].status = "open"]
    /\ events' = [events EXCEPT ![Meta] = Append(@, [to |-> "open", by |-> "run",
                         reason |-> IF r = NoFinding THEN "false_positive" ELSE "escalation"])]
    /\ UNCHANGED <<run, decision, today, overlapped, accepted>>

NextDay ==
    /\ today < MaxDay /\ today' = today + 1
    /\ UNCHANGED <<rows, events, run, decision, overlapped, accepted>>

FindingsNext ==
    \/ \E w \in Ingests : _make_ingest(w) \/ ingest(w) \/ ingest_fails(w)
    \/ \E f \in AllFindings : decide(f)
    \/ decide_finding \/ rule_quality_watch \/ NextDay

FindingsSpec == FindingsInit /\ [][FindingsNext]_findingsVars

-----------------------------------------------------------------------------
(* Properties.                                                             *)

Statuses == {"none", "open", "fixed"} \cup Deferred
\* A row's lifecycle: what a re-observation or a decision may change of it.
Finding == [status : Statuses, owner : 0 .. 1, due : 0 .. MaxDay]
FindingsTypeOK ==
    /\ \A f \in AllFindings :
         rows[f] \in Finding /\ Len(events[f]) <= MaxEvents
    /\ today \in 0 .. MaxDay /\ overlapped \subseteq AllFindings
    /\ \A w \in Ingests : DOMAIN run[w].read \subseteq Matches

\* I3 always, I2 unless two transactions overlapped on the row: a blocking
\* finding is never deferred, and a deferral has an owner and a due date, also
\* after any number of reopenings and later decisions (decide, ingest).
DeferralRules ==
    \A f \in AllFindings : rows[f].status \in Deferred =>
        /\ f \notin Blocking
        /\ f \notin overlapped => rows[f].owner # 0 /\ rows[f].due # 0

\* The timeline ends where the finding is: the last event of a finding names
\* its status, unless two transactions overlapped on it (_record_event in
\* decide, ingest, _apply_escalation and rule_quality_watch).
TimelineTrue ==
    \A f \in AllFindings \ overlapped :
        IF events[f] = <<>> THEN rows[f].status = "none"
        ELSE events[f][Len(events[f])].to = rows[f].status

\* A finding's deferral, status and timeline agree after any decisions, ingests
\* and reopenings.
FindingsTrue == FindingsTypeOK /\ DeferralRules /\ TimelineTrue

\* A deferral is undone only for a reason that is true: a finding reopened as
\* due was due on that day; one reopened by escalation was escalated by a run
\* with a threshold, which saw the finding itself or found more deferrals of
\* the rule than the threshold (should_reactivate, _apply_escalation).
ReopenedForCause ==
    [][\A f \in Matches :
         /\ rows[f].status \in Deferred /\ rows'[f].status = "open" /\ f \notin overlapped'
         => LET why == events'[f][Len(events'[f])].reason IN
            /\ why = "due" => rows[f].due # 0 /\ rows[f].due <= today
            /\ why = "escalation" => \E w \in Ingests :
                 /\ Reading(w) /\ run[w].ctx.threshold # NoPolicy
                 /\ \/ f \in DOMAIN run[w].read
                    \/ Cardinality({g \in Matches : rows[g].status \in Deferred}) > run[w].ctx.threshold
            /\ why \in {"due", "escalation", "code_drift"}]_findingsVars

\* What the decision route says: every accepted decision writes an event.
DecisionKept ==
    \A f \in AllFindings :
        accepted[f] = Cardinality({i \in DOMAIN events[f] : events[f][i].by = "person"})
=============================================================================
