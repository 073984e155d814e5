---------------------------- MODULE RepoContext -----------------------------
(***************************************************************************)
(* The context search over a repository's imported history                 *)
(* (services/repo_context.py, routes/repo_context.py): per kind one        *)
(* statement that counts the matches and one that fetches the best of      *)
(* them, then a merge, and a character budget that cuts what does not fit  *)
(* and says so.  An import may commit rows between any two statements.     *)
(***************************************************************************)
EXTENDS Integers, Sequences, SequencesExt, FiniteSets, FiniteSetsExt

CONSTANTS
    Rows,               \* Rows[i]: a row of the imported history
    Evidence,           \* the issues finding_evidence links to the finding asked about
    Anchors,            \* the words of that finding's path, symbol and rule, in order
    Queries,            \* [mode, q, kind, state, limit, offset, budget]
    Importing,          \* may rows arrive while a search runs?
    MAX_TERMS, MAX_LIMIT, MIN_BUDGET, MAX_BUDGET, MAX_BODY_CHARS,
    Notice              \* the length of the line that says a body was clipped

\* A text is its terms; "head" and "size" are the lengths of an entry's heading
\* and body, "forged" the end tags its body contains.
Row(kinds, states) ==
    [kind : kinds, title : SUBSET STRING, body : SUBSET STRING, state : states, when : Nat,
     head : Nat, size : Nat, forged : Nat]
RepoIssue == Row({"issue"}, {"open", "closed"})
RepoCommit == Row({"commit"}, {""})
FindingRow == Row({"finding"}, {""})

\* The query string; with finding_id the mode is "related".
RepoContextSearchQuery ==
    [mode : {"search", "related"}, q : SUBSET STRING, kind : {"issue", "commit", "finding", "all"},
     state : {"", "open", "closed"}, limit : Int, offset : Int, budget : Int]

ASSUME RepoContextAssumption ==
    /\ \A i \in DOMAIN Rows : Rows[i] \in RepoIssue \cup RepoCommit \cup FindingRow
    /\ Queries \subseteq RepoContextSearchQuery
    /\ MAX_TERMS \in Nat /\ \A n \in DOMAIN Anchors : Anchors[n] \in [word : STRING, length : Nat]
    /\ MAX_LIMIT \in Nat \ {0} /\ MAX_BODY_CHARS \in Nat /\ Notice \in Nat
    /\ MIN_BUDGET \in Nat /\ MAX_BUDGET \in Nat /\ MIN_BUDGET <= MAX_BUDGET
    /\ Importing \in BOOLEAN /\ Evidence \subseteq DOMAIN Rows

VARIABLES
    known,      \* the rows in the tables
    ask,        \* the search under way
    answer      \* the last answer; "none" before the first

contextVars == <<known, ask, answer>>

KINDS == <<"issue", "commit", "finding">>
TITLE_WEIGHT == 3
BODY_WEIGHT == 1
EVIDENCE_SCORE == 10
SEPARATOR == 2
ESCAPE == 3             \* "&lt;" for "<" in a forged end tag

NoAsk == [pc |-> "idle"]
NoAnswer == [items |-> <<>>, ready |-> FALSE]

-----------------------------------------------------------------------------
(* The statements.                                                         *)

\* Words of three characters or more, each once, the first MAX_TERMS.
_probes ==
    LET words == FoldLeft(LAMBDA seen, a : IF a.length < 3 \/ Contains(seen, a.word) THEN seen
                                           ELSE Append(seen, a.word), <<>>, Anchors) IN
    ToSet(SubSeq(words, 1, Min({MAX_TERMS, Len(words)})))

_clamp_int(n, low, high) == Max({low, Min({high, n})})
_contains(text, term) == term \in text
_require_terms(r, terms, any_term) ==
    LET found(t) == _contains(r.title, t) \/ _contains(r.body, t) IN
    terms = {} \/ IF any_term THEN \E t \in terms : found(t) ELSE \A t \in terms : found(t)
_weighted_score(r, terms) ==
    TITLE_WEIGHT * Cardinality(r.title \cap terms) + BODY_WEIGHT * Cardinality(r.body \cap terms)

\* The state filter is the issues' own: commits and findings ignore it.
build_issue_query(terms, state, any_term) ==
    {i \in known : /\ Rows[i].kind = "issue" /\ _require_terms(Rows[i], terms, any_term)
                   /\ state # "" => Rows[i].state = state}
build_commit_query(terms) == {i \in known : Rows[i].kind = "commit" /\ _require_terms(Rows[i], terms, FALSE)}
build_finding_query(terms) == {i \in known : Rows[i].kind = "finding" /\ _require_terms(Rows[i], terms, FALSE)}
build_candidates_query(kind, query) ==
    CASE kind = "issue" -> build_issue_query(query.q, query.state, FALSE)
      [] kind = "commit" -> build_commit_query(query.q)
      [] kind = "finding" -> build_finding_query(query.q)

Candidate(i, score, related) == [id |-> i, score |-> score, related |-> related]

\* Related first, then score, then the newer row, then the higher id.
_order_key(a, b) ==
    LET keys(c) == <<IF c.related THEN 0 ELSE 1, -c.score, -Rows[c.id].when, -c.id>>
        ka == keys(a)
        kb == keys(b) IN
    \E n \in 1 .. 4 : ka[n] < kb[n] /\ \A m \in 1 .. n - 1 : ka[m] = kb[m]

_fetch(rows, terms, limit, offset) ==
    LET ranked == SetToSortSeq({Candidate(i, _weighted_score(Rows[i], terms), FALSE) : i \in rows}, _order_key) IN
    {ranked[n] : n \in {n \in 1 .. Len(ranked) : offset < n /\ n <= offset + limit}}
_count(rows) == Cardinality(rows)
_evidence_candidates == {Candidate(i, EVIDENCE_SCORE, TRUE) : i \in Evidence \cap known}

-----------------------------------------------------------------------------
(* Rendering, by length: a body is clipped, a forged end tag escaped.      *)

_clip(row, limit) == IF row.size <= limit THEN row.size ELSE limit + Notice
wrap_untrusted(row, limit) == IF row.size <= limit THEN ESCAPE * row.forged ELSE 0
_render(c, limit) == Rows[c.id].head + _clip(Rows[c.id], limit) + wrap_untrusted(Rows[c.id], limit)

Assembled == [items |-> <<>>, used |-> 0, stop |-> FALSE]

\* What is told of an entry: never its body.
_item_meta(c, chars) ==
    [kind |-> Rows[c.id].kind, id |-> c.id, score |-> c.score, chars |-> chars,
     origin |-> IF c.related THEN "evidence" ELSE "recall"]
Taken(acc, c, chars, separator) ==
    [items |-> Append(acc.items, _item_meta(c, chars)), used |-> acc.used + chars + separator, stop |-> FALSE]

\* The first candidate that does not fit even clipped ends the list.
_assemble_unchecked(candidates, budget) ==
    LET take(acc, c) ==
        LET separator == IF acc.items = <<>> THEN 0 ELSE SEPARATOR
            whole == _render(c, MAX_BODY_CHARS)
            room == budget - acc.used - separator - _render(c, 0) IN
        IF acc.stop THEN acc
        ELSE IF acc.used + whole + separator <= budget THEN Taken(acc, c, whole, separator)
        ELSE IF room <= 0 THEN [acc EXCEPT !.stop = TRUE]
        ELSE Taken(acc, c, _render(c, room), separator) IN
    FoldLeft(take, Assembled, candidates)
_assemble(candidates, budget) ==
    LET take(acc, c) ==
        LET separator == IF acc.items = <<>> THEN 0 ELSE SEPARATOR
            whole == _render(c, MAX_BODY_CHARS)
            room == budget - acc.used - separator - _render(c, 0)
            part == _render(c, room) IN
        IF acc.stop THEN acc
        ELSE IF acc.used + whole + separator <= budget THEN Taken(acc, c, whole, separator)
        ELSE IF room <= 0 \/ acc.used + part + separator > budget THEN [acc EXCEPT !.stop = TRUE]
        ELSE Taken(acc, c, part, separator) IN
    FoldLeft(take, Assembled, candidates)

\* matched is what the statements counted, whatever was fetched and rendered.
_result_of_fetched(matched, fetched, cut) == Max({0, fetched - Len(cut.items)})
_result(matched, fetched, cut) == Max({0, matched - Len(cut.items)})

-----------------------------------------------------------------------------
ContextInit ==
    /\ known \in {{}, {i \in DOMAIN Rows : i % 2 = 1}, DOMAIN Rows}
    /\ ask = NoAsk /\ answer = NoAnswer

Import ==
    /\ Importing \/ ask.pc = "idle"
    /\ \E i \in DOMAIN Rows \ known : known' = known \cup {i}
    /\ UNCHANGED <<ask, answer>>

\* The numbers are clamped; then a count and a fetch for each kind ...
search(query) ==
    [pc |-> "count", query |-> query, kinds |-> IF query.kind = "all" THEN KINDS ELSE <<query.kind>>,
     limit |-> _clamp_int(query.limit, 1, MAX_LIMIT), offset |-> Max({0, query.offset}),
     budget |-> _clamp_int(query.budget, MIN_BUDGET, MAX_BUDGET),
     matched |-> 0, found |-> {}, at |-> known]

\* ... or the linked issues, and recall by the finding's probes.
related_to_finding(query) ==
    [search(query) EXCEPT !.pc = "evidence", !.kinds = IF _probes = {} THEN <<>> ELSE <<"issue">>]

\* The route: q and finding_id exclude each other.
search_repo_context ==
    /\ ask.pc = "idle" /\ answer = NoAnswer
    /\ \E query \in Queries :
          /\ query.mode = "related" => query.q = {}
          /\ ask' = IF query.mode = "related" THEN related_to_finding(query) ELSE search(query)
    /\ UNCHANGED <<known, answer>>

\* search: the next kind's count, then its best rows.
search_count ==
    /\ ask.pc = "count" /\ ask.query.mode = "search" /\ ask.kinds # <<>>
    /\ ask' = [ask EXCEPT !.pc = "fetch", !.matched = @ + _count(build_candidates_query(Head(ask.kinds), ask.query))]
    /\ UNCHANGED <<known, answer>>
search_fetch ==
    LET rows == build_candidates_query(Head(ask.kinds), ask.query) IN
    /\ ask.pc = "fetch" /\ ask.query.mode = "search"
    /\ ask' = [ask EXCEPT !.pc = "count", !.kinds = Tail(@),
                          !.found = @ \cup _fetch(rows, ask.query.q, ask.limit, ask.offset)]
    /\ UNCHANGED <<known, answer>>

\* related_to_finding: the linked issues, then recall by any probe.
related_evidence ==
    /\ ask.pc = "evidence"
    /\ ask' = [ask EXCEPT !.pc = "count", !.found = _evidence_candidates, !.matched = _count(_evidence_candidates)]
    /\ UNCHANGED <<known, answer>>
related_count ==
    /\ ask.pc = "count" /\ ask.query.mode = "related" /\ ask.kinds # <<>>
    /\ ask' = [ask EXCEPT !.pc = "fetch", !.matched = @ + _count(build_issue_query(_probes, "", TRUE))]
    /\ UNCHANGED <<known, answer>>
related_fetch ==
    LET seen == {c.id : c \in ask.found}
        recall == _fetch(build_issue_query(_probes, "", TRUE), _probes, ask.limit, ask.offset) IN
    /\ ask.pc = "fetch" /\ ask.query.mode = "related"
    /\ ask' = [ask EXCEPT !.pc = "count", !.kinds = <<>>, !.found = @ \cup {c \in recall : c.id \notin seen}]
    /\ UNCHANGED <<known, answer>>

respond ==
    LET cut == _assemble(SetToSortSeq(ask.found, _order_key), ask.budget)
        omitted == _result(ask.matched, Cardinality(ask.found), cut) IN
    /\ ask.pc = "count" /\ ask.kinds = <<>>
    /\ answer' = [ready |-> TRUE, items |-> cut.items, used |-> cut.used, budget |-> ask.budget, omitted |-> omitted,
                  truncated |-> omitted > 0, query |-> ask.query, offset |-> ask.offset, at |-> ask.at]
    /\ ask' = NoAsk /\ UNCHANGED known

\* The caller has taken the answer.
returned == answer.ready /\ answer' = NoAnswer /\ UNCHANGED <<known, ask>>

ContextNext ==
    \/ Import \/ returned \/ search_repo_context \/ search_count \/ search_fetch
    \/ related_evidence \/ related_count \/ related_fetch \/ respond

ContextSpec == ContextInit /\ [][ContextNext]_contextVars

-----------------------------------------------------------------------------
(* Properties.                                                             *)

Asked(query, i) ==
    IF query.mode = "related"
      THEN i \in Evidence \/ (Rows[i].kind = "issue" /\ _probes # {} /\ _require_terms(Rows[i], _probes, TRUE))
      ELSE /\ query.kind \in {"all", Rows[i].kind} /\ _require_terms(Rows[i], query.q, FALSE)
           /\ Rows[i].kind = "issue" /\ query.state # "" => Rows[i].state = query.state
Given == {answer.items[n].id : n \in DOMAIN answer.items}
Missing == {i \in answer.at : Asked(answer.query, i)} \ Given

\* The prompt block never exceeds its budget, clipping and escaping included,
\* and its length is that of its entries and the separators between them
\* (_assemble, _item_meta, _neutralize_end_tag).
WithinBudget ==
    answer.ready =>
        /\ answer.used <= answer.budget
        /\ answer.used = FoldLeft(LAMBDA n, item : n + item.chars, 0, answer.items)
                             + SEPARATOR * Max({0, Len(answer.items) - 1})

\* An answer not marked truncated has every row that was there to be found when
\* the search began; the offset aside (search, _result).
PartialIsTold == answer.ready /\ ~answer.truncated /\ answer.offset = 0 => Missing = {}

\* A linked issue is never behind one that keywords recalled, nor listed twice.
LinkedFirst ==
    answer.ready =>
        /\ Cardinality(Given) = Len(answer.items)
        /\ answer.query.mode = "related" =>
             /\ Given \cap Evidence = {item.id : item \in {i \in ToSet(answer.items) : i.origin = "evidence"}}
             /\ \A m, n \in DOMAIN answer.items :
                    m < n /\ answer.items[n].origin = "evidence" => answer.items[m].origin = "evidence"

\* An answer keeps its character budget, says so when it is not the whole truth,
\* and puts linked evidence before similar rows (repo_context.py).
ContextTrue == WithinBudget /\ PartialIsTold /\ LinkedFirst

\* omitted says how many were cut (routes/repo_context.py: "truncated, omitted
\* and budget_used say exactly what was cut"): not so when a linked issue also
\* matches a probe, which is counted twice.
OmittedExact == answer.ready /\ answer.offset = 0 => answer.omitted = Cardinality(Missing)
=============================================================================
