---------------------------- MODULE ModelRoutes -----------------------------
(***************************************************************************)
(* The model-routing registry (services/model_routes.py, the model routes  *)
(* of routes/hub.py, models/model_route.py): rows edited by concurrent     *)
(* requests, an API key sealed under the deployment's master key, a probe  *)
(* whose answer is remembered on a row, and what a downstream client       *)
(* reads.  A request reads, validates and commits in separate steps; the   *)
(* mapper's UPDATE names only the columns it changed.                      *)
(***************************************************************************)
EXTENDS Integers, FiniteSets

CONSTANTS
    Editors,        \* requests in progress
    Names,          \* route names
    Bodies,         \* request bodies: functions from the fields they name
    Masters,        \* MODEL_ROUTE_KEY values; "" is none
    SealOnline,     \* may cli.py model-route seal run beside requests?
    MAX_CONTEXT_WINDOW, MAX_OUTPUT_TOKENS,
    MaxRoutes,      \* bound: rows ever inserted
    MaxEdits        \* bound: requests and restarts

\* The fields a body may name; one it leaves out keeps what the row has.
ModelRouteRequest == {"name", "provider", "kind", "base_url", "api_key", "context_window",
                      "max_tokens", "reasoning"}

ASSUME ModelRoutesAssumption ==
    /\ \A body \in Bodies : DOMAIN body \subseteq ModelRouteRequest
    /\ MAX_CONTEXT_WINDOW \in Nat \ {0} /\ MAX_OUTPUT_TOKENS \in Nat \ {0}
    /\ MaxRoutes \in Nat \ {0} /\ MaxEdits \in Nat /\ SealOnline \in BOOLEAN

VARIABLES
    routes,     \* the table: a function from the ids there are to rows
    lastId,
    editor,     \* editor[e]: [pc, id, name, seen, entry, url]
    master,     \* the key the process runs with
    meant,      \* meant[id]: the API key the last accepted body named for the row
    edits

routeVars == <<routes, lastId, editor, master, meant, edits>>

Null == 0
Invalid == "invalid"
BadCount == -1
PROVIDERS == {"openai", "anthropic"}
ROUTE_KINDS == {"chat", "completion", "embedding", "rerank", "ocr", "asr", "tts"}
THINKING_LEVELS == {"off", "low", "high"}
Empty == [x \in {} |-> Null]

-----------------------------------------------------------------------------
(* Normalisation, one field at a time; Invalid is the ValueError.          *)

PROVIDER_ALIASES ==
    [t \in {"openai", "openai-compatible", "openai_compatible", "openai_compat", "anthropic", "claude"} |->
        IF t \in {"anthropic", "claude"} THEN "anthropic" ELSE "openai"]

canonical_provider(text) ==
    IF text = "" THEN "openai"
    ELSE IF text \in DOMAIN PROVIDER_ALIASES THEN PROVIDER_ALIASES[text] ELSE text
normalize_provider(text) ==
    IF canonical_provider(text) \in PROVIDERS THEN canonical_provider(text) ELSE Invalid
default_kind(provider) == "chat"
normalize_kind(kind, provider) ==
    IF kind = "" THEN default_kind(provider) ELSE IF kind \in ROUTE_KINDS THEN kind ELSE Invalid
effective_kind(row) == IF row.kind \in ROUTE_KINDS THEN row.kind ELSE default_kind(row.provider)
_positive_token_count(value, ceiling) ==
    IF value = Null THEN Null ELSE IF value \in 1 .. ceiling THEN value ELSE BadCount

\* Undeclared, or efforts with one beyond "off"; a dialect is OpenAI's only.
normalize_reasoning(r, provider) ==
    IF r = Empty THEN Empty
    ELSE IF \/ DOMAIN r # {"format", "efforts"}
            \/ r.format # "none" /\ provider # "openai"
            \/ ~(r.efforts \subseteq THINKING_LEVELS) \/ r.efforts \ {"off"} = {}
         THEN [error |-> Invalid] ELSE r

-----------------------------------------------------------------------------
(* The sealed key.                                                         *)

NoSecret == [form |-> "none", under |-> "", value |-> ""]
Plain(v) == [form |-> "plain", under |-> "", value |-> v]
Sealed(v) == [form |-> "sealed", under |-> master, value |-> v]
Unsafe == "un safe"      \* a key with a character no header may carry

seal_api_key(v) == IF v = "" THEN NoSecret ELSE Sealed(v)
CannotSeal(body) ==
    "api_key" \in DOMAIN body /\ body.api_key # "" /\ (body.api_key = Unsafe \/ master = "")
resolve_api_key(body, existing) ==
    IF "api_key" \in DOMAIN body THEN seal_api_key(body.api_key) ELSE existing.api_key

_safe_plaintext(v) == IF v = Unsafe THEN "" ELSE v
effective_api_key(row) ==
    CASE row.api_key.form = "none" -> [key |-> "", source |-> "none"]
      [] row.api_key.form = "plain" -> [key |-> _safe_plaintext(row.api_key.value), source |-> "plaintext"]
      [] row.api_key.form = "sealed" /\ master # "" /\ row.api_key.under = master
           -> [key |-> _safe_plaintext(row.api_key.value), source |-> "stored"]
      [] OTHER -> [key |-> "", source |-> "unreadable"]

-----------------------------------------------------------------------------
(* build_route: the body over the stored row, every field normalised.      *)

NoRoute == [name |-> "", provider |-> "", kind |-> "", base_url |-> "", api_key |-> NoSecret,
          context_window |-> Null, max_tokens |-> Null, reasoning |-> Empty]

_payload_field(body, existing, f) == IF f \in DOMAIN body THEN body[f] ELSE existing[f]

build_route(body, existing) ==
    LET field(f) == _payload_field(body, existing, f)
        provider == normalize_provider(field("provider")) IN
    [name |-> field("name"), provider |-> provider, kind |-> normalize_kind(field("kind"), provider),
     base_url |-> field("base_url"), api_key |-> resolve_api_key(body, existing),
     context_window |-> _positive_token_count(field("context_window"), MAX_CONTEXT_WINDOW),
     max_tokens |-> _positive_token_count(field("max_tokens"), MAX_OUTPUT_TOKENS),
     reasoning |-> normalize_reasoning(field("reasoning"), provider)]

Refused(body, entry) ==
    \/ CannotSeal(body) \/ entry.name = "" \/ entry.base_url = ""
    \/ entry.provider = Invalid \/ entry.kind = Invalid \/ "error" \in DOMAIN entry.reasoning
    \/ entry.context_window = BadCount \/ entry.max_tokens = BadCount
    \/ entry.context_window # Null /\ entry.max_tokens # Null /\ entry.max_tokens > entry.context_window

\* What is read back is validated again: a row may have been written by hand,
\* or by two requests.
capability_fields(row) ==
    LET provider == canonical_provider(row.provider)
        published(v, ceiling) == IF _positive_token_count(v, ceiling) = BadCount THEN Null ELSE v
        r == normalize_reasoning(row.reasoning, provider) IN
    [provider |-> provider, context_window |-> published(row.context_window, MAX_CONTEXT_WINDOW),
     max_tokens |-> published(row.max_tokens, MAX_OUTPUT_TOKENS),
     reasoning |-> IF "error" \in DOMAIN r THEN Empty ELSE r]

\* What a client that resolves the table is told of a route.
resolve(row) ==
    LET capability == capability_fields(row)
        api_key == effective_api_key(row) IN
    [provider |-> capability.provider, kind |-> effective_kind(row), key |-> api_key.key, source |-> api_key.source,
     context_window |-> capability.context_window, max_tokens |-> capability.max_tokens,
     reasoning |-> capability.reasoning]

-----------------------------------------------------------------------------
(* Requests.                                                               *)

Off == [pc |-> "idle", id |-> 0, name |-> "", seen |-> NoRoute, entry |-> NoRoute, body |-> Empty]
NoHealth == [of |-> 0, url |-> ""]
Columns == DOMAIN NoRoute
_find(name) == {i \in DOMAIN routes : routes[i].name = name}
RouteEntry(row) == [f \in Columns |-> row[f]]
Stored(route) == [f \in Columns \cup {"health"} |-> IF f = "health" THEN NoHealth ELSE route[f]]
Begins(e, request) == edits < MaxEdits /\ edits' = edits + 1 /\ editor' = [editor EXCEPT ![e] = request]
Ends(e) == editor' = [editor EXCEPT ![e] = Off]
Sealing == \E e \in Editors : editor[e].pc = "seal"
RouteQuiet == \A e \in Editors : editor[e].pc = "idle"
NoEdit(e) == editor[e].pc = "idle" /\ (SealOnline \/ ~Sealing)

RoutesInit ==
    /\ lastId = 1 /\ edits = 0 /\ master \in Masters /\ meant = [i \in {1} |-> "old"]
    /\ \E n \in Names : routes = [i \in {1} |->
          Stored([NoRoute EXCEPT !.name = n, !.provider = "openai", !.kind = "chat", !.base_url = "u0",
                                 !.api_key = Plain("old")])]
    /\ editor = [e \in Editors |-> Off]

create(e) ==
    /\ NoEdit(e)
    /\ \E body \in Bodies : LET entry == build_route(body, NoRoute) IN
         /\ ~Refused(body, entry) /\ _find(entry.name) = {}
         /\ Begins(e, [Off EXCEPT !.pc = "insert", !.entry = entry, !.body = body])
    /\ UNCHANGED <<routes, lastId, master, meant>>

\* The unique constraint decides: a lost race is the duplicate's 409.
_commit_new(e) ==
    /\ editor[e].pc = "insert"
    /\ IF _find(editor[e].entry.name) # {} THEN Ends(e) /\ UNCHANGED <<routes, lastId, meant>>
       ELSE /\ lastId < MaxRoutes /\ lastId' = lastId + 1
            /\ routes' = [i \in DOMAIN routes \cup {lastId'} |->
                             IF i = lastId' THEN Stored(editor[e].entry) ELSE routes[i]]
            /\ meant' = [i \in DOMAIN meant \cup {lastId'} |->
                            IF i = lastId' THEN editor[e].entry.api_key.value ELSE meant[i]]
            /\ editor' = [editor EXCEPT ![e].pc = "probe", ![e].id = lastId', ![e].name = editor[e].entry.name]
    /\ UNCHANGED <<master, edits>>

update(e) ==
    /\ NoEdit(e)
    /\ \E i \in DOMAIN routes, body \in Bodies :
         LET entry == build_route(body, RouteEntry(routes[i])) IN
         /\ ~Refused(body, entry)
         /\ entry.name # routes[i].name => _find(entry.name) = {}
         /\ Begins(e, [pc |-> "update", id |-> i, name |-> entry.name, seen |-> RouteEntry(routes[i]), entry |-> entry, body |-> body])
    /\ UNCHANGED <<routes, lastId, master, meant>>

_apply_all(e, row) == [f \in DOMAIN row |-> IF f \in Columns THEN editor[e].entry[f] ELSE row[f]]

\* Only the columns this request changed are in its UPDATE; every seal is a new
\* envelope, so a key that is named is always changed.
Changed(e) ==
    {f \in Columns : editor[e].entry[f] # editor[e].seen[f]}
        \cup {f \in {"api_key"} \cap DOMAIN editor[e].body : editor[e].body[f] # ""}
_apply(e, row) == [f \in DOMAIN row |-> IF f \in Changed(e) THEN editor[e].entry[f] ELSE row[f]]

update_commit(e) ==
    /\ editor[e].pc = "update"
    /\ LET i == editor[e].id IN
       IF i \notin DOMAIN routes \/ (_find(editor[e].entry.name) \ {i} # {} /\ editor[e].entry.name # editor[e].seen.name)
       THEN Ends(e) /\ UNCHANGED <<routes, meant>>
       ELSE /\ routes' = [routes EXCEPT ![i] = _apply(e, @)]
            /\ meant' = IF "api_key" \in Changed(e) THEN [meant EXCEPT ![i] = editor[e].body.api_key] ELSE meant
            /\ editor' = [editor EXCEPT ![e].pc = "probe"]
    /\ UNCHANGED <<lastId, master, edits>>

delete(e) ==
    /\ NoEdit(e)
    /\ \E i \in DOMAIN routes :
         /\ Begins(e, Off)
         /\ routes' = [j \in DOMAIN routes \ {i} |-> routes[j]]
         /\ meant' = [j \in DOMAIN meant \ {i} |-> meant[j]]
    /\ UNCHANGED <<lastId, master>>

\* check_model_route: the probe of a stored route.
probe_and_record(e) ==
    /\ NoEdit(e)
    /\ \E i \in DOMAIN routes :
         Begins(e, [Off EXCEPT !.pc = "probe", !.id = i, !.name = routes[i].name, !.entry = RouteEntry(routes[i])])
    /\ UNCHANGED <<routes, lastId, master, meant>>

\* The answer goes to whatever row has the name by then.
record_health(e) ==
    /\ editor[e].pc = "probe" /\ Ends(e)
    /\ routes' = [i \in DOMAIN routes |->
          IF i \in _find(editor[e].name)
          THEN [routes[i] EXCEPT !.health = [of |-> editor[e].id, url |-> editor[e].entry.base_url]] ELSE routes[i]]
    /\ UNCHANGED <<lastId, master, meant, edits>>

-----------------------------------------------------------------------------
(* cli.py model-route seal; a restart with another master key.             *)

migrate_plaintext_keys(e) ==
    /\ NoEdit(e) /\ master # "" /\ (SealOnline \/ RouteQuiet)
    /\ \E i \in DOMAIN routes :
         /\ routes[i].api_key.form = "plain"
         /\ Begins(e, [Off EXCEPT !.pc = "seal", !.id = i, !.entry = [NoRoute EXCEPT !.api_key = Sealed(routes[i].api_key.value)]])
    /\ UNCHANGED <<routes, lastId, master, meant>>

migrate_plaintext_commit(e) ==
    /\ editor[e].pc = "seal" /\ Ends(e)
    /\ routes' = IF editor[e].id \in DOMAIN routes
                 THEN [routes EXCEPT ![editor[e].id].api_key = editor[e].entry.api_key] ELSE routes
    /\ UNCHANGED <<lastId, master, meant, edits>>

Restarted ==
    /\ edits < MaxEdits /\ edits' = edits + 1
    /\ master' \in Masters \ {master} /\ editor' = [e \in Editors |-> Off]
    /\ UNCHANGED <<routes, lastId, meant>>

RoutesNext ==
    \/ \E e \in Editors :
         \/ create(e) \/ _commit_new(e) \/ update(e) \/ update_commit(e) \/ delete(e)
         \/ probe_and_record(e) \/ record_health(e) \/ migrate_plaintext_keys(e) \/ migrate_plaintext_commit(e)
    \/ Restarted

RoutesSpec == RoutesInit /\ [][RoutesNext]_routeVars

-----------------------------------------------------------------------------
(* Properties.                                                             *)

\* "An omitted or null api_key keeps the stored key": whatever edits overlap,
\* whatever is renamed, sealed or restarted, a route that can be opened opens to
\* the key the last accepted body set for it, or to nothing if that key is
\* not fit for a header (update, resolve_api_key, effective_api_key).
KeyAsMeant ==
    \A i \in DOMAIN routes : LET k == effective_api_key(routes[i]) IN
        k.source # "unreadable" => k.key = _safe_plaintext(meant[i])

\* Sealed at rest: a key in the clear was there before sealing existed, and no
\* accepted write, however it overlaps another, adds one (seal_api_key).
NoNewPlaintext == \A i \in DOMAIN routes : routes[i].api_key.form = "plain" => i = 1 /\ meant[i] = "old"

\* What a client is told of a route could have been saved as it is, though two
\* requests wrote its provider and its reasoning (capability_fields on read).
PublishedSound ==
    \A i \in DOMAIN routes : LET p == resolve(routes[i]) IN
        /\ normalize_provider(p.provider) = p.provider /\ normalize_kind(p.kind, p.provider) = p.kind
        /\ normalize_reasoning(p.reasoning, p.provider) = p.reasoning
        /\ _positive_token_count(p.context_window, MAX_CONTEXT_WINDOW) = p.context_window
        /\ _positive_token_count(p.max_tokens, MAX_OUTPUT_TOKENS) = p.max_tokens

\* After any edits by two editors, a route has the key its last editor meant, no
\* new key is stored in the clear, and what is published is normalised
\* (model_routes.py).
RoutesTrue == KeyAsMeant /\ NoNewPlaintext /\ PublishedSound

\* "record_health remembers the answer on that route's row": the health of a row
\* is of a probe of that row.
HealthOfItsRow == \A i \in DOMAIN routes : routes[i].health.of \in {0, i}

\* A declared output never exceeds the declared context.
LimitsCoherent ==
    \A i \in DOMAIN routes : LET r == routes[i] IN
        r.context_window # Null /\ r.max_tokens # Null => r.max_tokens <= r.context_window
=============================================================================
