------------------------------ MODULE Console ------------------------------
(***************************************************************************)
(* The web console (frontend/src): the session store and the router guard  *)
(* that waits for it, and the pages that ask the API and show its answers. *)
(* One page is mounted at a time.  JavaScript runs to completion, so a     *)
(* step is the code up to its next await; between the request and its      *)
(* answer the operator goes on clicking, and every page keeps writing an   *)
(* answer into whatever it shows by then.                                  *)
(*                                                                         *)
(* An answer to a page that was left writes into a component nobody sees   *)
(* and is dropped.  Wording, layout and paging are left out.               *)
(***************************************************************************)
EXTENDS Integers, Sequences, FiniteSets

Lists == INSTANCE SequencesExt

CONSTANTS
    RepoSlugs,              \* repositories the console can open
    Filters,            \* what a list can be filtered by
    Drafts,             \* what the route editor's fields can hold
    Identities,         \* what /api/v1/session can answer
    Reordering,         \* whether answers may overtake each other
    MAX_RETRIES, BOOT_MAX_RETRIES, WARM_MAX_POLLS,
    MaxMounts, MaxAsks  \* bounds: pages opened, requests sent

NoOne == [authenticated |-> FALSE, auth_enabled |-> TRUE, pages |-> {}]
Pages == {"home", "repos", "repo", "preview", "findings", "finding", "models"}
Guarded == Pages \ {"home"}
None == "none"
NoNav == <<>>

VARIABLES
    session,    \* the session store
    nav,        \* the guarded page a navigation is waiting to open, or NoNav
    page,       \* the page mounted; "blank" before, "login" once the browser has left
    screen,       \* that page's own state
    flight,     \* its requests under way, in the order they were sent
    decided,    \* the guard's last decision and what it knew
    mounts, asks

consoleVars == <<session, nav, page, screen, flight, decided, mounts, asks>>

----------------------------------------------------------------------------
(* Pages and requests. *)

can(s, p) == p \in s.info.pages

Ask(op, arg) == [op |-> op, arg |-> arg]

\* session.load: a caller joins the request under way, or starts one.
load(s) ==
    IF s.inflight \/ s.loaded THEN s ELSE [s EXCEPT !.inflight = TRUE, !.error = FALSE]

\* The page as its component sets it up, and what onMounted asks for.
Opened(p, slug) ==
    CASE p = "home"     -> [stats |-> None, warm |-> FALSE, boot |-> FALSE, warmPolls |-> 0,
                            bootRetries |-> 0, waiting |-> FALSE]
      [] p = "repos"    -> [job |-> None, status |-> None, timer |-> None, inFlight |-> FALSE]
      [] p = "repo"     -> [slug |-> slug, filter |-> None, repo |-> None, issues |-> <<>>]
      [] p = "preview"  -> [selected |-> slug, runner |-> None, ticket |-> None, minting |-> FALSE]
      [] p = "findings" -> [filter |-> None, rows |-> <<>>, active |-> None]
      [] p = "finding"  -> [task |-> <<>>, fixing |-> FALSE]
      [] p = "models"   -> [mode |-> None, draft |-> <<>>, saving |-> FALSE]

FirstAsks(p, slug) ==
    CASE p = "repo"     -> <<Ask("repo", slug), Ask("issues", <<slug, None>>)>>
      [] p = "preview"  -> <<Ask("runner", slug)>>
      [] p = "findings" -> <<Ask("rows", None)>>
      [] OTHER          -> <<>>

----------------------------------------------------------------------------
(* The overview page: HomeView.vue. *)

\* onMounted, once the identity is there or its request has failed.
HomeMay(s) == ~s.info.auth_enabled \/ s.info.authenticated \/ s.error

scheduleBootRetry(v) ==
    IF v.boot \/ v.bootRetries >= BOOT_MAX_RETRIES THEN v
    ELSE [v EXCEPT !.boot = TRUE, !.bootRetries = @ + 1]

scheduleWarmPoll(v) ==
    IF v.warm \/ v.warmPolls >= WARM_MAX_POLLS THEN v
    ELSE [v EXCEPT !.warm = TRUE, !.warmPolls = @ + 1]

HomeLoaded(v, ready) ==
    LET w == [v EXCEPT !.stats = IF ready THEN "ready" ELSE "warming", !.bootRetries = 0]
    IN  IF ready THEN w ELSE scheduleWarmPoll(w)

HomeFailed(v) == IF v.stats = None THEN scheduleBootRetry(v) ELSE v

----------------------------------------------------------------------------
(* Navigation. *)

\* The browser leaves for /auth/login.
redirectToLogin ==
    /\ page' = "login"
    /\ screen' = None
    /\ nav' = NoNav
    /\ flight' = <<>>

\* The overview's onMounted, once the request it awaited has ended.
HomeGoesOn(s) ==
    IF page = "home" /\ screen.waiting /\ ~s.inflight
    THEN /\ screen' = [screen EXCEPT !.waiting = FALSE]
         /\ flight' = IF HomeMay(s) THEN Append(flight, Ask("overview", None)) ELSE flight
    ELSE UNCHANGED <<screen, flight>>

mount(p, slug, s) ==
    /\ page' = p
    /\ mounts' = mounts + 1
    /\ IF p = "home"
       THEN /\ session' = load(s)
            /\ screen' = [Opened(p, slug) EXCEPT !.waiting = ~s.loaded]
            /\ flight' = IF s.loaded /\ HomeMay(s) THEN <<Ask("overview", None)>> ELSE <<>>
       ELSE /\ session' = s
            /\ screen' = Opened(p, slug)
            /\ flight' = FirstAsks(p, slug)

\* The end of router.beforeEach; a redirect to the page shown changes nothing.
decide(p, slug, s) ==
    LET to == IF p \in Guarded /\ ~can(s, p) THEN "home" ELSE p IN
    /\ decided' = [page |-> p, loaded |-> s.loaded, failed |-> s.error]
    /\ nav' = NoNav
    /\ IF to = page
       THEN session' = s /\ HomeGoesOn(s) /\ UNCHANGED <<page, mounts>>
       ELSE mount(to, slug, s)

await(p, slug) ==
    /\ nav' = <<p, slug>>
    /\ session' = load(session)
    /\ UNCHANGED <<page, screen, flight, decided, mounts>>

\* The guard finds a request under way and does not wait for its answer.
navigate_unawaited(p, slug) ==
    /\ page \notin {"login", p}
    /\ mounts < MaxMounts
    /\ UNCHANGED asks
    /\ IF p \in Guarded /\ ~session.loaded /\ ~session.inflight
       THEN await(p, slug)
       ELSE decide(p, slug, session)

navigate(p, slug) ==
    /\ page \notin {"login", p}
    /\ mounts < MaxMounts
    /\ UNCHANGED asks
    /\ IF p \in Guarded /\ ~session.loaded THEN await(p, slug) ELSE decide(p, slug, session)

\* Whoever awaited the shared request goes on: the guard, or the first page.
Resume(s) ==
    IF nav # NoNav
    THEN decide(nav[1], nav[2], s)
    ELSE session' = s /\ HomeGoesOn(s) /\ UNCHANGED <<page, nav, decided, mounts>>

session_answered ==
    /\ session.inflight
    /\ page # "login"
    /\ UNCHANGED asks
    /\ \E who \in Identities :
         LET s == [session EXCEPT !.info = who, !.loaded = TRUE, !.inflight = FALSE, !.retries = 0] IN
         IF who.auth_enabled /\ ~who.authenticated
         THEN /\ redirectToLogin
              /\ session' = s
              /\ UNCHANGED <<decided, mounts>>
         ELSE Resume(s)

session_failed ==
    /\ session.inflight
    /\ page # "login"
    /\ UNCHANGED asks
    /\ LET again == ~session.loaded /\ session.retries < MAX_RETRIES IN
       Resume([session EXCEPT !.inflight = FALSE, !.error = TRUE,
                              !.retries = IF again THEN @ + 1 ELSE @,
                              !.timers = IF again THEN @ + 1 ELSE @])

session_retry ==
    /\ session.timers > 0
    /\ page # "login"
    /\ session' = load([session EXCEPT !.timers = @ - 1])
    /\ UNCHANGED <<nav, page, screen, flight, decided, mounts, asks>>

----------------------------------------------------------------------------
(* What the operator does on a page.  Show sets the page's state and sends  *)
(* its requests.                                                            *)

Show(p, v, new) ==
    /\ page = p
    /\ asks + Len(new) <= MaxAsks
    /\ asks' = asks + Len(new)
    /\ screen' = v
    /\ flight' = flight \o new
    /\ UNCHANGED <<session, nav, page, decided, mounts>>

home_timer ==
    /\ page = "home"
    /\ \/ screen.warm /\ Show("home", [screen EXCEPT !.warm = FALSE], <<Ask("overview", None)>>)
       \/ screen.boot /\ Show("home", [screen EXCEPT !.boot = FALSE], <<Ask("overview", None)>>)

\* Sync or import answered with a job: the composable tracks it.
track(v, j) == [v EXCEPT !.job = j, !.status = "queued", !.timer = j]

stop(v) == [v EXCEPT !.timer = None]

refreshed(v, id, status) ==
    LET w == [v EXCEPT !.job = id, !.status = status, !.inFlight = FALSE]
    IN  IF status = "running" THEN w ELSE stop(w)

sync(j) == page = "repos" /\ Show("repos", screen, <<Ask("sync", j)>>)

\* The interval's tick; one that is still in flight is skipped.
refresh ==
    /\ page = "repos"
    /\ screen.timer # None
    /\ ~screen.inFlight
    /\ Show("repos", [screen EXCEPT !.inFlight = TRUE], <<Ask("job", screen.timer)>>)

\* Another repository in the same component, and another filter.
OpenSlug(s) ==
    /\ page = "repo"
    /\ s # screen.slug
    /\ Show("repo", [screen EXCEPT !.slug = s],
            <<Ask("repo", s), Ask("issues", <<s, screen.filter>>)>>)

applyIssueFilters(f) ==
    page = "repo" /\ Show("repo", [screen EXCEPT !.filter = f], <<Ask("issues", <<screen.slug, f>>)>>)

loadRunner(s) ==
    /\ page = "preview"
    /\ Show("preview", [screen EXCEPT !.selected = s, !.ticket = None, !.runner = None],
            <<Ask("runner", s)>>)

mintTicket ==
    /\ page = "preview"
    /\ ~screen.minting
    /\ Show("preview", [screen EXCEPT !.minting = TRUE], <<Ask("ticket", screen.selected)>>)

SetFilter(f) == page = "findings" /\ Show("findings", [screen EXCEPT !.filter = f], <<Ask("rows", f)>>)

openDecision(row) == page = "findings" /\ Show("findings", [screen EXCEPT !.active = row], <<>>)

submitDecision ==
    /\ page = "findings"
    /\ screen.active # None
    /\ Show("findings", screen, <<Ask("decide", screen.active)>>)

createFixTask ==
    /\ page = "finding"
    /\ ~screen.fixing
    /\ Show("finding", [screen EXCEPT !.fixing = TRUE], <<Ask("fix", None)>>)

\* retryTask and cancelTask name the task shown.
ActOnTask(what) ==
    /\ page = "finding"
    /\ screen.task # <<>>
    /\ Show("finding", screen, <<Ask(what, screen.task[1])>>)

startEdit(d) == page = "models" /\ Show("models", [screen EXCEPT !.mode = "edit", !.draft = <<d>>], <<>>)

\* Only an OpenAI route keeps a thinking dialect.
onProviderChange(p) ==
    /\ page = "models"
    /\ screen.draft # <<>>
    /\ Show("models",
            [screen EXCEPT !.draft[1].provider = p,
                         !.draft[1].format = IF p = "openai" THEN @ ELSE ""], <<>>)

\* The form's own check.
validate(d) ==
    /\ d.context_window > 0 /\ d.max_tokens > 0 => d.max_tokens <= d.context_window
    /\ d.format # "" \/ d.efforts # {} =>
         /\ d.efforts \ {"off"} # {}
         /\ d.format # "" => d.provider = "openai"

\* An empty dialect and no levels leave the declaration out.
buildPayload(d) ==
    [provider |-> d.provider, context_window |-> d.context_window, max_tokens |-> d.max_tokens,
     reasoning |-> IF d.format # "" \/ d.efforts # {}
                   THEN <<[format |-> d.format, efforts |-> d.efforts]>> ELSE <<>>]

save ==
    /\ page = "models"
    /\ screen.draft # <<>>
    /\ ~screen.saving
    /\ validate(screen.draft[1])
    /\ Show("models", [screen EXCEPT !.saving = TRUE], <<Ask("save", buildPayload(screen.draft[1]))>>)

cancelEdit(v) == [v EXCEPT !.mode = None, !.draft = <<>>, !.saving = FALSE]

CancelEdit == page = "models" /\ ~screen.saving /\ Show("models", cancelEdit(screen), <<>>)

----------------------------------------------------------------------------
(* The API's side of a request (src/backend). *)

\* services/model_routes.py: what a payload must satisfy.
RouteAccepted(p) ==
    /\ p.context_window > 0 /\ p.max_tokens > 0 => p.max_tokens <= p.context_window
    /\ \A i \in DOMAIN p.reasoning :
         /\ p.reasoning[i].efforts \ {"off"} # {}
         /\ p.reasoning[i].format # "" => p.provider = "openai"

\* routes/findings.py: the id enqueue returned, 0 when it refused.
fix_finding == {[task_id |-> t, queued |-> TRUE] : t \in {0, 1}}

\* The page after an answer to r, and what it asks for next.
Answers(v, r) ==
    CASE r.op = "overview" -> {<<HomeLoaded(v, ready), <<>>>> : ready \in BOOLEAN}
      [] r.op = "sync"     -> {<<track(stop(v), r.arg), <<>>>>}
      [] r.op = "job"      -> {<<refreshed(v, r.arg, status), <<>>>> : status \in {"running", "done"}}
      [] r.op = "repo"     -> {<<[v EXCEPT !.repo = r.arg], <<>>>>}
      [] r.op = "issues"   -> {<<[v EXCEPT !.issues = r.arg], <<>>>>}
      [] r.op = "runner"   -> {<<[v EXCEPT !.runner = r.arg], <<>>>>}
      [] r.op = "ticket"   -> {<<[v EXCEPT !.ticket = r.arg, !.minting = FALSE], <<>>>>}
      [] r.op = "rows"     -> {<<[v EXCEPT !.rows = <<r.arg>>], <<>>>>}
      [] r.op = "decide"   -> {<<[v EXCEPT !.active = None], <<Ask("rows", v.filter)>>>>}
      [] r.op = "fix"      -> {<<[v EXCEPT !.fixing = FALSE,
                                           !.task = IF a.queued THEN <<a.task_id, "queued">> ELSE <<>>],
                                 <<>>>> : a \in fix_finding}
      [] r.op = "retry"    -> {<<[v EXCEPT !.task = <<r.arg, "queued">>], <<>>>>}
      [] r.op = "cancel"   -> {<<[v EXCEPT !.task = <<r.arg, "cancelled">>], <<>>>>}
      [] r.op = "save"     -> {<<cancelEdit(v), <<>>>>}

\* The page after r failed: the message, and what the catch block undoes.
Failed(v, r) ==
    CASE r.op = "overview" -> HomeFailed(v)
      [] r.op = "job"      -> [v EXCEPT !.inFlight = FALSE]
      [] r.op = "repo"     -> [v EXCEPT !.repo = None]
      [] r.op = "issues"   -> [v EXCEPT !.issues = <<>>]
      [] r.op = "rows"     -> [v EXCEPT !.rows = <<>>]
      [] r.op = "ticket"   -> [v EXCEPT !.minting = FALSE]
      [] r.op = "fix"      -> [v EXCEPT !.fixing = FALSE]
      [] r.op = "save"     -> [v EXCEPT !.saving = FALSE]
      [] OTHER             -> v

\* The answer that arrives next.
Due(i) == i = 1 \/ Reordering

answered(i) ==
    /\ Due(i)
    /\ flight[i].op \in {"retry", "cancel"} => flight[i].arg # 0
    /\ \E a \in Answers(screen, flight[i]) :
         /\ screen' = a[1]
         /\ flight' = Lists!RemoveAt(flight, i) \o a[2]
    /\ UNCHANGED <<session, nav, page, decided, mounts, asks>>

failed(i) ==
    /\ Due(i)
    /\ screen' = Failed(screen, flight[i])
    /\ flight' = Lists!RemoveAt(flight, i)
    /\ UNCHANGED <<session, nav, page, decided, mounts, asks>>

\* The client's interceptor: the API no longer knows the caller.
unauthorised(i) ==
    /\ Due(i)
    /\ session.info.auth_enabled
    /\ redirectToLogin
    /\ UNCHANGED <<session, decided, mounts, asks>>

----------------------------------------------------------------------------
\* App.vue asks for the identity; the address is the overview or a deep link.
ConsoleInit ==
    /\ session = [loaded |-> FALSE, info |-> NoOne, inflight |-> TRUE, error |-> FALSE,
                  retries |-> 0, timers |-> 0]
    /\ \/ /\ nav = NoNav
          /\ page = "home"
          /\ screen = [Opened("home", None) EXCEPT !.waiting = TRUE]
       \/ /\ \E p \in Guarded, s \in RepoSlugs : nav = <<p, s>>
          /\ page = "blank"
          /\ screen = None
    /\ flight = <<>>
    /\ decided = [page |-> "home", loaded |-> FALSE, failed |-> FALSE]
    /\ mounts = 0
    /\ asks = 0

ConsoleNext ==
    \/ \E p \in Pages, s \in RepoSlugs : navigate(p, s)
    \/ session_answered \/ session_failed \/ session_retry \/ home_timer
    \/ \E s \in RepoSlugs : sync(s) \/ OpenSlug(s) \/ loadRunner(s)
    \/ refresh \/ mintTicket \/ submitDecision \/ createFixTask \/ save \/ CancelEdit
    \/ \E f \in Filters : applyIssueFilters(f) \/ SetFilter(f) \/ openDecision(f)
    \/ \E what \in {"retry", "cancel"} : ActOnTask(what)
    \/ \E d \in Drafts : startEdit(d)
    \/ \E p \in {"openai", "anthropic"} : onProviderChange(p)
    \/ \E i \in DOMAIN flight : answered(i) \/ failed(i) \/ unauthorised(i)

ConsoleSpec == ConsoleInit /\ [][ConsoleNext]_consoleVars

----------------------------------------------------------------------------
(* Properties. *)

Quiet == flight = <<>>

\* The guard sends a caller home, or lets it in, only once its identity is
\* known or asking for it has failed; the first page asks nothing before that.
IdentityFirst ==
    /\ decided.page \in Guarded => decided.loaded \/ decided.failed
    /\ page = "home" /\ screen.waiting => session.inflight

\* A cold backend does not leave the overview empty: while it shows nothing,
\* a request or a timer is under way, its retries are used up, or nobody is
\* signed in.
OverviewHeals ==
    page = "home" /\ ~screen.waiting /\ screen.stats = None /\ Quiet =>
        screen.boot \/ screen.bootRetries >= BOOT_MAX_RETRIES \/ ~HomeMay(session)

\* At rest, and with answers in the order of their requests, a repository's
\* page shows that repository's answers under the filter chosen, or nothing.
PaneOfItsRepo ==
    /\ page = "repo" /\ Quiet =>
         /\ screen.repo \in {None, screen.slug}
         /\ screen.issues \in {<<>>, <<screen.slug, screen.filter>>}
    /\ page = "findings" /\ Quiet => screen.rows \in {<<>>, <<screen.filter>>}

\* What the route form sends, the API accepts.
FormAgrees == \A i \in DOMAIN flight : flight[i].op = "save" => RouteAccepted(flight[i].arg)

\* Everything above.
ConsoleTrue == IdentityFirst /\ OverviewHeals /\ PaneOfItsRepo /\ FormAgrees

\* FindingDetail.vue: the page does not pretend a task exists.
TaskShownExists == page = "finding" /\ screen.task # <<>> => screen.task[1] # 0

\* RepoGitPreview.vue: a ticket is dropped on every repository change.
TicketOfSelected == page = "preview" => screen.ticket \in {None, screen.selected}

\* HomeView.vue: the page polls until the sizes are published.
WarmPollContinues ==
    page = "home" /\ ~screen.waiting /\ screen.stats = "warming" /\ Quiet =>
        screen.warm \/ screen.warmPolls >= WARM_MAX_POLLS

\* useImportJob.ts: a job that has not settled is still polled.
PolledUntilSettled ==
    page = "repos" /\ screen.job # None /\ screen.status # "done" => screen.timer = screen.job
=============================================================================
