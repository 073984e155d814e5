------------------------------- MODULE Repos --------------------------------
(***************************************************************************)
(* The repository registry (routes/repos.py, the parts of                  *)
(* services/repo_import.py that name a repository): rows created by hand   *)
(* or by an import, the mirror an import makes on the forge, and the paged *)
(* lists a client walks while rows and issues keep arriving.               *)
(***************************************************************************)
EXTENDS Integers, Sequences, SequencesExt, FiniteSets, FiniteSetsExt

CONSTANTS
    Callers,            \* requests in progress
    Sources,            \* source URLs: [host, path]; a path is its segments, each a sequence of symbols
    LocalSlugs,         \* slugs POST /repos is called with
    PerPage,            \* per_page values a client may send
    MAX_PER_PAGE,
    MaxRepos, MaxIssueRows, MaxRequests

ASSUME ReposAssumption ==
    /\ MAX_PER_PAGE \in Nat \ {0} /\ PerPage \subseteq Int
    /\ MaxRepos \in Nat /\ MaxIssueRows \in Nat /\ MaxRequests \in Nat

VARIABLES
    repos,      \* repos[id]: [slug, kind, url, mirror]; ids are never reused, rows never deleted
    forgeHolds,    \* forgeHolds[name]: the source whose content the forge's repository holds
    issueRows,     \* the numbers mirrored for repository 1
    caller,     \* caller[c]: [pc, slug, kind, url, id]
    walk,       \* a client that reads a list page by page
    requests

registryVars == <<repos, forgeHolds, issueRows, caller, walk, requests>>

Nowhere == [host |-> "", path |-> <<>>]
NoMirror == <<>>
AtRest == [pc |-> "idle", slug |-> <<>>, kind |-> "", url |-> Nowhere, id |-> 0]
Ids == 1 .. Len(repos)

-----------------------------------------------------------------------------
(* Names.                                                                  *)

\* The slug is the whole path; the host is not part of it.
slug(source) == source.path
parse_source(source) == Len(source.path) >= 2
repo_by_slug(s) == {i \in Ids : repos[i].slug = s}
\* The segments joined by "__", which a segment may itself contain.
_forgejo_name(s) ==
    FlattenSeq([n \in 1 .. 2 * Len(s) - 1 |-> IF n % 2 = 1 THEN s[(n + 1) \div 2] ELSE <<"__">>])

-----------------------------------------------------------------------------
ReposInit ==
    /\ repos = <<>> /\ forgeHolds = [n \in {} |-> Nowhere] /\ issueRows = {}
    /\ caller = [c \in Callers |-> AtRest]
    /\ walk = [pc |-> "idle"] /\ requests = 0

Requests == requests < MaxRequests /\ requests' = requests + 1
CallerGoes(c, state) == caller' = [caller EXCEPT ![c] = state]
Answer(c) == caller' = [caller EXCEPT ![c] = AtRest]

\* POST /repos: a slug with a slash that no row has yet; the unique constraint
\* decides between two that both saw none.
create_repo(c) ==
    /\ caller[c].pc = "idle" /\ Requests
    /\ \E s \in LocalSlugs :
          IF Len(s) >= 2 /\ repo_by_slug(s) = {}
            THEN CallerGoes(c, [caller[c] EXCEPT !.pc = "create", !.slug = s, !.kind = "workspace"]) ELSE Answer(c)
    /\ UNCHANGED <<repos, forgeHolds, issueRows, walk>>
create_repo_commit(c) ==
    /\ caller[c].pc = "create" /\ Len(repos) < MaxRepos
    /\ repos' = IF repo_by_slug(caller[c].slug) = {}
                  THEN Append(repos, [slug |-> caller[c].slug, kind |-> caller[c].kind, url |-> Nowhere, mirror |-> NoMirror])
                  ELSE repos
    /\ Answer(c) /\ UNCHANGED <<forgeHolds, issueRows, walk, requests>>

\* POST /repos/import and /sync: create_job takes the row the request names,
\* else the one with the source's slug, else a new one (of two that both found
\* none the unique constraint refuses one).
import_repo(c) ==
    /\ caller[c].pc = "idle" /\ Requests
    /\ \E source \in Sources :
          IF parse_source(source)
            THEN CallerGoes(c, [caller[c] EXCEPT !.pc = "job", !.slug = slug(source), !.url = source])
            ELSE Answer(c)
    /\ UNCHANGED <<repos, forgeHolds, issueRows, walk>>
sync_repo(c) ==
    /\ caller[c].pc = "idle" /\ Requests
    /\ \E i \in Ids :
          IF repos[i].url = Nowhere THEN Answer(c)
          ELSE CallerGoes(c, [caller[c] EXCEPT !.pc = "job", !.slug = repos[i].slug, !.url = repos[i].url, !.id = i])
    /\ UNCHANGED <<repos, forgeHolds, issueRows, walk>>
import_job(c) ==
    LET named == IF caller[c].id # 0 THEN {caller[c].id} ELSE repo_by_slug(caller[c].slug) IN
    /\ caller[c].pc = "job" /\ (named # {} \/ Len(repos) < MaxRepos)
    /\ IF named # {}
         THEN \E i \in named : /\ repos' = [repos EXCEPT ![i].url = caller[c].url]
                              /\ CallerGoes(c, [caller[c] EXCEPT !.pc = "migrate", !.id = i])
         ELSE /\ repos' = Append(repos, [slug |-> caller[c].slug, kind |-> "upstream", url |-> caller[c].url, mirror |-> NoMirror])
              /\ CallerGoes(c, [caller[c] EXCEPT !.pc = "migrate", !.id = Len(repos) + 1])
    /\ UNCHANGED <<forgeHolds, issueRows, walk, requests>>

\* The job's migration, for a full sync too: a row that has a mirror keeps it;
\* a name the forge already has is refused.
migrate_source(c) ==
    LET i == caller[c].id
        name == _forgejo_name(slug(repos[i].url)) IN
    /\ caller[c].pc = "migrate"
    /\ IF repos[i].mirror = NoMirror /\ name \notin DOMAIN forgeHolds
         THEN /\ forgeHolds' = [n \in DOMAIN forgeHolds \cup {name} |->
                              IF n = name THEN repos[i].url ELSE forgeHolds[n]]
              /\ repos' = [repos EXCEPT ![i].mirror = name]
         ELSE UNCHANGED <<forgeHolds, repos>>
    /\ Answer(c) /\ UNCHANGED <<issueRows, walk, requests>>

MirroredIssue ==
    /\ repos # <<>> /\ \E n \in 1 .. MaxIssueRows : n \notin issueRows /\ issueRows' = issueRows \cup {n}
    /\ UNCHANGED <<repos, forgeHolds, caller, walk, requests>>

-----------------------------------------------------------------------------
(* Lists: newest first, one statement a page.                              *)

per_page(raw) == Max({1, Min({raw, MAX_PER_PAGE})})
_paging(page, size) == [first |-> (page - 1) * size + 1, last |-> page * size]
Pages(total, size) == (total + size - 1) \div size
\* A row's place in the list, and the rows whose places are on a page.
Place(rows, r) == Cardinality({x \in rows : x >= r})
Page(rows, page, size) ==
    LET at == _paging(page, size) IN
    {r \in rows : at.first <= Place(rows, r) /\ Place(rows, r) <= at.last}

\* GET /repos and GET /repos/<slug>/issues.
list_repos == Ids
list_issues == issueRows
Listed(what) == IF what = "repos" THEN list_repos ELSE list_issues

WalkBegins ==
    /\ walk.pc = "idle"
    /\ \E what \in {"repos", "issues"}, raw \in PerPage :
          walk' = [pc |-> "read", what |-> what, size |-> per_page(raw), page |-> 1, seen |-> {}, there |-> Listed(what)]
    /\ UNCHANGED <<repos, forgeHolds, issueRows, caller, requests>>
WalkReads ==
    LET rows == Listed(walk.what) IN
    /\ walk.pc = "read"
    /\ walk' = [walk EXCEPT !.seen = @ \cup Page(rows, walk.page, walk.size), !.page = @ + 1,
                            !.pc = IF walk.page >= Pages(Cardinality(rows), walk.size) THEN "end" ELSE "read"]
    /\ UNCHANGED <<repos, forgeHolds, issueRows, caller, requests>>
WalkEnds == walk.pc = "end" /\ walk' = [pc |-> "idle"] /\ UNCHANGED <<repos, forgeHolds, issueRows, caller, requests>>

ReposNext ==
    \/ \E c \in Callers :
          \/ create_repo(c) \/ create_repo_commit(c) \/ import_repo(c) \/ sync_repo(c)
          \/ import_job(c) \/ migrate_source(c)
    \/ MirroredIssue \/ WalkBegins \/ WalkReads \/ WalkEnds

ReposSpec == ReposInit /\ [][ReposNext]_registryVars

-----------------------------------------------------------------------------
(* Properties.                                                             *)

\* A client that walks every page has seen every row that was there when it
\* began, whatever is created meanwhile (list_repos, list_issues, _paging).
WalkSeesAll == walk.pc = "end" => walk.there \subseteq walk.seen

\* Two rows never answer to one slug or share one mirror (create_repo,
\* create_job, _step_migrate).
RowsApart ==
    \A i, j \in Ids : i # j =>
        repos[i].slug # repos[j].slug /\ (repos[i].mirror = NoMirror \/ repos[i].mirror # repos[j].mirror)

ReposTrue == WalkSeesAll /\ RowsApart

\* The mirror a row points to holds the source the row names (RepoSource.path:
\* two repositories cannot be confused for each other): not so for one path on
\* two hosts, or a row that is imported again from elsewhere.
MirrorOfItsSource == \A i \in Ids : repos[i].mirror # NoMirror => forgeHolds[repos[i].mirror] = repos[i].url
=============================================================================
