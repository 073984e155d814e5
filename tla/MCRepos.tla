------------------------------ MODULE MCRepos ------------------------------
(* The repositories of the hub, for TLC: the import jobs of one, the table  *)
(* of all, their runners and the context given to an agent share no         *)
(* variable, so a behaviour exercises one of the four.                      *)
EXTENDS RepoImport, Repos, RepoContext, Runners, TLC

VARIABLE part

-----------------------------------------------------------------------------
(* Repositories whose slugs differ, meet, or meet once "/" is written "__". *)

Source(host, path) == [host |-> host, path |-> path]
MCSources == {Source("github", <<<<"a">>, <<"b", "__", "c">>>>), Source("gitlab", <<<<"a">>, <<"b", "__", "c">>>>),
              Source("github", <<<<"a", "__", "b">>, <<"c">>>>), Source("github", <<<<"b">>>>)}
MCLocalSlugs == {<<<<"a">>, <<"b", "__", "c">>>>, <<<<"x">>>>, <<<<"l">>, <<"m">>>>}

MCSubdirs == {<<>>, <<"x">>}
MCSandboxes == {[conf |-> "unset", capable |-> FALSE], [conf |-> "pair", capable |-> TRUE],
                [conf |-> "pair", capable |-> FALSE], [conf |-> "partial", capable |-> TRUE]}

(* The rows a context is drawn from, and the queries.                      *)

ContextRow(k, t, b, s, w, z, f) ==
    [kind |-> k, title |-> t, body |-> b, state |-> s, when |-> w, head |-> 2, size |-> z, forged |-> f]
MCRows == << ContextRow("issue", {"p"}, {}, "open", 1, 2, 1), ContextRow("issue", {}, {"p"}, "closed", 2, 5, 0),
             ContextRow("issue", {"q"}, {"p"}, "open", 2, 4, 1), ContextRow("commit", {"p"}, {"q"}, "", 3, 3, 0),
             ContextRow("finding", {"p", "q"}, {}, "", 1, 1, 0), ContextRow("issue", {}, {}, "open", 4, 0, 0) >>
Word(w, n) == [word |-> w, length |-> n]
MCAnchors == << Word("p", 2), Word("q", 3), Word("q", 3), Word("r", 9) >>
Query(m, q, s, l, o, b) ==
    [mode |-> m, q |-> q, kind |-> "all", state |-> s, limit |-> l, offset |-> o, budget |-> b]
MCQueries ==
    {Query("search", q, s, l, o, b) :
        q \in {{}, {"p"}}, s \in {"", "open"}, l \in {0, 9}, o \in {-1, 1}, b \in {0, 12, 15, 99}}
    \cup {Query("related", {}, "", l, o, b) : l \in {1, 9}, o \in {0, 1}, b \in {9, 12, 15, 99}}

-----------------------------------------------------------------------------
Init ==
    /\ part \in {"import", "repos", "context", "runners"}
    /\ ImportInit /\ ReposInit
    /\ ContextInit /\ (part = "context" \/ known = {})
    /\ RunnersInit /\ (part = "runners" \/ sandbox.conf = "unset")
Next ==
    /\ \/ part = "import" /\ ImportNext
          /\ UNCHANGED <<registryVars, contextVars, runnerVars>>
       \/ part = "repos" /\ ReposNext
          /\ UNCHANGED <<importVars, contextVars, runnerVars>>
       \/ part = "context" /\ ContextNext
          /\ UNCHANGED <<importVars, registryVars, runnerVars>>
       \/ part = "runners" /\ RunnersNext
          /\ UNCHANGED <<importVars, registryVars, contextVars>>
    /\ UNCHANGED part

Symmetric == Permutations(Jobs) \cup Permutations(Callers) \cup Permutations(Workers)

\* A finished import mirrored every issue and commit, its cursor was never ahead
\* of the rows it stands for, and only a workspace's own file set its review
\* policy; a client that pages through what it mirrored sees
\* every row that was there, and two repositories share no slug and no mirror.
RepositoriesTrue ==
    /\ ImportTypeOK /\ MirrorComplete /\ CursorBehindRows /\ HistoryTold
    /\ PolicyOwned /\ ReposTrue
=============================================================================
