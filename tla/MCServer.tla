------------------------------ MODULE MCServer ------------------------------
(* The rest of the server's own state, for TLC: the model routes, the build *)
(* mirrors, the counters and the database's upgrade share no variable, so a *)
(* behaviour exercises one of the four.                                     *)
EXTENDS ModelRoutes, BuildMirror, Stats, Schema, TLC

VARIABLE part

CONSTANTS timer, forced, proc

-----------------------------------------------------------------------------
(* Edits of a route: a new one, a rename, keys, limits and dialects.       *)

MCBodies == {
    [name |-> "b", base_url |-> "u1", provider |-> "openai-compatible", api_key |-> "k1"],
    [name |-> "b"], [provider |-> "claude"],
    [reasoning |-> [format |-> "deepseek", efforts |-> {"off", "low"}]],
    [api_key |-> "k2"], [api_key |-> ""], [api_key |-> Unsafe],
    [context_window |-> 2, max_tokens |-> 1], [context_window |-> 1], [max_tokens |-> 2]}

(* Archives: of two releases, one of them under the other's directory, and *)
(* the place one is moved aside to.                                        *)

Version(n, p) == [major |-> n, minor |-> 0, patch |-> 0, pre |-> p]
Archive(d, s, n, t, pl, ar, x) ==
    [dir |-> d, aside |-> s, name |-> n, tag |-> t, platform |-> pl, arch |-> ar, ext |-> x, ok |-> TRUE]
MCArchives == {
    Archive(Version(1, <<>>), FALSE, "a", Version(1, <<>>), "linux", "x64", "tar.xz"),
    Archive(Version(2, <<9>>), FALSE, "b", Version(2, <<9>>), "darwin", "arm64", "tar.gz"),
    Archive(Version(2, <<9>>), FALSE, "c", Version(1, <<>>), "", "", "tar.gz"),
    Archive(Version(1, <<>>), TRUE, "a", Version(1, <<>>), "linux", "x64", "tar.xz")}

(* A timer's refresh and a forced one in one process.                      *)

MCHome == (timer :> proc) @@ (forced :> proc)
MCFiles == {[pkg |-> "p", counter |-> "p"]}

(* The schema: databases of releases before and between the migrations.    *)

Row(v, p) == [value |-> v, path |-> p]
MCReleases == {[catalog_entries |-> c, model_routes |-> m, agent_tasks |-> a] :
    c \in {Absent, [columns |-> {"path"}, admits |-> {"any"}, rows |-> {Row("any", "x")}]},
    m \in {Absent} \cup
          {[columns |-> {"name"} \cup x, admits |-> {"openai", "anthropic"} \cup y,
            rows |-> {Row(IF y = {} THEN "openai" ELSE "mineru", p) : p \in {"/file_parse", "/mine"}}] :
                x \in SUBSET {"context_window", "api_key_env"}, y \in SUBSET {"mineru"}},
    a \in {[columns |-> {"id"} \cup x, admits |-> {"review"} \cup y, rows |-> {Row("review", "")}] :
                x \in SUBSET {"runner_id"}, y \in SUBSET {"checks"}}}

-----------------------------------------------------------------------------
Init ==
    /\ part \in {"routes", "builds", "stats", "schema"}
    /\ RoutesInit /\ (part = "routes" \/ master = "")
    /\ BuildInit /\ (part = "builds" \/ (serves = "node" /\ root))
    /\ StatsInit /\ sizeof = [f \in Files |-> 1] /\ snapshot = Torn
    /\ IF part = "schema" THEN SchemaInit
       ELSE SchemaInit /\ dialect = "sqlite" /\ schema = CHOOSE s \in Releases : TRUE
Next ==
    /\ \/ part = "routes" /\ RoutesNext /\ UNCHANGED <<buildVars, statsVars, schemaVars>>
       \/ part = "builds" /\ BuildNext /\ UNCHANGED <<routeVars, statsVars, schemaVars>>
       \/ part = "stats" /\ StatsNext /\ UNCHANGED <<routeVars, buildVars, schemaVars>>
       \/ part = "schema" /\ SchemaNext /\ UNCHANGED <<routeVars, buildVars, statsVars>>
    /\ UNCHANGED part
=============================================================================
