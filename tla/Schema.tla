------------------------------- MODULE Schema -------------------------------
(***************************************************************************)
(* The schema top-up at every boot (extensions/database.py init_engine,    *)
(* models/model_route_migrate.py, models/agent_hub_migrate.py,             *)
(* models/table_rebuild.py): a database left by an earlier release, walked *)
(* stage by stage to the shape the models declare, on two engines, by      *)
(* processes that may die anywhere and boot again.  A stage looks at the   *)
(* live schema first and alters it afterwards, in another transaction.     *)
(***************************************************************************)
EXTENDS Integers, Sequences, FiniteSets

CONSTANTS
    Booters,    \* processes that boot
    Dialects,   \* the engines: "postgresql", "sqlite"
    Releases,   \* the databases there may be: [tables -> [columns, admits, rows]]
    MaxSchemaBoots    \* bound: boots

Tables == {"catalog_entries", "model_routes", "agent_tasks"}
\* The columns the models declare (those a release may lack), and the values
\* their CHECK admits for the column of a row we look at.
Declared == [catalog_entries |-> {"path", "version"}, model_routes |-> {"name", "context_window"},
             agent_tasks |-> {"id", "runner_id"}]
Admitted == [catalog_entries |-> {"any"}, model_routes |-> {"openai", "anthropic"},
             agent_tasks |-> {"review", "checks"}]
RETIRED_COLUMN == "api_key_env"
RETIRED_PROVIDER == "mineru"
RETIRED_PROVIDER_PATH == "/file_parse"
PROVIDER_REPLACEMENT == "openai"

Absent == [columns |-> {}, admits |-> {}, rows |-> {}]
\* A table: its columns, the values its CHECK admits and its rows, of which the
\* upgrade reads the value the CHECK is about and the path.
IsTable(table) == table = [columns |-> table.columns, admits |-> table.admits, rows |-> table.rows]
\* A table of an earlier release: it may lack declared columns, and carry the
\* retired one; only the CHECK of agent_tasks is widened by the upgrade.
Released(t, table) ==
    /\ table.columns \subseteq Declared[t] \cup (IF t = "model_routes" THEN {RETIRED_COLUMN} ELSE {})
    /\ t = "agent_tasks" \/ Admitted[t] \subseteq table.admits
ASSUME SchemaAssumption ==
    /\ Dialects \subseteq {"postgresql", "sqlite"} /\ MaxSchemaBoots \in Nat
    /\ \A s \in Releases : /\ s = [t \in Tables |-> s[t]]
                           /\ \A t \in Tables : IsTable(s[t]) /\ (s[t] = Absent \/ Released(t, s[t]))

VARIABLES
    dialect,
    schema,     \* schema[t]: [columns, admits, rows], or Absent
    left,       \* the rows the earlier release left
    booting,       \* boot[b]: [stage, plan]: what it means to do there
    started     \* boots so far

schemaVars == <<dialect, schema, left, booting, started>>

NotRead == [look |-> FALSE, work |-> {}]
Stages == <<"create_all", "_apply_light_migrations", "rewrite", "check", "add_metadata_columns",
            "retire_api_key_env", "columns", "evolve_check_constraints", "up">>
BootAt(b) == Stages[booting[b].stage]

SchemaInit ==
    /\ dialect \in Dialects /\ schema \in Releases /\ started = 0
    /\ left = [t \in Tables |-> schema[t].rows]
    /\ booting = [b \in Booters |-> [stage |-> 0, plan |-> NotRead]]

Advances(b) == booting' = [booting EXCEPT ![b] = [stage |-> @.stage + 1, plan |-> NotRead]]
Fails(b) == booting' = [booting EXCEPT ![b] = [stage |-> 0, plan |-> NotRead]]

init_engine(b) ==
    /\ booting[b].stage \in {0, Len(Stages)} /\ started < MaxSchemaBoots /\ started' = started + 1
    /\ booting' = [booting EXCEPT ![b] = [stage |-> 1, plan |-> NotRead]]
    /\ UNCHANGED <<dialect, schema, left>>

\* Tables that are not there are created whole.
create_all(b) ==
    /\ booting[b].stage > 0 /\ BootAt(b) = "create_all" /\ Advances(b)
    /\ schema' = [t \in Tables |-> IF schema[t] # Absent THEN schema[t]
                                   ELSE [columns |-> Declared[t], admits |-> Admitted[t], rows |-> {}]]
    /\ UNCHANGED <<dialect, left, started>>

\* Before the CHECK tightens: the provider, and the path only when it is the
\* retired protocol's own.
Rewritten(row) ==
    IF row.value # RETIRED_PROVIDER THEN row
    ELSE [value |-> PROVIDER_REPLACEMENT, path |-> IF row.path = RETIRED_PROVIDER_PATH THEN "" ELSE row.path]

retire_mineru_provider(b) ==
    /\ booting[b].stage > 0 /\ BootAt(b) = "rewrite" /\ Advances(b)
    /\ schema' = [schema EXCEPT !["model_routes"].rows = {Rewritten(r) : r \in @}]
    /\ UNCHANGED <<dialect, left, started>>

-----------------------------------------------------------------------------
(* What a stage would change, and changing it.                             *)

TableOf == [_apply_light_migrations |-> "catalog_entries", check |-> "model_routes",
            add_metadata_columns |-> "model_routes", retire_api_key_env |-> "model_routes",
            columns |-> "agent_tasks", evolve_check_constraints |-> "agent_tasks"]

_provider_check_is_stale(live) == RETIRED_PROVIDER \in live.admits
_constraint_admits_any(live, values) == values \cap live.admits # {}

_constraint_admits(live, values) == values \subseteq live.admits

Work(stage) ==
    LET t == TableOf[stage]
        live == schema[t] IN
    CASE stage \in {"_apply_light_migrations", "add_metadata_columns", "columns"} -> Declared[t] \ live.columns
      [] stage = "retire_api_key_env" -> live.columns \cap {RETIRED_COLUMN}
      [] stage = "check" -> IF _provider_check_is_stale(live) THEN {"check"} ELSE {}
      [] stage = "evolve_check_constraints" -> IF _constraint_admits(live, Admitted[t]) THEN {} ELSE {"check"}

inspect(b) ==
    /\ booting[b].stage > 0 /\ BootAt(b) \in DOMAIN TableOf /\ ~booting[b].plan.look
    /\ booting' = [booting EXCEPT ![b].plan = [look |-> TRUE, work |-> Work(BootAt(b))]]
    /\ UNCHANGED <<dialect, schema, left, started>>

Satisfied(t) == \A r \in schema[t].rows : r.value \in Admitted[t]

\* SQLite: the declared table under another name, every declared column copied,
\* the old one dropped and the new one renamed, in one transaction.
CanRebuild(t) == Declared[t] \subseteq schema[t].columns /\ Satisfied(t)
rebuild_table_empty(t) == [columns |-> Declared[t], admits |-> Admitted[t], rows |-> {}]

rebuild_table(t) == [columns |-> Declared[t], admits |-> Admitted[t], rows |-> schema[t].rows]

Does(b, can, t, becomes) ==
    IF can THEN schema' = [schema EXCEPT ![t] = becomes] /\ Advances(b)
    ELSE UNCHANGED schema /\ Fails(b)

add_columns(b, t, work) ==
    Does(b, work \cap schema[t].columns = {}, t, [schema[t] EXCEPT !.columns = @ \cup work])

retire_api_key_env(b, t) ==
    IF dialect = "sqlite" THEN Does(b, CanRebuild(t), t, rebuild_table(t))
    ELSE Does(b, TRUE, t, [schema[t] EXCEPT !.columns = @ \ {RETIRED_COLUMN}])

\* PostgreSQL drops the constraint if it exists and adds the declared one.
_evolve_postgres(b, t) ==
    IF dialect = "sqlite" THEN Does(b, CanRebuild(t), t, rebuild_table(t))
    ELSE Does(b, Satisfied(t), t, [schema[t] EXCEPT !.admits = Admitted[t]])

ensure_schema(b) ==
    /\ booting[b].stage > 0 /\ booting[b].plan.look
    /\ LET t == TableOf[BootAt(b)]
           work == booting[b].plan.work IN
       CASE work = {} -> Advances(b) /\ UNCHANGED schema
         [] work # {} /\ BootAt(b) \in {"_apply_light_migrations", "add_metadata_columns", "columns"} -> add_columns(b, t, work)
         [] work # {} /\ BootAt(b) = "retire_api_key_env" -> retire_api_key_env(b, t)
         [] work # {} /\ BootAt(b) \in {"check", "evolve_check_constraints"} -> _evolve_postgres(b, t)
    /\ UNCHANGED <<dialect, left, started>>

ProcessDies(b) ==
    /\ booting[b].stage # 0 /\ Fails(b)
    /\ UNCHANGED <<dialect, schema, left, started>>

SchemaNext == \E b \in Booters :
    init_engine(b) \/ create_all(b) \/ retire_mineru_provider(b) \/ inspect(b) \/ ensure_schema(b) \/ ProcessDies(b)

SchemaSpec == SchemaInit /\ [][SchemaNext]_schemaVars

-----------------------------------------------------------------------------
(* Properties.                                                             *)

IsUp(b) == booting[b].stage = Len(Stages)

\* A process that serves has found or made the declared schema, whatever the
\* release it started from, whoever booted beside it or died before it: no
\* retired column refuses its inserts, no CHECK the values it writes.
ServesDeclared ==
    \A b \in Booters : IsUp(b) => \A t \in Tables :
        schema[t].columns = Declared[t] /\ Admitted[t] \subseteq schema[t].admits

\* "Preserving every row": at every moment each row the earlier release left is
\* there, as it was or rewritten, and nothing else is, though a boot stopped
\* between any two stages (retire_mineru_provider, rebuild_table).
RowsKept ==
    \A t \in Tables : schema[t].rows \in {left[t], {Rewritten(r) : r \in left[t]}}

\* Whatever release the database comes from and whoever else starts or dies
\* beside it, a server that serves has the declared schema, and no row is lost
\* (model_route_migrate.py, agent_hub_migrate.py,
\* table_rebuild.py).
UpgradeTrue == ServesDeclared /\ RowsKept

\* "The rebuild applies the model's current definition (and, in passing, any other
\* pending column change)": an upgrade nobody races and nobody kills comes up.
UpgradeComesUp ==
    \A b \in Booters : booting[b].stage > 0 /\ booting[b].plan.look /\ booting[b].plan.work # {} /\ dialect = "sqlite"
        /\ BootAt(b) \in {"check", "retire_api_key_env", "evolve_check_constraints"}
            => CanRebuild(TableOf[BootAt(b)])
=============================================================================
