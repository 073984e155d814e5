---------------------------- MODULE ServerProofs ----------------------------
(***************************************************************************)
(* Theorems about the rest of the server's own state: the upgrade of the   *)
(* schema at boot, the model routes, the registry's counters, the mirrors  *)
(* of interpreter builds and the runners of repositories.                  *)
(***************************************************************************)
EXTENDS Schema, ModelRoutes, Stats, BuildMirror, Runners, FiniteSetTheorems, TLAPS

-----------------------------------------------------------------------------
(* The schema's upgrade: what every stage leaves behind.                   *)

Has(t) == Declared[t] \subseteq schema[t].columns

IsPlan(plan) == plan.look \in BOOLEAN /\ plan = [look |-> plan.look, work |-> plan.work]
SchemaShaped == schema = [t \in Tables |-> schema[t]] /\ \A t \in Tables : IsTable(schema[t])
SchemaTyped ==
    /\ SchemaShaped
    /\ booting = [b \in Booters |-> booting[b]]
    /\ \A b \in Booters : /\ booting[b] = [stage |-> booting[b].stage, plan |-> booting[b].plan]
                          /\ booting[b].stage \in 0..9 /\ IsPlan(booting[b].plan)

\* A table is missing or is some release's.
TablesReleased == \A t \in Tables : schema[t] = Absent \/ Released(t, schema[t])

\* A process past a stage found its work done or did it, and no other process
\* undoes it.
StagePassed(b) ==
    LET stage == booting[b].stage IN
    /\ stage > 1 => \A t \in Tables : schema[t] # Absent
    /\ stage > 2 => Has("catalog_entries")
    /\ stage > 5 => Has("model_routes")
    /\ stage > 6 => RETIRED_COLUMN \notin schema["model_routes"].columns
    /\ stage > 7 => Has("agent_tasks")
    /\ stage > 8 => Admitted["agent_tasks"] \subseteq schema["agent_tasks"].admits

\* What a process plans from the schema it looked at still suffices when it acts.
Foreseen(b) ==
    LET work == booting[b].plan.work
        stage == booting[b].stage IN
    booting[b].plan.look =>
    /\ stage \in {2, 4, 5, 6, 7, 8}
    /\ stage = 2 => /\ work \subseteq Declared["catalog_entries"]
                    /\ Declared["catalog_entries"] \subseteq work \cup schema["catalog_entries"].columns
    /\ stage = 5 => /\ work \subseteq Declared["model_routes"]
                    /\ Declared["model_routes"] \subseteq work \cup schema["model_routes"].columns
    /\ stage = 7 => /\ work \subseteq Declared["agent_tasks"]
                    /\ Declared["agent_tasks"] \subseteq work \cup schema["agent_tasks"].columns
    /\ stage = 6 /\ work = {} => RETIRED_COLUMN \notin schema["model_routes"].columns
    /\ stage = 8 /\ work = {} => Admitted["agent_tasks"] \subseteq schema["agent_tasks"].admits

SchemaInv ==
    /\ SchemaTyped /\ TablesReleased /\ RowsKept
    /\ \A b \in Booters : StagePassed(b) /\ Foreseen(b)

\* The names of the stages, and the tables and columns they are about.
LEMMA StageNames ==
    /\ Len(Stages) = 9
    /\ Stages[1] = "create_all" /\ Stages[2] = "_apply_light_migrations" /\ Stages[3] = "rewrite"
    /\ Stages[4] = "check" /\ Stages[5] = "add_metadata_columns" /\ Stages[6] = "retire_api_key_env"
    /\ Stages[7] = "columns" /\ Stages[8] = "evolve_check_constraints" /\ Stages[9] = "up"
BY DEF Stages

LEMMA StageTables ==
    /\ DOMAIN TableOf = {"_apply_light_migrations", "check", "add_metadata_columns", "retire_api_key_env",
                         "columns", "evolve_check_constraints"}
    /\ TableOf["_apply_light_migrations"] = "catalog_entries" /\ TableOf["check"] = "model_routes"
    /\ TableOf["add_metadata_columns"] = "model_routes" /\ TableOf["retire_api_key_env"] = "model_routes"
    /\ TableOf["columns"] = "agent_tasks" /\ TableOf["evolve_check_constraints"] = "agent_tasks"
BY DEF TableOf

LEMMA DeclaredTables ==
    \A t \in Tables : Declared[t] # {} /\ Admitted[t] # {} /\ RETIRED_COLUMN \notin Declared[t]
<1>1. /\ Declared["catalog_entries"] = {"path", "version"} /\ Admitted["catalog_entries"] = {"any"}
      /\ Declared["model_routes"] = {"name", "context_window"} /\ Admitted["model_routes"] = {"openai", "anthropic"}
      /\ Declared["agent_tasks"] = {"id", "runner_id"} /\ Admitted["agent_tasks"] = {"review", "checks"}
  BY DEF Declared, Admitted
<1>2. Tables = {"catalog_entries", "model_routes", "agent_tasks"} /\ RETIRED_COLUMN = "api_key_env"
  BY DEF Tables, RETIRED_COLUMN
<1> QED
  BY <1>1, <1>2

\* A second rewrite changes nothing.
LEMMA RewrittenOnce == ASSUME NEW row PROVE Rewritten(Rewritten(row)) = Rewritten(row)
BY DEF Rewritten, RETIRED_PROVIDER, RETIRED_PROVIDER_PATH, PROVIDER_REPLACEMENT

LEMMA RowsRewrittenOnce ==
    ASSUME NEW rs
    PROVE  {Rewritten(r) : r \in {Rewritten(q) : q \in rs}} = {Rewritten(r) : r \in rs}
BY RewrittenOnce

\* What no step takes from a table: declared columns and admitted values stay,
\* only declared columns come, and a table that is there stays.
Upgraded(t) ==
    /\ schema[t].columns \cap Declared[t] \subseteq schema'[t].columns
    /\ schema'[t].columns \subseteq schema[t].columns \cup Declared[t]
    /\ Admitted[t] \cap schema[t].admits \subseteq schema'[t].admits
    /\ schema[t] # Absent => schema'[t] # Absent
    /\ schema'[t] = Absent \/ Released(t, schema'[t])

LEMMA UnchangedTable ==
    ASSUME SchemaInv, NEW t \in Tables, schema'[t] = schema[t]
    PROVE  Upgraded(t)
BY DEF Upgraded, SchemaInv, TablesReleased, SchemaTyped

\* One table is replaced by another.
LEMMA ReplacedTable ==
    ASSUME SchemaInv, NEW t \in Tables, NEW new, IsTable(new), schema' = [schema EXCEPT ![t] = new],
           schema[t].columns \cap Declared[t] \subseteq new.columns,
           new.columns \subseteq schema[t].columns \cup Declared[t],
           Admitted[t] \cap schema[t].admits \subseteq new.admits,
           schema[t] # Absent, new # Absent,
           new.rows \in {schema[t].rows, {Rewritten(r) : r \in schema[t].rows}},
           left' = left
    PROVE  SchemaShaped' /\ RowsKept' /\ \A u \in Tables : Upgraded(u)
<1>1. SchemaShaped
  BY DEF SchemaInv, SchemaTyped
<1>2. SchemaShaped' /\ schema'[t] = new /\ \A u \in Tables \ {t} : schema'[u] = schema[u]
  BY <1>1 DEF SchemaShaped
<1>3. \A u \in Tables \ {t} : Upgraded(u)
  BY <1>2, UnchangedTable
<1>4. Upgraded(t)
  <2>1. Released(t, schema[t])
    BY DEF SchemaInv, TablesReleased
  <2>2. Released(t, new)
    BY <2>1 DEF Released
  <2> QED
    BY <1>2, <2>2 DEF Upgraded
<1>5. RowsKept'
  <2>1. \A u \in Tables : schema[u].rows \in {left[u], {Rewritten(r) : r \in left[u]}}
    BY DEF SchemaInv, RowsKept
  <2>2. {Rewritten(r) : r \in {Rewritten(q) : q \in left[t]}} = {Rewritten(r) : r \in left[t]}
    BY RowsRewrittenOnce
  <2>3. new.rows \in {left[t], {Rewritten(r) : r \in left[t]}}
    <3>1. CASE schema[t].rows = left[t]
      BY <3>1
    <3>2. CASE schema[t].rows = {Rewritten(r) : r \in left[t]}
      BY <3>2, <2>2
    <3> QED
      BY <2>1, <3>1, <3>2
  <2> QED
    BY <1>2, <2>1, <2>3 DEF RowsKept
<1> QED
  BY <1>2, <1>3, <1>4, <1>5

\* Another process, and one whose stage ends or begins, keep what they know.
LEMMA KnownKept ==
    ASSUME SchemaInv, \A t \in Tables : Upgraded(t), SchemaShaped',
           NEW b \in Booters, booting'[b] = booting[b]
    PROVE  StagePassed(b)' /\ Foreseen(b)'
<1>1. /\ StagePassed(b) /\ Foreseen(b)
      /\ \A t \in Tables : schema[t].columns \cap Declared[t] \subseteq schema'[t].columns
      /\ \A t \in Tables : schema'[t].columns \subseteq schema[t].columns \cup Declared[t]
      /\ \A t \in Tables : Admitted[t] \cap schema[t].admits \subseteq schema'[t].admits
      /\ \A t \in Tables : schema[t] # Absent => schema'[t] # Absent
  BY DEF SchemaInv, Upgraded
<1>2. {"catalog_entries", "model_routes", "agent_tasks"} = Tables
  BY DEF Tables
<1>3. RETIRED_COLUMN \notin Declared["model_routes"]
  BY <1>2, DeclaredTables
<1>4. StagePassed(b)'
  BY <1>1, <1>2, <1>3 DEF StagePassed, Has
<1>5. Foreseen(b)'
  BY <1>1, <1>2, <1>3 DEF Foreseen
<1> QED
  BY <1>4, <1>5

\* A process goes to stage s with plan p.
BootMoves(b, s, p) == booting' = [booting EXCEPT ![b] = [stage |-> s, plan |-> p]]

LEMMA SchemaTypedStep ==
    ASSUME SchemaInv, SchemaShaped', NEW b \in Booters, NEW s \in 0..9, NEW p, IsPlan(p),
           BootMoves(b, s, p)
    PROVE  /\ SchemaTyped' /\ booting'[b].stage = s /\ booting'[b].plan = p
           /\ \A c \in Booters \ {b} : booting'[c] = booting[c]
<1>1. /\ booting = [c \in Booters |-> booting[c]]
      /\ \A c \in Booters : /\ booting[c] = [stage |-> booting[c].stage, plan |-> booting[c].plan]
                            /\ booting[c].stage \in 0..9 /\ IsPlan(booting[c].plan)
  BY DEF SchemaInv, SchemaTyped
<1>2. booting' = [c \in Booters |-> IF c = b THEN [stage |-> s, plan |-> p] ELSE booting[c]]
  BY <1>1 DEF BootMoves
<1>3. booting'[b] = [stage |-> s, plan |-> p] /\ \A c \in Booters \ {b} : booting'[c] = booting[c]
  BY <1>2
<1>4. \A c \in Booters : /\ booting'[c] = [stage |-> booting'[c].stage, plan |-> booting'[c].plan]
                         /\ booting'[c].stage \in 0..9 /\ IsPlan(booting'[c].plan)
  BY <1>1, <1>3
<1>5. booting' = [c \in Booters |-> booting'[c]]
  BY <1>2
<1> QED
  BY <1>3, <1>4, <1>5 DEF SchemaTyped

\* A step of one process: it keeps the invariant when what its process knows
\* holds after it.
LEMMA SchemaInvStep ==
    ASSUME SchemaInv, SchemaShaped', \A t \in Tables : Upgraded(t), RowsKept',
           left' = left,
           NEW b \in Booters, NEW s \in 0..9, NEW p, IsPlan(p),
           BootMoves(b, s, p),
           StagePassed(b)', Foreseen(b)'
    PROVE  SchemaInv'
<1>1. SchemaTyped' /\ \A c \in Booters \ {b} : booting'[c] = booting[c]
  BY SchemaTypedStep
<1>2. TablesReleased'
  BY DEF TablesReleased, Upgraded
<1>3. \A c \in Booters \ {b} : StagePassed(c)' /\ Foreseen(c)'
  BY <1>1, KnownKept
<1> QED
  BY <1>1, <1>2, <1>3 DEF SchemaInv

-----------------------------------------------------------------------------
(* The steps of an upgrade.                                                *)

LEMMA NotReadPlan == IsPlan(NotRead) /\ ~NotRead.look
BY DEF NotRead, IsPlan

LEMMA NothingPlanned ==
    ASSUME NEW b \in Booters, booting'[b].plan = NotRead
    PROVE  Foreseen(b)'
BY NotReadPlan DEF Foreseen

\* Another boot starts, or a process dies or fails.
LEMMA SchemaStarts ==
    ASSUME SchemaInv, NEW b \in Booters, NEW s \in {0, 1}, schema' = schema, left' = left,
           BootMoves(b, s, NotRead)
    PROVE  SchemaInv'
<1>1. SchemaShaped' /\ RowsKept'
  BY DEF SchemaInv, SchemaTyped, SchemaShaped, RowsKept
<1>2. \A t \in Tables : Upgraded(t)
  BY UnchangedTable
<1>3. booting'[b].stage = s /\ booting'[b].plan = NotRead
  BY <1>1, NotReadPlan, SchemaTypedStep
<1>4. StagePassed(b)'
  BY <1>3 DEF StagePassed
<1>5. Foreseen(b)'
  BY <1>3, NothingPlanned
<1> QED
  BY <1>1, <1>2, <1>4, <1>5, NotReadPlan, SchemaInvStep

\* A stage is done with the schema as it is.
LEMMA SchemaAdvances ==
    ASSUME SchemaInv, NEW b \in Booters, Advances(b), booting[b].stage \in 1..8,
           SchemaShaped', \A t \in Tables : Upgraded(t), RowsKept', left' = left,
           LET stage == booting[b].stage IN
           /\ stage = 1 => \A t \in Tables : schema'[t] # Absent
           /\ stage = 2 => Has("catalog_entries")'
           /\ stage = 5 => Has("model_routes")'
           /\ stage = 6 => RETIRED_COLUMN \notin schema'["model_routes"].columns
           /\ stage = 7 => Has("agent_tasks")'
           /\ stage = 8 => Admitted["agent_tasks"] \subseteq schema'["agent_tasks"].admits
    PROVE  SchemaInv'
<1> DEFINE s == booting[b].stage
<1>1. BootMoves(b, s + 1, NotRead)
  <2>1. booting = [c \in Booters |-> booting[c]]
    BY DEF SchemaInv, SchemaTyped
  <2> QED
    BY <2>1 DEF Advances, BootMoves
<1>2. s + 1 \in 0..9
  OBVIOUS
<1>3. booting'[b].stage = s + 1 /\ booting'[b].plan = NotRead
  BY <1>1, <1>2, NotReadPlan, SchemaTypedStep
<1>4. StagePassed(b)'
  <2>1. StagePassed(b)
    BY DEF SchemaInv
  <2>2. {"catalog_entries", "model_routes", "agent_tasks"} = Tables
    BY DEF Tables
  <2>3. /\ \A t \in Tables : schema[t].columns \cap Declared[t] \subseteq schema'[t].columns
        /\ \A t \in Tables : schema'[t].columns \subseteq schema[t].columns \cup Declared[t]
        /\ \A t \in Tables : schema[t] # Absent => schema'[t] # Absent
    BY DEF Upgraded
  <2>4. RETIRED_COLUMN \notin Declared["model_routes"]
    BY <2>2, DeclaredTables
  <2>5. \A t \in Tables : Has(t) => Has(t)'
    BY <2>3 DEF Has
  <2> HIDE DEF s
  <2>6. s \in 1..8
    BY DEF s
  <2>7. s > 1 => \A t \in Tables : schema'[t] # Absent
    BY <2>1, <2>3 DEF StagePassed, s
  <2>8. s >= 1 => \A t \in Tables : schema'[t] # Absent
    BY <2>6, <2>7 DEF s
  <2>9. s >= 2 => Has("catalog_entries")'
    BY <2>1, <2>2, <2>5, <2>6 DEF StagePassed, s
  <2>10. s >= 5 => Has("model_routes")'
    BY <2>1, <2>2, <2>5, <2>6 DEF StagePassed, s
  <2>11. s >= 6 => RETIRED_COLUMN \notin schema'["model_routes"].columns
    BY <2>1, <2>2, <2>3, <2>4, <2>6 DEF StagePassed, s
  <2>12. s >= 7 => Has("agent_tasks")'
    BY <2>1, <2>2, <2>5, <2>6 DEF StagePassed, s
  <2>13. s >= 8 => Admitted["agent_tasks"] \subseteq schema'["agent_tasks"].admits
    BY <2>6 DEF s
  <2> QED
    BY <1>3, <2>6, <2>8, <2>9, <2>10, <2>11, <2>12, <2>13 DEF StagePassed
<1>5. Foreseen(b)'
  BY <1>3, NothingPlanned
<1> QED
  BY <1>1, <1>2, <1>4, <1>5, NotReadPlan, SchemaInvStep

LEMMA SchemaInspects ==
    ASSUME SchemaInv, NEW b \in Booters, inspect(b)
    PROVE  SchemaInv'
<1> DEFINE s == booting[b].stage
           p == [look |-> TRUE, work |-> Work(BootAt(b))]
<1>1. s \in {2, 4, 5, 6, 7, 8}
  BY StageNames, StageTables DEF inspect, SchemaInv, SchemaTyped, BootAt
<1>2. /\ s \in {2, 5, 7} => Work(BootAt(b)) = Declared[TableOf[BootAt(b)]] \ schema[TableOf[BootAt(b)]].columns
      /\ s = 6 => Work(BootAt(b)) = schema["model_routes"].columns \cap {RETIRED_COLUMN}
      /\ s = 4 => Work(BootAt(b)) \in {{}, {"check"}}
      /\ s = 8 => Work(BootAt(b)) = IF Admitted["agent_tasks"] \subseteq schema["agent_tasks"].admits THEN {} ELSE {"check"}
  BY <1>1, StageNames, StageTables DEF BootAt, Work, _constraint_admits
<1>3. /\ s = 2 => TableOf[BootAt(b)] = "catalog_entries"
      /\ s = 5 => TableOf[BootAt(b)] = "model_routes"
      /\ s = 7 => TableOf[BootAt(b)] = "agent_tasks"
  BY StageNames, StageTables DEF BootAt
<1>5. IsPlan(p)
  BY DEF IsPlan
<1>6. BootMoves(b, s, p)
  <2>1. /\ booting = [c \in Booters |-> booting[c]]
        /\ booting[b] = [stage |-> booting[b].stage, plan |-> booting[b].plan]
    BY DEF SchemaInv, SchemaTyped
  <2>2. booting' = [booting EXCEPT ![b].plan = p]
    BY DEF inspect
  <2> HIDE DEF p
  <2>3. [booting[b] EXCEPT !.plan = p] = [stage |-> booting[b].stage, plan |-> p]
    BY <2>1
  <2>4. [booting EXCEPT ![b].plan = p] = [booting EXCEPT ![b] = [booting[b] EXCEPT !.plan = p]]
    BY <2>1
  <2> QED
    BY <2>2, <2>3, <2>4 DEF BootMoves
<1>7. schema' = schema /\ left' = left /\ s \in 0..9
  BY <1>1 DEF inspect
<1>8. SchemaShaped' /\ RowsKept' /\ \A t \in Tables : Upgraded(t)
  BY <1>7, UnchangedTable DEF SchemaInv, SchemaTyped, SchemaShaped, RowsKept
<1>9. booting'[b].stage = s /\ booting'[b].plan = p
  BY <1>5, <1>6, <1>7, <1>8, SchemaTypedStep
<1>10. StagePassed(b)'
  BY <1>7, <1>9 DEF StagePassed, SchemaInv, Has
<1>11. Foreseen(b)'
  <2> HIDE DEF s
  <2>1. p.work = Work(BootAt(b))
    OBVIOUS
  <2> HIDE DEF p
  <2> QED
    BY <2>1, <1>1, <1>2, <1>3, <1>7, <1>9 DEF Foreseen
<1> QED
  BY <1>5, <1>6, <1>7, <1>8, <1>10, <1>11, SchemaInvStep

LEMMA TableShape ==
    ASSUME SchemaInv, NEW t \in Tables
    PROVE  /\ \A rs : [schema[t] EXCEPT !.rows = rs]
                        = [columns |-> schema[t].columns, admits |-> schema[t].admits, rows |-> rs]
           /\ \A columns : [schema[t] EXCEPT !.columns = columns]
                           = [columns |-> columns, admits |-> schema[t].admits, rows |-> schema[t].rows]
           /\ \A admits : [schema[t] EXCEPT !.admits = admits]
                          = [columns |-> schema[t].columns, admits |-> admits, rows |-> schema[t].rows]
<1>1. IsTable(schema[t])
  BY DEF SchemaInv, SchemaTyped, SchemaShaped
<1>2. \A x : IsTable(x) =>
        /\ \A rs : [x EXCEPT !.rows = rs] = [columns |-> x.columns, admits |-> x.admits, rows |-> rs]
        /\ \A columns : [x EXCEPT !.columns = columns] = [columns |-> columns, admits |-> x.admits, rows |-> x.rows]
        /\ \A admits : [x EXCEPT !.admits = admits] = [columns |-> x.columns, admits |-> admits, rows |-> x.rows]
  BY DEF IsTable
<1> QED
  BY <1>1, <1>2

\* A stage fails: the schema stays and the process is down.
LEMMA SchemaFails ==
    ASSUME SchemaInv, NEW b \in Booters, Fails(b), schema' = schema, left' = left
    PROVE  SchemaInv'
<1>1. BootMoves(b, 0, NotRead)
  BY DEF Fails, BootMoves
<1> QED
  BY <1>1, SchemaStarts

LEMMA SchemaCreates ==
    ASSUME SchemaInv, NEW b \in Booters, create_all(b)
    PROVE  SchemaInv'
<1>1. booting[b].stage = 1 /\ left' = left /\ Advances(b)
  BY StageNames DEF create_all, SchemaInv, SchemaTyped, BootAt
<1>2. \A t \in Tables : schema'[t] = IF schema[t] # Absent THEN schema[t]
                                     ELSE [columns |-> Declared[t], admits |-> Admitted[t], rows |-> {}]
  BY DEF create_all
<1>3. SchemaShaped'
  <2>1. schema' = [t \in Tables |-> schema'[t]]
    BY DEF create_all
  <2>2. \A t \in Tables : IsTable(schema[t])
    BY DEF SchemaInv, SchemaTyped, SchemaShaped
  <2>3. ASSUME NEW t \in Tables PROVE IsTable(schema'[t])
    <3>1. CASE schema[t] # Absent
      BY <3>1, <1>2, <2>2
    <3>2. CASE schema[t] = Absent
      <4>1. schema'[t] = [columns |-> Declared[t], admits |-> Admitted[t], rows |-> {}]
        BY <1>2, <3>2
      <4> QED
        BY <4>1 DEF IsTable
    <3> QED
      BY <3>1, <3>2
  <2> QED
    BY <2>1, <2>3 DEF SchemaShaped
<1>4. ASSUME NEW t \in Tables PROVE Upgraded(t) /\ schema'[t] # Absent /\ schema'[t].rows = schema[t].rows
  <2>1. CASE schema[t] # Absent
    BY <2>1, <1>2, UnchangedTable
  <2>2. CASE schema[t] = Absent
    <3>1. schema'[t] = [columns |-> Declared[t], admits |-> Admitted[t], rows |-> {}]
      BY <1>2, <2>2
    <3>2. schema[t].columns = {} /\ schema[t].admits = {} /\ schema[t].rows = {}
      BY <2>2 DEF Absent
    <3>3. schema'[t] # Absent
      BY <3>1, DeclaredTables DEF Absent
    <3>4. Released(t, schema'[t])
      BY <3>1 DEF Released
    <3> QED
      BY <3>1, <3>2, <3>3, <3>4 DEF Upgraded
  <2> QED
    BY <2>1, <2>2
<1>5. RowsKept'
  BY <1>1, <1>4 DEF SchemaInv, RowsKept
<1> QED
  BY <1>1, <1>3, <1>4, <1>5, SchemaAdvances

LEMMA SchemaRewrites ==
    ASSUME SchemaInv, NEW b \in Booters, retire_mineru_provider(b)
    PROVE  SchemaInv'
<1> DEFINE t == "model_routes"
           new == [schema[t] EXCEPT !.rows = {Rewritten(r) : r \in @}]
<1>1. booting[b].stage = 3 /\ left' = left /\ Advances(b) /\ t \in Tables
  BY StageNames DEF retire_mineru_provider, SchemaInv, SchemaTyped, BootAt, Tables
<1>2. schema[t] # Absent
  BY <1>1 DEF SchemaInv, StagePassed
<1>3. schema' = [schema EXCEPT ![t] = new]
  BY DEF retire_mineru_provider
<1>4. new = [columns |-> schema[t].columns, admits |-> schema[t].admits, rows |-> {Rewritten(r) : r \in schema[t].rows}]
  BY <1>1, TableShape
<1>5. IsTable(new) /\ new.columns = schema[t].columns /\ new.admits = schema[t].admits
         /\ new.rows = {Rewritten(r) : r \in schema[t].rows}
  BY <1>4 DEF IsTable
<1>6. new # Absent
  <2>1. Admitted[t] \subseteq schema[t].admits
    BY <1>1, <1>2 DEF SchemaInv, TablesReleased, Released
  <2> QED
    BY <1>1, <1>5, <2>1, DeclaredTables DEF Absent
<1> HIDE DEF new, t
<1>7. SchemaShaped' /\ RowsKept' /\ \A u \in Tables : Upgraded(u)
  BY <1>1, <1>2, <1>3, <1>5, <1>6, ReplacedTable
<1> QED
  BY <1>1, <1>7, SchemaAdvances

LEMMA SchemaDies == ASSUME SchemaInv, NEW b \in Booters, ProcessDies(b) PROVE SchemaInv'
BY SchemaFails DEF ProcessDies

LEMMA SchemaBoots == ASSUME SchemaInv, NEW b \in Booters, init_engine(b) PROVE SchemaInv'
<1>1. BootMoves(b, 1, NotRead) /\ schema' = schema /\ left' = left
  BY DEF init_engine, BootMoves
<1> QED
  BY <1>1, SchemaStarts

\* A stage that finds nothing to do.
LEMMA SchemaIdle ==
    ASSUME SchemaInv, NEW b \in Booters, booting[b].plan.look, booting[b].plan.work = {},
           Advances(b), schema' = schema, left' = left
    PROVE  SchemaInv'
<1>1. booting[b].stage \in {2, 4, 5, 6, 7, 8} /\ Foreseen(b)
  BY DEF SchemaInv, Foreseen
<1>2. SchemaShaped' /\ RowsKept' /\ \A t \in Tables : Upgraded(t)
  BY UnchangedTable DEF SchemaInv, SchemaTyped, SchemaShaped, RowsKept
<1> QED
  BY <1>1, <1>2, SchemaAdvances DEF Foreseen, Has

\* A stage that alters its table, once its table is known to be there.
LEMMA StageTable ==
    ASSUME SchemaInv, NEW b \in Booters, booting[b].plan.look
    PROVE  /\ booting[b].stage \in {2, 4, 5, 6, 7, 8} /\ BootAt(b) = Stages[booting[b].stage]
           /\ TableOf[BootAt(b)] \in Tables /\ schema[TableOf[BootAt(b)]] # Absent
           /\ booting[b].stage = 2 => TableOf[BootAt(b)] = "catalog_entries"
           /\ booting[b].stage \in {4, 5, 6} => TableOf[BootAt(b)] = "model_routes"
           /\ booting[b].stage \in {7, 8} => TableOf[BootAt(b)] = "agent_tasks"
<1>1. booting[b].stage \in {2, 4, 5, 6, 7, 8} /\ BootAt(b) = Stages[booting[b].stage]
  BY DEF SchemaInv, Foreseen, BootAt
<1>2. /\ booting[b].stage = 2 => TableOf[BootAt(b)] = "catalog_entries"
      /\ booting[b].stage \in {4, 5, 6} => TableOf[BootAt(b)] = "model_routes"
      /\ booting[b].stage \in {7, 8} => TableOf[BootAt(b)] = "agent_tasks"
  BY <1>1, StageNames, StageTables
<1>3. TableOf[BootAt(b)] \in Tables
  BY <1>1, <1>2 DEF Tables
<1> QED
  BY <1>1, <1>2, <1>3 DEF SchemaInv, StagePassed

LEMMA SchemaAddsColumns ==
    ASSUME SchemaInv, NEW b \in Booters, booting[b].plan.look, booting[b].stage \in {2, 5, 7},
           add_columns(b, TableOf[BootAt(b)], booting[b].plan.work), left' = left
    PROVE  SchemaInv'
<1> DEFINE t == TableOf[BootAt(b)]
           work == booting[b].plan.work
           new == [schema[t] EXCEPT !.columns = @ \cup work]
<1>1. CASE work \cap schema[t].columns # {}
  BY <1>1, SchemaFails DEF add_columns, Does
<1>2. CASE work \cap schema[t].columns = {}
  <2>1. schema' = [schema EXCEPT ![t] = new] /\ Advances(b)
    BY <1>2 DEF add_columns, Does
  <2>2. t \in Tables /\ schema[t] # Absent
    BY StageTable
  <2>3. new = [columns |-> schema[t].columns \cup work, admits |-> schema[t].admits, rows |-> schema[t].rows]
    BY <2>2, TableShape
  <2>4. IsTable(new) /\ new.columns = schema[t].columns \cup work /\ new.admits = schema[t].admits
           /\ new.rows = schema[t].rows
    BY <2>3 DEF IsTable
  <2>5. work \subseteq Declared[t] /\ Declared[t] \subseteq work \cup schema[t].columns
    BY StageTable DEF SchemaInv, Foreseen
  <2>6. new # Absent
    BY <2>2, <2>4, <2>5, DeclaredTables DEF Absent
  <2>7. /\ booting[b].stage = 2 => t = "catalog_entries"
        /\ booting[b].stage = 5 => t = "model_routes"
        /\ booting[b].stage = 7 => t = "agent_tasks"
    BY StageTable
  <2> HIDE DEF new, t, work
  <2>8. SchemaShaped' /\ RowsKept' /\ \A u \in Tables : Upgraded(u)
    BY <2>1, <2>2, <2>4, <2>5, <2>6, ReplacedTable
  <2>9. schema'[t] = new
    BY <2>1, <2>2 DEF SchemaInv, SchemaTyped, SchemaShaped
  <2>10. Declared[t] \subseteq schema'[t].columns
    BY <2>4, <2>5, <2>9
  <2> QED
    BY <2>1, <2>7, <2>8, <2>10, SchemaAdvances DEF Has
<1> QED
  BY <1>1, <1>2

\* A table is rebuilt as it is declared, with its rows.
LEMMA SchemaRebuilds ==
    ASSUME SchemaInv, NEW b \in Booters, booting[b].plan.look, booting[b].stage \in {4, 6, 8},
           Does(b, CanRebuild(TableOf[BootAt(b)]), TableOf[BootAt(b)], rebuild_table(TableOf[BootAt(b)])), left' = left
    PROVE  SchemaInv'
<1> DEFINE t == TableOf[BootAt(b)]
           new == rebuild_table(t)
<1>1. CASE ~CanRebuild(t)
  BY <1>1, SchemaFails DEF Does
<1>2. CASE CanRebuild(t)
  <2>1. schema' = [schema EXCEPT ![t] = new] /\ Advances(b)
    BY <1>2 DEF Does
  <2>2. t \in Tables /\ schema[t] # Absent
    BY StageTable
  <2>3. IsTable(new) /\ new.columns = Declared[t] /\ new.admits = Admitted[t] /\ new.rows = schema[t].rows
    BY DEF IsTable, rebuild_table
  <2>4. new # Absent
    BY <2>2, <2>3, DeclaredTables DEF Absent
  <2>5. /\ booting[b].stage = 6 => t = "model_routes"
        /\ booting[b].stage = 8 => t = "agent_tasks"
    BY StageTable
  <2> HIDE DEF new, t
  <2>6. SchemaShaped' /\ RowsKept' /\ \A u \in Tables : Upgraded(u)
    BY <2>1, <2>2, <2>3, <2>4, ReplacedTable
  <2>7. schema'[t] = new
    BY <2>1, <2>2 DEF SchemaInv, SchemaTyped, SchemaShaped
  <2>8. RETIRED_COLUMN \notin schema'[t].columns /\ Admitted[t] \subseteq schema'[t].admits
    BY <2>2, <2>3, <2>7, DeclaredTables
  <2> QED
    BY <2>1, <2>5, <2>6, <2>8, SchemaAdvances
<1> QED
  BY <1>1, <1>2

LEMMA SchemaRetiresColumn ==
    ASSUME SchemaInv, NEW b \in Booters, booting[b].plan.look, booting[b].stage = 6,
           retire_api_key_env(b, TableOf[BootAt(b)]), left' = left
    PROVE  SchemaInv'
<1> DEFINE t == TableOf[BootAt(b)]
           new == [schema[t] EXCEPT !.columns = @ \ {RETIRED_COLUMN}]
<1>1. CASE dialect = "sqlite"
  BY <1>1, SchemaRebuilds DEF retire_api_key_env
<1>2. CASE dialect # "sqlite"
  <2>1. schema' = [schema EXCEPT ![t] = new] /\ Advances(b)
    BY <1>2 DEF retire_api_key_env, Does
  <2>2. t \in Tables /\ schema[t] # Absent /\ t = "model_routes"
    BY StageTable
  <2>3. new = [columns |-> schema[t].columns \ {RETIRED_COLUMN}, admits |-> schema[t].admits, rows |-> schema[t].rows]
    BY <2>2, TableShape
  <2>4. IsTable(new) /\ new.columns = schema[t].columns \ {RETIRED_COLUMN} /\ new.admits = schema[t].admits
           /\ new.rows = schema[t].rows
    BY <2>3 DEF IsTable
  <2>5. Admitted[t] \subseteq schema[t].admits
    BY <2>2 DEF SchemaInv, TablesReleased, Released
  <2>6. new # Absent
    BY <2>2, <2>4, <2>5, DeclaredTables DEF Absent
  <2> HIDE DEF new, t
  <2>7. SchemaShaped' /\ RowsKept' /\ \A u \in Tables : Upgraded(u)
    BY <2>1, <2>2, <2>4, <2>6, ReplacedTable, DeclaredTables
  <2>8. schema'[t] = new
    BY <2>1, <2>2 DEF SchemaInv, SchemaTyped, SchemaShaped
  <2> QED
    BY <2>1, <2>2, <2>4, <2>7, <2>8, SchemaAdvances
<1> QED
  BY <1>1, <1>2

LEMMA SchemaEvolves ==
    ASSUME SchemaInv, NEW b \in Booters, booting[b].plan.look, booting[b].stage \in {4, 8},
           _evolve_postgres(b, TableOf[BootAt(b)]), left' = left
    PROVE  SchemaInv'
<1> DEFINE t == TableOf[BootAt(b)]
           new == [schema[t] EXCEPT !.admits = Admitted[t]]
<1>1. CASE dialect = "sqlite"
  BY <1>1, SchemaRebuilds DEF _evolve_postgres
<1>2. CASE dialect # "sqlite" /\ ~Satisfied(t)
  BY <1>2, SchemaFails DEF _evolve_postgres, Does
<1>3. CASE dialect # "sqlite" /\ Satisfied(t)
  <2>1. schema' = [schema EXCEPT ![t] = new] /\ Advances(b)
    BY <1>3 DEF _evolve_postgres, Does
  <2>2. t \in Tables /\ schema[t] # Absent /\ (booting[b].stage = 8 => t = "agent_tasks")
    BY StageTable
  <2>3. new = [columns |-> schema[t].columns, admits |-> Admitted[t], rows |-> schema[t].rows]
    BY <2>2, TableShape
  <2>4. IsTable(new) /\ new.columns = schema[t].columns /\ new.admits = Admitted[t] /\ new.rows = schema[t].rows
    BY <2>3 DEF IsTable
  <2>5. new # Absent
    BY <2>2, <2>4, DeclaredTables DEF Absent
  <2> HIDE DEF new, t
  <2>6. SchemaShaped' /\ RowsKept' /\ \A u \in Tables : Upgraded(u)
    BY <2>1, <2>2, <2>4, <2>5, ReplacedTable
  <2>7. schema'[t] = new
    BY <2>1, <2>2 DEF SchemaInv, SchemaTyped, SchemaShaped
  <2> QED
    BY <2>1, <2>2, <2>4, <2>6, <2>7, SchemaAdvances
<1> QED
  BY <1>1, <1>2, <1>3

LEMMA SchemaEnsures == ASSUME SchemaInv, NEW b \in Booters, ensure_schema(b) PROVE SchemaInv'
<1> DEFINE t == TableOf[BootAt(b)]
           work == booting[b].plan.work
           stage == booting[b].stage
<1>1. booting[b].plan.look /\ left' = left
  BY DEF ensure_schema
<1>2. /\ stage \in {2, 4, 5, 6, 7, 8}
      /\ stage \in {2, 5, 7} <=> BootAt(b) \in {"_apply_light_migrations", "add_metadata_columns", "columns"}
      /\ stage = 6 <=> BootAt(b) = "retire_api_key_env"
      /\ stage \in {4, 8} <=> BootAt(b) \in {"check", "evolve_check_constraints"}
  BY <1>1, StageTable, StageNames
<1>3. CASE work = {}
  BY <1>1, <1>3, SchemaIdle DEF ensure_schema
<1>4. CASE work # {} /\ stage \in {2, 5, 7}
  BY <1>1, <1>2, <1>4, SchemaAddsColumns DEF ensure_schema
<1>5. CASE work # {} /\ stage = 6
  BY <1>1, <1>2, <1>5, SchemaRetiresColumn DEF ensure_schema
<1>6. CASE work # {} /\ stage \in {4, 8}
  BY <1>1, <1>2, <1>6, SchemaEvolves DEF ensure_schema
<1> QED
  BY <1>2, <1>3, <1>4, <1>5, <1>6

-----------------------------------------------------------------------------
LEMMA SchemaInvInit == ASSUME SchemaInit PROVE SchemaInv
<1>1. schema \in Releases
  BY DEF SchemaInit
<1>2. SchemaShaped /\ TablesReleased
  BY <1>1, SchemaAssumption DEF SchemaShaped, TablesReleased
<1>3. \A b \in Booters : booting[b] = [stage |-> 0, plan |-> NotRead]
  BY DEF SchemaInit
<1>4. SchemaTyped
  BY <1>2, <1>3, NotReadPlan DEF SchemaTyped, SchemaInit
<1>5. RowsKept
  BY DEF SchemaInit, RowsKept
<1>6. \A b \in Booters : StagePassed(b) /\ Foreseen(b)
  BY <1>3, NotReadPlan DEF StagePassed, Foreseen
<1> QED
  BY <1>2, <1>4, <1>5, <1>6 DEF SchemaInv

LEMMA SchemaInvNext == ASSUME SchemaInv, [SchemaNext]_schemaVars PROVE SchemaInv'
<1>1. CASE UNCHANGED schemaVars
  BY <1>1 DEF schemaVars, SchemaInv, SchemaTyped, SchemaShaped, TablesReleased, RowsKept, StagePassed, Foreseen, Has
<1>2. CASE SchemaNext
  <2>1. PICK b \in Booters : \/ init_engine(b) \/ create_all(b) \/ retire_mineru_provider(b)
                             \/ inspect(b) \/ ensure_schema(b) \/ ProcessDies(b)
    BY <1>2 DEF SchemaNext
  <2> QED
    BY <2>1, SchemaBoots, SchemaCreates, SchemaRewrites, SchemaInspects, SchemaEnsures, SchemaDies
<1> QED
  BY <1>1, <1>2

\* Whatever release the database comes from, however many processes boot beside
\* each other and wherever they die: a process that serves has the declared
\* schema under it, and every row the release left is there, as it was or
\* rewritten (extensions/database.py init_engine, model_route_migrate.py,
\* agent_hub_migrate.py, table_rebuild.py).
THEOREM UpgradeHolds == SchemaSpec => []UpgradeTrue
<1>1. ASSUME SchemaInv PROVE UpgradeTrue
  <2>1. ASSUME NEW b \in Booters, IsUp(b), NEW t \in Tables
        PROVE  schema[t].columns = Declared[t] /\ Admitted[t] \subseteq schema[t].admits
    <3>1. booting[b].stage = 9 /\ StagePassed(b)
      BY <1>1, <2>1, StageNames DEF IsUp, SchemaInv
    <3>2. /\ schema[t] # Absent /\ Has(t)
          /\ RETIRED_COLUMN \notin schema["model_routes"].columns
          /\ Admitted["agent_tasks"] \subseteq schema["agent_tasks"].admits
      BY <3>1 DEF StagePassed, Tables
    <3>3. Released(t, schema[t])
      BY <1>1, <3>2 DEF SchemaInv, TablesReleased
    <3> QED
      BY <3>2, <3>3 DEF Released, Has
  <2> QED
    BY <1>1, <2>1 DEF UpgradeTrue, ServesDeclared, SchemaInv
<1> QED
  BY <1>1, SchemaInvInit, SchemaInvNext, PTL DEF SchemaSpec

-----------------------------------------------------------------------------
(* The model routes: what a stored row and a request in progress agree on. *)

\* The envelope a row carries is of the key that was meant for it.
KeyHeld(opener, value) ==
    /\ opener.value = value /\ opener.form \in {"none", "plain", "sealed"}
    /\ opener.form = "none" => value = ""

KeyNamed(e) == "api_key" \in DOMAIN editor[e].body

\* A new or edited entry is validated, and its key is the body's or the one seen.
EntrySound(e) ==
    LET upcoming == editor[e].entry IN
    /\ DOMAIN upcoming = Columns /\ upcoming.provider \in PROVIDERS
    /\ upcoming.api_key.form \in {"none", "plain", "sealed"}
    /\ upcoming.api_key.form = "none" => upcoming.api_key.value = ""

EditorSound(e) ==
    LET r == editor[e] IN
    /\ r.pc \in {"insert", "update"} => EntrySound(e)
    /\ r.pc = "insert" => r.entry.api_key.form # "plain"
    /\ r.pc = "update" =>
         IF KeyNamed(e) THEN r.entry.api_key.form # "plain" /\ r.entry.api_key.value = r.body.api_key
         ELSE r.entry.api_key = r.seen.api_key
    /\ r.pc = "seal" =>
         /\ r.id \in DOMAIN routes /\ r.entry.api_key.form = "sealed"
         /\ r.entry.api_key.value = meant[r.id]
         /\ \A o \in Editors \ {e} : editor[o].pc = "idle"

RowSound(i) ==
    /\ DOMAIN routes[i] = Columns \cup {"health"} /\ routes[i].provider \in PROVIDERS
    /\ KeyHeld(routes[i].api_key, meant[i])
    /\ routes[i].api_key.form = "plain" => i = 1 /\ meant[i] = "old"

RequestFields == {"pc", "id", "name", "seen", "entry", "body"}
EditorShaped == DOMAIN editor = Editors /\ \A e \in Editors : DOMAIN editor[e] = RequestFields

RoutesInv ==
    /\ lastId \in Nat \ {0} /\ DOMAIN routes \subseteq 1 .. lastId /\ DOMAIN meant = DOMAIN routes
    /\ EditorShaped
    /\ \A i \in DOMAIN routes : RowSound(i)
    /\ \A e \in Editors : EditorSound(e)

\* The normalisations are the identity on what they return.
LEMMA ColumnNames ==
    Columns = {"name", "provider", "kind", "base_url", "api_key", "context_window", "max_tokens", "reasoning"}
BY DEF Columns, NoRoute

LEMMA ProviderAliases ==
    /\ \A p \in PROVIDERS : canonical_provider(p) = p /\ normalize_provider(p) = p
    /\ Invalid \notin PROVIDERS
    /\ \A text : normalize_provider(text) \in PROVIDERS \cup {Invalid}
<1>1. PROVIDER_ALIASES["openai"] = "openai" /\ PROVIDER_ALIASES["anthropic"] = "anthropic"
         /\ DOMAIN PROVIDER_ALIASES = {"openai", "openai-compatible", "openai_compatible", "openai_compat", "anthropic", "claude"}
  BY DEF PROVIDER_ALIASES
<1>2. \A p \in PROVIDERS : canonical_provider(p) = p
  BY <1>1 DEF PROVIDERS, canonical_provider
<1> QED
  BY <1>2 DEF PROVIDERS, normalize_provider, Invalid

LEMMA CountPublished ==
    ASSUME NEW v, NEW ceiling \in Nat,
           NEW w, w = IF _positive_token_count(v, ceiling) = BadCount THEN Null ELSE v
    PROVE  _positive_token_count(w, ceiling) = w
<1>1. BadCount = -1 /\ Null = 0
  BY DEF BadCount, Null
<1>2. CASE v = Null
  BY <1>1, <1>2 DEF _positive_token_count
<1>3. CASE v # Null /\ v \in 1 .. ceiling
  BY <1>1, <1>3 DEF _positive_token_count
<1>4. CASE v # Null /\ v \notin 1 .. ceiling
  BY <1>1, <1>4 DEF _positive_token_count
<1> QED
  BY <1>2, <1>3, <1>4

LEMMA ReasoningPublished ==
    ASSUME NEW r, NEW provider,
           NEW w, w = IF "error" \in DOMAIN normalize_reasoning(r, provider) THEN Empty
                      ELSE normalize_reasoning(r, provider)
    PROVE  normalize_reasoning(w, provider) = w
<1>1. normalize_reasoning(Empty, provider) = Empty
  BY DEF normalize_reasoning
<1>2. CASE normalize_reasoning(r, provider) = Empty
  <2>1. w = Empty
    BY <1>2
  <2> QED
    BY <1>1, <2>1
<1>3. CASE normalize_reasoning(r, provider) # Empty
  <2>1. CASE \/ DOMAIN r # {"format", "efforts"}
             \/ r.format # "none" /\ provider # "openai"
             \/ ~(r.efforts \subseteq THINKING_LEVELS) \/ r.efforts \ {"off"} = {}
    <3>1. normalize_reasoning(r, provider) = [error |-> Invalid]
      BY <1>3, <2>1 DEF normalize_reasoning
    <3>2. "error" \in DOMAIN normalize_reasoning(r, provider)
      BY <3>1
    <3> QED
      BY <1>1, <3>2
  <2>2. CASE ~(\/ DOMAIN r # {"format", "efforts"}
               \/ r.format # "none" /\ provider # "openai"
               \/ ~(r.efforts \subseteq THINKING_LEVELS) \/ r.efforts \ {"off"} = {})
    <3>1. normalize_reasoning(r, provider) = r
      BY <1>3, <2>2 DEF normalize_reasoning
    <3> QED
      BY <1>1, <3>1
  <2> QED
    BY <2>1, <2>2
<1> QED
  BY <1>2, <1>3

\* What is published of a sound row could be saved as it is.
LEMMA RowPublished ==
    ASSUME NEW row, row.provider \in PROVIDERS, NEW p, p = resolve(row)
    PROVE  /\ normalize_provider(p.provider) = p.provider /\ normalize_kind(p.kind, p.provider) = p.kind
           /\ normalize_reasoning(p.reasoning, p.provider) = p.reasoning
           /\ _positive_token_count(p.context_window, MAX_CONTEXT_WINDOW) = p.context_window
           /\ _positive_token_count(p.max_tokens, MAX_OUTPUT_TOKENS) = p.max_tokens
<1>1. canonical_provider(row.provider) = row.provider /\ normalize_provider(row.provider) = row.provider
  BY ProviderAliases
<1>2. p.provider = row.provider
  BY <1>1 DEF resolve, capability_fields
<1>3. p.kind = effective_kind(row)
  BY DEF resolve
<1>4. normalize_kind(p.kind, p.provider) = p.kind
  <2>1. p.kind \in ROUTE_KINDS
    BY <1>3 DEF effective_kind, default_kind, ROUTE_KINDS
  <2>2. p.kind # ""
    BY <2>1 DEF ROUTE_KINDS
  <2> QED
    BY <2>1, <2>2 DEF normalize_kind
<1>5. p.reasoning = IF "error" \in DOMAIN normalize_reasoning(row.reasoning, p.provider) THEN Empty
                    ELSE normalize_reasoning(row.reasoning, p.provider)
  BY <1>1, <1>2 DEF resolve, capability_fields
<1>6. /\ p.context_window = IF _positive_token_count(row.context_window, MAX_CONTEXT_WINDOW) = BadCount THEN Null
                            ELSE row.context_window
      /\ p.max_tokens = IF _positive_token_count(row.max_tokens, MAX_OUTPUT_TOKENS) = BadCount THEN Null
                        ELSE row.max_tokens
  BY DEF resolve, capability_fields
<1>7. MAX_CONTEXT_WINDOW \in Nat /\ MAX_OUTPUT_TOKENS \in Nat
  BY ModelRoutesAssumption
<1> QED
  BY <1>1, <1>2, <1>4, <1>5, <1>6, <1>7, CountPublished, ReasoningPublished

\* A sealed or plain key opens to the one meant, if it is fit for a header.
LEMMA KeyOpens ==
    ASSUME NEW row, NEW value, KeyHeld(row.api_key, value), effective_api_key(row).source # "unreadable"
    PROVE  effective_api_key(row).key = _safe_plaintext(value)
<1>1. CASE row.api_key.form = "none"
  <2>1. value = "" /\ effective_api_key(row).key = ""
    BY <1>1 DEF KeyHeld, effective_api_key
  <2> QED
    BY <2>1 DEF _safe_plaintext
<1>2. CASE row.api_key.form = "plain"
  BY <1>2 DEF KeyHeld, effective_api_key
<1>3. CASE row.api_key.form = "sealed"
  BY <1>3 DEF KeyHeld, effective_api_key
<1> QED
  BY <1>1, <1>2, <1>3 DEF KeyHeld

LEMMA RoutesInvHolds == ASSUME RoutesInv PROVE RoutesTrue
<1>1. KeyAsMeant
  BY KeyOpens DEF RoutesInv, RowSound, KeyAsMeant
<1>2. NoNewPlaintext
  BY DEF RoutesInv, RowSound, NoNewPlaintext
<1>3. PublishedSound
  BY RowPublished DEF RoutesInv, RowSound, PublishedSound
<1> QED
  BY <1>1, <1>2, <1>3 DEF RoutesTrue

\* What a request builds from a body over a sound row or none.
LEMMA BuiltEntry ==
    ASSUME NEW body, NEW existing, ~Refused(body, build_route(body, existing)),
           NEW upcoming, upcoming = build_route(body, existing)
    PROVE  /\ DOMAIN upcoming = Columns /\ upcoming.provider \in PROVIDERS
           /\ upcoming.api_key = resolve_api_key(body, existing)
<1>1. upcoming.provider = normalize_provider(_payload_field(body, existing, "provider")) /\ upcoming.provider # Invalid
         /\ upcoming.api_key = resolve_api_key(body, existing)
  BY DEF build_route, Refused
<1>2. DOMAIN upcoming = Columns
  BY ColumnNames DEF build_route
<1> QED
  BY <1>1, <1>2, ProviderAliases

LEMMA NoSecretFields == NoSecret.form = "none" /\ NoSecret.value = ""
BY DEF NoSecret

LEMMA SealedKey ==
    ASSUME NEW value, NEW opener, opener = seal_api_key(value)
    PROVE  opener.form \in {"none", "sealed"} /\ opener.value = value /\ (opener.form = "none" => value = "")
BY DEF seal_api_key, Sealed, NoSecret

-----------------------------------------------------------------------------
(* The steps of the requests.                                              *)

IsRequest(r) == DOMAIN r = RequestFields
EditorGoes(e, r) == editor' = [editor EXCEPT ![e] = r]

LEMMA EditorMoved ==
    ASSUME RoutesInv, NEW e \in Editors, NEW r, IsRequest(r), EditorGoes(e, r)
    PROVE  EditorShaped' /\ editor'[e] = r /\ \A o \in Editors \ {e} : editor'[o] = editor[o]
BY DEF RoutesInv, EditorShaped, IsRequest, EditorGoes

NotSealing(o) == editor[o].pc # "seal"

\* A request that neither seals nor is sealed around holds nothing of the table.
LEMMA EditorKept ==
    ASSUME NEW o \in Editors, EditorSound(o), NotSealing(o), editor'[o] = editor[o]
    PROVE  EditorSound(o)'
BY DEF EditorSound, EntrySound, KeyNamed, NotSealing

LEMMA OthersKept ==
    ASSUME RoutesInv, NEW e \in Editors, NEW r, IsRequest(r), EditorGoes(e, r),
           \A o \in Editors \ {e} : NotSealing(o)
    PROVE  EditorShaped' /\ editor'[e] = r /\ \A o \in Editors \ {e} : EditorSound(o)'
<1>1. EditorShaped' /\ editor'[e] = r /\ \A o \in Editors \ {e} : editor'[o] = editor[o]
  BY EditorMoved
<1>2. \A o \in Editors : EditorSound(o)
  BY DEF RoutesInv
<1> QED
  BY <1>1, <1>2, EditorKept

\* While one request seals, the others have not begun.
LEMMA BusyAlone ==
    ASSUME RoutesInv, NEW e \in Editors, editor[e].pc # "idle"
    PROVE  \A o \in Editors \ {e} : NotSealing(o)
BY DEF RoutesInv, EditorSound, NotSealing

LEMMA BegunAlone ==
    ASSUME ~SealOnline, NEW e \in Editors, NoEdit(e)
    PROVE  \A o \in Editors \ {e} : NotSealing(o)
BY DEF NoEdit, Sealing, NotSealing

LEMMA OffIsRequest == IsRequest(Off) /\ Off.pc = "idle"
BY DEF IsRequest, RequestFields, Off

LEMMA IdleSound == ASSUME NEW e \in Editors, editor'[e].pc \in {"idle", "probe"} PROVE EditorSound(e)'
BY DEF EditorSound

\* The table as it is, or as a step leaves it.
TableSound ==
    /\ lastId \in Nat \ {0} /\ DOMAIN routes \subseteq 1 .. lastId /\ DOMAIN meant = DOMAIN routes
    /\ \A i \in DOMAIN routes : RowSound(i)

LEMMA TableStays ==
    ASSUME RoutesInv, UNCHANGED <<routes, lastId, meant>>
    PROVE  TableSound'
BY DEF RoutesInv, TableSound, RowSound

LEMMA RoutesStep ==
    ASSUME RoutesInv, TableSound', NEW e \in Editors, NEW r, IsRequest(r), EditorGoes(e, r),
           \A o \in Editors \ {e} : NotSealing(o), EditorSound(e)'
    PROVE  RoutesInv'
<1>1. EditorShaped' /\ \A o \in Editors \ {e} : EditorSound(o)'
  BY OthersKept
<1> QED
  BY <1>1 DEF RoutesInv, TableSound

\* A step that ends its request, or leaves it to its probe.
LEMMA RoutesStepEnds ==
    ASSUME RoutesInv, TableSound', NEW e \in Editors, NEW r, IsRequest(r), EditorGoes(e, r),
           \A o \in Editors \ {e} : NotSealing(o), r.pc \in {"idle", "probe"}
    PROVE  RoutesInv'
<1>1. editor'[e] = r
  BY EditorMoved
<1>2. EditorSound(e)'
  BY <1>1, IdleSound
<1> QED
  BY <1>2, RoutesStep

LEMMA RoutesCreate == ASSUME RoutesInv, ~SealOnline, NEW e \in Editors, create(e) PROVE RoutesInv'
<1>1. TableSound' /\ \A o \in Editors \ {e} : NotSealing(o)
  BY TableStays, BegunAlone DEF create
<1>2. PICK body \in Bodies :
          /\ ~Refused(body, build_route(body, NoRoute))
          /\ EditorGoes(e, [Off EXCEPT !.pc = "insert", !.entry = build_route(body, NoRoute), !.body = body])
  BY DEF create, Begins, EditorGoes
<1> DEFINE upcoming == build_route(body, NoRoute)
           r == [Off EXCEPT !.pc = "insert", !.entry = upcoming, !.body = body]
<1> HIDE DEF upcoming
<1>3. IsRequest(r) /\ r.pc = "insert" /\ r.entry = upcoming /\ r.body = body
  BY DEF IsRequest, RequestFields, Off
<1>4. /\ DOMAIN upcoming = Columns /\ upcoming.provider \in PROVIDERS
      /\ upcoming.api_key = resolve_api_key(body, NoRoute)
  BY <1>2, BuiltEntry DEF upcoming
<1>5. upcoming.api_key.form \in {"none", "sealed"} /\ (upcoming.api_key.form = "none" => upcoming.api_key.value = "")
  <2>1. CASE "api_key" \in DOMAIN body
    BY <1>4, <2>1, SealedKey DEF resolve_api_key
  <2>2. CASE "api_key" \notin DOMAIN body
    <3>1. upcoming.api_key = NoSecret
      BY <1>4, <2>2 DEF resolve_api_key, NoRoute
    <3> QED
      BY <3>1, NoSecretFields
  <2> QED
    BY <2>1, <2>2
<1> HIDE DEF r
<1>6. editor'[e] = r
  BY <1>2, <1>3, EditorMoved DEF r, upcoming
<1>7. EditorSound(e)'
  BY <1>3, <1>4, <1>5, <1>6 DEF EditorSound, EntrySound
<1> QED
  BY <1>1, <1>2, <1>3, <1>7, RoutesStep DEF r, upcoming

LEMMA RoutesUpdate == ASSUME RoutesInv, ~SealOnline, NEW e \in Editors, update(e) PROVE RoutesInv'
<1>1. TableSound' /\ \A o \in Editors \ {e} : NotSealing(o)
  BY TableStays, BegunAlone DEF update
<1>2. PICK i \in DOMAIN routes, body \in Bodies :
        LET upcoming == build_route(body, RouteEntry(routes[i])) IN
        /\ ~Refused(body, upcoming)
        /\ EditorGoes(e, [pc |-> "update", id |-> i, name |-> upcoming.name, seen |-> RouteEntry(routes[i]),
                          entry |-> upcoming, body |-> body])
  BY DEF update, Begins, EditorGoes
<1> DEFINE seen == RouteEntry(routes[i])
           upcoming == build_route(body, seen)
           r == [pc |-> "update", id |-> i, name |-> upcoming.name, seen |-> seen, entry |-> upcoming, body |-> body]
<1>3. IsRequest(r) /\ r.pc = "update" /\ r.seen = seen /\ r.entry = upcoming /\ r.body = body
  BY DEF IsRequest, RequestFields
<1>4. /\ DOMAIN upcoming = Columns /\ upcoming.provider \in PROVIDERS
      /\ upcoming.api_key = resolve_api_key(body, seen)
  BY <1>2, BuiltEntry
<1>5. KeyHeld(seen.api_key, meant[i])
  BY ColumnNames DEF RoutesInv, RowSound, RouteEntry
<1> HIDE DEF upcoming, seen
<1>6. CASE "api_key" \in DOMAIN body
  <2>1. /\ upcoming.api_key.form \in {"none", "sealed"} /\ upcoming.api_key.value = body.api_key
        /\ upcoming.api_key.form = "none" => upcoming.api_key.value = ""
    BY <1>4, <1>6, SealedKey DEF resolve_api_key
  <2>2. editor'[e] = r
    BY <1>2, <1>3, EditorMoved DEF upcoming, seen
  <2> HIDE DEF r
  <2>3. EditorSound(e)'
    BY <1>3, <1>4, <1>6, <2>1, <2>2 DEF EditorSound, EntrySound, KeyNamed
  <2> QED
    BY <1>1, <1>2, <1>3, <2>3, RoutesStep DEF r, upcoming, seen
<1>7. CASE "api_key" \notin DOMAIN body
  <2>1. upcoming.api_key = seen.api_key
    BY <1>4, <1>7 DEF resolve_api_key
  <2>2. editor'[e] = r
    BY <1>2, <1>3, EditorMoved DEF upcoming, seen
  <2> HIDE DEF r
  <2>3. EditorSound(e)'
    BY <1>3, <1>4, <1>5, <1>7, <2>1, <2>2 DEF EditorSound, EntrySound, KeyNamed, KeyHeld
  <2> QED
    BY <1>1, <1>2, <1>3, <2>3, RoutesStep DEF r, upcoming, seen
<1> QED
  BY <1>6, <1>7

LEMMA RoutesInsert == ASSUME RoutesInv, NEW e \in Editors, _commit_new(e) PROVE RoutesInv'
<1>1. editor[e].pc = "insert" /\ EditorSound(e) /\ \A o \in Editors \ {e} : NotSealing(o)
  BY BusyAlone DEF _commit_new, RoutesInv
<1>2. CASE _find(editor[e].entry.name) # {}
  <2>1. EditorGoes(e, Off) /\ UNCHANGED <<routes, lastId, meant>>
    BY <1>2 DEF _commit_new, Ends, EditorGoes
  <2> QED
    BY <1>1, <2>1, TableStays, OffIsRequest, RoutesStepEnds
<1>3. CASE _find(editor[e].entry.name) = {}
  <2> DEFINE upcoming == editor[e].entry
             new == lastId + 1
             r == [editor[e] EXCEPT !.pc = "probe", !.id = new, !.name = upcoming.name]
  <2>1. /\ lastId' = new
        /\ routes' = [i \in DOMAIN routes \cup {new} |-> IF i = new THEN Stored(upcoming) ELSE routes[i]]
        /\ meant' = [i \in DOMAIN meant \cup {new} |-> IF i = new THEN upcoming.api_key.value ELSE meant[i]]
    BY <1>3 DEF _commit_new
  <2>2. EditorGoes(e, r)
    <3>1. editor' = [editor EXCEPT ![e].pc = "probe", ![e].id = new, ![e].name = upcoming.name]
      BY <1>3, <2>1 DEF _commit_new
    <3>2. DOMAIN editor = Editors
      BY DEF RoutesInv, EditorShaped
    <3> QED
      BY <3>1, <3>2 DEF EditorGoes
  <2>3. IsRequest(r) /\ r.pc = "probe"
    BY DEF RoutesInv, EditorShaped, IsRequest, RequestFields
  <2>4. /\ lastId \in Nat \ {0} /\ DOMAIN routes \subseteq 1 .. lastId /\ DOMAIN meant = DOMAIN routes
        /\ \A i \in DOMAIN routes : RowSound(i)
    BY DEF RoutesInv
  <2>5. upcoming.provider \in PROVIDERS /\ KeyHeld(upcoming.api_key, upcoming.api_key.value) /\ upcoming.api_key.form # "plain"
    BY <1>1 DEF EditorSound, EntrySound, KeyHeld
  <2>6. /\ DOMAIN Stored(upcoming) = Columns \cup {"health"}
        /\ Stored(upcoming).provider = upcoming.provider /\ Stored(upcoming).api_key = upcoming.api_key
    BY ColumnNames DEF Stored
  <2> HIDE DEF upcoming, r
  <2>7. new \in Nat \ {0} /\ new \notin DOMAIN routes
    BY <2>4
  <2>8. DOMAIN routes' = DOMAIN routes \cup {new} /\ DOMAIN meant' = DOMAIN routes'
    BY <2>1, <2>4
  <2>9. ASSUME NEW i \in DOMAIN routes' PROVE RowSound(i)'
    <3>1. CASE i = new
      BY <2>1, <2>4, <2>5, <2>6, <3>1 DEF RowSound
    <3>2. CASE i # new
      <4>1. routes'[i] = routes[i] /\ meant'[i] = meant[i] /\ RowSound(i)
        BY <2>1, <2>4, <2>8, <3>2
      <4> QED
        BY <4>1 DEF RowSound
    <3> QED
      BY <3>1, <3>2
  <2>10. TableSound'
    BY <2>1, <2>4, <2>7, <2>8, <2>9 DEF TableSound
  <2> QED
    BY <1>1, <2>2, <2>3, <2>10, RoutesStepEnds
<1> QED
  BY <1>2, <1>3

\* An UPDATE writes a key only when the body named one, and then a sealed one.
LEMMA RowWritten ==
    ASSUME RoutesInv, NEW e \in Editors, editor[e].pc = "update", NEW i \in DOMAIN routes,
           NEW row, row = _apply(e, routes[i]),
           NEW opener, opener = IF "api_key" \in Changed(e) THEN editor[e].body.api_key ELSE meant[i]
    PROVE  /\ DOMAIN row = Columns \cup {"health"} /\ row.provider \in PROVIDERS
           /\ KeyHeld(row.api_key, opener) /\ (row.api_key.form = "plain" => i = 1 /\ opener = "old")
<1>1. RowSound(i) /\ EntrySound(e) /\ EditorSound(e)
  BY DEF RoutesInv, EditorSound
<1>2. DOMAIN row = Columns \cup {"health"} /\ {"provider", "api_key"} \subseteq DOMAIN row
  BY <1>1, ColumnNames DEF _apply, RowSound
<1>3. /\ row.provider \in {routes[i].provider, editor[e].entry.provider}
      /\ row.api_key = IF "api_key" \in Changed(e) THEN editor[e].entry.api_key ELSE routes[i].api_key
  BY <1>1, <1>2, ColumnNames DEF _apply, RowSound
<1>4. row.provider \in PROVIDERS
  BY <1>1, <1>3 DEF RowSound, EntrySound
<1>5. CASE "api_key" \notin Changed(e)
  BY <1>1, <1>2, <1>3, <1>4, <1>5 DEF RowSound
<1>6. CASE "api_key" \in Changed(e)
  <2>1. KeyNamed(e)
    <3>1. CASE editor[e].entry.api_key # editor[e].seen.api_key
      BY <1>1, <3>1 DEF EditorSound
    <3>2. CASE editor[e].entry.api_key = editor[e].seen.api_key
      BY <1>6, <3>2 DEF Changed, KeyNamed
    <3> QED
      BY <3>1, <3>2
  <2>2. editor[e].entry.api_key.form # "plain" /\ editor[e].entry.api_key.value = editor[e].body.api_key
    BY <1>1, <2>1 DEF EditorSound
  <2> QED
    BY <1>1, <1>2, <1>3, <1>4, <1>6, <2>2 DEF EntrySound, KeyHeld
<1> QED
  BY <1>5, <1>6

LEMMA RoutesUpdateCommit == ASSUME RoutesInv, NEW e \in Editors, update_commit(e) PROVE RoutesInv'
<1> DEFINE i == editor[e].id
           lost == i \notin DOMAIN routes \/ (_find(editor[e].entry.name) \ {i} # {} /\ editor[e].entry.name # editor[e].seen.name)
<1>1. editor[e].pc = "update" /\ lastId' = lastId /\ \A o \in Editors \ {e} : NotSealing(o)
  BY BusyAlone DEF update_commit
<1>2. CASE lost
  <2>1. EditorGoes(e, Off) /\ UNCHANGED <<routes, lastId, meant>>
    BY <1>1, <1>2 DEF update_commit, Ends, EditorGoes
  <2> QED
    BY <1>1, <2>1, TableStays, OffIsRequest, RoutesStepEnds
<1>3. CASE ~lost
  <2> DEFINE r == [editor[e] EXCEPT !.pc = "probe"]
             row == _apply(e, routes[i])
             opener == IF "api_key" \in Changed(e) THEN editor[e].body.api_key ELSE meant[i]
  <2>1. /\ routes' = [routes EXCEPT ![i] = row] /\ i \in DOMAIN routes
        /\ meant' = IF "api_key" \in Changed(e) THEN [meant EXCEPT ![i] = editor[e].body.api_key] ELSE meant
        /\ editor' = [editor EXCEPT ![e].pc = "probe"]
    BY <1>3 DEF update_commit
  <2>2. EditorGoes(e, r)
    BY <2>1 DEF EditorGoes, RoutesInv, EditorShaped
  <2>3. IsRequest(r) /\ r.pc = "probe"
    BY DEF RoutesInv, EditorShaped, IsRequest, RequestFields
  <2>4. /\ lastId \in Nat \ {0} /\ DOMAIN routes \subseteq 1 .. lastId /\ DOMAIN meant = DOMAIN routes
        /\ \A j \in DOMAIN routes : RowSound(j)
    BY DEF RoutesInv
  <2>5. /\ DOMAIN row = Columns \cup {"health"} /\ row.provider \in PROVIDERS
        /\ KeyHeld(row.api_key, opener) /\ (row.api_key.form = "plain" => i = 1 /\ opener = "old")
    BY <1>1, <2>1, RowWritten
  <2> HIDE DEF i, r, row
  <2>6. /\ DOMAIN routes' = DOMAIN routes /\ DOMAIN meant' = DOMAIN meant
        /\ routes'[i] = row /\ meant'[i] = opener
        /\ \A j \in DOMAIN routes \ {i} : routes'[j] = routes[j] /\ meant'[j] = meant[j]
    BY <2>1, <2>4
  <2> HIDE DEF opener
  <2>7. ASSUME NEW j \in DOMAIN routes' PROVE RowSound(j)'
    <3>1. CASE j = i
      BY <2>5, <2>6, <3>1 DEF RowSound
    <3>2. CASE j # i
      BY <2>4, <2>6, <3>2 DEF RowSound
    <3> QED
      BY <3>1, <3>2
  <2>8. TableSound'
    BY <1>1, <2>4, <2>6, <2>7 DEF TableSound
  <2> QED
    BY <1>1, <2>2, <2>3, <2>8, RoutesStepEnds
<1> QED
  BY <1>2, <1>3

LEMMA RoutesDelete == ASSUME RoutesInv, ~SealOnline, NEW e \in Editors, delete(e) PROVE RoutesInv'
<1>1. PICK i \in DOMAIN routes :
          /\ EditorGoes(e, Off)
          /\ routes' = [j \in DOMAIN routes \ {i} |-> routes[j]]
          /\ meant' = [j \in DOMAIN meant \ {i} |-> meant[j]]
  BY DEF delete, Begins, EditorGoes
<1>2. lastId' = lastId /\ \A o \in Editors \ {e} : NotSealing(o)
  BY BegunAlone DEF delete
<1>3. /\ lastId \in Nat \ {0} /\ DOMAIN routes \subseteq 1 .. lastId /\ DOMAIN meant = DOMAIN routes
      /\ \A j \in DOMAIN routes : RowSound(j)
  BY DEF RoutesInv
<1>4. TableSound'
  BY <1>1, <1>2, <1>3 DEF TableSound, RowSound
<1> QED
  BY <1>1, <1>2, <1>4, OffIsRequest, RoutesStepEnds

LEMMA RoutesProbe == ASSUME RoutesInv, ~SealOnline, NEW e \in Editors, probe_and_record(e) PROVE RoutesInv'
<1>1. PICK i \in DOMAIN routes :
        EditorGoes(e, [Off EXCEPT !.pc = "probe", !.id = i, !.name = routes[i].name, !.entry = RouteEntry(routes[i])])
  BY DEF probe_and_record, Begins, EditorGoes
<1> DEFINE r == [Off EXCEPT !.pc = "probe", !.id = i, !.name = routes[i].name, !.entry = RouteEntry(routes[i])]
<1>2. IsRequest(r) /\ r.pc = "probe"
  BY DEF IsRequest, RequestFields, Off
<1>3. TableSound' /\ \A o \in Editors \ {e} : NotSealing(o)
  BY TableStays, BegunAlone DEF probe_and_record
<1> QED
  BY <1>1, <1>2, <1>3, RoutesStepEnds

LEMMA RoutesHealth == ASSUME RoutesInv, NEW e \in Editors, record_health(e) PROVE RoutesInv'
<1>1. EditorGoes(e, Off) /\ UNCHANGED <<lastId, meant>> /\ \A o \in Editors \ {e} : NotSealing(o)
  BY BusyAlone DEF record_health, Ends, EditorGoes
<1>2. /\ lastId \in Nat \ {0} /\ DOMAIN routes \subseteq 1 .. lastId /\ DOMAIN meant = DOMAIN routes
      /\ \A j \in DOMAIN routes : RowSound(j)
  BY DEF RoutesInv
<1>3. DOMAIN routes' = DOMAIN routes
  BY DEF record_health
<1>4. ASSUME NEW j \in DOMAIN routes
      PROVE  /\ DOMAIN routes'[j] = DOMAIN routes[j]
             /\ routes'[j].provider = routes[j].provider /\ routes'[j].api_key = routes[j].api_key
  BY <1>2, ColumnNames DEF record_health, RowSound
<1>5. TableSound'
  BY <1>1, <1>2, <1>3, <1>4 DEF TableSound, RowSound
<1> QED
  BY <1>1, <1>5, OffIsRequest, RoutesStepEnds

\* cli.py model-route seal, while no request is in progress.
LEMMA RoutesSeal == ASSUME RoutesInv, ~SealOnline, NEW e \in Editors, migrate_plaintext_keys(e) PROVE RoutesInv'
<1>1. PICK i \in DOMAIN routes :
          /\ routes[i].api_key.form = "plain"
          /\ EditorGoes(e, [Off EXCEPT !.pc = "seal", !.id = i,
                                       !.entry = [NoRoute EXCEPT !.api_key = Sealed(routes[i].api_key.value)]])
  BY DEF migrate_plaintext_keys, Begins, EditorGoes
<1> DEFINE upcoming == [NoRoute EXCEPT !.api_key = Sealed(routes[i].api_key.value)]
           r == [Off EXCEPT !.pc = "seal", !.id = i, !.entry = upcoming]
<1>2. TableSound' /\ UNCHANGED <<routes, meant>> /\ \A o \in Editors : editor[o].pc = "idle"
  BY TableStays DEF migrate_plaintext_keys, RouteQuiet
<1>3. upcoming.api_key.form = "sealed" /\ upcoming.api_key.value = routes[i].api_key.value
  BY DEF NoRoute, Sealed
<1> HIDE DEF upcoming
<1>4. IsRequest(r) /\ r.pc = "seal" /\ r.id = i /\ r.entry = upcoming
  BY DEF IsRequest, RequestFields, Off
<1> HIDE DEF r
<1>5. editor'[e] = r /\ \A o \in Editors \ {e} : editor'[o] = editor[o]
  BY <1>1, <1>4, EditorMoved DEF r, upcoming
<1>6. upcoming.api_key.value = meant[i]
  BY <1>3 DEF RoutesInv, RowSound, KeyHeld
<1>7. EditorSound(e)'
  BY <1>2, <1>3, <1>4, <1>5, <1>6 DEF EditorSound
<1>8. \A o \in Editors \ {e} : NotSealing(o)
  BY <1>2 DEF NotSealing
<1> QED
  BY <1>1, <1>2, <1>4, <1>7, <1>8, RoutesStep DEF r, upcoming

LEMMA RoutesSealCommit == ASSUME RoutesInv, NEW e \in Editors, migrate_plaintext_commit(e) PROVE RoutesInv'
<1> DEFINE i == editor[e].id
           opener == editor[e].entry.api_key
<1>1. /\ EditorGoes(e, Off) /\ UNCHANGED <<lastId, meant>> /\ \A o \in Editors \ {e} : NotSealing(o)
      /\ i \in DOMAIN routes /\ opener.form = "sealed" /\ opener.value = meant[i]
  BY BusyAlone DEF migrate_plaintext_commit, Ends, EditorGoes, RoutesInv, EditorSound
<1>2. /\ lastId \in Nat \ {0} /\ DOMAIN routes \subseteq 1 .. lastId /\ DOMAIN meant = DOMAIN routes
      /\ \A j \in DOMAIN routes : RowSound(j)
  BY DEF RoutesInv
<1>3. routes' = [routes EXCEPT ![i].api_key = opener]
  BY <1>1 DEF migrate_plaintext_commit
<1> HIDE DEF i, opener
<1>4. /\ DOMAIN routes' = DOMAIN routes /\ \A j \in DOMAIN routes \ {i} : routes'[j] = routes[j]
      /\ routes'[i] = [routes[i] EXCEPT !.api_key = opener]
  BY <1>1, <1>3
<1>5. /\ DOMAIN routes'[i] = DOMAIN routes[i] /\ routes'[i].provider = routes[i].provider
      /\ routes'[i].api_key = opener
  BY <1>1, <1>2, <1>4, ColumnNames DEF RowSound
<1>6. ASSUME NEW j \in DOMAIN routes' PROVE RowSound(j)'
  <2>1. CASE j = i
    BY <1>1, <1>2, <1>5, <2>1 DEF RowSound, KeyHeld
  <2>2. CASE j # i
    BY <1>1, <1>2, <1>4, <2>2 DEF RowSound
  <2> QED
    BY <2>1, <2>2
<1>7. TableSound'
  BY <1>1, <1>2, <1>4, <1>6 DEF TableSound
<1> QED
  BY <1>1, <1>7, OffIsRequest, RoutesStepEnds

LEMMA RoutesRestart == ASSUME RoutesInv, Restarted PROVE RoutesInv'
<1>1. TableSound'
  BY TableStays DEF Restarted
<1>2. \A e \in Editors : editor'[e] = Off
  BY DEF Restarted
<1>3. EditorShaped'
  BY <1>2, OffIsRequest DEF Restarted, EditorShaped, IsRequest
<1>4. \A e \in Editors : EditorSound(e)'
  BY <1>2, OffIsRequest, IdleSound
<1> QED
  BY <1>1, <1>3, <1>4 DEF RoutesInv, TableSound

-----------------------------------------------------------------------------
LEMMA RoutesInvInit == ASSUME RoutesInit PROVE RoutesInv
<1>1. PICK n \in Names : routes = [i \in {1} |->
          Stored([NoRoute EXCEPT !.name = n, !.provider = "openai", !.kind = "chat", !.base_url = "u0",
                                 !.api_key = Plain("old")])]
  BY DEF RoutesInit
<1> DEFINE route == [NoRoute EXCEPT !.name = n, !.provider = "openai", !.kind = "chat", !.base_url = "u0",
                                    !.api_key = Plain("old")]
<1>2. route.provider = "openai" /\ route.api_key = Plain("old")
  BY DEF NoRoute
<1> HIDE DEF route
<1>3. /\ DOMAIN Stored(route) = Columns \cup {"health"}
      /\ Stored(route).provider = route.provider /\ Stored(route).api_key = route.api_key
  BY ColumnNames DEF Stored
<1>4. DOMAIN routes = {1} /\ routes[1] = Stored(route) /\ DOMAIN meant = {1} /\ meant[1] = "old" /\ lastId = 1
  BY <1>1 DEF RoutesInit, route
<1>5. Plain("old").form = "plain" /\ Plain("old").value = "old" /\ "openai" \in PROVIDERS
  BY DEF Plain, PROVIDERS
<1>6. RowSound(1)
  BY <1>2, <1>3, <1>4, <1>5 DEF RowSound, KeyHeld
<1>7. \A e \in Editors : editor[e] = Off
  BY DEF RoutesInit
<1>8. EditorShaped /\ \A e \in Editors : EditorSound(e)
  BY <1>7, OffIsRequest DEF RoutesInit, EditorShaped, IsRequest, EditorSound
<1> QED
  BY <1>4, <1>6, <1>8 DEF RoutesInv

LEMMA RoutesInvNext == ASSUME RoutesInv, ~SealOnline, [RoutesNext]_routeVars PROVE RoutesInv'
<1>1. CASE UNCHANGED routeVars
  <2>1. UNCHANGED <<routes, lastId, meant>> /\ editor' = editor
    BY <1>1 DEF routeVars
  <2>2. TableSound'
    BY <2>1, TableStays
  <2>3. ASSUME NEW e \in Editors PROVE EditorSound(e)'
    <3>1. EditorSound(e)
      BY DEF RoutesInv
    <3> QED
      BY <2>1, <3>1 DEF EditorSound, EntrySound, KeyNamed
  <2> QED
    BY <2>1, <2>2, <2>3 DEF RoutesInv, TableSound, EditorShaped
<1>2. CASE Restarted
  BY <1>2, RoutesRestart
<1>3. CASE \E e \in Editors :
         \/ create(e) \/ _commit_new(e) \/ update(e) \/ update_commit(e) \/ delete(e)
         \/ probe_and_record(e) \/ record_health(e) \/ migrate_plaintext_keys(e) \/ migrate_plaintext_commit(e)
  BY <1>3, RoutesCreate, RoutesInsert, RoutesUpdate, RoutesUpdateCommit, RoutesDelete, RoutesProbe, RoutesHealth,
     RoutesSeal, RoutesSealCommit
<1> QED
  BY <1>1, <1>2, <1>3 DEF RoutesNext

\* However the edits of a route overlap, and whatever the process restarts with,
\* as long as the sealing of old keys runs beside no request: a key that opens is
\* the one the last accepted body meant, no new key is in the clear, and what is
\* published could be saved as it is (services/model_routes.py).
THEOREM RoutesHold == ASSUME ~SealOnline PROVE RoutesSpec => []RoutesTrue
<1>1. RoutesInv /\ [RoutesNext]_routeVars => RoutesInv'
  BY RoutesInvNext
<1> QED
  BY <1>1, RoutesInvInit, RoutesInvHolds, PTL DEF RoutesSpec

-----------------------------------------------------------------------------
(* The runners: whose a work root is, and what a task at work stands on.    *)

\* A number has one decimal form.
DecimalApart == \A i, j \in Nat : ToString(i) = ToString(j) => i = j
OneOperator == \A o, p \in Operators : o = p

\* The paths an operator may set lie outside runners/, and none of them is inside
\* the checkout of a task of another.
Explicit == Subdirs \ {<<>>}
PathsApart ==
    /\ \A s \in Explicit : s[1] # DEFAULT_WORKSPACE_SUBDIR
    /\ \A s, t \in Explicit, i \in Nat : Len(s) < Len(t) /\ IsPrefix(s, t) => t[Len(s) + 1] # ToString(i)

Segments == STRING \cup {DEFAULT_WORKSPACE_SUBDIR} \cup {ToString(i) : i \in Nat}
Default(i) == <<DEFAULT_WORKSPACE_SUBDIR, ToString(i)>>
Roots == Explicit \cup {Default(i) : i \in Nat}

Numbered(row) ==
    /\ {"id", "subdir"} \subseteq DOMAIN row /\ row.id \in 1 .. ids
    /\ row.subdir \in {<<>>, Default(row.id)} \cup Explicit
RowsSound ==
    /\ ids \in Nat
    /\ \A r \in DOMAIN rows : Numbered(rows[r])
    /\ \A r, s \in DOMAIN rows : rows[r].id = rows[s].id => r = s
    /\ WorkspacesApart

\* What an operator's change to a row was checked against.
Checked(o) == "workspace_subdir" \in DOMAIN act[o].body =>
    \A s \in DOMAIN rows \ {act[o].repo} :
        _effective_subdir(rows[s]) # safe_workspace_subdir(act[o].body.workspace_subdir, act[o].read.id)

Asked(b) ==
    /\ DOMAIN b \cap {"id", "subdir"} = {}
    /\ "workspace_subdir" \in DOMAIN b => b.workspace_subdir \in Subdirs

ActorSound(a) ==
    /\ DOMAIN act[a] = DOMAIN NoTask
    /\ act[a].pc \in {"found", "write", "credential", "root"} =>
           act[a].repo \in DOMAIN rows /\ act[a].read.id = rows[act[a].repo].id
    /\ act[a].pc = "flushed" =>
           /\ act[a].id \in 1 .. ids /\ act[a].repo \notin DOMAIN rows
           /\ \A r \in DOMAIN rows : rows[r].id # act[a].id
    /\ act[a].goal = "update" => Asked(act[a].body)
    /\ act[a].pc = "write" => a \in Operators /\ act[a].goal = "update" /\ Checked(a)

FlushedApart == \A a, b \in Actors : act[a].pc = "flushed" /\ act[b].pc = "flushed" /\ a # b =>
    act[a].id # act[b].id /\ act[a].repo # act[b].repo

\* The directories are a tree; only a checkout is marked, and none is the root's child.
Tree(d) ==
    /\ \A p \in DOMAIN d : p \in Seq(Segments) /\ DOMAIN d[p] = {"real", "group", "done"}
    /\ \A p \in DOMAIN d : \A q \in Prefixes(p) : q \in DOMAIN d /\ (q # p => d[q].real)
    /\ \A p \in DOMAIN d : d[p].done # Never => Len(p) > 1

\* A path the sandbox's user can go down.
Open(d, path) == \A p \in Prefixes(path) : p \in DOMAIN d /\ d[p].real /\ d[p].group

WorkerSound(w) ==
    /\ act[w].pc = "idle" => act[w].task = 0
    /\ act[w].pc # "idle" => act[w].task \in 1 .. Len(tasks)
    /\ act[w].pc # "idle" => act[w].goal = "task"
    /\ act[w].pc \in {"clone", "handover", "spawn", "running", "end"} => act[w].root \in Roots
    /\ act[w].pc \in {"spawn", "running", "end"} /\ sandbox.conf = "pair" => Open(dirs, workdir(w))
    /\ act[w].pc = "running" =>
           act[w].uid = (IF sandbox.conf = "unset" THEN "worker" ELSE "sandbox") /\ sandbox.conf \in {"unset", "pair"}
TasksApart == \A v, w \in Workers : v # w => act[v].task = 0 \/ act[v].task # act[w].task

RunnersInv ==
    /\ act = [a \in Actors |-> act[a]] /\ tasks \in Seq(Repos) /\ sandbox \in Sandboxes
    /\ RowsSound /\ (\A a \in Actors : ActorSound(a)) /\ FlushedApart
    /\ Tree(dirs) /\ (\A w \in Workers : WorkerSound(w)) /\ TasksApart

-----------------------------------------------------------------------------
(* Paths.                                                                  *)

LEMMA SegmentsHold == STRING \subseteq Segments /\ (\A i \in Nat : ToString(i) \in Segments) /\ Roots \subseteq Seq(Segments)
<1>1. STRING \subseteq Segments /\ \A i \in Nat : ToString(i) \in Segments
  BY DEF Segments
<1>2. ASSUME NEW s \in Explicit PROVE s \in Seq(Segments)
  <2>1. s \in Seq(STRING)
    BY RunnersAssumption DEF Explicit
  <2>2. \A i \in 1 .. Len(s) : s[i] \in STRING
    BY <2>1
  <2>3. \A i \in 1 .. Len(s) : s[i] \in Segments
    BY <2>2 DEF Segments
  <2>4. s = [i \in 1 .. Len(s) |-> s[i]] /\ Len(s) \in Nat
    BY <2>1
  <2>5. [i \in 1 .. Len(s) |-> s[i]] \in [1 .. Len(s) -> Segments]
    BY <2>3
  <2> HIDE DEF Segments
  <2> QED BY <2>4, <2>5
<1>3. ASSUME NEW i \in Nat PROVE Default(i) \in Seq(Segments)
  <2>2. DEFAULT_WORKSPACE_SUBDIR \in Segments
    BY DEF Segments
  <2>3. ToString(i) \in Segments
    BY DEF Segments
  <2> QED BY <2>2, <2>3 DEF Default
<1> QED BY <1>1, <1>2, <1>3 DEF Roots

\* Two paths, one of them above the other.
LEMMA PrefixSays ==
    ASSUME NEW S, NEW p \in Seq(S), NEW q \in Seq(S)
    PROVE  /\ IsPrefix(p, q) <=> Len(p) <= Len(q) /\ \A i \in 1 .. Len(p) : p[i] = q[i]
           /\ IsPrefix(p, q) /\ Len(p) = Len(q) => p = q
<1>1. /\ Len(p) \in Nat /\ Len(q) \in Nat /\ p = [i \in 1 .. Len(p) |-> p[i]] /\ q = [i \in 1 .. Len(q) |-> q[i]]
      /\ SubSeq(p, 1, Len(p)) = [i \in 1 .. Len(p) |-> p[i]]
  OBVIOUS
<1>2. ASSUME Len(p) <= Len(q) PROVE SubSeq(q, 1, Len(p)) = [i \in 1 .. Len(p) |-> q[i]]
  BY <1>1, <1>2
<1>3. ASSUME Len(p) <= Len(q)
      PROVE  [i \in 1 .. Len(p) |-> p[i]] = [i \in 1 .. Len(p) |-> q[i]] <=> \A i \in 1 .. Len(p) : p[i] = q[i]
  <2> DEFINE f == [i \in 1 .. Len(p) |-> p[i]]
             g == [i \in 1 .. Len(p) |-> q[i]]
  <2>1. /\ DOMAIN f = 1 .. Len(p) /\ DOMAIN g = 1 .. Len(p)
        /\ \A i \in 1 .. Len(p) : f[i] = p[i] /\ g[i] = q[i]
    OBVIOUS
  <2> QED BY <2>1
<1>4. IsPrefix(p, q) <=> Len(p) <= Len(q) /\ \A i \in 1 .. Len(p) : p[i] = q[i]
  BY <1>1, <1>2, <1>3 DEF IsPrefix
<1>5. IsPrefix(p, q) /\ Len(p) = Len(q) => p = q
  BY <1>1, <1>4
<1> QED BY <1>4, <1>5

LEMMA PrefixesAre ==
    ASSUME NEW S, NEW p \in Seq(S)
    PROVE  /\ \A q \in Prefixes(p) : q \in Seq(S) /\ IsPrefix(q, p) /\ Len(q) <= Len(p)
           /\ \A q \in Seq(S) : IsPrefix(q, p) => q \in Prefixes(p)
           /\ p \in Prefixes(p)
<1>1. Len(p) \in Nat
  OBVIOUS
<1>2. ASSUME NEW l \in 0 .. Len(p)
      PROVE  /\ SubSeq(p, 1, l) \in Seq(S) /\ Len(SubSeq(p, 1, l)) = l
             /\ \A i \in 1 .. l : SubSeq(p, 1, l)[i] = p[i]
  BY <1>1
<1>3. ASSUME NEW q \in Prefixes(p) PROVE q \in Seq(S) /\ IsPrefix(q, p) /\ Len(q) <= Len(p)
  <2>1. PICK l \in 0 .. Len(p) : q = SubSeq(p, 1, l)
    BY DEF Prefixes
  <2>2. q \in Seq(S) /\ Len(q) = l /\ \A i \in 1 .. l : q[i] = p[i]
    BY <1>2, <2>1
  <2> QED BY <1>1, <2>2, PrefixSays
<1>4. ASSUME NEW q \in Seq(S), IsPrefix(q, p) PROVE q \in Prefixes(p)
  <2>1. Len(q) \in 0 .. Len(p) /\ \A i \in 1 .. Len(q) : q[i] = p[i]
    BY <1>1, <1>4, PrefixSays
  <2> DEFINE z == SubSeq(p, 1, Len(q))
  <2>2. z \in Seq(S) /\ Len(z) = Len(q) /\ \A i \in 1 .. Len(q) : z[i] = p[i]
    BY <1>2, <2>1
  <2>3. z \in Prefixes(p)
    BY <2>1 DEF Prefixes
  <2> HIDE DEF z
  <2>4. z = q
    BY <2>1, <2>2
  <2> QED BY <2>3, <2>4
<1>5. IsPrefix(p, p)
  BY <1>1, PrefixSays
<1> QED BY <1>3, <1>4, <1>5

LEMMA PrefixTransitive ==
    ASSUME NEW S, NEW p \in Seq(S), NEW q \in Seq(S), NEW r \in Seq(S), IsPrefix(p, q), IsPrefix(q, r)
    PROVE  IsPrefix(p, r)
<1>1. /\ Len(p) \in Nat /\ Len(q) \in Nat /\ Len(r) \in Nat /\ Len(p) <= Len(q) /\ Len(q) <= Len(r)
      /\ \A i \in 1 .. Len(p) : p[i] = q[i]
      /\ \A i \in 1 .. Len(q) : q[i] = r[i]
  BY PrefixSays
<1>2. \A i \in 1 .. Len(p) : i \in 1 .. Len(q)
  BY <1>1
<1>3. \A i \in 1 .. Len(p) : p[i] = r[i]
  BY <1>1, <1>2
<1>4. Len(p) <= Len(r)
  BY <1>1
<1> QED BY <1>3, <1>4, PrefixSays

\* What lies below a directory, and what is made for a path.
LEMMA PrefixesNest ==
    ASSUME NEW S, NEW p \in Seq(S)
    PROVE  \A q \in Prefixes(p) : \A r \in Prefixes(q) : r \in Prefixes(p) /\ (r # q => r # p)
<1>1. TAKE q \in Prefixes(p)
<1>2. TAKE r \in Prefixes(q)
<1>3. q \in Seq(S) /\ IsPrefix(q, p) /\ Len(q) <= Len(p)
  BY PrefixesAre
<1>4. r \in Seq(S) /\ IsPrefix(r, q) /\ Len(r) <= Len(q)
  BY <1>3, PrefixesAre
<1>5. r \in Prefixes(p)
  BY <1>3, <1>4, PrefixTransitive, PrefixesAre
<1>6. ASSUME r = p PROVE r = q
  <2>1. Len(q) \in Nat /\ Len(p) \in Nat /\ Len(r) = Len(q)
    BY <1>3, <1>4, <1>6
  <2> QED BY <1>3, <1>4, <2>1, PrefixSays
<1> QED BY <1>5, <1>6

LEMMA PrefixesAppend ==
    ASSUME NEW S, NEW p \in Seq(S), NEW x \in S
    PROVE  /\ Append(p, x) \in Seq(S) /\ Prefixes(Append(p, x)) = Prefixes(p) \cup {Append(p, x)}
           /\ Len(Append(p, x)) = Len(p) + 1
<1> DEFINE a == Append(p, x)
<1>1. a \in Seq(S) /\ Len(p) \in Nat /\ Len(a) = Len(p) + 1 /\ \A i \in 1 .. Len(p) : a[i] = p[i]
  OBVIOUS
<1> HIDE DEF a
<1>2. IsPrefix(p, a)
  BY <1>1, PrefixSays
<1>3. \A q \in Prefixes(p) : q \in Prefixes(a)
  BY <1>1, <1>2, PrefixesAre, PrefixTransitive
<1>4. ASSUME NEW q \in Prefixes(a), q # a PROVE q \in Prefixes(p)
  <2>1. q \in Seq(S) /\ IsPrefix(q, a) /\ Len(q) <= Len(a) /\ Len(q) \in Nat
    BY <1>1, PrefixesAre
  <2>2. Len(q) # Len(a)
    BY <1>1, <1>4, <2>1, PrefixSays
  <2>3. Len(q) <= Len(p)
    BY <1>1, <2>1, <2>2
  <2>4. \A i \in 1 .. Len(q) : q[i] = a[i]
    BY <1>1, <2>1, PrefixSays
  <2>5. \A i \in 1 .. Len(q) : i \in 1 .. Len(p)
    BY <1>1, <2>1, <2>3
  <2>6. \A i \in 1 .. Len(q) : q[i] = p[i]
    BY <1>1, <2>4, <2>5
  <2>7. IsPrefix(q, p)
    BY <2>1, <2>3, <2>6, PrefixSays
  <2> QED BY <2>1, <2>7, PrefixesAre
<1>5. a \in Prefixes(a)
  BY <1>1, PrefixesAre
<1>6. Prefixes(a) = Prefixes(p) \cup {a}
  BY <1>3, <1>4, <1>5
<1> QED BY <1>1, <1>6 DEF a

\* Two checkouts, one of them above the other.
LEMMA CheckoutPrefix ==
    ASSUME NEW S, NEW p \in Seq(S), NEW q \in Seq(S), NEW x \in S, NEW y \in S, IsPrefix(Append(p, x), Append(q, y))
    PROVE  \/ p = q /\ x = y
           \/ Len(p) < Len(q) /\ IsPrefix(p, q) /\ q[Len(p) + 1] = x
<1> DEFINE a == Append(p, x)
           b == Append(q, y)
<1>1. /\ a \in Seq(S) /\ Len(p) \in Nat /\ Len(a) = Len(p) + 1 /\ a[Len(p) + 1] = x
      /\ \A i \in 1 .. Len(p) : a[i] = p[i]
  OBVIOUS
<1>2. /\ b \in Seq(S) /\ Len(q) \in Nat /\ Len(b) = Len(q) + 1 /\ b[Len(q) + 1] = y
      /\ \A i \in 1 .. Len(q) : b[i] = q[i]
  OBVIOUS
<1> HIDE DEF a, b
<1>3. IsPrefix(a, b)
  BY DEF a, b
<1>4. Len(a) <= Len(b) /\ \A i \in 1 .. Len(a) : a[i] = b[i]
  BY <1>1, <1>2, <1>3, PrefixSays
<1>5. Len(p) <= Len(q)
  BY <1>1, <1>2, <1>4
<1>6. ASSUME NEW i \in 1 .. Len(p) PROVE p[i] = q[i]
  <2>1. i \in 1 .. Len(a) /\ i \in 1 .. Len(q)
    BY <1>1, <1>2, <1>5
  <2> QED BY <1>1, <1>2, <1>4, <2>1
<1>7. Len(p) + 1 \in 1 .. Len(a)
  BY <1>1
<1>8. CASE Len(p) = Len(q)
  <2>1. p = q
    BY <1>6, <1>8
  <2>2. x = y
    BY <1>1, <1>2, <1>4, <1>7, <1>8
  <2> QED BY <2>1, <2>2
<1>9. CASE Len(p) < Len(q)
  <2>1. Len(p) + 1 \in 1 .. Len(q)
    BY <1>1, <1>2, <1>9
  <2>2. q[Len(p) + 1] = x
    BY <1>1, <1>2, <1>4, <1>7, <2>1
  <2>3. IsPrefix(p, q)
    BY <1>5, <1>6, PrefixSays
  <2> QED BY <1>9, <2>2, <2>3
<1> QED BY <1>1, <1>2, <1>5, <1>8, <1>9

-----------------------------------------------------------------------------
(* One actor's step.                                                       *)

LEMMA OverIs ==
    ASSUME NEW f, NEW g
    PROVE  /\ DOMAIN Over(f, g) = DOMAIN f \cup DOMAIN g
           /\ \A x \in DOMAIN f : Over(f, g)[x] = f[x]
           /\ \A x \in DOMAIN g \ DOMAIN f : Over(f, g)[x] = g[x]
BY DEF Over

LEMMA TaskFields ==
    /\ DOMAIN NoTask = {"pc", "goal", "repo", "body", "id", "read", "task", "token", "source", "root", "uid"}
    /\ NoTask.pc = "idle" /\ NoTask.goal = "" /\ NoTask.task = 0
BY DEF NoTask

LEMMA ProceedsIs ==
    ASSUME RunnersInv, NEW a \in Actors, NEW fields, DOMAIN fields \subseteq DOMAIN NoTask, Proceeds(a, fields)
    PROVE  /\ act' = [b \in Actors |-> act'[b]] /\ DOMAIN act'[a] = DOMAIN NoTask
           /\ \A b \in Actors \ {a} : act'[b] = act[b]
           /\ \A c \in DOMAIN fields : act'[a][c] = fields[c]
           /\ \A c \in DOMAIN NoTask : c \notin DOMAIN fields => act'[a][c] = act[a][c]
<1>1. act = [b \in Actors |-> act[b]] /\ DOMAIN act[a] = DOMAIN NoTask
  BY DEF RunnersInv, ActorSound
<1>2. act' = [act EXCEPT ![a] = Over(fields, act[a])]
  BY DEF Proceeds
<1>3. act'[a] = Over(fields, act[a]) /\ \A b \in Actors \ {a} : act'[b] = act[b]
  BY <1>1, <1>2
<1>4. act' = [b \in Actors |-> act'[b]]
  BY <1>1, <1>2
<1> DEFINE old == act[a]
           new == act'[a]
<1>5. DOMAIN old = DOMAIN NoTask /\ new = Over(fields, old)
  BY <1>1, <1>3
<1> HIDE DEF old, new
<1>6. DOMAIN new = DOMAIN fields \cup DOMAIN NoTask
  BY <1>5, OverIs
<1>7. ASSUME NEW c \in DOMAIN fields PROVE new[c] = fields[c]
  <2>1. Over(fields, old)[c] = fields[c]
    BY OverIs
  <2> QED BY <1>5, <2>1
<1>8. ASSUME NEW c \in DOMAIN NoTask, c \notin DOMAIN fields PROVE new[c] = old[c]
  <2>1. c \in DOMAIN old \ DOMAIN fields
    BY <1>5, <1>8
  <2>2. \A x \in DOMAIN old \ DOMAIN fields : Over(fields, old)[x] = old[x]
    BY OverIs
  <2>3. Over(fields, old)[c] = old[c]
    BY <2>1, <2>2
  <2> QED BY <1>5, <2>3
<1>9. DOMAIN new = DOMAIN NoTask
  BY <1>6
<1> QED BY <1>3, <1>4, <1>7, <1>8, <1>9 DEF old, new

LEMMA RefuseIs ==
    ASSUME RunnersInv, NEW a \in Actors, Refuse(a)
    PROVE  /\ act' = [b \in Actors |-> act'[b]] /\ act'[a] = NoTask
           /\ \A b \in Actors \ {a} : act'[b] = act[b]
BY DEF RunnersInv, Refuse

\* Beside an actor's step nobody else moves; what they stand on stays.
LEMMA OneMoves ==
    ASSUME RunnersInv, NEW a \in Actors, UNCHANGED sandbox,
           act' = [b \in Actors |-> act'[b]], \A b \in Actors \ {a} : act'[b] = act[b],
           tasks' \in Seq(Repos), Len(tasks) <= Len(tasks'),
           RowsSound', Tree(dirs)', \A b \in Actors \ {a} : ActorSound(b)', ActorSound(a)',
           act'[a].pc = "flushed" => \A b \in Actors \ {a} :
               act[b].pc = "flushed" => act[b].id # act'[a].id /\ act[b].repo # act'[a].repo,
           \A w \in Workers \ {a} : act[w].pc \in {"spawn", "running", "end"} /\ Open(dirs, workdir(w)) => Open(dirs, workdir(w))',
           a \in Workers => WorkerSound(a)',
           a \in Workers => act'[a].task \in {0, act[a].task} \/ \A v \in Workers \ {a} : act[v].task # act'[a].task
    PROVE  RunnersInv'
<1>1. \A b \in Actors : ActorSound(b)'
  OBVIOUS
<1>2. FlushedApart'
  BY DEF RunnersInv, FlushedApart
<1>3. ASSUME NEW w \in Workers \ {a} PROVE WorkerSound(w)'
  <2>1. w \in Actors /\ act'[w] = act[w] /\ WorkerSound(w)
    BY DEF Actors, RunnersInv
  <2>2. act[w].task \in 1 .. Len(tasks) => act[w].task \in 1 .. Len(tasks')
    <3>1. Len(tasks) \in Nat /\ Len(tasks') \in Nat
      BY DEF RunnersInv
    <3> QED BY <3>1
  <2>3. act[w].pc \in {"spawn", "running", "end"} /\ sandbox.conf = "pair" => Open(dirs, workdir(w))'
    BY <2>1 DEF WorkerSound
  <2> QED BY <2>1, <2>2, <2>3 DEF WorkerSound
<1>4. \A w \in Workers : WorkerSound(w)'
  BY <1>3
<1>5. TasksApart'
  <2>1. Workers \subseteq Actors
    BY DEF Actors
  <2>2. TasksApart
    BY DEF RunnersInv
  <2>3. ASSUME NEW v \in Workers, NEW w \in Workers, v # w PROVE act'[v].task = 0 \/ act'[v].task # act'[w].task
    <3>1. CASE v # a /\ w # a
      BY <2>1, <2>2, <2>3, <3>1 DEF TasksApart
    <3>2. CASE v = a
      BY <2>1, <2>2, <2>3, <3>2 DEF TasksApart
    <3>3. CASE w = a
      BY <2>1, <2>2, <2>3, <3>3 DEF TasksApart
    <3> QED BY <3>1, <3>2, <3>3
  <2> QED BY <2>3 DEF TasksApart
<1>6. sandbox' \in Sandboxes
  BY DEF RunnersInv
<1> QED BY <1>1, <1>2, <1>4, <1>5, <1>6 DEF RunnersInv

LEMMA OpenKept ==
    ASSUME NEW w, act'[w] = act[w], Open(dirs, workdir(w)),
           \A p \in DOMAIN dirs : p \in DOMAIN dirs' /\ dirs'[p].real = dirs[p].real /\ (dirs[p].group => dirs'[p].group)
    PROVE  Open(dirs, workdir(w))'
BY DEF Open, workdir

\* A step that writes no row and no directory.
LEMMA ActorMoves ==
    ASSUME RunnersInv, NEW a \in Actors, UNCHANGED <<rows, ids, dirs, tasks, sandbox>>,
           act' = [b \in Actors |-> act'[b]], \A b \in Actors \ {a} : act'[b] = act[b],
           ActorSound(a)', act'[a].pc # "flushed",
           a \in Workers => WorkerSound(a)', a \in Workers => act'[a].task \in {0, act[a].task}
    PROVE  RunnersInv'
<1>1. RowsSound' /\ Tree(dirs)' /\ tasks' \in Seq(Repos) /\ Len(tasks) <= Len(tasks')
  <2>1. Len(tasks) \in Nat /\ tasks' = tasks /\ tasks \in Seq(Repos)
    BY DEF RunnersInv
  <2> QED BY <2>1 DEF RunnersInv, RowsSound, Numbered, Tree, WorkspacesApart, _effective_subdir, safe_workspace_subdir
<1>2. ASSUME NEW b \in Actors \ {a} PROVE ActorSound(b)'
  BY DEF RunnersInv, ActorSound, Checked
<1>3. \A w \in Workers \ {a} : Open(dirs, workdir(w)) => Open(dirs, workdir(w))'
  BY DEF Open, workdir, Actors
<1> QED BY <1>1, <1>2, <1>3, OneMoves

\* An actor that gives up.
LEMMA IdleTask ==
    ASSUME NEW a, act'[a] = NoTask PROVE ActorSound(a)' /\ WorkerSound(a)'
BY TaskFields DEF ActorSound, WorkerSound

LEMMA RefuseMoves ==
    ASSUME RunnersInv, NEW a \in Actors, UNCHANGED <<rows, ids, dirs, tasks, sandbox>>, Refuse(a)
    PROVE  RunnersInv'
<1>1. act'[a].pc = "idle" /\ act'[a].task = 0 /\ ActorSound(a)' /\ WorkerSound(a)'
  BY RefuseIs, IdleTask, TaskFields
<1> QED BY <1>1, RefuseIs, ActorMoves

-----------------------------------------------------------------------------
(* Requests, and the row they find or make.                                *)

LEMMA RolesApart == Operators \subseteq Actors /\ Workers \subseteq Actors /\ \A o \in Operators : o \notin Workers
BY RunnersAssumption DEF Actors

LEMMA RequestStep ==
    ASSUME RunnersInv, NEW o \in Operators, NEW r \in Repos, NEW goal, NEW body, Request(o, r, goal, body),
           goal = "update" => Asked(body)
    PROVE  RunnersInv'
<1> DEFINE fields == [pc |-> "find", goal |-> goal, repo |-> r, body |-> body]
<1>1. o \in Actors /\ o \notin Workers
  BY RolesApart
<1>2. DOMAIN fields = {"pc", "goal", "repo", "body"} /\ fields.pc = "find" /\ fields.goal = goal /\ fields.body = body
  OBVIOUS
<1>3. Proceeds(o, fields) /\ UNCHANGED <<rows, ids, tasks, dirs, sandbox>>
  BY DEF Request
<1> HIDE DEF fields
<1>4. DOMAIN fields \subseteq DOMAIN NoTask
  BY <1>2, TaskFields
<1>5. /\ act' = [b \in Actors |-> act'[b]] /\ DOMAIN act'[o] = DOMAIN NoTask
      /\ \A b \in Actors \ {o} : act'[b] = act[b]
      /\ \A c \in DOMAIN fields : act'[o][c] = fields[c]
  BY <1>1, <1>3, <1>4, ProceedsIs
<1>6. act'[o].pc = "find" /\ act'[o].goal = goal /\ act'[o].body = body
  BY <1>2, <1>5
<1>7. ActorSound(o)'
  BY <1>5, <1>6 DEF ActorSound, Asked
<1> QED BY <1>1, <1>3, <1>5, <1>6, <1>7, ActorMoves

LEMMA RequestSteps ==
    ASSUME RunnersInv, NEW o \in Operators, NEW r \in Repos,
           update_runner(o, r) \/ put_runner_credential(o, r) \/ delete_runner_credential(o, r)
    PROVE  RunnersInv'
<1>1. CASE update_runner(o, r)
  <2>1. PICK body \in {[workspace_subdir |-> s] : s \in Subdirs} \cup {[enabled |-> FALSE], [max_concurrency |-> 1]} :
             Request(o, r, "update", body)
    BY <1>1 DEF update_runner
  <2>2. Asked(body)
    <3>1. CASE body \in {[workspace_subdir |-> s] : s \in Subdirs}
      <4>1. PICK s \in Subdirs : body = [workspace_subdir |-> s]
        BY <3>1
      <4> QED BY <4>1 DEF Asked
    <3>2. CASE body \in {[enabled |-> FALSE], [max_concurrency |-> 1]}
      BY <3>2 DEF Asked
    <3> QED BY <3>1, <3>2
  <2> QED BY <2>1, <2>2, RequestStep
<1>2. CASE put_runner_credential(o, r)
  <2>1. PICK t \in Tokens, e \in {Never, 1} : Request(o, r, "set", [token |-> t, expires_at |-> e])
    BY <1>2 DEF put_runner_credential
  <2> QED BY <2>1, RequestStep
<1>3. CASE delete_runner_credential(o, r)
  <2>1. Request(o, r, "clear", <<>>)
    BY <1>3 DEF delete_runner_credential
  <2> QED BY <2>1, RequestStep
<1> QED BY <1>1, <1>2, <1>3

\* A task keeps its place when only the step it is at changes.
LEMMA EarlySound ==
    ASSUME RunnersInv, NEW w \in Workers, UNCHANGED tasks, act[w].pc # "idle",
           act'[w].pc \in {"find", "insert", "flushed", "found", "credential", "root"},
           act'[w].task = act[w].task, act'[w].goal = act[w].goal
    PROVE  WorkerSound(w)' /\ act[w].goal = "task"
BY DEF RunnersInv, WorkerSound

LEMMA FindStep == ASSUME RunnersInv, NEW a \in Actors, _runner_row(a) PROVE RunnersInv'
<1> DEFINE r == act[a].repo
<1>1. act[a].pc = "find" /\ UNCHANGED <<rows, ids, tasks, dirs, sandbox>>
  BY DEF _runner_row, Elsewhere
<1>2. act[a].goal = "update" => Asked(act[a].body)
  BY DEF RunnersInv, ActorSound
<1>3. CASE r \in DOMAIN rows
  <2> DEFINE fields == [pc |-> "found", read |-> rows[r]]
  <2>1. DOMAIN fields = {"pc", "read"} /\ fields.pc = "found" /\ fields.read = rows[r] /\ Proceeds(a, fields)
    BY <1>3 DEF _runner_row
  <2> HIDE DEF fields
  <2>2. DOMAIN fields \subseteq DOMAIN NoTask
    BY <2>1, TaskFields
  <2>3. /\ act' = [b \in Actors |-> act'[b]] /\ DOMAIN act'[a] = DOMAIN NoTask
        /\ \A b \in Actors \ {a} : act'[b] = act[b]
        /\ \A c \in DOMAIN fields : act'[a][c] = fields[c]
        /\ \A c \in DOMAIN NoTask : c \notin DOMAIN fields => act'[a][c] = act[a][c]
    BY <2>1, <2>2, ProceedsIs
  <2>4. /\ act'[a].pc = "found" /\ act'[a].read = rows[r] /\ act'[a].repo = r /\ act'[a].goal = act[a].goal
        /\ act'[a].body = act[a].body /\ act'[a].task = act[a].task
    BY <2>1, <2>3, TaskFields
  <2>5. ActorSound(a)'
    BY <1>1, <1>2, <1>3, <2>3, <2>4 DEF ActorSound, Asked
  <2>6. a \in Workers => WorkerSound(a)'
    BY <1>1, <2>4, EarlySound
  <2> QED BY <1>1, <2>3, <2>4, <2>5, <2>6, ActorMoves
<1>4. CASE r \notin DOMAIN rows
  <2> DEFINE fields == [pc |-> "insert"]
  <2>1. DOMAIN fields = {"pc"} /\ fields.pc = "insert" /\ Proceeds(a, fields)
    BY <1>4 DEF _runner_row
  <2> HIDE DEF fields
  <2>2. DOMAIN fields \subseteq DOMAIN NoTask
    BY <2>1, TaskFields
  <2>3. /\ act' = [b \in Actors |-> act'[b]] /\ DOMAIN act'[a] = DOMAIN NoTask
        /\ \A b \in Actors \ {a} : act'[b] = act[b]
        /\ \A c \in DOMAIN fields : act'[a][c] = fields[c]
        /\ \A c \in DOMAIN NoTask : c \notin DOMAIN fields => act'[a][c] = act[a][c]
    BY <2>1, <2>2, ProceedsIs
  <2>4. /\ act'[a].pc = "insert" /\ act'[a].goal = act[a].goal
        /\ act'[a].body = act[a].body /\ act'[a].task = act[a].task
    BY <2>1, <2>3, TaskFields
  <2>5. ActorSound(a)'
    BY <1>1, <1>2, <2>3, <2>4 DEF ActorSound, Asked
  <2>6. a \in Workers => WorkerSound(a)'
    BY <1>1, <2>4, EarlySound
  <2> QED BY <1>1, <2>3, <2>4, <2>5, <2>6, ActorMoves
<1> QED BY <1>3, <1>4

LEMMA IdsGrow ==
    ASSUME RunnersInv, ids' = ids + 1, UNCHANGED rows
    PROVE  RowsSound' /\ \A b \in Actors : act'[b] = act[b] => ActorSound(b)'
<1>1. ids \in Nat /\ ids' \in Nat
  BY DEF RunnersInv, RowsSound
<1>2. \A i \in 1 .. ids : i \in 1 .. ids'
  BY <1>1
<1>3. ASSUME NEW r \in DOMAIN rows PROVE Numbered(rows[r])'
  <2>1. Numbered(rows[r])
    BY DEF RunnersInv, RowsSound
  <2> QED BY <1>2, <2>1 DEF Numbered
<1>4. RowsSound'
  <2>1. WorkspacesApart'
    BY DEF RunnersInv, RowsSound, WorkspacesApart, _effective_subdir, safe_workspace_subdir
  <2> QED BY <1>1, <1>3, <2>1 DEF RunnersInv, RowsSound
<1>5. ASSUME NEW b \in Actors, act'[b] = act[b] PROVE ActorSound(b)'
  <2>1. ActorSound(b)
    BY DEF RunnersInv
  <2> QED BY <1>2, <1>5, <2>1 DEF ActorSound, Checked
<1> QED BY <1>4, <1>5

\* A number nobody has is taken, and waits for the commit.
LEMMA CreateStep == ASSUME RunnersInv, NEW a \in Actors, _create(a) PROVE RunnersInv'
<1> DEFINE r == act[a].repo
<1>1. act[a].pc = "insert" /\ UNCHANGED <<rows, tasks, dirs, sandbox>> /\ ids \in Nat
  BY DEF _create, Elsewhere, RunnersInv, RowsSound
<1>2. act[a].goal = "update" => Asked(act[a].body)
  BY DEF RunnersInv, ActorSound
<1>3. Tree(dirs)' /\ tasks' \in Seq(Repos) /\ Len(tasks) <= Len(tasks')
  <2>1. Len(tasks) \in Nat
    BY DEF RunnersInv
  <2> QED BY <1>1, <2>1 DEF RunnersInv, Tree
<1>4. \A w \in Workers \ {a} : act'[w] = act[w] /\ Open(dirs, workdir(w)) => Open(dirs, workdir(w))'
  BY <1>1 DEF Open, workdir
<1>5. ASSUME r \in DOMAIN rows, UNCHANGED ids, Proceeds(a, [pc |-> "found", read |-> rows[r]]) PROVE RunnersInv'
  <2> DEFINE fields == [pc |-> "found", read |-> rows[r]]
  <2>1. DOMAIN fields = {"pc", "read"} /\ fields.pc = "found" /\ fields.read = rows[r] /\ Proceeds(a, fields)
    BY <1>5
  <2> HIDE DEF fields
  <2>2. DOMAIN fields \subseteq DOMAIN NoTask
    BY <2>1, TaskFields
  <2>3. /\ act' = [b \in Actors |-> act'[b]] /\ DOMAIN act'[a] = DOMAIN NoTask
        /\ \A b \in Actors \ {a} : act'[b] = act[b]
        /\ \A c \in DOMAIN fields : act'[a][c] = fields[c]
        /\ \A c \in DOMAIN NoTask : c \notin DOMAIN fields => act'[a][c] = act[a][c]
    BY <2>1, <2>2, ProceedsIs
  <2>4. /\ act'[a].pc = "found" /\ act'[a].read = rows[r] /\ act'[a].repo = r /\ act'[a].goal = act[a].goal
        /\ act'[a].body = act[a].body /\ act'[a].task = act[a].task
    BY <2>1, <2>3, TaskFields
  <2>5. ActorSound(a)'
    BY <1>1, <1>2, <1>5, <2>3, <2>4 DEF ActorSound, Asked
  <2>6. a \in Workers => WorkerSound(a)'
    BY <1>1, <2>4, EarlySound
  <2> QED BY <1>1, <1>5, <2>3, <2>4, <2>5, <2>6, ActorMoves
<1>6. ASSUME ids' = ids + 1, Refuse(a) PROVE RunnersInv'
  <2>1. act'[a].pc = "idle" /\ act'[a].task = 0 /\ ActorSound(a)' /\ WorkerSound(a)'
    BY <1>6, RefuseIs, IdleTask, TaskFields
  <2>2. act' = [b \in Actors |-> act'[b]] /\ \A b \in Actors \ {a} : act'[b] = act[b]
    BY <1>6, RefuseIs
  <2>3. RowsSound' /\ \A b \in Actors \ {a} : ActorSound(b)'
    BY <1>1, <1>6, <2>2, IdsGrow
  <2>4. \A w \in Workers \ {a} : Open(dirs, workdir(w)) => Open(dirs, workdir(w))'
    BY <1>4, <2>2, RolesApart
  <2> QED BY <1>1, <1>3, <2>1, <2>2, <2>3, <2>4, OneMoves
<1>7. ASSUME r \notin DOMAIN rows, \A b \in Actors : act[b].pc = "flushed" => act[b].repo # r,
             ids' = ids + 1, Proceeds(a, [pc |-> "flushed", id |-> ids + 1])
      PROVE  RunnersInv'
  <2> DEFINE fields == [pc |-> "flushed", id |-> ids + 1]
  <2>1. DOMAIN fields = {"pc", "id"} /\ fields.pc = "flushed" /\ fields.id = ids + 1 /\ Proceeds(a, fields)
    BY <1>7
  <2> HIDE DEF fields
  <2>2. DOMAIN fields \subseteq DOMAIN NoTask
    BY <2>1, TaskFields
  <2>3. /\ act' = [b \in Actors |-> act'[b]] /\ DOMAIN act'[a] = DOMAIN NoTask
        /\ \A b \in Actors \ {a} : act'[b] = act[b]
        /\ \A c \in DOMAIN fields : act'[a][c] = fields[c]
        /\ \A c \in DOMAIN NoTask : c \notin DOMAIN fields => act'[a][c] = act[a][c]
    BY <2>1, <2>2, ProceedsIs
  <2>4. /\ act'[a].pc = "flushed" /\ act'[a].id = ids + 1 /\ act'[a].repo = r /\ act'[a].goal = act[a].goal
        /\ act'[a].body = act[a].body /\ act'[a].task = act[a].task
    BY <2>1, <2>3, TaskFields
  <2>5. \A s \in DOMAIN rows : rows[s].id # ids + 1
    BY <1>1 DEF RunnersInv, RowsSound, Numbered
  <2>6. ids + 1 \in 1 .. ids'
    BY <1>1, <1>7
  <2>7. ActorSound(a)'
    BY <1>1, <1>2, <1>7, <2>3, <2>4, <2>5, <2>6 DEF ActorSound, Asked
  <2>8. a \in Workers => WorkerSound(a)'
    BY <1>1, <2>4, EarlySound
  <2>9. RowsSound' /\ \A b \in Actors \ {a} : ActorSound(b)'
    BY <1>1, <1>7, <2>3, IdsGrow
  <2>10. ASSUME NEW b \in Actors \ {a}, act[b].pc = "flushed" PROVE act[b].id # act'[a].id /\ act[b].repo # act'[a].repo
    <3>1. act[b].id \in 1 .. ids
      BY <2>10 DEF RunnersInv, ActorSound
    <3> QED BY <1>1, <1>7, <2>4, <2>10, <3>1
  <2>11. \A w \in Workers \ {a} : Open(dirs, workdir(w)) => Open(dirs, workdir(w))'
    BY <1>4, <2>3, RolesApart
  <2> QED BY <1>1, <1>3, <2>3, <2>4, <2>7, <2>8, <2>9, <2>10, <2>11, OneMoves
<1> QED BY <1>5, <1>6, <1>7 DEF _create

\* Where rows work.
LEMMA EffectiveIs ==
    ASSUME RunnersInv, NEW r \in DOMAIN rows
    PROVE  _effective_subdir(rows[r]) \in {Default(rows[r].id)} \cup Explicit /\ rows[r].id \in Nat
<1>1. rows[r].subdir \in {<<>>, Default(rows[r].id)} \cup Explicit /\ rows[r].id \in 1 .. ids /\ ids \in Nat
  BY DEF RunnersInv, RowsSound, Numbered
<1>2. rows[r].id \in Nat
  BY <1>1
<1>3. rows[r].subdir = <<>> => _effective_subdir(rows[r]) = Default(rows[r].id)
  BY DEF _effective_subdir, safe_workspace_subdir, Default
<1>4. rows[r].subdir # <<>> => _effective_subdir(rows[r]) = rows[r].subdir
  BY DEF _effective_subdir, safe_workspace_subdir
<1> QED BY <1>1, <1>2, <1>3, <1>4

LEMMA DefaultsApart ==
    ASSUME PathsApart, DecimalApart, NEW i \in Nat
    PROVE  Default(i) \notin Explicit /\ \A j \in Nat : Default(i) = Default(j) => i = j
<1>1. Default(i)[1] = DEFAULT_WORKSPACE_SUBDIR
  BY DEF Default
<1>2. \A j \in Nat : Default(j)[2] = ToString(j)
  BY DEF Default
<1>3. \A j \in Nat : Default(i) = Default(j) => ToString(i) = ToString(j)
  BY <1>2
<1> QED BY <1>1, <1>3 DEF PathsApart, DecimalApart

\* A new row, under a number nobody else has, works in a place of its own.
LEMMA CommitStep ==
    ASSUME RunnersInv, PathsApart, DecimalApart, NEW a \in Actors, _create_commit(a)
    PROVE  RunnersInv'
<1> DEFINE r == act[a].repo
           row == _default_row(act[a].id)
           fields == [pc |-> "found", read |-> row]
<1>1. act[a].pc = "flushed" /\ UNCHANGED <<ids, tasks, dirs, sandbox>> /\ rows' = Over(rows, [s \in {r} |-> row])
  BY DEF _create_commit, Elsewhere
<1>2. /\ act[a].id \in 1 .. ids /\ r \notin DOMAIN rows /\ \A s \in DOMAIN rows : rows[s].id # act[a].id
      /\ act[a].goal = "update" => Asked(act[a].body)
  BY <1>1 DEF RunnersInv, ActorSound
<1>3. DOMAIN fields = {"pc", "read"} /\ fields.pc = "found" /\ fields.read = row /\ Proceeds(a, fields)
  BY DEF _create_commit
<1>4. row.id = act[a].id /\ row.subdir = <<>> /\ {"id", "subdir"} \subseteq DOMAIN row
  BY DEF _default_row
<1> HIDE DEF fields, row
<1>5. /\ DOMAIN rows' = DOMAIN rows \cup {r} /\ rows'[r] = row /\ \A s \in DOMAIN rows : rows'[s] = rows[s]
  BY <1>1, <1>2 DEF Over
<1>6. DOMAIN fields \subseteq DOMAIN NoTask
  BY <1>3, TaskFields
<1>7. /\ act' = [b \in Actors |-> act'[b]] /\ DOMAIN act'[a] = DOMAIN NoTask
      /\ \A b \in Actors \ {a} : act'[b] = act[b]
      /\ \A c \in DOMAIN fields : act'[a][c] = fields[c]
      /\ \A c \in DOMAIN NoTask : c \notin DOMAIN fields => act'[a][c] = act[a][c]
  BY <1>3, <1>6, ProceedsIs
<1>8. /\ act'[a].pc = "found" /\ act'[a].read = row /\ act'[a].repo = r /\ act'[a].goal = act[a].goal
      /\ act'[a].body = act[a].body /\ act'[a].task = act[a].task
  BY <1>3, <1>7, TaskFields
<1>9. RowsSound'
  <2>1. \A s \in DOMAIN rows : Numbered(rows[s])
    BY DEF RunnersInv, RowsSound
  <2>2. \A s \in DOMAIN rows' : Numbered(rows[s])'
    BY <1>1, <1>2, <1>4, <1>5, <2>1 DEF Numbered
  <2>3. \A s, t \in DOMAIN rows' : rows'[s].id = rows'[t].id => s = t
    BY <1>2, <1>4, <1>5 DEF RunnersInv, RowsSound
  <2>4. ASSUME NEW s \in DOMAIN rows PROVE _effective_subdir(rows[s]) # Default(act[a].id)
    <3>1. _effective_subdir(rows[s]) \in {Default(rows[s].id)} \cup Explicit /\ rows[s].id \in Nat
      BY EffectiveIs
    <3>2. act[a].id \in Nat /\ rows[s].id # act[a].id
      BY <1>2 DEF RunnersInv, RowsSound
    <3> QED BY <3>1, <3>2, DefaultsApart
  <2>5. WorkspacesApart
    BY DEF RunnersInv, RowsSound
  <2>6. ASSUME NEW s \in DOMAIN rows', NEW t \in DOMAIN rows', s # t
        PROVE  _effective_subdir(rows'[s]) # _effective_subdir(rows'[t])
    <3>1. \A x \in DOMAIN rows : _effective_subdir(rows'[x]) = _effective_subdir(rows[x])
      BY <1>5 DEF _effective_subdir, safe_workspace_subdir
    <3>2. _effective_subdir(rows'[r]) = Default(act[a].id)
      BY <1>4, <1>5 DEF _effective_subdir, safe_workspace_subdir, Default
    <3>3. CASE s \in DOMAIN rows /\ t \in DOMAIN rows
      BY <2>5, <2>6, <3>1, <3>3 DEF WorkspacesApart
    <3>4. CASE s = r /\ t \in DOMAIN rows
      BY <2>4, <3>1, <3>2, <3>4
    <3>5. CASE t = r /\ s \in DOMAIN rows
      BY <2>4, <3>1, <3>2, <3>5
    <3> QED BY <1>5, <2>6, <3>3, <3>4, <3>5
  <2>7. WorkspacesApart'
    BY <2>6 DEF WorkspacesApart, _effective_subdir, safe_workspace_subdir
  <2> QED BY <1>1, <2>2, <2>3, <2>7 DEF RunnersInv, RowsSound
<1>10. ActorSound(a)'
  BY <1>2, <1>4, <1>5, <1>7, <1>8 DEF ActorSound, Asked
<1>11. a \in Workers => WorkerSound(a)'
  BY <1>1, <1>8, EarlySound
<1>12. ASSUME NEW b \in Actors \ {a} PROVE ActorSound(b)'
  <2>1. ActorSound(b) /\ act'[b] = act[b]
    BY <1>7 DEF RunnersInv
  <2>2. ASSUME act[b].pc = "flushed" PROVE act[b].repo \notin DOMAIN rows' /\ \A s \in DOMAIN rows' : rows'[s].id # act[b].id
    <3>1. act[b].repo # r /\ act[b].id # act[a].id
      BY <1>1, <2>2 DEF RunnersInv, FlushedApart
    <3> QED BY <1>4, <1>5, <2>1, <2>2, <3>1 DEF ActorSound
  <2>3. ASSUME act[b].pc = "write" PROVE Checked(b)'
    <3>1. SUFFICES ASSUME "workspace_subdir" \in DOMAIN act[b].body, NEW s \in DOMAIN rows' \ {act[b].repo}
                   PROVE  _effective_subdir(rows'[s])
                            # safe_workspace_subdir(act[b].body.workspace_subdir, act[b].read.id)
      BY <2>1 DEF Checked, _effective_subdir, safe_workspace_subdir
    <3>2. /\ act[b].body.workspace_subdir \in Subdirs /\ act[b].repo \in DOMAIN rows
          /\ act[b].read.id = rows[act[b].repo].id /\ Checked(b)
      BY <2>1, <2>3, <3>1 DEF ActorSound, Asked
    <3>3. CASE s \in DOMAIN rows
      BY <1>5, <3>1, <3>2, <3>3 DEF Checked
    <3>4. CASE s = r
      <4> DEFINE i == act[a].id
                 j == act[b].read.id
                 p == act[b].body.workspace_subdir
      <4>1. i \in Nat /\ j \in Nat /\ i # j
        BY <1>2, <3>2, EffectiveIs DEF RunnersInv, RowsSound
      <4>2. _effective_subdir(rows'[s]) = Default(i)
        BY <1>4, <1>5, <3>4 DEF _effective_subdir, safe_workspace_subdir, Default
      <4>3. safe_workspace_subdir(p, j) = Default(j) \/ (p \in Explicit /\ safe_workspace_subdir(p, j) = p)
        BY <3>2 DEF safe_workspace_subdir, Default, Explicit
      <4> QED BY <4>1, <4>2, <4>3, DefaultsApart
    <3> QED BY <1>5, <3>3, <3>4
  <2> QED BY <1>1, <1>5, <2>1, <2>2, <2>3 DEF ActorSound
<1>13. \A w \in Workers \ {a} : Open(dirs, workdir(w)) => Open(dirs, workdir(w))'
  BY <1>1, <1>7, RolesApart DEF Open, workdir
<1>14. Tree(dirs)' /\ tasks' \in Seq(Repos) /\ Len(tasks) <= Len(tasks')
  <2>1. Len(tasks) \in Nat
    BY DEF RunnersInv
  <2> QED BY <1>1, <2>1 DEF RunnersInv, Tree
<1> QED BY <1>1, <1>7, <1>8, <1>9, <1>10, <1>11, <1>12, <1>13, <1>14, OneMoves

-----------------------------------------------------------------------------
(* Changes of a row.                                                       *)

LEMMA CheckRunner == ASSUME RunnersInv, NEW o \in Operators, update_check(o) PROVE RunnersInv'
<1> DEFINE effective == safe_workspace_subdir(act[o].body.workspace_subdir, act[o].read.id)
           fields == [pc |-> "write"]
<1>1. /\ act[o].pc = "found" /\ act[o].goal = "update" /\ UNCHANGED <<rows, ids, tasks, dirs, sandbox>>
      /\ o \in Actors /\ o \notin Workers
  BY RolesApart DEF update_check, Elsewhere
<1>2. CASE Refuse(o)
  BY <1>1, <1>2, RefuseMoves
<1>3. ASSUME Proceeds(o, fields), ~("workspace_subdir" \in DOMAIN act[o].body /\ _workspace_conflict(act[o].repo, effective))
      PROVE  RunnersInv'
  <2>1. DOMAIN fields = {"pc"} /\ fields.pc = "write" /\ Proceeds(o, fields)
    BY <1>3
  <2> HIDE DEF fields
  <2>2. DOMAIN fields \subseteq DOMAIN NoTask
    BY <2>1, TaskFields
  <2>3. /\ act' = [b \in Actors |-> act'[b]] /\ DOMAIN act'[o] = DOMAIN NoTask
        /\ \A b \in Actors \ {o} : act'[b] = act[b]
        /\ \A c \in DOMAIN fields : act'[o][c] = fields[c]
        /\ \A c \in DOMAIN NoTask : c \notin DOMAIN fields => act'[o][c] = act[o][c]
    BY <1>1, <2>1, <2>2, ProceedsIs
  <2>4. /\ act'[o].pc = "write" /\ act'[o].goal = act[o].goal /\ act'[o].repo = act[o].repo
        /\ act'[o].read = act[o].read /\ act'[o].body = act[o].body
    BY <2>1, <2>3, TaskFields
  <2>5. Checked(o)'
    <3>1. SUFFICES ASSUME "workspace_subdir" \in DOMAIN act[o].body, NEW s \in DOMAIN rows \ {act[o].repo}
                   PROVE  _effective_subdir(rows[s]) # effective
      BY <1>1, <2>4 DEF Checked, _effective_subdir, safe_workspace_subdir
    <3> QED BY <1>3, <3>1 DEF _workspace_conflict
  <2>6. ActorSound(o)
    BY <1>1 DEF RunnersInv
  <2>7. ActorSound(o)'
    BY <1>1, <2>3, <2>4, <2>5, <2>6 DEF ActorSound, Asked
  <2> QED BY <1>1, <2>3, <2>4, <2>7, ActorMoves
<1> QED BY <1>2, <1>3 DEF update_check

\* The columns that are written keep the row's number, and its place unless it is named.
LEMMA PersistIs ==
    ASSUME RunnersInv, NEW a \in Actors, act[a].pc \in {"found", "write"}, NEW values, _persist(a, values), UNCHANGED ids,
           "id" \notin DOMAIN values
    PROVE  /\ act[a].repo \in DOMAIN rows /\ DOMAIN rows' = DOMAIN rows
           /\ \A r \in DOMAIN rows \ {act[a].repo} : rows'[r] = rows[r]
           /\ \A r \in DOMAIN rows : {"id", "subdir"} \subseteq DOMAIN rows'[r] /\ rows'[r].id = rows[r].id
           /\ \/ rows'[act[a].repo].subdir = rows[act[a].repo].subdir
              \/ "subdir" \in DOMAIN values /\ rows'[act[a].repo].subdir = values.subdir
<1> DEFINE r == act[a].repo
           changed == {c \in DOMAIN values : values[c] # act[a].read[c]}
           put == [c \in changed |-> values[c]]
           old == rows[r]
           new == Over(put, old)
<1>1. r \in DOMAIN rows /\ Numbered(old)
  BY DEF RunnersInv, ActorSound, RowsSound
<1>2. rows' = [rows EXCEPT ![r] = new]
  BY DEF _persist
<1>3. DOMAIN put \subseteq DOMAIN values /\ \A c \in DOMAIN put : put[c] = values[c]
  OBVIOUS
<1>4. DOMAIN rows' = DOMAIN rows /\ rows'[r] = new /\ \A s \in DOMAIN rows \ {r} : rows'[s] = rows[s]
  BY <1>1, <1>2
<1>5. {"id", "subdir"} \subseteq DOMAIN old
  BY <1>1 DEF Numbered
<1> HIDE DEF put, old
<1>6. {"id", "subdir"} \subseteq DOMAIN new /\ new.id = old.id
  BY <1>3, <1>5 DEF Over
<1>7. new.subdir = old.subdir \/ ("subdir" \in DOMAIN values /\ new.subdir = values.subdir)
  BY <1>3, <1>5 DEF Over
<1>8. \A s \in DOMAIN rows : Numbered(rows[s])
  BY DEF RunnersInv, RowsSound
<1>9. \A s \in DOMAIN rows : {"id", "subdir"} \subseteq DOMAIN rows'[s] /\ rows'[s].id = rows[s].id
  BY <1>4, <1>6, <1>8 DEF Numbered, old
<1> HIDE DEF new
<1> QED BY <1>1, <1>4, <1>7, <1>9 DEF old

LEMMA NumbersKept ==
    ASSUME RunnersInv, UNCHANGED ids, DOMAIN rows' = DOMAIN rows,
           \A r \in DOMAIN rows : /\ {"id", "subdir"} \subseteq DOMAIN rows'[r]
                                  /\ rows'[r].id = rows[r].id /\ rows'[r].subdir = rows[r].subdir
    PROVE  RowsSound' /\ \A b \in Actors : act'[b] = act[b] => ActorSound(b)'
<1>1. \A r \in DOMAIN rows : Numbered(rows[r])
  BY DEF RunnersInv, RowsSound
<1>2. \A r \in DOMAIN rows' : Numbered(rows[r])'
  BY <1>1 DEF Numbered
<1>3. RowsSound'
  <2>1. WorkspacesApart'
    BY DEF RunnersInv, RowsSound, WorkspacesApart, _effective_subdir, safe_workspace_subdir
  <2> QED BY <1>2, <2>1 DEF RunnersInv, RowsSound
<1>4. ASSUME NEW b \in Actors, act'[b] = act[b] PROVE ActorSound(b)'
  <2>1. ActorSound(b)
    BY DEF RunnersInv
  <2>2. Checked(b) => Checked(b)'
    BY <1>4 DEF Checked, _effective_subdir, safe_workspace_subdir
  <2> QED BY <1>4, <2>1, <2>2 DEF ActorSound
<1> QED BY <1>3, <1>4

\* A change that names no place.
LEMMA PersistMoves ==
    ASSUME RunnersInv, NEW a \in Actors, act[a].pc \in {"found", "write"}, NEW values, _persist(a, values),
           UNCHANGED <<ids, tasks, dirs, sandbox>>, DOMAIN values \cap {"id", "subdir"} = {},
           act' = [b \in Actors |-> act'[b]], \A b \in Actors \ {a} : act'[b] = act[b],
           ActorSound(a)', act'[a].pc # "flushed",
           a \in Workers => WorkerSound(a)', a \in Workers => act'[a].task \in {0, act[a].task}
    PROVE  RunnersInv'
<1>1. /\ DOMAIN rows' = DOMAIN rows
      /\ \A r \in DOMAIN rows : /\ {"id", "subdir"} \subseteq DOMAIN rows'[r]
                                /\ rows'[r].id = rows[r].id /\ rows'[r].subdir = rows[r].subdir
  BY PersistIs
<1>2. RowsSound' /\ \A b \in Actors \ {a} : ActorSound(b)'
  BY <1>1, NumbersKept
<1>3. \A w \in Workers \ {a} : Open(dirs, workdir(w)) => Open(dirs, workdir(w))'
  BY RolesApart DEF Open, workdir
<1>4. Tree(dirs)' /\ tasks' \in Seq(Repos) /\ Len(tasks) <= Len(tasks')
  <2>1. Len(tasks) \in Nat
    BY DEF RunnersInv
  <2> QED BY <2>1 DEF RunnersInv, Tree
<1> QED BY <1>2, <1>3, <1>4, OneMoves

LEMMA CredentialSteps == ASSUME RunnersInv, NEW o \in Operators, set_credential(o) \/ clear_credential(o) PROVE RunnersInv'
<1>1. /\ act[o].pc = "found" /\ Refuse(o) /\ UNCHANGED <<ids, tasks, dirs, sandbox>> /\ o \in Actors /\ o \notin Workers
  BY RolesApart DEF set_credential, clear_credential, Elsewhere
<1>2. \E k, s, e : _persist(o, [kind |-> k, seal |-> s, expires |-> e])
  BY DEF set_credential, clear_credential
<1>3. PICK k, s, e : _persist(o, [kind |-> k, seal |-> s, expires |-> e])
  BY <1>2
<1> DEFINE values == [kind |-> k, seal |-> s, expires |-> e]
<1>4. DOMAIN values \cap {"id", "subdir"} = {} /\ _persist(o, values)
  BY <1>3
<1> HIDE DEF values
<1>5. act'[o].pc = "idle" /\ ActorSound(o)'
  BY <1>1, RefuseIs, IdleTask, TaskFields
<1> QED BY <1>1, <1>4, <1>5, RefuseIs, PersistMoves

\* A place that was checked is still free: only this operator sets one, and a new
\* row takes another.
LEMMA UpdateRowStep ==
    ASSUME RunnersInv, OneOperator, PathsApart, DecimalApart, NEW o \in Operators, update_row(o) PROVE RunnersInv'
<1> DEFINE b == act[o].body
           r == act[o].repo
<1>1. /\ act[o].pc = "write" /\ Refuse(o) /\ UNCHANGED <<ids, tasks, dirs, sandbox>> /\ o \in Actors /\ o \notin Workers
  BY RolesApart DEF update_row, Elsewhere
<1>2. act'[o].pc = "idle" /\ ActorSound(o)'
  BY <1>1, RefuseIs, IdleTask, TaskFields
<1>3. r \in DOMAIN rows /\ act[o].read.id = rows[r].id /\ Asked(b) /\ Checked(o)
  BY <1>1 DEF RunnersInv, ActorSound
<1>4. CASE "workspace_subdir" \notin DOMAIN b
  <2>1. _persist(o, b)
    BY <1>4 DEF update_row
  <2>2. DOMAIN b \cap {"id", "subdir"} = {}
    BY <1>3 DEF Asked
  <2> HIDE DEF b
  <2> QED BY <1>1, <1>2, <2>1, <2>2, RefuseIs, PersistMoves
<1>5. CASE "workspace_subdir" \in DOMAIN b
  <2> DEFINE p == safe_workspace_subdir(b.workspace_subdir, act[o].read.id)
             values == [subdir |-> p]
  <2>1. _persist(o, values)
    BY <1>5 DEF update_row
  <2>2. DOMAIN values = {"subdir"} /\ values.subdir = p
    OBVIOUS
  <2>3. p = Default(rows[r].id) \/ p \in Explicit
    BY <1>3, <1>5 DEF Asked, safe_workspace_subdir, Default, Explicit
  <2> HIDE DEF values, p
  <2>4. /\ DOMAIN rows' = DOMAIN rows
        /\ \A s \in DOMAIN rows \ {r} : rows'[s] = rows[s]
        /\ \A s \in DOMAIN rows : {"id", "subdir"} \subseteq DOMAIN rows'[s] /\ rows'[s].id = rows[s].id
        /\ rows'[r].subdir = rows[r].subdir \/ rows'[r].subdir = p
    BY <1>1, <2>1, <2>2, PersistIs
  <2>5. RowsSound'
    <3>1. \A s \in DOMAIN rows : Numbered(rows[s])
      BY DEF RunnersInv, RowsSound
    <3>2. \A s \in DOMAIN rows' : Numbered(rows[s])'
      <4>1. TAKE s \in DOMAIN rows'
      <4>2. Numbered(rows[s])
        BY <2>4, <3>1
      <4>3. CASE s = r
        BY <1>1, <2>3, <2>4, <4>2, <4>3 DEF Numbered
      <4>4. CASE s # r
        BY <1>1, <2>4, <4>2, <4>4 DEF Numbered
      <4> QED BY <4>3, <4>4
    <3>3. WorkspacesApart
      BY DEF RunnersInv, RowsSound
    <3>4. ASSUME NEW s \in DOMAIN rows, NEW t \in DOMAIN rows, s # t
          PROVE  _effective_subdir(rows'[s]) # _effective_subdir(rows'[t])
      <4>1. \A x \in DOMAIN rows \ {r} : _effective_subdir(rows'[x]) = _effective_subdir(rows[x])
        BY <2>4 DEF _effective_subdir, safe_workspace_subdir
      <4>2. CASE rows'[r].subdir = rows[r].subdir
        <5>1. \A x \in DOMAIN rows : _effective_subdir(rows'[x]) = _effective_subdir(rows[x])
          BY <1>3, <2>4, <4>2 DEF _effective_subdir, safe_workspace_subdir
        <5> QED BY <3>3, <3>4, <5>1 DEF WorkspacesApart
      <4>3. CASE rows'[r].subdir = p
        <5>1. p # <<>>
          <6>1. Len(Default(rows[r].id)) = 2 /\ Len(<<>>) = 0
            BY DEF Default
          <6> QED BY <2>3, <6>1 DEF Explicit
        <5>2. _effective_subdir(rows'[r]) = p
          BY <4>3, <5>1 DEF _effective_subdir, safe_workspace_subdir
        <5>3. \A x \in DOMAIN rows \ {r} : _effective_subdir(rows[x]) # p
          BY <1>3, <1>5 DEF Checked, p
        <5> QED BY <3>3, <3>4, <4>1, <5>2, <5>3 DEF WorkspacesApart
      <4> QED BY <2>4, <4>2, <4>3
    <3>5. WorkspacesApart'
      BY <2>4, <3>4 DEF WorkspacesApart, _effective_subdir, safe_workspace_subdir
    <3> QED BY <1>1, <2>4, <3>2, <3>5 DEF RunnersInv, RowsSound
  <2>6. ASSUME NEW a \in Actors \ {o} PROVE ActorSound(a)'
    <3>1. ActorSound(a) /\ act'[a] = act[a]
      BY <1>1, RefuseIs DEF RunnersInv
    <3>2. act[a].pc # "write"
      BY <2>6, <3>1 DEF ActorSound, OneOperator
    <3> QED BY <1>1, <2>4, <3>1, <3>2 DEF ActorSound
  <2>7. \A w \in Workers \ {o} : Open(dirs, workdir(w)) => Open(dirs, workdir(w))'
    <3>1. \A w \in Workers : act'[w] = act[w]
      BY <1>1, RefuseIs, RolesApart
    <3> QED BY <1>1, <3>1 DEF Open, workdir
  <2>8. Tree(dirs)' /\ tasks' \in Seq(Repos) /\ Len(tasks) <= Len(tasks')
    <3>1. Len(tasks) \in Nat
      BY DEF RunnersInv
    <3> QED BY <1>1, <3>1 DEF RunnersInv, Tree
  <2> QED BY <1>1, <1>2, <2>5, <2>6, <2>7, <2>8, RefuseIs, OneMoves
<1> QED BY <1>4, <1>5

-----------------------------------------------------------------------------
(* A task.                                                                 *)

LEMMA TaskTaken ==
    ASSUME RunnersInv, NEW w \in Workers, _load_task(w)
    PROVE  /\ w \in Actors /\ act[w].pc = "idle" /\ UNCHANGED <<rows, ids, dirs, sandbox>>
           /\ tasks' \in Seq(Repos) /\ Len(tasks) <= Len(tasks')
           /\ \/ Refuse(w)
              \/ \E r \in Repos, t \in 1 .. Len(tasks') :
                    /\ Proceeds(w, [pc |-> "find", goal |-> "task", repo |-> r, task |-> t])
                    /\ \A v \in Workers \ {w} : act[v].task # t
<1>1. w \in Actors /\ act[w].pc = "idle" /\ UNCHANGED <<rows, ids, dirs, sandbox>>
  BY RolesApart DEF _load_task
<1>2. PICK r \in Repos, t \in 1 .. MaxTasks :
          /\ t \in DOMAIN tasks => tasks[t] = r /\ \A v \in Workers : act[v].task # t
          /\ t \notin DOMAIN tasks => t = Len(tasks) + 1
          /\ tasks' = IF t \in DOMAIN tasks THEN tasks ELSE Append(tasks, r)
          /\ IF r \in DOMAIN rows /\ ~rows[r].enabled THEN Refuse(w)
             ELSE Proceeds(w, [pc |-> "find", goal |-> "task", repo |-> r, task |-> t])
  BY DEF _load_task
<1>3. tasks \in Seq(Repos) /\ Len(tasks) \in Nat /\ DOMAIN tasks = 1 .. Len(tasks)
  BY DEF RunnersInv
<1>4. CASE t \in DOMAIN tasks
  <2>1. tasks' = tasks /\ t \in 1 .. Len(tasks) /\ \A v \in Workers : act[v].task # t
    BY <1>2, <1>3, <1>4
  <2>2. tasks' \in Seq(Repos) /\ Len(tasks) <= Len(tasks') /\ t \in 1 .. Len(tasks')
    BY <1>3, <2>1
  <2> QED BY <1>1, <1>2, <2>1, <2>2
<1>5. CASE t \notin DOMAIN tasks
  <2>1. tasks' = Append(tasks, r) /\ t = Len(tasks) + 1
    BY <1>2, <1>5
  <2>2. tasks' \in Seq(Repos) /\ Len(tasks') = Len(tasks) + 1
    BY <1>3, <2>1
  <2>3. Len(tasks) <= Len(tasks') /\ t \in 1 .. Len(tasks')
    BY <1>3, <2>1, <2>2
  <2>4. ASSUME NEW v \in Workers PROVE act[v].task # t
    <3>1. act[v].task = 0 \/ act[v].task \in 1 .. Len(tasks)
      BY DEF RunnersInv, WorkerSound
    <3> QED BY <1>3, <2>1, <3>1
  <2> QED BY <1>1, <1>2, <2>2, <2>3, <2>4
<1> QED BY <1>4, <1>5

\* What a step of a worker leaves of the rest.
LEMMA DirMoves ==
    ASSUME RunnersInv, NEW w \in Workers, UNCHANGED <<rows, ids, sandbox>>,
           tasks' \in Seq(Repos), Len(tasks) <= Len(tasks'),
           act' = [b \in Actors |-> act'[b]], \A b \in Actors \ {w} : act'[b] = act[b],
           Tree(dirs)',
           \A p \in DOMAIN dirs : p \in DOMAIN dirs' /\ dirs'[p].real = dirs[p].real /\ (dirs[p].group => dirs'[p].group),
           ActorSound(w)', act'[w].pc # "flushed", WorkerSound(w)',
           act'[w].task \in {0, act[w].task} \/ \A v \in Workers \ {w} : act[v].task # act'[w].task
    PROVE  RunnersInv'
<1>1. w \in Actors
  BY RolesApart
<1>2. \A r \in DOMAIN rows : {"id", "subdir"} \subseteq DOMAIN rows[r]
  BY DEF RunnersInv, RowsSound, Numbered
<1>3. RowsSound' /\ \A b \in Actors \ {w} : ActorSound(b)'
  BY <1>2, NumbersKept
<1>4. \A v \in Workers \ {w} : Open(dirs, workdir(v)) => Open(dirs, workdir(v))'
  <2>1. \A v \in Workers \ {w} : act'[v] = act[v]
    BY RolesApart
  <2> QED BY <2>1, OpenKept
<1> QED BY <1>1, <1>3, <1>4, OneMoves

LEMMA LoadStep == ASSUME RunnersInv, NEW w \in Workers, _load_task(w) PROVE RunnersInv'
<1>1. /\ w \in Actors /\ act[w].pc = "idle" /\ UNCHANGED <<rows, ids, dirs, sandbox>>
      /\ tasks' \in Seq(Repos) /\ Len(tasks) <= Len(tasks')
  BY TaskTaken
<1>2. Tree(dirs)' /\ \A p \in DOMAIN dirs : p \in DOMAIN dirs' /\ dirs'[p] = dirs[p]
  BY <1>1 DEF RunnersInv, Tree
<1>3. CASE Refuse(w)
  <2>1. act'[w].pc = "idle" /\ act'[w].task = 0 /\ ActorSound(w)' /\ WorkerSound(w)'
    BY <1>1, <1>3, RefuseIs, IdleTask, TaskFields
  <2>2. act' = [b \in Actors |-> act'[b]] /\ \A b \in Actors \ {w} : act'[b] = act[b]
    BY <1>1, <1>3, RefuseIs
  <2> QED BY <1>1, <1>2, <2>1, <2>2, DirMoves
<1>4. ASSUME NEW r \in Repos, NEW t \in 1 .. Len(tasks'), \A v \in Workers \ {w} : act[v].task # t,
             Proceeds(w, [pc |-> "find", goal |-> "task", repo |-> r, task |-> t])
      PROVE  RunnersInv'
  <2> DEFINE fields == [pc |-> "find", goal |-> "task", repo |-> r, task |-> t]
  <2>1. /\ DOMAIN fields = {"pc", "goal", "repo", "task"} /\ fields.pc = "find" /\ fields.goal = "task"
        /\ fields.task = t /\ Proceeds(w, fields)
    BY <1>4
  <2> HIDE DEF fields
  <2>2. DOMAIN fields \subseteq DOMAIN NoTask
    BY <2>1, TaskFields
  <2>3. /\ act' = [b \in Actors |-> act'[b]] /\ DOMAIN act'[w] = DOMAIN NoTask
        /\ \A b \in Actors \ {w} : act'[b] = act[b]
        /\ \A c \in DOMAIN fields : act'[w][c] = fields[c]
    BY <1>1, <2>1, <2>2, ProceedsIs
  <2>4. act'[w].pc = "find" /\ act'[w].goal = "task" /\ act'[w].task = t
    BY <2>1, <2>3
  <2>5. ActorSound(w)' /\ WorkerSound(w)'
    BY <2>3, <2>4 DEF ActorSound, WorkerSound
  <2> QED BY <1>1, <1>2, <1>4, <2>3, <2>4, <2>5, DirMoves
<1> QED BY <1>3, <1>4, TaskTaken

LEMMA RecordStep == ASSUME RunnersInv, NEW w \in Workers, record_task(w) PROVE RunnersInv'
<1> DEFINE values == [last_task_at |-> now]
           fields == [pc |-> "credential"]
<1>1. /\ act[w].pc = "found" /\ act[w].goal = "task" /\ UNCHANGED <<ids, tasks, dirs, sandbox>>
      /\ _persist(w, values) /\ w \in Actors
  BY RolesApart DEF record_task, Elsewhere
<1>2. DOMAIN values \cap {"id", "subdir"} = {} /\ "id" \notin DOMAIN values
  OBVIOUS
<1>3. DOMAIN fields = {"pc"} /\ fields.pc = "credential" /\ Proceeds(w, fields)
  BY DEF record_task
<1> HIDE DEF fields, values
<1>4. DOMAIN fields \subseteq DOMAIN NoTask
  BY <1>3, TaskFields
<1>5. /\ act' = [b \in Actors |-> act'[b]] /\ DOMAIN act'[w] = DOMAIN NoTask
      /\ \A b \in Actors \ {w} : act'[b] = act[b]
      /\ \A c \in DOMAIN fields : act'[w][c] = fields[c]
      /\ \A c \in DOMAIN NoTask : c \notin DOMAIN fields => act'[w][c] = act[w][c]
  BY <1>1, <1>3, <1>4, ProceedsIs
<1>6. /\ act'[w].pc = "credential" /\ act'[w].goal = act[w].goal /\ act'[w].repo = act[w].repo
      /\ act'[w].read = act[w].read /\ act'[w].task = act[w].task
  BY <1>3, <1>5, TaskFields
<1>7. /\ act[w].repo \in DOMAIN rows /\ DOMAIN rows' = DOMAIN rows
      /\ \A r \in DOMAIN rows : rows'[r].id = rows[r].id
  BY <1>1, <1>2, PersistIs
<1>8. act[w].read.id = rows[act[w].repo].id
  BY <1>1 DEF RunnersInv, ActorSound
<1>9. ActorSound(w)'
  BY <1>1, <1>5, <1>6, <1>7, <1>8 DEF ActorSound
<1>10. WorkerSound(w)'
  BY <1>1, <1>6, EarlySound
<1> QED BY <1>1, <1>2, <1>5, <1>6, <1>9, <1>10, PersistMoves

LEMMA ResolveStep == ASSUME RunnersInv, NEW w \in Workers, resolve_credential(w) PROVE RunnersInv'
<1> DEFINE fields == Over([pc |-> "root"], credential(act[w].repo))
<1>1. act[w].pc = "credential" /\ UNCHANGED <<rows, ids, tasks, dirs, sandbox>> /\ w \in Actors
  BY RolesApart DEF resolve_credential, Elsewhere
<1>2. CASE Refuse(w)
  BY <1>1, <1>2, RefuseMoves
<1>3. CASE Proceeds(w, fields)
  <2>1. DOMAIN credential(act[w].repo) = {"token", "source"}
    BY DEF credential
  <2>2. DOMAIN fields = {"pc", "token", "source"} /\ fields.pc = "root" /\ Proceeds(w, fields)
    BY <1>3, <2>1 DEF Over
  <2> HIDE DEF fields
  <2>3. DOMAIN fields \subseteq DOMAIN NoTask
    BY <2>2, TaskFields
  <2>4. /\ act' = [b \in Actors |-> act'[b]] /\ DOMAIN act'[w] = DOMAIN NoTask
        /\ \A b \in Actors \ {w} : act'[b] = act[b]
        /\ \A c \in DOMAIN fields : act'[w][c] = fields[c]
        /\ \A c \in DOMAIN NoTask : c \notin DOMAIN fields => act'[w][c] = act[w][c]
    BY <1>1, <2>2, <2>3, ProceedsIs
  <2>5. /\ act'[w].pc = "root" /\ act'[w].goal = act[w].goal /\ act'[w].repo = act[w].repo
        /\ act'[w].read = act[w].read /\ act'[w].task = act[w].task /\ act'[w].body = act[w].body
    BY <2>2, <2>4, TaskFields
  <2>6. ActorSound(w)
    BY <1>1 DEF RunnersInv
  <2>7. ActorSound(w)'
    BY <1>1, <2>4, <2>5, <2>6 DEF ActorSound, Asked
  <2>8. WorkerSound(w)'
    BY <1>1, <2>5, EarlySound
  <2> QED BY <1>1, <2>4, <2>5, <2>7, <2>8, ActorMoves
<1> QED BY <1>2, <1>3 DEF resolve_credential

-----------------------------------------------------------------------------
(* The directories a task works in.                                        *)

LEMMA MakeTree ==
    ASSUME Tree(dirs), NEW x \in Seq(Segments), MakeDirs(Prefixes(x)),
           \A z \in Prefixes(x) : z # x /\ z \in DOMAIN dirs => dirs[z].real
    PROVE  /\ Tree(dirs)' /\ DOMAIN dirs' = DOMAIN dirs \cup Prefixes(x)
           /\ \A p \in DOMAIN dirs : dirs'[p] = dirs[p]
           /\ \A p \in Prefixes(x) : p \notin DOMAIN dirs => dirs'[p].real
<1>1. /\ DOMAIN dirs' = DOMAIN dirs \cup Prefixes(x) /\ \A p \in DOMAIN dirs : dirs'[p] = dirs[p]
      /\ \A p \in Prefixes(x) : p \notin DOMAIN dirs => dirs'[p] = Private
  BY DEF MakeDirs
<1>2. Private.real = TRUE /\ Private.done = Never /\ DOMAIN Private = {"real", "group", "done"}
  BY DEF Private
<1>3. \A p \in DOMAIN dirs' : p \in Seq(Segments) /\ DOMAIN dirs'[p] = {"real", "group", "done"}
  BY <1>1, <1>2, PrefixesAre DEF Tree
<1>4. ASSUME NEW p \in DOMAIN dirs', NEW q \in Prefixes(p) PROVE q \in DOMAIN dirs' /\ (q # p => dirs'[q].real)
  <2>1. CASE p \in DOMAIN dirs
    BY <1>1, <1>4, <2>1 DEF Tree
  <2>2. CASE p \in Prefixes(x)
    <3>1. q \in Prefixes(x) /\ (q # p => q # x)
      BY <1>4, <2>2, PrefixesNest
    <3> QED BY <1>1, <1>2, <3>1
  <2> QED BY <1>1, <2>1, <2>2
<1>5. \A p \in DOMAIN dirs' : dirs'[p].done # Never => Len(p) > 1
  BY <1>1, <1>2 DEF Tree
<1>6. Tree(dirs')
  BY <1>3, <1>4, <1>5 DEF Tree
<1>7. Tree(dirs)'
  BY <1>6 DEF Tree
<1> QED BY <1>1, <1>2, <1>7

LEMMA WorkdirIs ==
    ASSUME NEW w, act[w].root \in Roots, act[w].task \in Nat
    PROVE  /\ act[w].root \in Seq(Segments) /\ workdir(w) \in Seq(Segments) /\ Len(workdir(w)) > 1
           /\ Prefixes(workdir(w)) = Prefixes(act[w].root) \cup {workdir(w)}
<1>1. act[w].root \in Seq(Segments) /\ ToString(act[w].task) \in Segments
  BY SegmentsHold
<1>2. Len(act[w].root) \in Nat /\ (act[w].root # <<>> => Len(act[w].root) > 0)
  BY <1>1
<1>3. Len(act[w].root) > 0
  <2>1. CASE act[w].root \in Explicit
    BY <1>2, <2>1 DEF Explicit
  <2>2. ASSUME NEW i \in Nat, act[w].root = Default(i) PROVE Len(act[w].root) > 0
    <3>1. Len(Default(i)) = 2
      BY DEF Default
    <3> QED BY <2>2, <3>1
  <2> QED BY <2>1, <2>2 DEF Roots
<1> DEFINE dir == Append(act[w].root, ToString(act[w].task))
<1>4. /\ dir \in Seq(Segments) /\ Prefixes(dir) = Prefixes(act[w].root) \cup {dir}
      /\ Len(dir) = Len(act[w].root) + 1
  BY <1>1, PrefixesAppend
<1>5. workdir(w) = dir
  BY DEF workdir
<1> HIDE DEF dir
<1>6. Len(dir) > 1
  BY <1>2, <1>3, <1>4
<1> QED BY <1>1, <1>4, <1>5, <1>6

LEMMA WorkerAt ==
    ASSUME RunnersInv, NEW w \in Workers, act[w].pc # "idle"
    PROVE  /\ w \in Actors /\ act[w].goal = "task" /\ act[w].task \in 1 .. Len(tasks) /\ act[w].task \in Nat
           /\ Tree(dirs) /\ tasks \in Seq(Repos) /\ Len(tasks) \in Nat
<1>1. act[w].goal = "task" /\ act[w].task \in 1 .. Len(tasks) /\ tasks \in Seq(Repos)
  BY DEF RunnersInv, WorkerSound
<1>2. Len(tasks) \in Nat
  BY <1>1
<1>3. act[w].task \in Nat
  BY <1>1, <1>2
<1> QED BY <1>1, <1>2, <1>3, RolesApart DEF RunnersInv

LEMMA RootStep == ASSUME RunnersInv, NEW w \in Workers, workspace_root(w) PROVE RunnersInv'
<1> DEFINE place == _effective_subdir(rows[act[w].repo])
           fields == [pc |-> "clone", root |-> place]
<1>1. act[w].pc = "root" /\ UNCHANGED <<rows, ids, tasks, sandbox>>
  BY DEF workspace_root, Elsewhere
<1>2. /\ w \in Actors /\ act[w].goal = "task" /\ act[w].task \in 1 .. Len(tasks) /\ Tree(dirs)
      /\ tasks \in Seq(Repos) /\ Len(tasks) \in Nat
  BY <1>1, WorkerAt
<1>3. CASE Refuse(w) /\ UNCHANGED dirs
  BY <1>1, <1>2, <1>3, RefuseMoves
<1>4. ASSUME ~\E p \in Prefixes(place) : p \in DOMAIN dirs /\ ~require_real_directory(p),
             Proceeds(w, fields), MakeDirs(Prefixes(place))
      PROVE  RunnersInv'
  <2>1. place \in Roots /\ place \in Seq(Segments)
    <3>1. act[w].repo \in DOMAIN rows
      BY <1>1, <1>2 DEF RunnersInv, ActorSound
    <3> QED BY <3>1, EffectiveIs, SegmentsHold DEF Roots
  <2>2. DOMAIN fields = {"pc", "root"} /\ fields.pc = "clone" /\ fields.root = place /\ Proceeds(w, fields)
    BY <1>4
  <2> HIDE DEF fields, place
  <2>3. \A z \in Prefixes(place) : z # place /\ z \in DOMAIN dirs => dirs[z].real
    BY <1>4 DEF require_real_directory, Real
  <2>4. Tree(dirs)' /\ DOMAIN dirs' = DOMAIN dirs \cup Prefixes(place) /\ \A p \in DOMAIN dirs : dirs'[p] = dirs[p]
    BY <1>2, <1>4, <2>1, <2>3, MakeTree
  <2>5. DOMAIN fields \subseteq DOMAIN NoTask
    BY <2>2, TaskFields
  <2>6. /\ act' = [b \in Actors |-> act'[b]] /\ DOMAIN act'[w] = DOMAIN NoTask
        /\ \A b \in Actors \ {w} : act'[b] = act[b]
        /\ \A c \in DOMAIN fields : act'[w][c] = fields[c]
        /\ \A c \in DOMAIN NoTask : c \notin DOMAIN fields => act'[w][c] = act[w][c]
    BY <1>2, <2>2, <2>5, ProceedsIs
  <2>7. act'[w].pc = "clone" /\ act'[w].root = place /\ act'[w].task = act[w].task /\ act'[w].goal = "task"
    BY <1>2, <2>2, <2>6, TaskFields
  <2>8. ActorSound(w)' /\ WorkerSound(w)'
    BY <1>1, <1>2, <2>1, <2>6, <2>7 DEF ActorSound, WorkerSound
  <2>9. Len(tasks) <= Len(tasks') /\ tasks' \in Seq(Repos)
    BY <1>1, <1>2
  <2> QED BY <1>1, <2>4, <2>6, <2>7, <2>8, <2>9, DirMoves
<1> QED BY <1>3, <1>4 DEF workspace_root

LEMMA CloneStep == ASSUME RunnersInv, NEW w \in Workers, clone(w) PROVE RunnersInv'
<1> DEFINE fields == [pc |-> "handover"]
           dir == workdir(w)
<1>1. act[w].pc = "clone" /\ UNCHANGED <<rows, ids, tasks, sandbox>>
  BY DEF clone, Elsewhere
<1>2. /\ w \in Actors /\ act[w].goal = "task" /\ act[w].task \in 1 .. Len(tasks) /\ act[w].task \in Nat /\ Tree(dirs)
      /\ tasks \in Seq(Repos) /\ Len(tasks) \in Nat
  BY <1>1, WorkerAt
<1>3. CASE Refuse(w) /\ UNCHANGED dirs
  BY <1>1, <1>2, <1>3, RefuseMoves
<1>4. ASSUME require_real_directory(act[w].root), Proceeds(w, fields), MakeDirs(Prefixes(dir)) PROVE RunnersInv'
  <2>1. act[w].root \in Roots
    BY <1>1 DEF RunnersInv, WorkerSound
  <2>2. dir \in Seq(Segments) /\ Prefixes(dir) = Prefixes(act[w].root) \cup {dir}
    BY <1>2, <2>1, WorkdirIs
  <2>3. DOMAIN fields = {"pc"} /\ fields.pc = "handover" /\ Proceeds(w, fields)
    BY <1>4
  <2> HIDE DEF fields, dir
  <2>4. \A z \in Prefixes(dir) : z # dir /\ z \in DOMAIN dirs => dirs[z].real
    BY <1>2, <1>4, <2>2 DEF require_real_directory, Real, Tree
  <2>5. Tree(dirs)' /\ DOMAIN dirs' = DOMAIN dirs \cup Prefixes(dir) /\ \A p \in DOMAIN dirs : dirs'[p] = dirs[p]
    BY <1>2, <1>4, <2>2, <2>4, MakeTree
  <2>6. DOMAIN fields \subseteq DOMAIN NoTask
    BY <2>3, TaskFields
  <2>7. /\ act' = [b \in Actors |-> act'[b]] /\ DOMAIN act'[w] = DOMAIN NoTask
        /\ \A b \in Actors \ {w} : act'[b] = act[b]
        /\ \A c \in DOMAIN fields : act'[w][c] = fields[c]
        /\ \A c \in DOMAIN NoTask : c \notin DOMAIN fields => act'[w][c] = act[w][c]
    BY <1>2, <2>3, <2>6, ProceedsIs
  <2>8. act'[w].pc = "handover" /\ act'[w].root = act[w].root /\ act'[w].task = act[w].task /\ act'[w].goal = "task"
    BY <1>2, <2>3, <2>7, TaskFields
  <2>9. ActorSound(w)' /\ WorkerSound(w)'
    BY <1>1, <1>2, <2>1, <2>7, <2>8 DEF ActorSound, WorkerSound
  <2>10. Len(tasks) <= Len(tasks') /\ tasks' \in Seq(Repos)
    BY <1>1, <1>2
  <2> QED BY <1>1, <2>5, <2>7, <2>8, <2>9, <2>10, DirMoves
<1> QED BY <1>3, <1>4 DEF clone

\* Directories that only gain a group, or a mark on a checkout.
LEMMA TreeKept ==
    ASSUME Tree(dirs), DOMAIN dirs' = DOMAIN dirs,
           \A p \in DOMAIN dirs : /\ DOMAIN dirs'[p] = DOMAIN dirs[p] /\ dirs'[p].real = dirs[p].real
                                  /\ dirs'[p].done = dirs[p].done \/ Len(p) > 1
    PROVE  Tree(dirs)'
BY DEF Tree

LEMMA RelaxIs ==
    ASSUME Tree(dirs), NEW ps, dirs' = _relax(ps)
    PROVE  /\ DOMAIN dirs' = DOMAIN dirs
           /\ \A p \in DOMAIN dirs : /\ DOMAIN dirs'[p] = DOMAIN dirs[p] /\ dirs'[p].real = dirs[p].real
                                     /\ dirs'[p].done = dirs[p].done /\ (dirs[p].group => dirs'[p].group)
                                     /\ (p \in ps => dirs'[p].group)
<1>1. DOMAIN dirs' = DOMAIN dirs
  BY DEF _relax
<1>2. ASSUME NEW p \in DOMAIN dirs
      PROVE  /\ DOMAIN dirs'[p] = DOMAIN dirs[p] /\ dirs'[p].real = dirs[p].real
             /\ dirs'[p].done = dirs[p].done /\ (dirs[p].group => dirs'[p].group)
             /\ (p \in ps => dirs'[p].group)
  <2>1. DOMAIN dirs[p] = {"real", "group", "done"}
    BY DEF Tree
  <2>2. CASE p \in ps
    <3>1. dirs'[p] = [dirs[p] EXCEPT !.group = TRUE]
      BY <2>2 DEF _relax
    <3> QED BY <2>1, <3>1
  <2>3. CASE p \notin ps
    BY <2>3 DEF _relax
  <2> QED BY <2>2, <2>3
<1> QED BY <1>1, <1>2

\* The checkout handed over can be reached from the root.
LEMMA HandoverStep == ASSUME RunnersInv, NEW w \in Workers, handover(w) PROVE RunnersInv'
<1> DEFINE fields == [pc |-> "spawn"]
           dir == workdir(w)
<1>1. act[w].pc = "handover" /\ UNCHANGED <<rows, ids, tasks, sandbox>>
  BY DEF handover, Elsewhere
<1>2. /\ w \in Actors /\ act[w].goal = "task" /\ act[w].task \in 1 .. Len(tasks) /\ act[w].task \in Nat /\ Tree(dirs)
      /\ tasks \in Seq(Repos) /\ Len(tasks) \in Nat
  BY <1>1, WorkerAt
<1>3. CASE Refuse(w) /\ UNCHANGED dirs
  BY <1>1, <1>2, <1>3, RefuseMoves
<1>4. ASSUME ~(configured_identity = "error" \/ (configured_identity = "sandbox" /\ ~require_real_directory(dir))),
             Proceeds(w, fields), dirs' = prepare_untrusted_workdir(dir)
      PROVE  RunnersInv'
  <2>1. act[w].root \in Roots
    BY <1>1 DEF RunnersInv, WorkerSound
  <2>2. dir \in Seq(Segments)
    BY <1>2, <2>1, WorkdirIs
  <2>3. DOMAIN fields = {"pc"} /\ fields.pc = "spawn" /\ Proceeds(w, fields)
    BY <1>4
  <2> HIDE DEF fields
  <2>4. DOMAIN fields \subseteq DOMAIN NoTask
    BY <2>3, TaskFields
  <2>5. /\ act' = [b \in Actors |-> act'[b]] /\ DOMAIN act'[w] = DOMAIN NoTask
        /\ \A b \in Actors \ {w} : act'[b] = act[b]
        /\ \A c \in DOMAIN fields : act'[w][c] = fields[c]
        /\ \A c \in DOMAIN NoTask : c \notin DOMAIN fields => act'[w][c] = act[w][c]
    BY <1>2, <2>3, <2>4, ProceedsIs
  <2>6. act'[w].pc = "spawn" /\ act'[w].root = act[w].root /\ act'[w].task = act[w].task /\ act'[w].goal = "task"
    BY <1>2, <2>3, <2>5, TaskFields
  <2>7. /\ DOMAIN dirs' = DOMAIN dirs
        /\ \A p \in DOMAIN dirs : /\ DOMAIN dirs'[p] = DOMAIN dirs[p] /\ dirs'[p].real = dirs[p].real
                                  /\ dirs'[p].done = dirs[p].done /\ (dirs[p].group => dirs'[p].group)
        /\ configured_identity = "sandbox" => \A p \in DOMAIN dirs : p \in Prefixes(dir) => dirs'[p].group
    <3>1. CASE configured_identity = "none"
      BY <1>4, <3>1 DEF prepare_untrusted_workdir
    <3>2. CASE configured_identity # "none"
      <4>1. {dir} \cup _ancestor_dirs(dir) = Prefixes(dir)
        BY <2>2, PrefixesAre DEF _ancestor_dirs
      <4>2. dirs' = _relax(Prefixes(dir))
        BY <1>4, <3>2, <4>1 DEF prepare_untrusted_workdir
      <4> QED BY <1>2, <4>2, RelaxIs
    <3> QED BY <3>1, <3>2
  <2>8. Tree(dirs)'
    BY <1>2, <2>7, TreeKept
  <2>9. ASSUME sandbox.conf = "pair" PROVE Open(dirs, workdir(w))'
    <3>1. configured_identity = "sandbox"
      BY <2>9 DEF configured_identity
    <3>2. dir \in DOMAIN dirs /\ dirs[dir].real
      BY <1>4, <3>1 DEF require_real_directory, Real
    <3>3. \A p \in Prefixes(dir) : p \in DOMAIN dirs /\ dirs[p].real
      BY <1>2, <3>2 DEF Tree
    <3>4. workdir(w)' = dir
      BY <2>6 DEF workdir
    <3> QED BY <2>7, <3>1, <3>3, <3>4 DEF Open
  <2>10. ActorSound(w)' /\ WorkerSound(w)'
    BY <1>1, <1>2, <2>1, <2>5, <2>6, <2>9 DEF ActorSound, WorkerSound
  <2>11. Len(tasks) <= Len(tasks') /\ tasks' \in Seq(Repos)
    BY <1>1, <1>2
  <2> QED BY <1>1, <2>5, <2>6, <2>7, <2>8, <2>10, <2>11, DirMoves
<1> QED BY <1>3, <1>4 DEF handover

LEMMA SpawnStep == ASSUME RunnersInv, NEW w \in Workers, spawn(w) PROVE RunnersInv'
<1> DEFINE fields == IF untrusted_popen_kwargs = "error" THEN [pc |-> "end"]
                     ELSE [pc |-> "running", uid |-> untrusted_popen_kwargs]
<1>1. act[w].pc = "spawn" /\ UNCHANGED <<rows, ids, tasks, dirs, sandbox>> /\ Proceeds(w, fields)
  BY DEF spawn, Elsewhere
<1>2. /\ w \in Actors /\ act[w].goal = "task" /\ act[w].task \in 1 .. Len(tasks) /\ tasks \in Seq(Repos)
      /\ Len(tasks) \in Nat
  BY <1>1, WorkerAt
<1>3. /\ DOMAIN fields \subseteq {"pc", "uid"} /\ "pc" \in DOMAIN fields /\ fields.pc \in {"running", "end"}
      /\ fields.pc = "running" => /\ "uid" \in DOMAIN fields /\ fields.uid = untrusted_popen_kwargs
                                  /\ untrusted_popen_kwargs # "error"
  OBVIOUS
<1> HIDE DEF fields
<1>4. DOMAIN fields \subseteq DOMAIN NoTask
  BY <1>3, TaskFields
<1>5. /\ act' = [b \in Actors |-> act'[b]] /\ DOMAIN act'[w] = DOMAIN NoTask
      /\ \A b \in Actors \ {w} : act'[b] = act[b]
      /\ \A c \in DOMAIN fields : act'[w][c] = fields[c]
      /\ \A c \in DOMAIN NoTask : c \notin DOMAIN fields => act'[w][c] = act[w][c]
  BY <1>1, <1>2, <1>4, ProceedsIs
<1>6. /\ act'[w].pc \in {"running", "end"} /\ act'[w].root = act[w].root /\ act'[w].task = act[w].task
      /\ act'[w].goal = "task"
  BY <1>2, <1>3, <1>5, TaskFields
<1>7. act'[w].pc = "running" => act'[w].uid = untrusted_popen_kwargs /\ untrusted_popen_kwargs # "error"
  BY <1>3, <1>5
<1>8. untrusted_popen_kwargs # "error" =>
        /\ sandbox.conf \in {"unset", "pair"}
        /\ untrusted_popen_kwargs = (IF sandbox.conf = "unset" THEN "worker" ELSE "sandbox")
  BY DEF untrusted_popen_kwargs, configured_identity
<1>9. act[w].root \in Roots /\ (sandbox.conf = "pair" => Open(dirs, workdir(w)))
  BY <1>1 DEF RunnersInv, WorkerSound
<1>10. sandbox.conf = "pair" => Open(dirs, workdir(w))'
  BY <1>1, <1>6, <1>9 DEF Open, workdir
<1>11. ActorSound(w)' /\ WorkerSound(w)'
  BY <1>1, <1>2, <1>5, <1>6, <1>7, <1>8, <1>9, <1>10 DEF ActorSound, WorkerSound
<1> QED BY <1>1, <1>2, <1>5, <1>6, <1>11, ActorMoves

LEMMA FinishStep == ASSUME RunnersInv, NEW w \in Workers, mark_finished(w) PROVE RunnersInv'
<1> DEFINE dir == workdir(w)
<1>1. act[w].pc \in {"running", "end"} /\ UNCHANGED <<rows, ids, tasks, sandbox>> /\ Refuse(w)
  BY DEF mark_finished, Elsewhere
<1>2. /\ w \in Actors /\ act[w].task \in Nat /\ Tree(dirs) /\ tasks \in Seq(Repos) /\ Len(tasks) \in Nat
  BY <1>1, WorkerAt
<1>3. act[w].root \in Roots
  BY <1>1 DEF RunnersInv, WorkerSound
<1>4. Len(dir) > 1
  BY <1>2, <1>3, WorkdirIs
<1>5. dirs' = IF dir \in DOMAIN dirs THEN [dirs EXCEPT ![dir].done = now] ELSE dirs
  BY DEF mark_finished
<1> HIDE DEF dir
<1>6. /\ DOMAIN dirs' = DOMAIN dirs
      /\ \A p \in DOMAIN dirs : /\ DOMAIN dirs'[p] = DOMAIN dirs[p] /\ dirs'[p].real = dirs[p].real
                                /\ dirs'[p].done = dirs[p].done \/ Len(p) > 1
                                /\ dirs'[p].group = dirs[p].group
  <2>1. CASE dir \in DOMAIN dirs
    <3>1. dirs' = [dirs EXCEPT ![dir] = [dirs[dir] EXCEPT !.done = now]]
      BY <1>5, <2>1
    <3>2. DOMAIN dirs' = DOMAIN dirs /\ dirs'[dir] = [dirs[dir] EXCEPT !.done = now]
          /\ \A p \in DOMAIN dirs \ {dir} : dirs'[p] = dirs[p]
      BY <2>1, <3>1
    <3>3. /\ DOMAIN dirs'[dir] = DOMAIN dirs[dir] /\ dirs'[dir].real = dirs[dir].real
          /\ dirs'[dir].group = dirs[dir].group
      BY <1>2, <2>1, <3>2 DEF Tree
    <3> QED BY <1>4, <3>2, <3>3
  <2>2. CASE dir \notin DOMAIN dirs
    BY <1>5, <2>2
  <2> QED BY <2>1, <2>2
<1>7. Tree(dirs)'
  BY <1>2, <1>6, TreeKept
<1>8. act'[w].pc = "idle" /\ act'[w].task = 0 /\ ActorSound(w)' /\ WorkerSound(w)'
  BY <1>1, <1>2, RefuseIs, IdleTask, TaskFields
<1>9. act' = [b \in Actors |-> act'[b]] /\ \A b \in Actors \ {w} : act'[b] = act[b]
  BY <1>1, <1>2, RefuseIs
<1>10. Len(tasks) <= Len(tasks') /\ tasks' \in Seq(Repos)
  BY <1>1, <1>2
<1> QED BY <1>1, <1>6, <1>7, <1>8, <1>9, <1>10, DirMoves

-----------------------------------------------------------------------------
(* Around the tasks.                                                       *)

\* Steps no actor takes, and that leave what operators and workers stand on.
LEMMA Around ==
    ASSUME RunnersInv, UNCHANGED <<rows, ids, act, tasks, sandbox>>, Tree(dirs)',
           \A w \in Workers : act[w].pc \in {"spawn", "running", "end"} /\ Open(dirs, workdir(w)) => Open(dirs, workdir(w))'
    PROVE  RunnersInv'
<1>1. FlushedApart' /\ TasksApart'
  BY DEF RunnersInv, FlushedApart, TasksApart
<1>2. RowsSound' /\ \A a \in Actors : ActorSound(a)'
  <2>1. \A r \in DOMAIN rows : {"id", "subdir"} \subseteq DOMAIN rows[r]
    BY DEF RunnersInv, RowsSound, Numbered
  <2> QED BY <2>1, NumbersKept
<1>3. \A w \in Workers : WorkerSound(w)'
  BY DEF RunnersInv, WorkerSound
<1> QED BY <1>1, <1>2, <1>3 DEF RunnersInv

\* The documented sweep looks for checkouts where none is.
LEMMA SweepStep == ASSUME RunnersInv, sweep PROVE RunnersInv'
<1>1. Tree(dirs) /\ UNCHANGED <<rows, ids, act, tasks, sandbox>> /\ dirs' = remove_workdirs(sweep_workdirs(<<>>))
  BY DEF RunnersInv, sweep
<1>2. sweep_workdirs(<<>>) = {}
  <2>1. ASSUME NEW p \in sweep_workdirs(<<>>) PROVE FALSE
    <3>1. p \in DOMAIN dirs /\ Len(p) = Len(<<>>) + 1 /\ dirs[p].done # Never
      BY <2>1 DEF sweep_workdirs
    <3>2. Len(p) > 1
      BY <1>1, <3>1 DEF Tree
    <3>3. Len(<<>>) = 0
      OBVIOUS
    <3> QED BY <3>1, <3>2, <3>3
  <2> QED BY <2>1
<1>3. DOMAIN dirs' = DOMAIN dirs /\ \A p \in DOMAIN dirs : dirs'[p] = dirs[p]
  BY <1>1, <1>2 DEF remove_workdirs
<1>4. Tree(dirs)'
  BY <1>1, <1>3 DEF Tree
<1>5. \A w \in Workers : Open(dirs, workdir(w)) => Open(dirs, workdir(w))'
  BY <1>1, <1>3 DEF Open, workdir
<1> QED BY <1>1, <1>4, <1>5, Around

\* What gets in a directory's way takes all below it along, and no checkout in use.
LEMMA ObstructStep == ASSUME RunnersInv, Obstruct PROVE RunnersInv'
<1>1. Tree(dirs) /\ UNCHANGED <<rows, ids, act, tasks, sandbox>>
  BY DEF RunnersInv, Obstruct
<1>2. PICK p \in DOMAIN dirs \ {<<>>} :
          /\ \A w \in Workers : act[w].pc \in {"spawn", "running", "end"} => ~IsPrefix(p, workdir(w))
          /\ dirs' = [q \in {q \in DOMAIN dirs : q = p \/ ~IsPrefix(p, q)} |->
                         IF q = p THEN [dirs[q] EXCEPT !.real = FALSE] ELSE dirs[q]]
  BY DEF Obstruct
<1>3. p \in Seq(Segments) /\ DOMAIN dirs[p] = {"real", "group", "done"}
  BY <1>1 DEF Tree
<1>4. /\ DOMAIN dirs' = {q \in DOMAIN dirs : q = p \/ ~IsPrefix(p, q)}
      /\ \A q \in DOMAIN dirs' : q # p => dirs'[q] = dirs[q]
      /\ dirs'[p] = [dirs[p] EXCEPT !.real = FALSE]
  BY <1>2
<1>5. DOMAIN dirs'[p] = {"real", "group", "done"} /\ dirs'[p].done = dirs[p].done
  BY <1>3, <1>4
<1>6. ASSUME NEW x \in DOMAIN dirs', NEW y \in Prefixes(x) PROVE y \in DOMAIN dirs' /\ (y # x => dirs'[y].real)
  <2>1. /\ x \in DOMAIN dirs /\ x \in Seq(Segments) /\ y \in Seq(Segments) /\ IsPrefix(y, x)
        /\ y \in DOMAIN dirs /\ (y # x => dirs[y].real)
    BY <1>1, <1>4, <1>6, PrefixesAre DEF Tree
  <2>2. CASE y = x
    BY <1>6, <2>2
  <2>3. CASE y # x
    <3>1. ~IsPrefix(p, y)
      <4>1. SUFFICES ASSUME IsPrefix(p, y) PROVE FALSE
        OBVIOUS
      <4>2. IsPrefix(p, x)
        BY <1>3, <2>1, <4>1, PrefixTransitive
      <4>3. x = p
        BY <1>4, <1>6, <4>2
      <4>4. y = x
        BY <1>3, <2>1, <4>1, <4>3, PrefixSays
      <4> QED BY <2>3, <4>4
    <3>2. y # p
      BY <1>3, <3>1, PrefixesAre
    <3> QED BY <1>4, <2>1, <2>3, <3>1, <3>2
  <2> QED BY <2>2, <2>3
<1>7. Tree(dirs)'
  <2>1. \A q \in DOMAIN dirs' : q \in Seq(Segments) /\ DOMAIN dirs'[q] = {"real", "group", "done"}
    BY <1>1, <1>4, <1>5 DEF Tree
  <2>2. \A q \in DOMAIN dirs' : dirs'[q].done # Never => Len(q) > 1
    BY <1>1, <1>4, <1>5 DEF Tree
  <2>3. Tree(dirs')
    BY <1>6, <2>1, <2>2 DEF Tree
  <2> QED BY <2>3 DEF Tree
<1>8. ASSUME NEW w \in Workers, act[w].pc \in {"spawn", "running", "end"}, Open(dirs, workdir(w))
      PROVE  Open(dirs, workdir(w))'
  <2>1. ~IsPrefix(p, workdir(w)) /\ workdir(w) \in Seq(Segments)
    <3>1. act[w].root \in Roots /\ act[w].task \in Nat
      BY <1>8, WorkerAt DEF RunnersInv, WorkerSound
    <3> QED BY <1>2, <1>8, <3>1, WorkdirIs
  <2>2. ASSUME NEW q \in Prefixes(workdir(w)) PROVE q \in DOMAIN dirs' /\ dirs'[q] = dirs[q]
    <3>1. q \in Seq(Segments) /\ IsPrefix(q, workdir(w)) /\ q \in DOMAIN dirs
      BY <1>8, <2>1, PrefixesAre DEF Open
    <3>2. ~IsPrefix(p, q)
      BY <1>3, <2>1, <3>1, PrefixTransitive
    <3>3. q # p
      BY <1>3, <3>2, PrefixesAre
    <3> QED BY <1>4, <3>1, <3>2, <3>3
  <2>3. workdir(w)' = workdir(w)
    BY <1>1 DEF workdir
  <2> QED BY <1>8, <2>2, <2>3 DEF Open
<1> QED BY <1>1, <1>7, <1>8, Around

-----------------------------------------------------------------------------
(* The runners over every behaviour.                                       *)

LEMMA RunnersStart == RunnersInit => RunnersInv
<1> SUFFICES ASSUME RunnersInit PROVE RunnersInv
  OBVIOUS
<1>1. act = [a \in Actors |-> act[a]] /\ \A a \in Actors : act[a] = NoTask
  BY DEF RunnersInit
<1>2. \A a \in Actors : ActorSound(a)
  BY <1>1, TaskFields DEF ActorSound
<1>3. \A w \in Workers : WorkerSound(w)
  BY <1>1, RolesApart, TaskFields DEF WorkerSound
<1>4. FlushedApart /\ TasksApart
  BY <1>1, RolesApart, TaskFields DEF FlushedApart, TasksApart
<1>5. RowsSound
  BY DEF RunnersInit, RowsSound, WorkspacesApart
<1>6. Tree(dirs)
  <2>1. DOMAIN dirs = {<<>>} /\ dirs[<<>>] = Private
    BY DEF RunnersInit
  <2>2. Private.real = TRUE /\ Private.done = Never /\ DOMAIN Private = {"real", "group", "done"}
    BY DEF Private
  <2>3. <<>> \in Seq(Segments)
    OBVIOUS
  <2>4. ASSUME NEW q \in Prefixes(<<>>) PROVE q = <<>>
    <3>1. q \in Seq(Segments) /\ IsPrefix(q, <<>>) /\ Len(q) <= Len(<<>>)
      BY <2>3, <2>4, PrefixesAre
    <3>2. Len(q) \in Nat /\ Len(<<>>) = 0
      BY <3>1
    <3>3. Len(q) = Len(<<>>)
      BY <3>1, <3>2
    <3> QED BY <2>3, <3>1, <3>3, PrefixSays
  <2> QED BY <2>1, <2>2, <2>3, <2>4 DEF Tree
<1> QED BY <1>1, <1>2, <1>3, <1>4, <1>5, <1>6 DEF RunnersInit, RunnersInv

LEMMA RunnersStep ==
    OneOperator /\ PathsApart /\ DecimalApart /\ RunnersInv /\ [RunnersNext]_runnerVars => RunnersInv'
<1> SUFFICES ASSUME OneOperator, PathsApart, DecimalApart, RunnersInv, [RunnersNext]_runnerVars PROVE RunnersInv'
  OBVIOUS
<1>1. ASSUME NEW o \in Operators, NEW r \in Repos,
             update_runner(o, r) \/ put_runner_credential(o, r) \/ delete_runner_credential(o, r)
      PROVE  RunnersInv'
  BY <1>1, RequestSteps
<1>2. ASSUME NEW a \in Actors, _runner_row(a) \/ _create(a) \/ _create_commit(a) PROVE RunnersInv'
  BY <1>2, FindStep, CreateStep, CommitStep
<1>3. ASSUME NEW o \in Operators, update_check(o) \/ update_row(o) \/ set_credential(o) \/ clear_credential(o)
      PROVE  RunnersInv'
  BY <1>3, CheckRunner, UpdateRowStep, CredentialSteps
<1>4. ASSUME NEW w \in Workers,
             \/ _load_task(w) \/ record_task(w) \/ resolve_credential(w) \/ workspace_root(w)
             \/ clone(w) \/ handover(w) \/ spawn(w) \/ mark_finished(w)
      PROVE  RunnersInv'
  BY <1>4, LoadStep, RecordStep, ResolveStep, RootStep, CloneStep, HandoverStep, SpawnStep, FinishStep
<1>5. ASSUME Tick \/ Rekey \/ UNCHANGED runnerVars PROVE RunnersInv'
  <2>1. UNCHANGED <<rows, ids, act, tasks, dirs, sandbox>>
    BY <1>5 DEF Tick, Rekey, runnerVars
  <2>2. Tree(dirs)' /\ \A w \in Workers : Open(dirs, workdir(w)) => Open(dirs, workdir(w))'
    BY <2>1 DEF RunnersInv, Tree, Open, workdir
  <2> QED BY <2>1, <2>2, Around
<1> QED BY <1>1, <1>2, <1>3, <1>4, <1>5, SweepStep, ObstructStep DEF RunnersNext

\* Checkouts of two tasks, in roots that are one or that are not.
LEMMA CheckoutsHold ==
    ASSUME PathsApart, DecimalApart, RunnersInv, NEW v \in Workers, NEW w \in Workers, v # w,
           act[v].pc = "running", act[w].pc = "running", IsPrefix(workdir(v), workdir(w))
    PROVE  FALSE
<1> DEFINE p == act[v].root
           q == act[w].root
           x == ToString(act[v].task)
           y == ToString(act[w].task)
<1>1. act[v].task \in Nat /\ act[w].task \in Nat /\ act[v].task # act[w].task
  <2>1. /\ act[v].task \in 1 .. Len(tasks) /\ act[v].task \in Nat /\ act[w].task \in Nat /\ Len(tasks) \in Nat
        /\ TasksApart
    BY WorkerAt DEF RunnersInv
  <2>2. act[v].task # 0
    BY <2>1
  <2> QED BY <2>1, <2>2 DEF TasksApart
<1>2. p \in Roots /\ q \in Roots
  BY DEF RunnersInv, WorkerSound
<1>3. p \in Seq(Segments) /\ q \in Seq(Segments) /\ x \in Segments /\ y \in Segments
  BY <1>1, <1>2, SegmentsHold
<1>4. x # y
  BY <1>1 DEF DecimalApart
<1>5. IsPrefix(Append(p, x), Append(q, y))
  BY DEF workdir
<1> HIDE DEF p, q, x, y
<1>6. Len(p) < Len(q) /\ IsPrefix(p, q) /\ q[Len(p) + 1] = x
  BY <1>3, <1>4, <1>5, CheckoutPrefix
<1>7. Len(p) \in Nat /\ Len(q) \in Nat /\ (p # <<>> => Len(p) > 0) /\ \A i \in 1 .. Len(p) : p[i] = q[i]
  BY <1>3, <1>6, PrefixSays
<1>8. ASSUME NEW i \in Nat, p = Default(i) PROVE FALSE
  <2>1. Len(p) = 2 /\ p[1] = DEFAULT_WORKSPACE_SUBDIR
    BY <1>8 DEF Default
  <2>2. q[1] = DEFAULT_WORKSPACE_SUBDIR
    BY <1>7, <2>1
  <2>3. q \in Explicit
    <3>1. ASSUME NEW j \in Nat, q = Default(j) PROVE FALSE
      <4>1. Len(q) = 2
        BY <3>1 DEF Default
      <4> QED BY <1>6, <2>1, <4>1
    <3> QED BY <1>2, <3>1 DEF Roots
  <2> QED BY <2>2, <2>3 DEF PathsApart
<1>9. ASSUME p \in Explicit, q \in Explicit PROVE FALSE
  BY <1>1, <1>6, <1>9 DEF PathsApart, x
<1>10. ASSUME p \in Explicit, NEW j \in Nat, q = Default(j) PROVE FALSE
  <2>1. p # <<>> /\ p[1] # DEFAULT_WORKSPACE_SUBDIR
    BY <1>10 DEF PathsApart, Explicit
  <2>2. q[1] = DEFAULT_WORKSPACE_SUBDIR
    BY <1>10 DEF Default
  <2>3. p[1] = q[1]
    BY <1>7, <2>1
  <2> QED BY <2>1, <2>2, <2>3
<1> QED BY <1>2, <1>8, <1>9, <1>10 DEF Roots

LEMMA RunnersInvHolds == PathsApart /\ DecimalApart /\ RunnersInv => RunnersTrue
<1> SUFFICES ASSUME PathsApart, DecimalApart, RunnersInv PROVE RunnersTrue
  OBVIOUS
<1>1. WorkspacesApart
  BY DEF RunnersInv, RowsSound
<1>2. CheckoutsApart
  BY CheckoutsHold DEF CheckoutsApart
<1>3. UntrustedApart
  <2>1. ASSUME NEW w \in Workers, act[w].pc = "running"
        PROVE  /\ act[w].uid = "worker" <=> sandbox.conf = "unset"
               /\ act[w].uid = "sandbox" => \A p \in Prefixes(workdir(w)) : Real(p) /\ dirs[p].group
    <3>1. /\ act[w].uid = (IF sandbox.conf = "unset" THEN "worker" ELSE "sandbox")
          /\ sandbox.conf \in {"unset", "pair"} /\ (sandbox.conf = "pair" => Open(dirs, workdir(w)))
      BY <2>1 DEF RunnersInv, WorkerSound
    <3> QED BY <3>1 DEF Open, Real
  <2> QED BY <2>1 DEF UntrustedApart
<1> QED BY <1>1, <1>2, <1>3 DEF RunnersTrue

\* Whatever operators set while tasks run, no repository's workspace is another's,
\* a run's code acts as the user the deployment asked for and can reach its
\* checkout, and two runs share no checkout (repo_runner.py update and _create,
\* sandbox_identity.py, agent_runner.py), when one operator edits at a time and no
\* path set lies under runners/ or inside another's checkout.
THEOREM RunnersHold == OneOperator /\ PathsApart /\ DecimalApart => (RunnersSpec => []RunnersTrue)
<1> SUFFICES ASSUME OneOperator, PathsApart, DecimalApart PROVE RunnersSpec => []RunnersTrue
  OBVIOUS
<1>1. RunnersInit => RunnersInv
  BY RunnersStart
<1>2. RunnersInv /\ [RunnersNext]_runnerVars => RunnersInv'
  BY RunnersStep
<1>3. RunnersInv => RunnersTrue
  BY RunnersInvHolds
<1> QED BY <1>1, <1>2, <1>3, PTL DEF RunnersSpec

-----------------------------------------------------------------------------
(* The counters: what a refresh knows of the disk and of the usage rows.   *)

Counts == [ApiKeys -> [Counters -> Nat]]
Column(table, c) == [k \in ApiKeys |-> table[k][c]]

\* The rows only grow, and their totals are cardinalities of finite sets.
Counted ==
    /\ usage \in Counts /\ due = usage
    /\ \A k \in ApiKeys : IsFiniteSet(Units(usage[k]))
    /\ \A c \in Counters : IsFiniteSet(Units(Column(usage, c)))

\* What the index says of a file is true once its watch events are handled.
IndexTrue(w) ==
    \A f \in Files : f \notin unseen[w] =>
        /\ (entry[w][f].there <=> sizeof[f] # 0)
        /\ entry[w][f].size \in {0, sizeof[f]}

Object == [gen : Nat, there : BOOLEAN, size : Nat]
Indexing ==
    /\ sizeof \in [Files -> Nat] /\ unseen \in [Processes -> SUBSET Files]
    /\ entry \in [Processes -> [Files -> Object]]
    /\ \A w \in Processes : IndexTrue(w)

Earlier(since, used) ==
    /\ since \in Counts
    /\ \A k \in ApiKeys : \A c \in Counters : since[k][c] <= used[k][c]

StorageKnown(d) == "disk" \notin d.met => d.storage = d.held

KeysKnown(d, used) == \A k \in ApiKeys :
    d.keys[k] \in Nat /\ Total(d.since[k]) <= d.keys[k] /\ d.keys[k] <= Total(used[k])

DownloadsKnown(d, used) == \A p \in PackageNames \cap Counters :
    /\ d.downloads[p] \in Nat /\ d.downloads[p] <= Total(Column(used, p))
    /\ "blank" \in d.met \/ Total(Column(d.since, p)) <= d.downloads[p]

\* A document that was stored.
Sound(d, used) ==
    Usable(d) => Earlier(d.since, used) /\ StorageKnown(d) /\ KeysKnown(d, used) /\ DownloadsKnown(d, used)

\* A refresh has copied a size of the disk for every file it need not look at.
Sized(x, sizes) == x.doc.held = Total(sizes) /\ \A f \in Files \ x.todo : x.taken[f].size = sizes[f]

\* What a refresh under way has found by each of its steps.
RefreshKnows(x, used, sizes) ==
    /\ x.pc \in {"idle", "sizes", "usage", "cache", "save"}
    /\ x.pc # "idle" => Earlier(x.doc.since, used)
    /\ x.pc = "sizes" /\ "disk" \notin x.doc.met => Sized(x, sizes)
    /\ x.pc \in {"usage", "cache", "save"} => StorageKnown(x.doc) /\ KeysKnown(x.doc, used)
    /\ x.pc \in {"cache", "save"} => DownloadsKnown(x.doc, used)

DocFields == {"count", "storage", "ready", "keys", "downloads", "held", "since", "met"}
IsRefresh(x) ==
    /\ DOMAIN x = {"pc", "taken", "todo", "doc"} /\ DOMAIN x.doc = DocFields
    /\ x.taken \in [Files -> Object]

Refreshing ==
    /\ refresh = [r \in Refreshers |-> refresh[r]]
    /\ \A r \in Refreshers : IsRefresh(refresh[r]) /\ RefreshKnows(refresh[r], usage, sizeof)

DocsStored ==
    /\ cached = [w \in Processes |-> cached[w]]
    /\ Sound(snapshot, usage) /\ \A w \in Processes : Sound(cached[w], usage)

StatsInv == Counted /\ Indexing /\ Refreshing /\ DocsStored

USE StatsAssumption

-----------------------------------------------------------------------------
(* Totals.                                                                 *)

LEMMA UnitsOf ==
    ASSUME NEW g, NEW u
    PROVE  u \in Units(g) <=> \E x \in DOMAIN g : \E i \in 1 .. g[x] : u = <<x, i>>
<1> DEFINE B(x) == {x} \X (1 .. g[x])
<1>1. \A x : u \in B(x) <=> \E i \in 1 .. g[x] : u = <<x, i>>
  OBVIOUS
<1>2. Units(g) = UNION {B(x) : x \in DOMAIN g}
  BY DEF Units
<1> HIDE DEF B
<1>3. u \in UNION {B(x) : x \in DOMAIN g} <=> \E x \in DOMAIN g : u \in B(x)
  OBVIOUS
<1> QED BY <1>1, <1>2, <1>3

\* A table that says nowhere less has at least the total.
LEMMA TotalGrows ==
    ASSUME NEW D, NEW g \in [D -> Nat], NEW h \in [D -> Nat], \A x \in D : g[x] <= h[x], IsFiniteSet(Units(h))
    PROVE  /\ IsFiniteSet(Units(g)) /\ Total(g) \in Nat /\ Total(h) \in Nat /\ Total(g) <= Total(h)
<1>1. Units(g) \in SUBSET Units(h)
  <2>1. SUFFICES ASSUME NEW u \in Units(g) PROVE u \in Units(h)
    OBVIOUS
  <2>2. PICK x \in D : \E i \in 1 .. g[x] : u = <<x, i>>
    BY UnitsOf
  <2>3. 1 .. g[x] \subseteq 1 .. h[x]
    <3>1. g[x] \in Nat /\ h[x] \in Nat /\ g[x] <= h[x]
      OBVIOUS
    <3> QED BY <3>1
  <2> QED BY <2>2, <2>3, UnitsOf
<1> QED BY <1>1, FS_Subset, FS_CardinalityType DEF Total

LEMMA TotalIsNat == ASSUME NEW g, IsFiniteSet(Units(g)) PROVE Total(g) \in Nat
BY FS_CardinalityType DEF Total

\* Counting one more adds one element.
LEMMA UnitsAdd ==
    ASSUME NEW D, NEW g \in [D -> Nat], NEW x \in D, IsFiniteSet(Units(g))
    PROVE  IsFiniteSet(Units([g EXCEPT ![x] = @ + 1]))
<1> DEFINE h == [g EXCEPT ![x] = @ + 1]
<1>1. Units(h) \subseteq Units(g) \cup {<<x, g[x] + 1>>}
  <2>1. SUFFICES ASSUME NEW u \in Units(h) PROVE u \in Units(g) \cup {<<x, g[x] + 1>>}
    OBVIOUS
  <2>2. PICK y \in D : \E i \in 1 .. h[y] : u = <<y, i>>
    <3>1. DOMAIN h = D
      OBVIOUS
    <3> HIDE DEF h
    <3> QED BY <3>1, UnitsOf
  <2>3. CASE y # x
    BY <2>2, <2>3, UnitsOf
  <2>4. CASE y = x
    <3>1. g[x] \in Nat /\ h[x] = g[x] + 1
      OBVIOUS
    <3>2. 1 .. h[x] = (1 .. g[x]) \cup {g[x] + 1}
      BY <3>1
    <3> QED BY <2>2, <2>4, <3>2, UnitsOf
  <2> QED BY <2>3, <2>4
<1>2. IsFiniteSet(Units(g) \cup {<<x, g[x] + 1>>})
  BY FS_AddElement
<1> QED BY <1>1, <1>2, FS_Subset

LEMMA NoUnits ==
    ASSUME NEW D, NEW g, g = [x \in D |-> 0]
    PROVE  IsFiniteSet(Units(g)) /\ Total(g) = 0
<1>1. Units(g) = {}
  <2>1. SUFFICES ASSUME NEW u \in Units(g) PROVE FALSE
    OBVIOUS
  <2>2. PICK x \in D : \E i \in 1 .. g[x] : u = <<x, i>>
    BY UnitsOf
  <2> QED BY <2>2
<1> QED BY <1>1, FS_EmptySet DEF Total

LEMMA ColumnTyped ==
    ASSUME NEW table \in Counts, NEW c \in Counters
    PROVE  Column(table, c) \in [ApiKeys -> Nat]
BY DEF Counts, Column

LEMMA EarlierTotals ==
    ASSUME Counted, NEW since, Earlier(since, usage)
    PROVE  /\ \A k \in ApiKeys : /\ Total(since[k]) <= Total(usage[k])
                                 /\ Total(since[k]) \in Nat /\ Total(usage[k]) \in Nat
           /\ \A c \in Counters : /\ Total(Column(since, c)) <= Total(Column(usage, c))
                                  /\ Total(Column(since, c)) \in Nat /\ Total(Column(usage, c)) \in Nat
<1>1. ASSUME NEW k \in ApiKeys
      PROVE  Total(since[k]) <= Total(usage[k]) /\ Total(since[k]) \in Nat /\ Total(usage[k]) \in Nat
  <2>1. since[k] \in [Counters -> Nat] /\ usage[k] \in [Counters -> Nat]
    BY DEF Counted, Earlier, Counts
  <2> QED BY <2>1, TotalGrows DEF Counted, Earlier
<1>2. ASSUME NEW c \in Counters
      PROVE  /\ Total(Column(since, c)) <= Total(Column(usage, c))
             /\ Total(Column(since, c)) \in Nat /\ Total(Column(usage, c)) \in Nat
  <2>1. Column(since, c) \in [ApiKeys -> Nat] /\ Column(usage, c) \in [ApiKeys -> Nat]
    BY ColumnTyped DEF Counted, Earlier
  <2>2. \A k \in ApiKeys : Column(since, c)[k] <= Column(usage, c)[k]
    BY DEF Column, Earlier
  <2> QED BY <2>1, <2>2, TotalGrows DEF Counted
<1> QED BY <1>1, <1>2

-----------------------------------------------------------------------------
(* The usage rows.                                                         *)

\* Rows that only grew.
Grew == Counted /\ Counted' /\ \A k \in ApiKeys : \A c \in Counters : usage[k][c] <= usage'[k][c]

LEMMA EarlierKept ==
    ASSUME Grew, NEW since, Earlier(since, usage)
    PROVE  Earlier(since, usage')
<1>1. ASSUME NEW k \in ApiKeys, NEW c \in Counters PROVE since[k][c] <= usage'[k][c]
  <2>1. since[k][c] \in Nat /\ usage[k][c] \in Nat /\ usage'[k][c] \in Nat
    BY DEF Grew, Earlier, Counted, Counts
  <2>2. since[k][c] <= usage[k][c] /\ usage[k][c] <= usage'[k][c]
    BY DEF Grew, Earlier
  <2> QED BY <2>1, <2>2
<1> QED BY <1>1 DEF Earlier

LEMMA KeysKept ==
    ASSUME Grew, NEW d, KeysKnown(d, usage)
    PROVE  KeysKnown(d, usage')
<1>1. SUFFICES ASSUME NEW k \in ApiKeys PROVE d.keys[k] <= Total(usage'[k])
  BY DEF KeysKnown
<1>2. /\ Total(usage[k]) <= Total(usage'[k])
      /\ Total(usage[k]) \in Nat /\ Total(usage'[k]) \in Nat
  <2>1. usage[k] \in [Counters -> Nat] /\ usage'[k] \in [Counters -> Nat]
    BY DEF Grew, Counted, Counts
  <2> QED BY <2>1, TotalGrows DEF Grew, Counted
<1> QED BY <1>2 DEF KeysKnown

LEMMA DownloadsKept ==
    ASSUME Grew, NEW d, DownloadsKnown(d, usage)
    PROVE  DownloadsKnown(d, usage')
<1>1. SUFFICES ASSUME NEW p \in PackageNames \cap Counters PROVE d.downloads[p] <= Total(Column(usage', p))
  BY DEF DownloadsKnown
<1>2. /\ Total(Column(usage, p)) <= Total(Column(usage', p))
      /\ Total(Column(usage, p)) \in Nat /\ Total(Column(usage', p)) \in Nat
  <2>1. Column(usage, p) \in [ApiKeys -> Nat] /\ Column(usage', p) \in [ApiKeys -> Nat]
    BY ColumnTyped DEF Grew, Counted
  <2>2. \A k \in ApiKeys : Column(usage, p)[k] <= Column(usage', p)[k]
    BY DEF Grew, Column
  <2>3. IsFiniteSet(Units(Column(usage', p)))
    BY DEF Grew, Counted
  <2> QED BY <2>1, <2>2, <2>3, TotalGrows
<1> QED BY <1>2 DEF DownloadsKnown

LEMMA SoundKept ==
    ASSUME Grew, NEW d, Sound(d, usage)
    PROVE  Sound(d, usage')
BY EarlierKept, KeysKept, DownloadsKept DEF Sound

LEMMA RefreshKept ==
    ASSUME Grew, NEW x, RefreshKnows(x, usage, sizeof)
    PROVE  RefreshKnows(x, usage', sizeof)
BY EarlierKept, KeysKept, DownloadsKept DEF RefreshKnows

\* One request counts its event.
LEMMA CountStep ==
    ASSUME Counted, NEW k \in ApiKeys, NEW c \in Counters, NEW found \in BOOLEAN, _increment(k, c, found)
    PROVE  Grew
<1>1. CASE UNCHANGED <<usage, due>>
  <2>1. Counted'
    BY <1>1 DEF Counted
  <2>2. \A j \in ApiKeys : \A b \in Counters : usage[j][b] <= usage'[j][b]
    BY <1>1 DEF Counted, Counts
  <2> QED BY <2>1, <2>2 DEF Grew
<1>2. CASE usage' = [usage EXCEPT ![k][c] = @ + 1] /\ due' = [due EXCEPT ![k][c] = @ + 1]
  <2>1. usage' \in Counts /\ due' = usage'
    BY <1>2 DEF Counted, Counts
  <2>2. \A j \in ApiKeys : \A b \in Counters : usage[j][b] <= usage'[j][b]
    BY <1>2 DEF Counted, Counts
  <2>3. ASSUME NEW j \in ApiKeys PROVE IsFiniteSet(Units(usage'[j]))
    <3>1. CASE j # k
      <4>1. usage'[j] = usage[j]
        BY <1>2, <3>1 DEF Counted, Counts
      <4> QED BY <4>1 DEF Counted
    <3>2. CASE j = k
      <4>1. usage'[j] = [usage[k] EXCEPT ![c] = @ + 1] /\ usage[k] \in [Counters -> Nat]
        BY <1>2, <3>2 DEF Counted, Counts
      <4> QED BY <4>1, UnitsAdd DEF Counted
    <3> QED BY <3>1, <3>2
  <2>4. ASSUME NEW b \in Counters PROVE IsFiniteSet(Units(Column(usage', b)))
    <3>1. CASE b # c
      <4>1. Column(usage', b) = Column(usage, b)
        BY <1>2, <3>1 DEF Counted, Counts, Column
      <4> QED BY <4>1 DEF Counted
    <3>2. CASE b = c
      <4>1. Column(usage', b) = [Column(usage, c) EXCEPT ![k] = @ + 1]
        BY <1>2, <3>2 DEF Counted, Counts, Column
      <4>2. Column(usage, c) \in [ApiKeys -> Nat]
        BY ColumnTyped DEF Counted
      <4> QED BY <4>1, <4>2, UnitsAdd DEF Counted
    <3> QED BY <3>1, <3>2
  <2>5. Counted'
    BY <2>1, <2>3, <2>4 DEF Counted
  <2> QED BY <2>2, <2>5 DEF Grew
<1> QED BY <1>1, <1>2 DEF _increment

-----------------------------------------------------------------------------
(* The steps.                                                              *)

LEMMA Growth ==
    ASSUME StatsInv, Grew, UNCHANGED <<sizeof, unseen, entry, cached, snapshot, refresh>>
    PROVE  StatsInv'
<1>1. Indexing'
  BY DEF StatsInv, Indexing, IndexTrue
<1>2. Refreshing'
  <2>1. ASSUME NEW r \in Refreshers PROVE IsRefresh(refresh[r]) /\ RefreshKnows(refresh[r], usage', sizeof)
    BY RefreshKept DEF StatsInv, Refreshing
  <2> QED BY <2>1 DEF StatsInv, Refreshing
<1>3. DocsStored'
  <2>1. Sound(snapshot, usage') /\ \A w \in Processes : Sound(cached[w], usage')
    BY SoundKept DEF StatsInv, DocsStored
  <2> QED BY <2>1 DEF StatsInv, DocsStored
<1> QED BY <1>1, <1>2, <1>3 DEF Grew, StatsInv

LEMMA CountedStays == ASSUME Counted, UNCHANGED <<usage, due>> PROVE Counted'
BY DEF Counted

LEMMA DocsStay == ASSUME DocsStored, UNCHANGED <<usage, cached, snapshot>> PROVE DocsStored'
BY DEF DocsStored

LEMMA RefreshingStays == ASSUME Refreshing, UNCHANGED <<usage, sizeof, refresh>> PROVE Refreshing'
BY DEF Refreshing

LEMMA IndexesStay == ASSUME Indexing, UNCHANGED <<sizeof, unseen, entry>> PROVE Indexing'
BY DEF Indexing, IndexTrue

LEMMA AtRest == IsRefresh(Resting) /\ \A used, sizes : RefreshKnows(Resting, used, sizes)
BY DEF IsRefresh, RefreshKnows, Resting, NoStats, NoneThere, Object, DocFields

\* A file that changed marks every refresh under way.
LEMMA Marked ==
    ASSUME NEW x, IsRefresh(x), NEW used, NEW sizes, NEW sizes2, RefreshKnows(x, used, sizes)
    PROVE  /\ IsRefresh([x EXCEPT !.doc.met = @ \cup {"disk"}])
           /\ RefreshKnows([x EXCEPT !.doc.met = @ \cup {"disk"}], used, sizes2)
<1> DEFINE y == [x EXCEPT !.doc.met = @ \cup {"disk"}]
<1>1. /\ y.pc = x.pc /\ y.taken = x.taken /\ y.todo = x.todo /\ DOMAIN y = DOMAIN x
      /\ y.doc = [x.doc EXCEPT !.met = @ \cup {"disk"}]
  BY DEF IsRefresh
<1>3. /\ DOMAIN y.doc = DocFields /\ y.doc.met = x.doc.met \cup {"disk"}
      /\ y.doc.since = x.doc.since /\ y.doc.keys = x.doc.keys /\ y.doc.downloads = x.doc.downloads
  BY <1>1 DEF IsRefresh, DocFields
<1> HIDE DEF y
<1>4. IsRefresh(y)
  BY <1>1, <1>3 DEF IsRefresh
<1>5. StorageKnown(y.doc)
  BY <1>3 DEF StorageKnown
<1>6. KeysKnown(x.doc, used) => KeysKnown(y.doc, used)
  BY <1>3 DEF KeysKnown
<1>7. DownloadsKnown(x.doc, used) => DownloadsKnown(y.doc, used)
  BY <1>3 DEF DownloadsKnown
<1>8. RefreshKnows(y, used, sizes2)
  BY <1>1, <1>3, <1>5, <1>6, <1>7 DEF RefreshKnows
<1> QED BY <1>4, <1>8 DEF y

LEMMA DiskStep ==
    ASSUME StatsInv, NEW f \in Files, NEW size \in {0} \cup Sizes, DiskChanges(f, size)
    PROVE  StatsInv'
<1>1. Counted' /\ DocsStored'
  BY CountedStays, DocsStay DEF StatsInv, DiskChanges
<1>2. Indexing'
  <2>1. sizeof' \in [Files -> Nat]
    <3>1. size \in Nat
      OBVIOUS
    <3> QED BY <3>1 DEF StatsInv, Indexing, DiskChanges
  <2>2. ASSUME NEW w \in Processes PROVE IndexTrue(w)'
    <3>1. unseen'[w] = unseen[w] \cup {f} /\ entry'[w] = entry[w]
      BY DEF DiskChanges
    <3>2. \A g \in Files \ {f} : sizeof'[g] = sizeof[g]
      BY DEF StatsInv, Indexing, DiskChanges
    <3>3. IndexTrue(w)
      BY DEF StatsInv, Indexing
    <3> QED BY <3>1, <3>2, <3>3 DEF IndexTrue
  <2>3. unseen' \in [Processes -> SUBSET Files] /\ entry' = entry
    BY DEF StatsInv, Indexing, DiskChanges
  <2> QED BY <2>1, <2>2, <2>3 DEF StatsInv, Indexing
<1>3. Refreshing'
  <2>1. /\ refresh' = [r \in Refreshers |-> refresh'[r]] /\ usage' = usage
        /\ \A r \in Refreshers : refresh'[r] = IF refresh[r].pc = "idle" THEN refresh[r]
                                               ELSE [refresh[r] EXCEPT !.doc.met = @ \cup {"disk"}]
    BY DEF DiskChanges, MetByAll
  <2>2. ASSUME NEW r \in Refreshers PROVE IsRefresh(refresh'[r]) /\ RefreshKnows(refresh'[r], usage, sizeof')
    <3>1. IsRefresh(refresh[r]) /\ RefreshKnows(refresh[r], usage, sizeof)
      BY DEF StatsInv, Refreshing
    <3>2. CASE refresh[r].pc = "idle"
      BY <2>1, <3>1, <3>2 DEF RefreshKnows
    <3>3. CASE refresh[r].pc # "idle"
      <4> DEFINE marked == [refresh[r] EXCEPT !.doc.met = @ \cup {"disk"}]
      <4>1. refresh'[r] = marked
        BY <2>1, <3>3
      <4>2. IsRefresh(marked) /\ RefreshKnows(marked, usage, sizeof')
        BY <3>1, Marked
      <4> HIDE DEF marked
      <4> QED BY <4>1, <4>2
    <3> QED BY <3>2, <3>3
  <2> QED BY <2>1, <2>2 DEF Refreshing
<1> QED BY <1>1, <1>2, <1>3 DEF StatsInv

LEMMA WatchStep ==
    ASSUME StatsInv, NEW w \in Processes, NEW f \in Files,
           PackageIndex_add_or_update(w, f) \/ PackageIndex_remove(w, f)
    PROVE  StatsInv'
<1>1. Counted' /\ DocsStored' /\ Refreshing'
  BY CountedStays, DocsStay, RefreshingStays DEF StatsInv, PackageIndex_add_or_update, PackageIndex_remove
<1>2. PICK o \in Object :
        entry' = [entry EXCEPT ![w][f] = o] /\ (o.there <=> sizeof[f] # 0) /\ o.size = sizeof[f]
  <2>1. entry[w][f] \in Object /\ sizeof[f] \in Nat
    BY DEF StatsInv, Indexing
  <2>2. CASE PackageIndex_add_or_update(w, f)
    <3> DEFINE o == [gen |-> entry[w][f].gen + 1, there |-> TRUE, size |-> sizeof[f]]
    <3>1. o \in Object
      BY <2>1 DEF Object
    <3>2. entry' = [entry EXCEPT ![w][f] = o]
      BY <2>2 DEF PackageIndex_add_or_update, StatsInv, Indexing
    <3>3. sizeof[f] # 0
      BY <2>2 DEF PackageIndex_add_or_update
    <3> QED BY <3>1, <3>2, <3>3
  <2>3. CASE PackageIndex_remove(w, f)
    <3> DEFINE o == [entry[w][f] EXCEPT !.there = FALSE, !.size = 0]
    <3>1. o \in Object /\ o.there = FALSE /\ o.size = 0
      BY <2>1 DEF Object
    <3>2. entry' = [entry EXCEPT ![w][f] = o] /\ sizeof[f] = 0
      BY <2>3 DEF PackageIndex_remove, StatsInv, Indexing
    <3> QED BY <3>1, <3>2
  <2> QED BY <2>2, <2>3
<1>3. sizeof' = sizeof /\ unseen' = [unseen EXCEPT ![w] = @ \ {f}]
  BY DEF PackageIndex_add_or_update, PackageIndex_remove
<1>4. ASSUME NEW v \in Processes PROVE IndexTrue(v)'
  <2>1. IndexTrue(v)
    BY DEF StatsInv, Indexing
  <2>2. CASE v # w
    <3>1. entry'[v] = entry[v] /\ unseen'[v] = unseen[v]
      BY <1>2, <1>3, <2>2 DEF StatsInv, Indexing
    <3> QED BY <1>3, <2>1, <3>1 DEF IndexTrue
  <2>3. CASE v = w
    <3>1. /\ entry'[v][f] = o /\ unseen'[v] = unseen[v] \ {f}
          /\ \A h \in Files \ {f} : entry'[v][h] = entry[v][h]
      BY <1>2, <1>3, <2>3 DEF StatsInv, Indexing
    <3>2. (entry'[v][f].there <=> sizeof[f] # 0) /\ entry'[v][f].size = sizeof[f]
      BY <1>2, <3>1
    <3>3. ASSUME NEW h \in Files, h \notin unseen'[v]
          PROVE  (entry'[v][h].there <=> sizeof'[h] # 0) /\ entry'[v][h].size \in {0, sizeof'[h]}
      <4>1. CASE h = f
        BY <1>3, <3>2, <4>1
      <4>2. CASE h # f
        BY <1>3, <2>1, <3>1, <3>3, <4>2 DEF IndexTrue
      <4> QED BY <4>1, <4>2
    <3> QED BY <3>3 DEF IndexTrue
  <2> QED BY <2>2, <2>3
<1>5. entry' \in [Processes -> [Files -> Object]] /\ unseen' \in [Processes -> SUBSET Files]
  BY <1>2, <1>3 DEF StatsInv, Indexing
<1>6. Indexing'
  BY <1>3, <1>4, <1>5 DEF StatsInv, Indexing
<1> QED BY <1>1, <1>6 DEF StatsInv

\* A refresh that goes on keeps the others.
LEMMA RefreshGoes ==
    ASSUME StatsInv, NEW r \in Refreshers, NEW new, Moves(r, new), IsRefresh(new), RefreshKnows(new, usage, sizeof)
    PROVE  Refreshing' /\ Counted'
<1>1. usage' = usage /\ sizeof' = sizeof /\ due' = due /\ refresh' = [refresh EXCEPT ![r] = new]
  BY DEF Moves
<1>2. Counted'
  BY <1>1, CountedStays DEF StatsInv
<1>3. refresh' = [q \in Refreshers |-> refresh'[q]]
  BY <1>1 DEF StatsInv, Refreshing
<1>4. ASSUME NEW q \in Refreshers PROVE IsRefresh(refresh'[q]) /\ RefreshKnows(refresh'[q], usage, sizeof)
  BY <1>1 DEF StatsInv, Refreshing
<1> QED BY <1>1, <1>2, <1>3, <1>4 DEF Refreshing

LEMMA SnapshotStep ==
    ASSUME StatsInv, NEW r \in Refreshers, get_snapshot(r)
    PROVE  StatsInv'
<1> DEFINE w == Home[r]
           taken == entry[w]
           todo == {f \in InIndex(taken) : taken[f].size = 0}
           met == IF unseen[w] = {} THEN {} ELSE {"disk"}
           doc == [NoStats EXCEPT !.count = CountOf(taken), !.since = usage, !.held = Total(sizeof), !.met = met]
           new == [pc |-> "sizes", taken |-> taken, todo |-> todo, doc |-> doc]
<1>1. w \in Processes
  OBVIOUS
<1>2. Moves(r, new) /\ UNCHANGED <<entry, cached, snapshot>>
  BY DEF get_snapshot
<1> HIDE DEF met, taken
<1>3. DOMAIN doc = DocFields /\ doc.since = usage /\ doc.held = Total(sizeof) /\ doc.met = met
  BY DEF NoStats, DocFields
<1> HIDE DEF doc
<1> USE DEF met, taken
<1>4. taken \in [Files -> Object]
  BY <1>1 DEF StatsInv, Indexing
<1>5. IsRefresh(new)
  BY <1>3, <1>4 DEF IsRefresh
<1>6. Earlier(usage, usage)
  BY DEF StatsInv, Counted, Counts, Earlier
<1>7. ASSUME "disk" \notin met PROVE \A f \in Files \ todo : taken[f].size = sizeof[f]
  <2>1. unseen[w] = {} /\ IndexTrue(w)
    BY <1>1, <1>7 DEF StatsInv, Indexing
  <2>2. TAKE f \in Files \ todo
  <2>3. (taken[f].there <=> sizeof[f] # 0) /\ taken[f].size \in {0, sizeof[f]}
    BY <2>1 DEF IndexTrue
  <2>4. ~taken[f].there \/ taken[f].size # 0
    BY DEF InIndex
  <2> QED BY <2>3, <2>4
<1>8. RefreshKnows(new, usage, sizeof)
  BY <1>3, <1>6, <1>7 DEF RefreshKnows, Sized
<1>9. Refreshing' /\ Counted'
  BY <1>2, <1>5, <1>8, RefreshGoes
<1>10. Indexing' /\ DocsStored'
  BY <1>2, IndexesStay, DocsStay DEF StatsInv, Moves
<1> QED BY <1>9, <1>10 DEF StatsInv

LEMMA SizeStep ==
    ASSUME StatsInv, NEW r \in Refreshers, NEW f \in Files, _fill_sizes(r, f)
    PROVE  StatsInv'
<1> DEFINE x == refresh[r]
           new == [x EXCEPT !.taken[f].size = sizeof[f], !.todo = @ \ {f}]
           w == Home[r]
<1>1. /\ Moves(r, new) /\ UNCHANGED <<cached, snapshot>> /\ x.pc = "sizes"
      /\ entry' = entry \/ entry' = [entry EXCEPT ![w][f].size = sizeof[f]]
  BY DEF _fill_sizes, Reaches
<1>2. IsRefresh(x) /\ RefreshKnows(x, usage, sizeof) /\ sizeof[f] \in Nat /\ w \in Processes
  BY DEF StatsInv, Refreshing, Indexing
<1>3. /\ new.pc = x.pc /\ new.taken = [x.taken EXCEPT ![f].size = sizeof[f]] /\ new.todo = x.todo \ {f}
      /\ new.doc = x.doc /\ DOMAIN new = DOMAIN x
  BY <1>2 DEF IsRefresh
<1>4. [x.taken EXCEPT ![f].size = sizeof[f]] \in [Files -> Object]
  BY <1>2 DEF IsRefresh, Object
<1>5. \A g \in Files : [x.taken EXCEPT ![f].size = sizeof[f]][g].size = IF g = f THEN sizeof[f] ELSE x.taken[g].size
  BY <1>2 DEF IsRefresh, Object
<1> HIDE DEF new
<1>6. IsRefresh(new)
  BY <1>2, <1>3, <1>4 DEF IsRefresh
<1>7. Sized(x, sizeof) => Sized(new, sizeof)
  BY <1>3, <1>5 DEF Sized
<1>8. RefreshKnows(new, usage, sizeof)
  BY <1>1, <1>2, <1>3, <1>7 DEF RefreshKnows
<1>9. Refreshing' /\ Counted'
  BY <1>1, <1>6, <1>8, RefreshGoes
<1>10. DocsStored'
  BY <1>1, DocsStay DEF StatsInv, Moves
<1>11. sizeof' = sizeof /\ unseen' = unseen
  BY <1>1 DEF Moves
<1>12. Indexing'
  <2>1. CASE entry' = entry
    BY <1>11, <2>1, IndexesStay DEF StatsInv
  <2>2. CASE entry' = [entry EXCEPT ![w][f].size = sizeof[f]]
    <3> DEFINE o == [entry[w][f] EXCEPT !.size = sizeof[f]]
    <3>0. o \in Object
      <4>1. entry[w][f] \in Object
        BY <1>2 DEF StatsInv, Indexing
      <4> QED BY <1>2, <4>1 DEF Object
    <3>4. entry' = [entry EXCEPT ![w] = [entry[w] EXCEPT ![f] = o]]
      BY <2>2
    <3> HIDE DEF o
    <3>1. entry' \in [Processes -> [Files -> Object]]
      BY <1>2, <3>0, <3>4 DEF StatsInv, Indexing
    <3>2. ASSUME NEW v \in Processes, NEW g \in Files
          PROVE  /\ entry'[v][g].there = entry[v][g].there
                 /\ entry'[v][g].size \in {entry[v][g].size, sizeof[g]}
      BY <1>2, <2>2 DEF StatsInv, Indexing, Object
    <3>3. ASSUME NEW v \in Processes PROVE IndexTrue(v)'
      BY <1>11, <3>2 DEF StatsInv, Indexing, IndexTrue
    <3> QED BY <1>11, <3>1, <3>3 DEF StatsInv, Indexing
  <2> QED BY <1>1, <2>1, <2>2
<1> QED BY <1>9, <1>10, <1>12 DEF StatsInv

LEMMA KeyStep ==
    ASSUME StatsInv, NEW r \in Refreshers, _key_stats(r)
    PROVE  StatsInv'
<1> DEFINE x == refresh[r]
           storage == Total([f \in Files |-> x.taken[f].size])
           new == [x EXCEPT !.pc = "usage", !.doc.keys = KeyTotals, !.doc.ready = TRUE, !.doc.storage = storage]
           doc == [x.doc EXCEPT !.keys = KeyTotals, !.ready = TRUE, !.storage = storage]
<1>1. Moves(r, new) /\ UNCHANGED <<entry, cached, snapshot>> /\ x.pc = "sizes" /\ x.todo = {}
  BY DEF _key_stats, Reaches
<1>2. IsRefresh(x) /\ RefreshKnows(x, usage, sizeof)
  BY DEF StatsInv, Refreshing
<1> HIDE DEF storage
<1>3. new.pc = "usage" /\ new.taken = x.taken /\ DOMAIN new = DOMAIN x /\ new.doc = doc
  BY <1>2 DEF IsRefresh
<1>4. /\ DOMAIN doc = DocFields /\ doc.since = x.doc.since /\ doc.held = x.doc.held /\ doc.met = x.doc.met
      /\ doc.keys = KeyTotals /\ doc.storage = storage
  BY <1>2 DEF IsRefresh, DocFields
<1> HIDE DEF doc
<1> HIDE DEF new
<1>5. IsRefresh(new)
  BY <1>2, <1>3, <1>4 DEF IsRefresh
<1>6. Earlier(x.doc.since, usage)
  BY <1>1, <1>2 DEF RefreshKnows
<1>7. StorageKnown(doc)
  <2>1. SUFFICES ASSUME "disk" \notin x.doc.met PROVE storage = x.doc.held
    BY <1>4 DEF StorageKnown
  <2>2. x.doc.held = Total(sizeof) /\ \A f \in Files : x.taken[f].size = sizeof[f]
    BY <1>1, <1>2, <2>1 DEF RefreshKnows, Sized
  <2>3. [f \in Files |-> x.taken[f].size] = sizeof
    BY <2>2 DEF StatsInv, Indexing
  <2> QED BY <2>2, <2>3 DEF storage
<1>8. KeysKnown(doc, usage)
  BY <1>4, <1>6, EarlierTotals DEF KeysKnown, KeyTotals, StatsInv
<1>9. RefreshKnows(new, usage, sizeof)
  BY <1>3, <1>4, <1>6, <1>7, <1>8 DEF RefreshKnows
<1>10. Refreshing' /\ Counted'
  BY <1>1, <1>5, <1>9, RefreshGoes
<1>11. Indexing' /\ DocsStored'
  BY <1>1, IndexesStay, DocsStay DEF StatsInv, Moves
<1> QED BY <1>10, <1>11 DEF StatsInv

LEMMA UsageStep ==
    ASSUME StatsInv, NEW r \in Refreshers, _aggregate_package_stats(r)
    PROVE  StatsInv'
<1> DEFINE x == refresh[r]
<1>1. IsRefresh(x) /\ RefreshKnows(x, usage, sizeof) /\ x.pc = "usage"
  BY DEF StatsInv, Refreshing, _aggregate_package_stats, Reaches
<1>2. PICK new, downloads :
        /\ Moves(r, new) /\ new.pc = "cache" /\ new.taken = x.taken /\ DOMAIN new = DOMAIN x
        /\ DOMAIN new.doc = DocFields /\ new.doc.since = x.doc.since /\ new.doc.held = x.doc.held
        /\ new.doc.keys = x.doc.keys /\ new.doc.storage = x.doc.storage /\ new.doc.downloads = downloads
        /\ x.doc.met \subseteq new.doc.met /\ ("disk" \in new.doc.met => "disk" \in x.doc.met)
        /\ \/ downloads = Downloads
           \/ downloads = NoCounts /\ "blank" \in new.doc.met
  <2>1. CASE Moves(r, [x EXCEPT !.pc = "cache", !.doc.downloads = Downloads])
    <3> DEFINE doc == [x.doc EXCEPT !.downloads = Downloads]
               new == [x EXCEPT !.pc = "cache", !.doc.downloads = Downloads]
    <3>1. new.pc = "cache" /\ new.taken = x.taken /\ DOMAIN new = DOMAIN x /\ new.doc = doc
      BY <1>1 DEF IsRefresh
    <3>2. /\ DOMAIN doc = DocFields /\ doc.since = x.doc.since /\ doc.held = x.doc.held /\ doc.keys = x.doc.keys
          /\ doc.storage = x.doc.storage /\ doc.downloads = Downloads /\ doc.met = x.doc.met
      BY <1>1 DEF IsRefresh, DocFields
    <3> HIDE DEF doc, new
    <3> QED BY <2>1, <3>1, <3>2 DEF new
  <2>2. CASE Moves(r, [x EXCEPT !.pc = "cache", !.doc.downloads = NoCounts, !.doc.met = @ \cup {"blank"}])
    <3> DEFINE doc == [x.doc EXCEPT !.downloads = NoCounts, !.met = @ \cup {"blank"}]
               new == [x EXCEPT !.pc = "cache", !.doc.downloads = NoCounts, !.doc.met = @ \cup {"blank"}]
    <3>1. new.pc = "cache" /\ new.taken = x.taken /\ DOMAIN new = DOMAIN x /\ new.doc = doc
      BY <1>1 DEF IsRefresh
    <3>2. /\ DOMAIN doc = DocFields /\ doc.since = x.doc.since /\ doc.held = x.doc.held /\ doc.keys = x.doc.keys
          /\ doc.storage = x.doc.storage /\ doc.downloads = NoCounts /\ doc.met = x.doc.met \cup {"blank"}
      BY <1>1 DEF IsRefresh, DocFields
    <3> HIDE DEF doc, new
    <3> QED BY <2>2, <3>1, <3>2 DEF new
  <2> QED BY <2>1, <2>2 DEF _aggregate_package_stats
<1>6. IsRefresh(new)
  BY <1>1, <1>2 DEF IsRefresh
<1>7. Earlier(x.doc.since, usage) /\ StorageKnown(x.doc) /\ KeysKnown(x.doc, usage)
  BY <1>1 DEF RefreshKnows
<1>8. StorageKnown(new.doc) /\ KeysKnown(new.doc, usage)
  BY <1>2, <1>7 DEF StorageKnown, KeysKnown
<1>9. DownloadsKnown(new.doc, usage)
  <2>1. SUFFICES ASSUME NEW p \in PackageNames \cap Counters
                 PROVE  /\ downloads[p] \in Nat /\ downloads[p] <= Total(Column(usage, p))
                        /\ "blank" \in new.doc.met \/ Total(Column(x.doc.since, p)) <= downloads[p]
    BY <1>2 DEF DownloadsKnown
  <2>2. /\ Total(Column(x.doc.since, p)) <= Total(Column(usage, p))
        /\ Total(Column(x.doc.since, p)) \in Nat /\ Total(Column(usage, p)) \in Nat
    BY <1>7, EarlierTotals DEF StatsInv
  <2>3. Downloads[p] = Total(Column(usage, p)) /\ NoCounts[p] = 0
    BY DEF Downloads, Column, NoCounts
  <2> QED BY <1>2, <2>2, <2>3
<1>10. RefreshKnows(new, usage, sizeof)
  BY <1>2, <1>7, <1>8, <1>9 DEF RefreshKnows
<1>11. Refreshing' /\ Counted'
  BY <1>2, <1>6, <1>10, RefreshGoes
<1>12. Indexing' /\ DocsStored'
  BY <1>2, IndexesStay, DocsStay DEF StatsInv, Moves, _aggregate_package_stats
<1> QED BY <1>11, <1>12 DEF StatsInv

\* What a refresh stores is what it found.
LEMMA StoreSteps ==
    ASSUME StatsInv, NEW r \in Refreshers, _refresh(r) \/ save_snapshot(r) \/ _refresh_fails(r)
    PROVE  StatsInv'
<1> DEFINE x == refresh[r]
<1>1. IsRefresh(x) /\ RefreshKnows(x, usage, sizeof) /\ Home[r] \in Processes
  BY DEF StatsInv, Refreshing
<1>2. Indexing'
  BY IndexesStay DEF StatsInv, _refresh, save_snapshot, _refresh_fails, Moves
<1>3. x.pc \in {"cache", "save"} => Sound(x.doc, usage)
  BY <1>1 DEF RefreshKnows, Sound
<1>4. CASE _refresh(r)
  <2> DEFINE new == [x EXCEPT !.pc = "save"]
  <2>1. x.pc = "cache" /\ Moves(r, new) /\ usage' = usage /\ snapshot' = snapshot
    BY <1>4 DEF _refresh, Reaches, Moves
  <2>2. new.pc = "save" /\ new.taken = x.taken /\ DOMAIN new = DOMAIN x /\ new.doc = x.doc
    BY <1>1 DEF IsRefresh
  <2>3. IsRefresh(new)
    BY <1>1, <2>2 DEF IsRefresh
  <2>4. RefreshKnows(new, usage, sizeof)
    BY <1>1, <2>1, <2>2 DEF RefreshKnows
  <2>5. Refreshing' /\ Counted'
    BY <2>1, <2>3, <2>4, RefreshGoes
  <2>6. cached' = [cached EXCEPT ![Home[r]] = x.doc]
    BY <1>4 DEF _refresh
  <2>7. DocsStored'
    BY <1>3, <2>1, <2>6 DEF StatsInv, DocsStored
  <2> QED BY <1>2, <2>5, <2>7 DEF StatsInv
<1>5. CASE save_snapshot(r)
  <2>1. Moves(r, Resting) /\ x.pc = "save" /\ usage' = usage /\ cached' = cached /\ snapshot' \in {snapshot, x.doc}
    BY <1>5 DEF save_snapshot, Reaches, Moves
  <2>2. Refreshing' /\ Counted'
    BY <2>1, AtRest, RefreshGoes
  <2>3. DocsStored'
    BY <1>3, <2>1 DEF StatsInv, DocsStored
  <2> QED BY <1>2, <2>2, <2>3 DEF StatsInv
<1>6. CASE _refresh_fails(r)
  <2>1. Moves(r, Resting) /\ UNCHANGED <<usage, cached, snapshot>>
    BY <1>6 DEF _refresh_fails, Moves
  <2>2. Refreshing' /\ Counted'
    BY <2>1, AtRest, RefreshGoes
  <2>3. DocsStored'
    BY <2>1, DocsStay DEF StatsInv
  <2> QED BY <1>2, <2>2, <2>3 DEF StatsInv
<1> QED BY <1>4, <1>5, <1>6

LEMMA RestartStep ==
    ASSUME StatsInv, NEW w \in Processes, load_snapshot(w)
    PROVE  StatsInv'
<1>1. Counted'
  BY CountedStays DEF StatsInv, load_snapshot
<1>2. Refreshing'
  <2>1. /\ refresh' = [r \in Refreshers |-> refresh'[r]] /\ usage' = usage /\ sizeof' = sizeof
        /\ \A r \in Refreshers : refresh'[r] \in {Resting, refresh[r]}
    BY DEF load_snapshot
  <2> QED BY <2>1, AtRest DEF StatsInv, Refreshing
<1>3. DocsStored'
  <2>1. ~Usable(NoStats)
    BY DEF Usable
  <2>2. /\ usage' = usage /\ snapshot' = snapshot
        /\ cached' = [cached EXCEPT ![w] = IF Usable(snapshot) THEN snapshot ELSE NoStats]
    BY DEF load_snapshot
  <2>3. Sound(NoStats, usage)
    BY <2>1 DEF Sound
  <2> QED BY <2>2, <2>3 DEF StatsInv, DocsStored
<1>4. Indexing'
  <2> DEFINE scan == [f \in Files |-> [gen |-> 0, there |-> sizeof[f] # 0, size |-> 0]]
  <2>1. scan \in [Files -> Object]
    BY DEF Object
  <2>2. \A f \in Files : (scan[f].there <=> sizeof[f] # 0) /\ scan[f].size = 0
    OBVIOUS
  <2>3. /\ entry' = [entry EXCEPT ![w] = scan] /\ unseen' = [unseen EXCEPT ![w] = {}] /\ sizeof' = sizeof
    BY DEF load_snapshot
  <2> HIDE DEF scan
  <2>4. entry' \in [Processes -> [Files -> Object]] /\ unseen' \in [Processes -> SUBSET Files]
    BY <2>1, <2>3 DEF StatsInv, Indexing
  <2>5. ASSUME NEW v \in Processes PROVE IndexTrue(v)'
    <3>1. CASE v = w
      BY <2>2, <2>3, <3>1 DEF StatsInv, Indexing, IndexTrue
    <3>2. CASE v # w
      BY <2>3, <3>2 DEF StatsInv, Indexing, IndexTrue
    <3> QED BY <3>1, <3>2
  <2> QED BY <2>3, <2>4, <2>5 DEF StatsInv, Indexing
<1> QED BY <1>1, <1>2, <1>3, <1>4 DEF StatsInv

LEMMA StatsBegins == ASSUME StatsInit PROVE StatsInv
<1>1. Counted
  <2>1. usage = NoUsage /\ due = NoUsage /\ NoUsage \in Counts
    BY DEF StatsInit, NoUsage, Counts
  <2>2. ASSUME NEW k \in ApiKeys PROVE IsFiniteSet(Units(usage[k]))
    <3>1. usage[k] = [c \in Counters |-> 0]
      BY <2>1 DEF NoUsage
    <3> QED BY <3>1, NoUnits
  <2>3. ASSUME NEW c \in Counters PROVE IsFiniteSet(Units(Column(usage, c)))
    <3>1. Column(usage, c) = [k \in ApiKeys |-> 0]
      BY <2>1 DEF NoUsage, Column
    <3> QED BY <3>1, NoUnits
  <2> QED BY <2>1, <2>2, <2>3 DEF Counted
<1>2. Indexing
  <2>1. sizeof \in [Files -> Nat]
    <3>1. {0} \cup Sizes \subseteq Nat
      OBVIOUS
    <3> QED BY <3>1 DEF StatsInit
  <2>2. unseen \in [Processes -> SUBSET Files] /\ entry \in [Processes -> [Files -> Object]]
    BY DEF StatsInit, Object
  <2>3. \A w \in Processes : IndexTrue(w)
    BY DEF StatsInit, IndexTrue
  <2> QED BY <2>1, <2>2, <2>3 DEF Indexing
<1>3. Refreshing
  BY AtRest DEF StatsInit, Refreshing
<1>4. DocsStored
  <2>1. ~Usable(NoStats) /\ ~Usable(Torn)
    BY DEF Usable
  <2> QED BY <2>1 DEF StatsInit, DocsStored, Sound
<1> QED BY <1>1, <1>2, <1>3, <1>4 DEF StatsInv

LEMMA StatsStep == ASSUME StatsInv, [StatsNext]_statsVars PROVE StatsInv'
<1>1. ASSUME NEW f \in Files, NEW s \in {0} \cup Sizes, DiskChanges(f, s) PROVE StatsInv'
  BY <1>1, DiskStep
<1>2. ASSUME NEW w \in Processes, NEW f \in Files, PackageIndex_add_or_update(w, f) \/ PackageIndex_remove(w, f)
      PROVE  StatsInv'
  BY <1>2, WatchStep
<1>3. ASSUME NEW k \in ApiKeys, NEW f \in Files, _record(k, f) PROVE StatsInv'
  BY <1>3, CountedStays, DocsStay, RefreshingStays, IndexesStay DEF _record, StatsInv
<1>4. ASSUME NEW k \in ApiKeys, NEW c \in Counters, NEW found \in BOOLEAN, _increment(k, c, found) PROVE StatsInv'
  <2>1. Grew
    BY <1>4, CountStep DEF StatsInv
  <2> QED BY <1>4, <2>1, Growth DEF _increment, Writes
<1>5. ASSUME NEW r \in Refreshers,
             \/ get_snapshot(r) \/ (\E f \in Files : _fill_sizes(r, f)) \/ _key_stats(r) \/ _refresh_fails(r)
             \/ _aggregate_package_stats(r) \/ _refresh(r) \/ save_snapshot(r)
      PROVE  StatsInv'
  BY <1>5, SnapshotStep, SizeStep, KeyStep, UsageStep, StoreSteps
<1>6. ASSUME NEW w \in Processes, load_snapshot(w) PROVE StatsInv'
  BY <1>6, RestartStep
<1>7. CASE UNCHANGED statsVars
  BY <1>7, CountedStays, DocsStay, RefreshingStays, IndexesStay DEF statsVars, StatsInv
<1> QED BY <1>1, <1>2, <1>3, <1>4, <1>5, <1>6, <1>7 DEF StatsNext

THEOREM StatsHold == StatsSpec => []StatsTrue
<1>1. StatsInit => StatsInv
  BY StatsBegins
<1>2. StatsInv /\ [StatsNext]_statsVars => StatsInv'
  BY StatsStep
<1>3. StatsInv => StatsTrue
  <2>1. SUFFICES ASSUME StatsInv PROVE StatsTrue
    OBVIOUS
  <2>2. \A d \in Documents : Usable(d) /\ Sound(d, usage)
    BY <2>1 DEF StatsInv, DocsStored, Documents
  <2>3. SizesTrue
    BY <2>2 DEF SizesTrue, Sound, StorageKnown
  <2>4. CountersTrue
    BY <2>2 DEF CountersTrue, Sound, KeysKnown, DownloadsKnown, Column
  <2>5. NoLostCount
    BY <2>1 DEF StatsInv, Counted, NoLostCount
  <2> QED BY <2>3, <2>4, <2>5 DEF StatsTrue
<1> QED BY <1>1, <1>2, <1>3, PTL DEF StatsSpec

-----------------------------------------------------------------------------
(* The build mirrors: what the index says of an archive while its events    *)
(* wait, and what a client holds of an index that did not change.          *)

Entries == [of : Archives, size : Nat, digest : Nat, gen : Nat]
FileEvents == [is : {"changed", "deleted"}, of : Archives]
Present == {p \in Archives : ~p.aside /\ p.ok /\ disk[p] # 0}

\* Entries a client is asking digests of.
Hands(c) == IF c.pc = "hash" THEN c.left ELSE {}

BuildTyped ==
    /\ disk \in [Archives -> Nat] /\ writes \in Nat /\ (\A p \in Archives : disk[p] <= writes)
    /\ serves \in {"python", "node"} /\ root \in BOOLEAN /\ apart \subseteq Tags
    /\ events \in Seq(FileEvents)
    /\ watcher.gen \in Nat /\ watcher = [pc |-> watcher.pc, of |-> watcher.of, gen |-> watcher.gen]
    /\ watcher.pc = "stat" => watcher.of \in Archives /\ watcher.of.ok
    /\ boot = [pc |-> boot.pc, todo |-> boot.todo, read |-> boot.read]
    /\ boot.pc \in {"scan", "read", "swap", "observe", "up"}
    /\ DOMAIN client = DOMAIN NoClient

\* A release with a file elsewhere, or with news of one, is set apart; without a
\* root there are no files.
Apart ==
    /\ \A p \in Archives : p.aside /\ disk[p] # 0 => p.dir \in apart
    /\ \A i \in 1 .. Len(events) : events[i].of.aside => events[i].of.dir \in apart
    /\ \A e \in by_release : e.of.aside => e.of.dir \in apart
    /\ watcher.pc = "stat" /\ watcher.of.aside => watcher.of.dir \in apart
    /\ ~root => \A p \in Archives : disk[p] = 0

\* Bytes are never written twice, so a digest of an entry whose size is that of
\* the file is the file's.
RecordSound(e) ==
    /\ e \in Entries /\ e.of.ok /\ e.gen <= watcher.gen /\ e.size \in 1 .. writes
    /\ ~e.of.aside /\ e.size = disk[e.of] => e.digest \in {NoDigest, disk[e.of]}

Known == by_release \cup Hands(client)
Generations ==
    /\ \A e \in Known : RecordSound(e)
    /\ \A e, x \in Known : e.of = x.of /\ e.gen = x.gen => e.size = x.size
    /\ \A e, x \in by_release : Slot(e.of) = Slot(x.of) => e = x

\* The scan: nothing is synced beside it.
Scanning ==
    /\ boot.pc # "up" => events = <<>> /\ watcher.pc = "off" /\ client.pc = "idle" /\ ~client.calm
    /\ boot.pc \in {"scan", "read", "swap"} => by_release = {}
    /\ boot.pc = "read" => root /\ boot.read = {Entry(p, watcher.gen + 1) : p \in {x \in Present : x.dir \notin boot.todo}}
    /\ boot.pc = "swap" => boot.read = {Entry(p, watcher.gen + 1) : p \in Present}
    /\ boot.pc = "observe" => by_release = {Entry(p, watcher.gen) : p \in Present}

\* The last event of an archive says whether it is there.
LastTells(es, d) == \A i \in 1 .. Len(es) :
    (\A j \in 1 .. Len(es) : j > i => es[j].of # es[i].of) => (es[i].is = "changed" <=> d[es[i].of] # 0)
Pending(es, p) == \E i \in 1 .. Len(es) : es[i].of = p

\* An archive of which no event waits is in the index as it is in the directory.
Indexed(p) ==
    /\ (\E e \in by_release : e.of = p) <=> p \in Present
    /\ \A e \in by_release : e.of = p => e.size = disk[p]
Settling ==
    /\ watcher.pc \in {"off", "idle", "stat", "dead"}
    /\ Watched => root /\ boot.pc = "up" /\ LastTells(events, disk)
    /\ Watched => \A p \in Archives :
           ~p.aside /\ p.dir \notin apart /\ ~Pending(events, p) /\ ~(watcher.pc = "stat" /\ watcher.of = p) => Indexed(p)

\* What a client that met no change has been given is there.
Odd == \E p \in Archives : p.tag # p.dir /\ disk[p] # 0
Given(c, g) == \E p \in Present : p.dir = c.tag /\ g = <<p.name, disk[p]>>
Fits(c, p) == p.dir = c.tag /\ file_token(p) = c.token
WalkSound(c) ==
    /\ c.pc # "error"
    /\ c.pc = "missing" => (c.walk = "latest" /\ c.tag = NoTag) \/ sums[c.tag] # NoSums \/ Odd
    /\ c.pc = "mismatch" => sums[c.tag] # NoSums
    /\ c.pc = "latest" => c.walk = "latest" /\ c.tag = NoTag
    /\ c.pc \in {"nvm", "latest", "resolve", "catalog", "files", "sha256", "page", "counted", "release"} => c.got = {}
    /\ c.pc = "resolve" =>
           (\E p \in Present : p.dir = c.tag) /\ (c.walk = "nvm" => \E p \in Present : Fits(c, p))
    /\ c.pc = "hash" =>
           /\ c.left # {} /\ \A e \in c.left : e.of \in Present /\ e.of.dir = c.tag /\ e.size = disk[e.of]
           /\ \A g \in c.got : Given(c, g)
           /\ c.walk = "nvm" => \E p \in Present :
                  Fits(c, p) /\ ((\E e \in c.left : e.of = p) \/ <<p.name, disk[p]>> \in c.got)
    /\ c.pc = "choose" /\ sums[c.tag] = NoSums =>
           /\ c.got # {} /\ \A g \in c.got : Given(c, g)
           /\ c.walk = "nvm" => \E p \in Present : Fits(c, p) /\ <<p.name, disk[p]>> \in c.got
    /\ c.pc = "download" =>
           \/ sums[c.tag] # NoSums \/ (c.got = {} /\ Odd)
           \/ \E p \in Present : Slot(p) = <<c.tag, c.name>> /\ (c.got = {} \/ <<c.name, disk[p]>> \in c.got)
    /\ c.pc \in {"catalog", "files", "sha256"} => c.walk = "catalog"
    /\ c.pc = "catalog" => c.held = {}
    /\ c.pc = "files" => \A e \in c.held : e.of \in Present
    /\ c.pc = "sha256" => Odd \/ \E p \in Present : Slot(p) = <<c.tag, c.name>>
    /\ c.pc = "counted" => c.held = by_release
    /\ c.pc = "release" => c.count = Cardinality(c.held) /\ \E p \in Present : p.dir = c.tag

Walked ==
    /\ client.calm \in BOOLEAN /\ (client.calm => Quiet)
    /\ client.calm /\ apart = {} => WalkSound(client)

BuildInv == BuildTyped /\ Apart /\ Generations /\ Scanning /\ Settling /\ Walked

USE BuildMirrorAssumption

-----------------------------------------------------------------------------
(* Events.                                                                 *)

LEMMA PendingAdded ==
    ASSUME NEW es \in Seq(FileEvents), NEW v \in FileEvents
    PROVE  \A p : Pending(es \o <<v>>, p) <=> Pending(es, p) \/ p = v.of
<1> DEFINE fs == es \o <<v>>
<1>1. /\ Len(es) \in Nat /\ Len(fs) = Len(es) + 1 /\ fs[Len(es) + 1] = v
      /\ \A i \in 1 .. Len(es) : fs[i] = es[i]
  OBVIOUS
<1> HIDE DEF fs
<1>2. 1 .. Len(fs) = (1 .. Len(es)) \cup {Len(es) + 1}
  BY <1>1
<1>3. \A p : Pending(fs, p) <=> Pending(es, p) \/ p = v.of
  BY <1>1, <1>2 DEF Pending
<1> QED BY <1>3 DEF fs

LEMMA EventAdded ==
    ASSUME NEW es \in Seq(FileEvents), NEW v \in FileEvents, NEW d, NEW d2, LastTells(es, d),
           \A p \in Archives \ {v.of} : d2[p] = d[p], v.is = "changed" <=> d2[v.of] # 0
    PROVE  /\ LastTells(es \o <<v>>, d2) /\ es \o <<v>> \in Seq(FileEvents)
           /\ \A p : Pending(es \o <<v>>, p) <=> Pending(es, p) \/ p = v.of
<1> DEFINE fs == es \o <<v>>
<1>1. /\ fs \in Seq(FileEvents) /\ Len(es) \in Nat /\ Len(fs) = Len(es) + 1 /\ fs[Len(es) + 1] = v
      /\ \A i \in 1 .. Len(es) : fs[i] = es[i] /\ es[i] \in FileEvents
  OBVIOUS
<1> HIDE DEF fs
<1>2. ASSUME NEW i \in 1 .. Len(fs), \A j \in 1 .. Len(fs) : j > i => fs[j].of # fs[i].of
      PROVE  fs[i].is = "changed" <=> d2[fs[i].of] # 0
  <2>1. CASE i = Len(es) + 1
    BY <1>1, <2>1
  <2>2. CASE i # Len(es) + 1
    <3>1. i \in 1 .. Len(es)
      BY <1>1, <2>2
    <3>2. Len(es) + 1 \in 1 .. Len(fs) /\ Len(es) + 1 > i
      BY <1>1, <3>1
    <3>3. v.of # es[i].of
      BY <1>1, <1>2, <3>1, <3>2
    <3>4. ASSUME NEW j \in 1 .. Len(es), j > i PROVE es[j].of # es[i].of
      <4>1. j \in 1 .. Len(fs)
        BY <1>1
      <4> QED BY <1>1, <1>2, <3>1, <3>4, <4>1
    <3>5. es[i].is = "changed" <=> d[es[i].of] # 0
      BY <3>1, <3>4 DEF LastTells
    <3>6. es[i].of \in Archives
      BY <1>1, <3>1 DEF FileEvents
    <3> QED BY <1>1, <3>1, <3>3, <3>5, <3>6
  <2> QED BY <2>1, <2>2
<1>4. LastTells(fs, d2)
  BY <1>2 DEF LastTells
<1> QED BY <1>1, <1>4, PendingAdded DEF fs

LEMMA EventTaken ==
    ASSUME NEW es \in Seq(FileEvents), es # <<>>, NEW d, LastTells(es, d)
    PROVE  /\ Head(es) \in FileEvents /\ Tail(es) \in Seq(FileEvents) /\ LastTells(Tail(es), d)
           /\ Head(es) = es[1] /\ 1 \in 1 .. Len(es)
           /\ \A i \in 1 .. Len(Tail(es)) : \E j \in 1 .. Len(es) : Tail(es)[i] = es[j]
           /\ \A p : Pending(es, p) <=> Pending(Tail(es), p) \/ p = Head(es).of
           /\ ~Pending(Tail(es), Head(es).of) => (Head(es).is = "changed" <=> d[Head(es).of] # 0)
<1> DEFINE fs == Tail(es)
<1>1. /\ fs \in Seq(FileEvents) /\ Len(es) \in Nat /\ Len(fs) = Len(es) - 1 /\ Head(es) = es[1] /\ Len(es) >= 1
      /\ \A i \in 1 .. Len(fs) : fs[i] = es[i + 1]
      /\ \A i \in 1 .. Len(es) : es[i] \in FileEvents
  OBVIOUS
<1> HIDE DEF fs
<1>2. \A i \in 1 .. Len(fs) : i + 1 \in 1 .. Len(es)
  BY <1>1
<1>3. ASSUME NEW i \in 1 .. Len(fs), \A j \in 1 .. Len(fs) : j > i => fs[j].of # fs[i].of
      PROVE  fs[i].is = "changed" <=> d[fs[i].of] # 0
  <2>1. ASSUME NEW j \in 1 .. Len(es), j > i + 1 PROVE es[j].of # es[i + 1].of
    <3>1. j - 1 \in 1 .. Len(fs) /\ j - 1 > i /\ (j - 1) + 1 = j
      BY <1>1, <2>1
    <3>2. fs[j - 1].of # fs[i].of
      BY <1>3, <3>1
    <3>3. fs[j - 1] = es[(j - 1) + 1]
      BY <1>1, <3>1
    <3>4. fs[j - 1] = es[j]
      BY <3>1, <3>3
    <3>5. fs[i] = es[i + 1]
      BY <1>1
    <3> QED BY <3>2, <3>4, <3>5
  <2>2. i + 1 \in 1 .. Len(es)
    BY <1>2
  <2> QED BY <1>1, <2>1, <2>2 DEF LastTells
<1>4. ASSUME NEW p PROVE Pending(es, p) <=> Pending(fs, p) \/ p = Head(es).of
  <2>1. ASSUME NEW i \in 1 .. Len(es) PROVE i = 1 \/ (i - 1 \in 1 .. Len(fs) /\ fs[i - 1] = es[i])
    <3>1. CASE i # 1
      <4>1. i - 1 \in 1 .. Len(fs) /\ (i - 1) + 1 = i
        BY <1>1, <3>1
      <4>2. fs[i - 1] = es[(i - 1) + 1]
        BY <1>1, <4>1
      <4> QED BY <4>1, <4>2
    <3> QED BY <3>1
  <2>2. 1 \in 1 .. Len(es)
    BY <1>1
  <2> QED BY <1>1, <1>2, <2>1, <2>2 DEF Pending
<1>5. ASSUME ~Pending(fs, Head(es).of) PROVE Head(es).is = "changed" <=> d[Head(es).of] # 0
  <2>1. 1 \in 1 .. Len(es)
    BY <1>1
  <2>2. ASSUME NEW j \in 1 .. Len(es), j > 1 PROVE es[j].of # es[1].of
    <3>1. j - 1 \in 1 .. Len(fs) /\ (j - 1) + 1 = j
      BY <1>1, <2>2
    <3>2. fs[j - 1] = es[(j - 1) + 1]
      BY <1>1, <3>1
    <3>3. fs[j - 1] = es[j]
      BY <3>1, <3>2
    <3> QED BY <1>1, <1>5, <3>1, <3>3 DEF Pending
  <2> QED BY <1>1, <2>1, <2>2 DEF LastTells
<1>6. LastTells(fs, d)
  BY <1>3 DEF LastTells
<1>7. 1 \in 1 .. Len(es)
  BY <1>1
<1> QED BY <1>1, <1>2, <1>4, <1>5, <1>6, <1>7 DEF fs

-----------------------------------------------------------------------------
(* The start.                                                              *)

\* While the process starts there is no walk and no news.
LEMMA StartStep ==
    ASSUME BuildInv, boot.pc # "up" \/ client' = NoClient,
           UNCHANGED <<serves, disk, writes>>, root' \in BOOLEAN, root => root',
           boot'.pc # "up" => events' = <<>> /\ watcher'.pc = "off",
           client'.pc = "idle", ~client'.calm, client'.calm \in BOOLEAN, DOMAIN client' = DOMAIN NoClient,
           events' = <<>>, watcher'.pc \in {"off", "idle"},
           watcher' = [pc |-> watcher'.pc, of |-> watcher'.of, gen |-> watcher'.gen], watcher'.gen \in Nat,
           apart' \subseteq Tags, \A p \in Archives : p.aside /\ disk[p] # 0 => p.dir \in apart',
           boot' = [pc |-> boot'.pc, todo |-> boot'.todo, read |-> boot'.read],
           boot'.pc \in {"scan", "read", "swap", "observe", "up"},
           \A e \in by_release' : e.of \in Present /\ e.gen = watcher'.gen /\ e.size = disk[e.of] /\ e.digest = NoDigest
                                  /\ e = [of |-> e.of, size |-> e.size, digest |-> e.digest, gen |-> e.gen],
           Scanning',
           watcher'.pc = "idle" => root' /\ boot'.pc = "up" /\ \A p \in Present : \E e \in by_release' : e.of = p
    PROVE  BuildInv'
<1>1. BuildTyped'
  BY DEF BuildInv, BuildTyped
<1>2. Present' = Present
  BY DEF Present
<1>3. \A e \in by_release' : ~e.of.aside
  BY DEF Present
<1>4. Apart'
  BY <1>3 DEF BuildInv, Apart
<1>5. Generations'
  <2>1. Known' = by_release'
    BY DEF Known, Hands
  <2>2. \A e \in by_release' : RecordSound(e)'
    <3>1. TAKE e \in by_release'
    <3>2. disk[e.of] \in Nat /\ disk[e.of] # 0 /\ disk[e.of] <= writes /\ e.of \in Archives /\ e.of.ok /\ writes \in Nat
      BY DEF Present, BuildInv, BuildTyped
    <3>3. disk[e.of] \in 1 .. writes
      BY <3>2
    <3>4. e \in Entries
      BY <3>2 DEF Entries, NoDigest
    <3> QED BY <3>2, <3>3, <3>4 DEF RecordSound
  <2>3. \A e, x \in by_release' : Slot(e.of) = Slot(x.of) => e = x
    <3>1. TAKE e, x \in by_release'
    <3>2. HAVE Slot(e.of) = Slot(x.of)
    <3>3. e.of = x.of
      BY <3>2 DEF Slot, Present
    <3> QED BY <3>3
  <2> QED BY <2>1, <2>2, <2>3 DEF Generations
<1>6. Settling'
  <2>1. LastTells(events', disk')
    BY DEF LastTells
  <2>2. ASSUME watcher'.pc = "idle", NEW p \in Archives, ~p.aside PROVE Indexed(p)'
    BY <1>2, <2>2 DEF Indexed, Present
  <2> QED BY <2>1, <2>2 DEF Settling, Watched
<1>7. Walked'
  BY DEF Walked
<1> QED BY <1>1, <1>4, <1>5, <1>6, <1>7 DEF BuildInv

LEMMA ClientAtBoot ==
    ASSUME BuildInv, boot.pc # "up"
    PROVE  /\ events = <<>> /\ watcher.pc = "off" /\ client.pc = "idle" /\ ~client.calm /\ client.calm \in BOOLEAN
           /\ DOMAIN client = DOMAIN NoClient /\ watcher.gen \in Nat /\ apart \subseteq Tags
           /\ watcher = [pc |-> "off", of |-> watcher.of, gen |-> watcher.gen]
           /\ \A p \in Archives : p.aside /\ disk[p] # 0 => p.dir \in apart
           /\ root \in BOOLEAN /\ (~root => Present = {})
BY DEF BuildInv, Scanning, BuildTyped, Apart, Walked, Present

LEMMA EntryIs ==
    ASSUME NEW p \in Present, NEW g
    PROVE  LET e == Entry(p, g) IN
           e.of = p /\ e.size = disk[p] /\ e.digest = NoDigest /\ e.gen = g
           /\ e = [of |-> e.of, size |-> e.size, digest |-> e.digest, gen |-> e.gen]
BY DEF Entry

LEMMA BootSteps ==
    ASSUME BuildInv,
           _full_scan_begin \/ (\E t \in Tags : _full_scan_release(t)) \/ _full_scan \/ _start_observer \/ Restart
    PROVE  BuildInv'
<1>1. CASE _full_scan_begin
  <2>1. boot.pc = "scan" /\ by_release' = {}
    BY <1>1 DEF _full_scan_begin, BuildInv, Scanning
  <2>2. UNCHANGED <<serves, root, disk, apart, events, watcher, client, writes>>
    BY <1>1 DEF _full_scan_begin
  <2>3. CASE root
    <3>1. boot' = [pc |-> "read", todo |-> Tags, read |-> {}]
      BY <1>1, <2>3 DEF _full_scan_begin
    <3>2. {x \in Present : x.dir \notin Tags} = {}
      BY DEF Present, Tags
    <3>3. Scanning'
      BY <2>1, <2>2, <2>3, <3>1, <3>2, ClientAtBoot DEF Scanning, Present
    <3> QED BY <2>1, <2>2, <3>1, <3>3, ClientAtBoot, StartStep
  <2>4. CASE ~root
    <3>1. boot' = [pc |-> "swap", todo |-> {}, read |-> {}]
      BY <1>1, <2>4 DEF _full_scan_begin
    <3>2. Present = {}
      BY <2>1, <2>4, ClientAtBoot
    <3>3. Scanning'
      BY <2>1, <2>2, <3>1, <3>2, ClientAtBoot DEF Scanning, Present
    <3> QED BY <2>1, <2>2, <3>1, <3>3, ClientAtBoot, StartStep
  <2> QED BY <2>3, <2>4
<1>2. ASSUME NEW t \in Tags, _full_scan_release(t) PROVE BuildInv'
  <2> DEFINE found == {p \in Archives : p.dir = t /\ ~p.aside /\ p.ok /\ disk[p] # 0}
             more == {Entry(p, watcher.gen + 1) : p \in found}
  <2>1. /\ boot.pc = "read" /\ t \in boot.todo /\ by_release' = {} /\ root
        /\ boot.read = {Entry(p, watcher.gen + 1) : p \in {x \in Present : x.dir \notin boot.todo}}
    BY <1>2 DEF _full_scan_release, BuildInv, Scanning
  <2>2. UNCHANGED <<serves, root, disk, apart, events, watcher, client, writes>>
    BY <1>2 DEF _full_scan_release
  <2>3. boot' = [pc |-> IF boot.todo = {t} THEN "swap" ELSE "read", todo |-> boot.todo \ {t}, read |-> boot.read \cup more]
    BY <1>2 DEF _full_scan_release
  <2>4. {x \in Present : x.dir \notin boot.todo \ {t}} = {x \in Present : x.dir \notin boot.todo} \cup found
    BY <2>1 DEF Present
  <2>5. boot'.read = {Entry(p, watcher.gen + 1) : p \in {x \in Present : x.dir \notin boot.todo \ {t}}}
    BY <2>1, <2>3, <2>4
  <2>6. boot.todo = {t} => {x \in Present : x.dir \notin boot.todo \ {t}} = Present
    OBVIOUS
  <2>7. Present' = Present /\ \A p \in Present : Entry(p, watcher.gen + 1)' = Entry(p, watcher.gen + 1)
    BY <2>2 DEF Present, Entry
  <2>8. boot'.pc \in {"swap", "read"} /\ boot'.todo = boot.todo \ {t} /\ (boot'.pc = "swap" => boot.todo = {t})
    BY <2>3
  <2>9. Scanning'
    BY <2>1, <2>2, <2>5, <2>6, <2>7, <2>8, ClientAtBoot DEF Scanning, Entry
  <2>10. boot' = [pc |-> boot'.pc, todo |-> boot'.todo, read |-> boot'.read]
    BY <2>3
  <2> QED BY <2>1, <2>2, <2>8, <2>9, <2>10, ClientAtBoot, StartStep
<1>3. CASE _full_scan
  <2>1. /\ boot.pc = "swap" /\ by_release' = boot.read /\ boot.read = {Entry(p, watcher.gen + 1) : p \in Present}
        /\ boot' = [pc |-> "observe", todo |-> {}, read |-> {}] /\ watcher' = [watcher EXCEPT !.gen = @ + 1]
        /\ UNCHANGED <<serves, root, disk, apart, events, client, writes>>
    BY <1>3 DEF _full_scan, BuildInv, Scanning
  <2>2. watcher' = [pc |-> "off", of |-> watcher.of, gen |-> watcher.gen + 1]
    BY <2>1, ClientAtBoot
  <2>3. \A e \in by_release' :
          e.of \in Present /\ e.gen = watcher'.gen /\ e.size = disk[e.of] /\ e.digest = NoDigest
          /\ e = [of |-> e.of, size |-> e.size, digest |-> e.digest, gen |-> e.gen]
    BY <2>1, <2>2, EntryIs
  <2>4. by_release' = {Entry(p, watcher'.gen) : p \in Present}
    BY <2>1, <2>2
  <2>5. Scanning'
    BY <2>1, <2>2, <2>4, ClientAtBoot DEF Scanning, Present, Entry
  <2>6. watcher'.gen \in Nat /\ watcher'.pc = "off"
    BY <2>1, <2>2, ClientAtBoot
  <2> QED BY <2>1, <2>2, <2>3, <2>5, <2>6, ClientAtBoot, StartStep
<1>4. CASE _start_observer
  <2>1. /\ boot.pc = "observe" /\ by_release = {Entry(p, watcher.gen) : p \in Present} /\ boot' = [boot EXCEPT !.pc = "up"]
        /\ watcher' = [watcher EXCEPT !.pc = IF WatchPackages /\ root THEN "idle" ELSE "off"]
        /\ UNCHANGED <<serves, root, disk, apart, events, client, writes, by_release>>
    BY <1>4 DEF _start_observer, BuildInv, Scanning
  <2>2. boot' = [pc |-> "up", todo |-> boot.todo, read |-> boot.read]
    BY <2>1 DEF BuildInv, BuildTyped
  <2>3. watcher' = [pc |-> IF WatchPackages /\ root THEN "idle" ELSE "off", of |-> watcher.of, gen |-> watcher.gen]
    BY <2>1, ClientAtBoot
  <2>4. \A e \in by_release' :
          e.of \in Present /\ e.gen = watcher'.gen /\ e.size = disk[e.of] /\ e.digest = NoDigest
          /\ e = [of |-> e.of, size |-> e.size, digest |-> e.digest, gen |-> e.gen]
    BY <2>1, <2>3, EntryIs
  <2>5. \A p \in Present : \E e \in by_release' : e.of = p
    BY <2>1, EntryIs
  <2>6. Scanning'
    BY <2>2 DEF Scanning
  <2>7. watcher'.pc \in {"off", "idle"} /\ (watcher'.pc = "idle" => root) /\ watcher'.gen = watcher.gen
    BY <2>3
  <2>8. /\ boot'.pc = "up" /\ boot' = [pc |-> boot'.pc, todo |-> boot'.todo, read |-> boot'.read]
        /\ watcher' = [pc |-> watcher'.pc, of |-> watcher'.of, gen |-> watcher'.gen]
    BY <2>2, <2>3
  <2> QED BY <2>1, <2>4, <2>5, <2>6, <2>7, <2>8, ClientAtBoot, StartStep
<1>5. CASE Restart
  <2>1. /\ boot' = [pc |-> "scan", todo |-> {}, read |-> {}] /\ by_release' = {} /\ events' = <<>> /\ client' = NoClient
        /\ watcher' = [pc |-> "off", of |-> NoTag, gen |-> 0] /\ UNCHANGED <<serves, root, disk, writes>>
        /\ apart' = {p.dir : p \in {x \in Archives : x.aside /\ disk[x] # 0}}
    BY <1>5 DEF Restart
  <2>2. /\ NoClient.pc = "idle" /\ NoClient.calm = FALSE
    BY DEF NoClient
  <2>3. Scanning'
    BY <2>1, <2>2 DEF Scanning
  <2>4. apart' \subseteq Tags
    BY <2>1 DEF Tags
  <2>5. root' \in BOOLEAN
    BY <2>1 DEF BuildInv, BuildTyped
  <2>6. /\ watcher'.pc = "off" /\ watcher'.gen = 0 /\ boot'.pc = "scan"
        /\ boot' = [pc |-> boot'.pc, todo |-> boot'.todo, read |-> boot'.read]
        /\ watcher' = [pc |-> watcher'.pc, of |-> watcher'.of, gen |-> watcher'.gen]
    BY <2>1
  <2> QED BY <2>1, <2>2, <2>3, <2>4, <2>5, <2>6, StartStep
<1> QED BY <1>1, <1>2, <1>3, <1>4, <1>5

-----------------------------------------------------------------------------
(* The directory changes.                                                  *)

\* Whatever a sync does: new bytes are new, and news of a change waits for a
\* watcher that is there.
LEMMA SyncStep ==
    ASSUME BuildInv, ~SyncsAtBoot, Syncing, Synced, Disturbed,
           disk' \in [Archives -> Nat],
           \A p \in Archives : disk'[p] <= writes + 1,
           \A p \in Archives : ~p.aside => disk'[p] \in {disk[p], 0, writes + 1},
           apart \subseteq apart', apart' \subseteq Tags,
           \A p \in Archives : p.aside /\ disk'[p] # 0 => p.dir \in apart',
           events' \in Seq(FileEvents),
           \A i \in 1 .. Len(events') : events'[i].of.aside => events'[i].of.dir \in apart',
           ~Watched => events' = events,
           Watched => /\ LastTells(events', disk')
                      /\ \A p : Pending(events, p) => Pending(events', p)
                      /\ \A p \in Archives : disk'[p] # disk[p] => Pending(events', p)
    PROVE  BuildInv'
<1>1. /\ root /\ (boot.pc = "up" \/ (boot.pc = "scan" /\ by_release = {})) /\ writes' = writes + 1 /\ writes \in Nat
      /\ UNCHANGED <<serves, root, by_release, boot, watcher>> /\ disk \in [Archives -> Nat]
  BY DEF Syncing, Synced, BuildInv, BuildTyped
<1>2. /\ client' = [client EXCEPT !.calm = FALSE] /\ client'.pc = client.pc /\ client'.left = client.left
      /\ client'.calm = FALSE /\ DOMAIN client' = DOMAIN client
  BY DEF Disturbed, BuildInv, BuildTyped, NoClient
<1>3. BuildTyped'
  <2>1. \A p \in Archives : disk'[p] <= writes'
    BY <1>1
  <2> QED BY <1>1, <1>2, <2>1 DEF BuildInv, BuildTyped
<1>4. Apart'
  BY <1>1 DEF BuildInv, Apart
<1>5. Generations'
  <2>1. Known' = Known
    BY <1>1, <1>2 DEF Known, Hands
  <2>2. \A e \in Known : RecordSound(e)'
    <3>1. TAKE e \in Known
    <3>2. RecordSound(e)
      BY DEF BuildInv, Generations
    <3>3. e.size \in Nat /\ e.size # 0 /\ e.size <= writes /\ e.size \in 1 .. writes' /\ e.of \in Archives
      BY <1>1, <3>2 DEF RecordSound, Entries
    <3>4. ~e.of.aside /\ e.size = disk'[e.of] => e.size = disk[e.of]
      BY <1>1, <3>3
    <3> QED BY <1>1, <3>2, <3>3, <3>4 DEF RecordSound
  <2> QED BY <1>1, <2>1, <2>2 DEF BuildInv, Generations
<1>6. Scanning'
  BY <1>1, <1>2 DEF BuildInv, Scanning, Watched
<1>7. Settling'
  <2>1. Watched' <=> Watched
    BY <1>1 DEF Watched
  <2>2. ASSUME Watched, NEW p \in Archives, ~p.aside, p.dir \notin apart', ~Pending(events', p),
               ~(watcher.pc = "stat" /\ watcher.of = p)
        PROVE  Indexed(p)'
    <3>1. disk'[p] = disk[p] /\ ~Pending(events, p) /\ p.dir \notin apart
      BY <2>2
    <3>2. Indexed(p)
      BY <2>2, <3>1 DEF BuildInv, Settling
    <3> QED BY <1>1, <3>1, <3>2 DEF Indexed, Present
  <2> QED BY <1>1, <2>1, <2>2 DEF BuildInv, Settling
<1>8. Walked'
  BY <1>2 DEF Walked
<1> QED BY <1>3, <1>4, <1>5, <1>6, <1>7, <1>8 DEF BuildInv

LEMMA Quietly ==
    ASSUME BuildInv
    PROVE  /\ disk \in [Archives -> Nat] /\ writes \in Nat /\ (\A p \in Archives : disk[p] <= writes)
           /\ events \in Seq(FileEvents) /\ apart \subseteq Tags
           /\ \A p \in Archives : p.aside /\ disk[p] # 0 => p.dir \in apart
           /\ \A i \in 1 .. Len(events) : events[i].of.aside => events[i].of.dir \in apart
           /\ Watched => LastTells(events, disk)
           /\ \A p \in Archives : p.dir \in Tags
BY DEF BuildInv, BuildTyped, Apart, Settling, Tags

\* One file changes.
LEMMA OneChange ==
    ASSUME BuildInv, ~SyncsAtBoot, Syncing, Synced, Disturbed,
           NEW p \in Archives, NEW n \in {0, writes + 1}, NEW kind \in {"changed", "deleted"},
           kind = "changed" <=> n # 0, disk' = [disk EXCEPT ![p] = n],
           n # 0 \/ disk[p] # 0,
           apart' = IF p.aside /\ n # 0 THEN apart \cup {p.dir} ELSE apart,
           Told(<<[is |-> kind, of |-> p]>>)
    PROVE  BuildInv'
<1> DEFINE v == [is |-> kind, of |-> p]
<1>1. v \in FileEvents /\ v.is = kind /\ v.of = p
  BY DEF FileEvents
<1> HIDE DEF v
<1>2. n \in Nat /\ n <= writes + 1 /\ \A q \in Archives \ {p} : disk'[q] = disk[q]
  BY Quietly
<1>3. /\ disk' \in [Archives -> Nat] /\ disk'[p] = n /\ apart \subseteq apart' /\ apart' \subseteq Tags
      /\ \A q \in Archives : disk'[q] <= writes + 1
      /\ \A q \in Archives : disk'[q] \in {disk[q], 0, writes + 1}
  BY <1>2, Quietly
<1>4. \A q \in Archives : q.aside /\ disk'[q] # 0 => q.dir \in apart'
  BY <1>2, <1>3, Quietly
<1>5. p.aside => p.dir \in apart'
  BY Quietly
<1>6. events' = IF Watched THEN events \o <<v>> ELSE events
  BY DEF Told, v
<1>7. CASE Watched
  <2>1. /\ LastTells(events \o <<v>>, disk') /\ events \o <<v>> \in Seq(FileEvents)
        /\ \A q : Pending(events \o <<v>>, q) <=> Pending(events, q) \/ q = p
    <3>1. (v.is = "changed" <=> disk'[v.of] # 0) /\ \A q \in Archives \ {v.of} : disk'[q] = disk[q]
      <4>1. disk'[v.of] = n /\ v.is = kind
        BY <1>1, <1>3
      <4>2. \A q \in Archives \ {v.of} : disk'[q] = disk[q]
        BY <1>1, <1>2
      <4> QED BY <4>1, <4>2
    <3>2. LastTells(events, disk) /\ events \in Seq(FileEvents)
      BY <1>7, Quietly
    <3>3. v \in FileEvents
      BY <1>1
    <3>4. LastTells(events \o <<v>>, disk')
      BY <3>1, <3>2, <3>3, EventAdded
    <3>5. events \o <<v>> \in Seq(FileEvents)
      BY <3>1, <3>2, <3>3, EventAdded
    <3>6. \A q : Pending(events \o <<v>>, q) <=> Pending(events, q) \/ q = v.of
      BY <3>2, <3>3, PendingAdded
    <3> QED BY <1>1, <3>4, <3>5, <3>6
  <2>2. \A i \in 1 .. Len(events') : events'[i].of.aside => events'[i].of.dir \in apart'
    <3>1. ASSUME NEW i \in 1 .. Len(events \o <<v>>)
          PROVE  (events \o <<v>>)[i] = v \/ \E j \in 1 .. Len(events) : (events \o <<v>>)[i] = events[j]
      <4>1. events \in Seq(FileEvents)
        BY Quietly
      <4> QED BY <4>1
    <3> QED BY <1>1, <1>3, <1>5, <1>6, <1>7, <3>1, Quietly
  <2>3. events' = events \o <<v>>
    BY <1>6, <1>7
  <2>4. \A q \in Archives : disk'[q] # disk[q] => Pending(events', q)
    BY <1>2, <2>1, <2>3
  <2>5. \A q : Pending(events, q) => Pending(events', q)
    BY <2>1, <2>3
  <2>6. LastTells(events', disk') /\ events' \in Seq(FileEvents)
    BY <2>1, <2>3
  <2> QED BY <1>3, <1>4, <1>7, <2>2, <2>4, <2>5, <2>6, SyncStep
<1>8. CASE ~Watched
  <2>1. events' = events
    BY <1>6, <1>8
  <2>2. /\ events' \in Seq(FileEvents)
        /\ \A i \in 1 .. Len(events') : events'[i].of.aside => events'[i].of.dir \in apart'
    BY <1>3, <2>1, Quietly
  <2> QED BY <1>3, <1>4, <1>8, <2>1, <2>2, SyncStep
<1> QED BY <1>7, <1>8

LEMMA MoveStep == ASSUME BuildInv, ~SyncsAtBoot, NEW p \in Archives, MoveAside(p) PROVE BuildInv'
<1> DEFINE q == [p EXCEPT !.aside = TRUE]
           v == [is |-> "deleted", of |-> p]
           w == [is |-> "changed", of |-> q]
           d == [disk EXCEPT ![p] = 0]
<1>1. /\ Syncing /\ ~p.aside /\ q \in Archives /\ disk[p] # 0
      /\ disk' = [disk EXCEPT ![q] = disk[p], ![p] = 0] /\ apart' = apart \cup {p.dir}
      /\ Told(<<v, w>>) /\ Disturbed /\ Synced
  BY DEF MoveAside
<1>2. q.aside = TRUE /\ q.dir = p.dir
  <2>1. DOMAIN p = {"dir", "aside", "name", "tag", "platform", "arch", "ext", "ok"}
    OBVIOUS
  <2> QED BY <2>1
<1>3. v \in FileEvents /\ w \in FileEvents /\ v.is = "deleted" /\ v.of = p /\ w.is = "changed" /\ w.of = q
  BY <1>1 DEF FileEvents
<1> HIDE DEF q, v, w
<1>4. p # q
  BY <1>1, <1>2
<1>5. /\ disk' \in [Archives -> Nat] /\ disk'[p] = 0 /\ disk'[q] = disk[p] /\ d[p] = 0 /\ disk[p] \in Nat
      /\ \A a \in Archives \ {p, q} : disk'[a] = disk[a]
      /\ \A a \in Archives \ {p} : d[a] = disk[a]
      /\ \A a \in Archives \ {q} : disk'[a] = d[a]
  BY <1>1, <1>4, Quietly
<1> HIDE DEF d
<1>6. /\ \A a \in Archives : disk'[a] <= writes + 1
      /\ \A a \in Archives : ~a.aside => disk'[a] \in {disk[a], 0, writes + 1}
      /\ apart \subseteq apart' /\ apart' \subseteq Tags /\ p.dir \in apart'
      /\ \A a \in Archives : a.aside /\ disk'[a] # 0 => a.dir \in apart'
  <2>1. ASSUME NEW a \in Archives PROVE disk'[a] <= writes + 1
    <3>1. disk'[a] = 0 \/ disk'[a] = disk[a] \/ disk'[a] = disk[p]
      BY <1>5
    <3>2. disk[a] \in Nat /\ disk[p] \in Nat /\ writes \in Nat /\ disk[a] <= writes /\ disk[p] <= writes
      BY Quietly
    <3> QED BY <3>1, <3>2
  <2>2. ASSUME NEW a \in Archives, ~a.aside PROVE disk'[a] \in {disk[a], 0}
    BY <1>2, <1>5, <2>2
  <2>3. apart \subseteq apart' /\ apart' \subseteq Tags /\ p.dir \in apart'
    BY <1>1, Quietly
  <2>4. ASSUME NEW a \in Archives, a.aside, disk'[a] # 0 PROVE a.dir \in apart'
    BY <1>2, <1>5, <2>3, <2>4, Quietly
  <2> QED BY <2>1, <2>2, <2>3, <2>4
<1>7. events' = IF Watched THEN events \o <<v, w>> ELSE events
  BY <1>1 DEF Told
<1>8. CASE Watched
  <2> DEFINE es == events \o <<v>>
             fs == es \o <<w>>
  <2>1. /\ LastTells(es, d) /\ es \in Seq(FileEvents)
        /\ \A a : Pending(es, a) <=> Pending(events, a) \/ a = p
    <3>1. (v.is = "changed" <=> d[v.of] # 0) /\ \A a \in Archives \ {v.of} : d[a] = disk[a]
      BY <1>3, <1>5
    <3>2. LastTells(events, disk) /\ events \in Seq(FileEvents)
      BY <1>8, Quietly
    <3>3. v \in FileEvents
      BY <1>3
    <3>4. LastTells(es, d)
      BY <3>1, <3>2, <3>3, EventAdded
    <3>5. es \in Seq(FileEvents)
      BY <3>2, <3>3
    <3>6. \A a : Pending(es, a) <=> Pending(events, a) \/ a = v.of
      BY <3>2, <3>3, PendingAdded
    <3> QED BY <1>3, <3>4, <3>5, <3>6
  <2>2. events' = fs
    <3>1. events \in Seq(FileEvents)
      BY Quietly
    <3> DEFINE s == events \o <<v, w>>
    <3>2. /\ s \in Seq(FileEvents) /\ Len(s) = Len(events) + 2 /\ Len(events) \in Nat
          /\ s[Len(events) + 1] = v /\ s[Len(events) + 2] = w
          /\ \A i \in 1 .. Len(events) : s[i] = events[i]
      BY <3>1, <1>3
    <3>3. /\ es \in Seq(FileEvents) /\ Len(es) = Len(events) + 1 /\ es[Len(events) + 1] = v
          /\ \A i \in 1 .. Len(events) : es[i] = events[i]
      BY <3>1, <1>3
    <3>4. events' = s
      BY <1>7, <1>8
    <3> HIDE DEF es, s
    <3>5. /\ fs \in Seq(FileEvents) /\ Len(fs) = Len(es) + 1 /\ fs[Len(es) + 1] = w
          /\ \A i \in 1 .. Len(es) : fs[i] = es[i]
      BY <3>3, <1>3
    <3> HIDE DEF fs
    <3>6. Len(s) = Len(fs) /\ Len(fs) = Len(events) + 2 /\ Len(es) + 1 = Len(events) + 2
      BY <3>2, <3>3, <3>5
    <3>7. ASSUME NEW i \in 1 .. Len(fs) PROVE s[i] = fs[i]
      <4>1. i \in 1 .. Len(events) \/ i = Len(events) + 1 \/ i = Len(events) + 2
        BY <3>2, <3>6
      <4>2. i \in 1 .. Len(events) => i \in 1 .. Len(es)
        BY <3>2, <3>3
      <4>3. Len(events) + 1 \in 1 .. Len(es)
        BY <3>2, <3>3
      <4> QED BY <3>2, <3>3, <3>5, <3>6, <4>1, <4>2, <4>3
    <3>8. s = fs
      BY <3>2, <3>5, <3>6, <3>7
    <3> QED BY <3>4, <3>8
  <2>3. \A i \in 1 .. Len(fs) : fs[i] \in {v, w} \/ \E j \in 1 .. Len(events) : fs[i] = events[j]
    <3>1. events \in Seq(FileEvents)
      BY Quietly
    <3> QED BY <3>1
  <2> HIDE DEF es
  <2>4. /\ LastTells(fs, disk') /\ fs \in Seq(FileEvents)
        /\ \A a : Pending(fs, a) <=> Pending(es, a) \/ a = q
    <3>1. w.is = "changed" <=> disk'[w.of] # 0
      BY <1>1, <1>3, <1>5
    <3>2. \A a \in Archives \ {w.of} : disk'[a] = d[a]
      BY <1>3, <1>5
    <3> QED BY <1>3, <2>1, <3>1, <3>2, EventAdded
  <2> HIDE DEF fs
  <2>5. \A i \in 1 .. Len(events') : events'[i].of.aside => events'[i].of.dir \in apart'
    BY <1>1, <1>2, <1>3, <1>6, <2>2, <2>3, Quietly
  <2>6. \A a \in Archives : disk'[a] # disk[a] => Pending(events', a)
    BY <1>5, <2>1, <2>2, <2>4
  <2>7. \A a : Pending(events, a) => Pending(events', a)
    BY <2>1, <2>2, <2>4
  <2>8. LastTells(events', disk') /\ events' \in Seq(FileEvents)
    BY <2>2, <2>4
  <2> QED BY <1>1, <1>5, <1>6, <1>8, <2>5, <2>6, <2>7, <2>8, SyncStep
<1>9. CASE ~Watched
  <2>1. events' = events
    BY <1>7, <1>9
  <2>2. /\ events' \in Seq(FileEvents)
        /\ \A i \in 1 .. Len(events') : events'[i].of.aside => events'[i].of.dir \in apart'
    BY <1>6, <2>1, Quietly
  <2> QED BY <1>1, <1>5, <1>6, <1>9, <2>1, <2>2, SyncStep
<1> QED BY <1>8, <1>9

LEMMA SyncSteps == ASSUME BuildInv, ~SyncsAtBoot, Sync PROVE BuildInv'
<1>1. ASSUME NEW p \in Archives, Place(p) PROVE BuildInv'
  <2>1. /\ Syncing /\ Synced /\ Disturbed /\ disk' = [disk EXCEPT ![p] = writes + 1]
        /\ apart' = (IF p.aside THEN apart \cup {p.dir} ELSE apart) /\ Told(<<[is |-> "changed", of |-> p]>>)
    BY <1>1 DEF Place
  <2>2. writes + 1 # 0
    BY Quietly
  <2> QED BY <2>1, <2>2, OneChange
<1>2. ASSUME NEW p \in Archives, Delete(p) PROVE BuildInv'
  <2>1. /\ Syncing /\ Synced /\ Disturbed /\ disk' = [disk EXCEPT ![p] = 0] /\ disk[p] # 0 /\ apart' = apart
        /\ Told(<<[is |-> "deleted", of |-> p]>>)
    BY <1>2 DEF Delete
  <2> QED BY <2>1, OneChange
<1>3. ASSUME Syncing, Synced, Disturbed, UNCHANGED <<disk, apart, events>> PROVE BuildInv'
  <2>1. /\ \A p \in Archives : disk'[p] <= writes + 1
        /\ events' \in Seq(FileEvents) /\ apart' \subseteq Tags
    <3>1. ASSUME NEW p \in Archives PROVE disk[p] <= writes + 1
      <4>1. disk[p] \in Nat /\ writes \in Nat /\ disk[p] <= writes
        BY Quietly
      <4> QED BY <4>1
    <3> QED BY <1>3, <3>1, Quietly
  <2> QED BY <1>3, <2>1, Quietly, SyncStep
<1>4. ASSUME (\E t \in Tags : MirrorSums(t)) \/ MirrorIndex PROVE BuildInv'
  BY <1>3, <1>4 DEF MirrorSums, MirrorIndex
<1>5. CASE MakeRoot
  <2>1. /\ ~root /\ root' = TRUE /\ writes' = writes + 1 /\ Disturbed
        /\ UNCHANGED <<serves, disk, apart, by_release, boot, events, watcher>>
    BY <1>5 DEF MakeRoot
  <2>2. /\ client'.pc = client.pc /\ client'.left = client.left
        /\ client'.calm = FALSE /\ DOMAIN client' = DOMAIN client
    BY <2>1 DEF Disturbed, BuildInv, BuildTyped, NoClient
  <2>3. BuildTyped'
    <3>1. \A p \in Archives : disk'[p] <= writes'
      <4>1. TAKE p \in Archives
      <4>2. disk[p] \in Nat /\ writes \in Nat /\ disk[p] <= writes
        BY Quietly
      <4> QED BY <2>1, <4>2
    <3> QED BY <2>1, <2>2, <3>1 DEF BuildInv, BuildTyped
  <2>4. Apart'
    BY <2>1 DEF BuildInv, Apart
  <2>5. Generations'
    <3>1. Known' = Known
      BY <2>1, <2>2 DEF Known, Hands
    <3>2. \A e \in Known : RecordSound(e)'
      <4>1. TAKE e \in Known
      <4>2. RecordSound(e) /\ writes \in Nat
        BY Quietly DEF BuildInv, Generations
      <4>3. e.size \in 1 .. writes'
        BY <2>1, <4>2 DEF RecordSound
      <4> QED BY <2>1, <4>2, <4>3 DEF RecordSound
    <3> QED BY <2>1, <3>1, <3>2 DEF BuildInv, Generations
  <2>6. Scanning'
    BY <2>1, <2>2 DEF BuildInv, Scanning, Present, Entry
  <2>7. Settling'
    BY <2>1 DEF BuildInv, Settling, Watched, Indexed, Present
  <2>8. Walked'
    BY <2>2 DEF Walked
  <2> QED BY <2>3, <2>4, <2>5, <2>6, <2>7, <2>8 DEF BuildInv
<1> QED BY <1>1, <1>2, <1>4, <1>5, MoveStep DEF Sync

-----------------------------------------------------------------------------
(* The watcher.                                                            *)

LEMMA WatcherFacts ==
    ASSUME BuildInv, Watched
    PROVE  /\ root /\ boot.pc = "up" /\ LastTells(events, disk) /\ events \in Seq(FileEvents)
           /\ \A p \in Archives :
                ~p.aside /\ p.dir \notin apart /\ ~Pending(events, p) /\ ~(watcher.pc = "stat" /\ watcher.of = p) => Indexed(p)
           /\ \A e \in by_release : RecordSound(e)
           /\ \A i \in 1 .. Len(events) : events[i].of.aside => events[i].of.dir \in apart
BY DEF BuildInv, BuildTyped, Settling, Generations, Known, Apart

LEMMA CheckStep == ASSUME BuildInv, _add_or_update_checked PROVE BuildInv'
<1> DEFINE p == Head(events).of
<1>1. /\ watcher.pc = "idle" /\ events # <<>> /\ Head(events).is = "changed" /\ events' = Tail(events)
      /\ watcher' = (IF disk[p] = 0 \/ ~p.ok THEN watcher ELSE [watcher EXCEPT !.pc = "stat", !.of = p])
      /\ UNCHANGED <<serves, root, disk, apart, by_release, boot, client, writes>>
  BY DEF _add_or_update_checked
<1>2. Watched
  BY <1>1 DEF Watched
<1>3. /\ Tail(events) \in Seq(FileEvents) /\ LastTells(Tail(events), disk) /\ Head(events) \in FileEvents
      /\ Head(events) = events[1] /\ 1 \in 1 .. Len(events)
      /\ \A i \in 1 .. Len(Tail(events)) : \E j \in 1 .. Len(events) : Tail(events)[i] = events[j]
      /\ \A q : Pending(events, q) <=> Pending(Tail(events), q) \/ q = p
      /\ ~Pending(Tail(events), p) => (Head(events).is = "changed" <=> disk[p] # 0)
  BY <1>1, <1>2, WatcherFacts, EventTaken
<1>4. p \in Archives /\ (p.aside => p.dir \in apart)
  <2>1. p \in Archives
    BY <1>3 DEF FileEvents
  <2> QED BY <1>2, <1>3, <2>1, WatcherFacts
<1> HIDE DEF p
<1>5. watcher = [pc |-> "idle", of |-> watcher.of, gen |-> watcher.gen] /\ watcher.gen \in Nat
  BY <1>1 DEF BuildInv, BuildTyped
<1>6. \/ (disk[p] = 0 \/ ~p.ok) /\ watcher' = watcher
      \/ disk[p] # 0 /\ p.ok /\ watcher' = [pc |-> "stat", of |-> p, gen |-> watcher.gen]
  <2>1. CASE disk[p] = 0 \/ ~p.ok
    BY <1>1, <2>1
  <2>2. CASE ~(disk[p] = 0 \/ ~p.ok)
    <3>1. watcher' = [watcher EXCEPT !.pc = "stat", !.of = p]
      BY <1>1, <2>2
    <3> QED BY <1>5, <2>2, <3>1
  <2> QED BY <2>1, <2>2
<1>7. /\ watcher'.pc \in {"idle", "stat"} /\ watcher'.gen = watcher.gen
      /\ watcher' = [pc |-> watcher'.pc, of |-> watcher'.of, gen |-> watcher'.gen]
      /\ watcher'.pc = "stat" => watcher'.of = p /\ p.ok /\ disk[p] # 0
      /\ watcher'.pc = "idle" => disk[p] = 0 \/ ~p.ok
  BY <1>5, <1>6
<1>8. BuildTyped'
  BY <1>1, <1>3, <1>4, <1>5, <1>7 DEF BuildInv, BuildTyped
<1>9. Apart'
  BY <1>1, <1>3, <1>4, <1>7 DEF BuildInv, Apart
<1>10. Generations'
  <2>1. Known' = Known
    BY <1>1 DEF Known, Hands
  <2>2. \A e \in Known : RecordSound(e)'
    BY <1>1, <1>7 DEF BuildInv, Generations, RecordSound
  <2> QED BY <1>1, <2>1, <2>2 DEF BuildInv, Generations
<1>11. Scanning'
  BY <1>1, <1>2, WatcherFacts DEF Scanning
<1>12. Settling'
  <2>1. Watched'
    BY <1>7 DEF Watched
  <2>2. ASSUME NEW q \in Archives, ~q.aside, q.dir \notin apart, ~Pending(Tail(events), q),
               ~(watcher'.pc = "stat" /\ watcher'.of = q)
        PROVE  Indexed(q)
    <3>1. CASE q # p
      <4>1. ~Pending(events, q)
        BY <1>3, <2>2, <3>1
      <4> QED BY <1>1, <1>2, <2>2, <4>1, WatcherFacts
    <3>2. CASE q = p
      <4>1. disk[p] # 0 /\ watcher'.pc = "idle"
        BY <1>1, <1>3, <1>7, <2>2, <3>2
      <4>2. ~p.ok
        BY <1>7, <4>1
      <4>3. \A e \in by_release : e.of # p
        BY <1>2, <4>2, WatcherFacts DEF RecordSound
      <4> QED BY <3>2, <4>2, <4>3 DEF Indexed, Present
    <3> QED BY <3>1, <3>2
  <2>3. \A q \in Archives : Indexed(q) => Indexed(q)'
    BY <1>1 DEF Indexed, Present
  <2> QED BY <1>1, <1>2, <1>3, <1>7, <2>1, <2>2, <2>3, WatcherFacts DEF Settling
<1>13. Walked'
  <2>1. ~client.calm
    BY <1>1 DEF BuildInv, Walked, Quiet
  <2> QED BY <1>1, <2>1 DEF BuildInv, Walked
<1> QED BY <1>8, <1>9, <1>10, <1>11, <1>12, <1>13 DEF BuildInv

\* The index forgets what was filed under a slot, and may file an archive there.
LEMMA StatStep == ASSUME BuildInv, _add_or_update PROVE BuildInv'
<1> DEFINE p == watcher.of
           g == watcher.gen + 1
           new == Entry(p, g)
<1>1. /\ watcher.pc = "stat"
      /\ \/ disk[p] = 0 /\ watcher' = [watcher EXCEPT !.pc = "dead", !.of = NoTag] /\ by_release' = by_release
         \/ /\ disk[p] # 0 /\ watcher' = [pc |-> "idle", of |-> NoTag, gen |-> g]
            /\ by_release' = {e \in by_release : Slot(e.of) # Slot(p)} \cup {new}
      /\ UNCHANGED <<serves, root, disk, apart, events, boot, client, writes>>
  BY DEF _add_or_update
<1>2. Watched
  BY <1>1 DEF Watched
<1>3. p \in Archives /\ p.ok /\ (p.aside => p.dir \in apart) /\ watcher.gen \in Nat
  BY <1>1 DEF BuildInv, BuildTyped, Apart
<1>4. ~client.calm
  BY <1>1 DEF BuildInv, Walked, Quiet
<1>5. Scanning' /\ Walked'
  BY <1>1, <1>2, <1>4, WatcherFacts DEF Scanning, BuildInv, Walked
<1>6. CASE disk[p] = 0
  <2>1. /\ watcher' = [pc |-> "dead", of |-> NoTag, gen |-> watcher.gen] /\ by_release' = by_release
    BY <1>1, <1>6 DEF BuildInv, BuildTyped
  <2> HIDE DEF p
  <2>2. BuildTyped' /\ Apart'
    BY <1>1, <1>3, <2>1 DEF BuildInv, BuildTyped, Apart
  <2>3. Generations'
    <3>1. Known' = Known
      BY <1>1, <2>1 DEF Known, Hands
    <3>2. \A e \in Known : RecordSound(e)'
      BY <1>1, <2>1 DEF BuildInv, Generations, RecordSound
    <3> QED BY <1>1, <2>1, <3>1, <3>2 DEF BuildInv, Generations
  <2>4. Settling'
    BY <2>1 DEF Settling, Watched
  <2> QED BY <1>5, <2>2, <2>3, <2>4 DEF BuildInv
<1>7. CASE disk[p] # 0
  <2>1. /\ watcher' = [pc |-> "idle", of |-> NoTag, gen |-> g]
        /\ by_release' = {e \in by_release : Slot(e.of) # Slot(p)} \cup {new}
    BY <1>1, <1>7
  <2>2. disk[p] \in Nat /\ disk[p] <= writes /\ writes \in Nat /\ disk[p] \in 1 .. writes
    BY <1>3, <1>7, Quietly
  <2>3. /\ new.of = p /\ new.size = disk[p] /\ new.digest = NoDigest /\ new.gen = g /\ new \in Entries
    BY <1>3, <2>2 DEF Entry, Entries, NoDigest
  <2> HIDE DEF p, new
  <2>4. BuildTyped'
    BY <1>1, <1>3, <2>1 DEF BuildInv, BuildTyped
  <2>5. Apart'
    BY <1>1, <1>3, <2>1, <2>3 DEF BuildInv, Apart
  <2>6. Generations'
    <3>1. Known' = {e \in by_release : Slot(e.of) # Slot(p)} \cup {new} \cup Hands(client)
      BY <1>1, <2>1 DEF Known
    <3>2. \A e \in Known : RecordSound(e) /\ e.gen \in Nat /\ e.gen < g
      <4>1. TAKE e \in Known
      <4>2. RecordSound(e)
        BY DEF BuildInv, Generations
      <4> QED BY <1>3, <4>2 DEF RecordSound, Entries
    <3>3. \A e \in Known : RecordSound(e)'
      <4>1. TAKE e \in Known
      <4>2. e.gen <= watcher'.gen
        BY <1>3, <2>1, <3>2
      <4> QED BY <1>1, <3>2, <4>2 DEF RecordSound
    <3>4. \A e : e = new => RecordSound(e)'
      <4>1. TAKE e
      <4>2. HAVE e = new
      <4>3. g <= watcher'.gen
        BY <1>3, <2>1
      <4>4. /\ e \in Entries /\ e.of.ok /\ e.gen <= watcher'.gen /\ e.size \in 1 .. writes'
            /\ e.digest = NoDigest
        BY <1>1, <1>3, <2>2, <2>3, <4>2, <4>3
      <4> QED BY <4>4 DEF RecordSound
    <3>5. \A e \in Known' : RecordSound(e)'
      BY <3>1, <3>3, <3>4 DEF Known
    <3>6. \A e, x \in Known' : e.of = x.of /\ e.gen = x.gen => e.size = x.size
      <4>1. TAKE e, x \in Known'
      <4>2. HAVE e.of = x.of /\ e.gen = x.gen
      <4>3. (e \in Known \/ e = new) /\ (x \in Known \/ x = new)
        BY <3>1 DEF Known
      <4>4. CASE e \in Known /\ x \in Known
        BY <4>2, <4>4 DEF BuildInv, Generations
      <4>5. CASE e = new \/ x = new
        <5>1. g \in Nat
          BY <1>3
        <5>2. e = new /\ x = new
          BY <2>3, <3>2, <4>2, <4>3, <4>5, <5>1
        <5> QED BY <5>2
      <4> QED BY <4>3, <4>4, <4>5
    <3>7. \A e, x \in by_release' : Slot(e.of) = Slot(x.of) => e = x
      <4>1. \A e, x \in by_release : Slot(e.of) = Slot(x.of) => e = x
        BY DEF BuildInv, Generations
      <4> QED BY <2>1, <2>3, <4>1
    <3> QED BY <3>5, <3>6, <3>7 DEF Generations
  <2>7. Settling'
    <3>1. Watched'
      BY <2>1 DEF Watched
    <3>2. ASSUME NEW q \in Archives, ~q.aside, q.dir \notin apart, ~Pending(events, q) PROVE Indexed(q)'
      <4>1. Present' = Present /\ disk' = disk
        BY <1>1 DEF Present
      <4>2. CASE q = p
        <5>1. q \in Present
          BY <1>3, <1>7, <3>2, <4>2 DEF Present
        <5>2. new \in by_release' /\ \A e \in by_release' : e.of = q => e = new
          BY <2>1, <4>2
        <5> QED BY <2>3, <4>1, <4>2, <5>1, <5>2 DEF Indexed
      <4>3. CASE q # p
        <5>1. Slot(q) # Slot(p)
          BY <1>3, <3>2, <4>3 DEF Slot
        <5>2. \A e : e.of = q => (e \in by_release' <=> e \in by_release)
          BY <2>1, <2>3, <4>3, <5>1
        <5>3. Indexed(q)
          BY <1>2, <3>2, <4>3, WatcherFacts DEF p
        <5> QED BY <4>1, <5>2, <5>3 DEF Indexed
      <4> QED BY <4>2, <4>3
    <3> QED BY <1>1, <1>2, <2>1, <3>1, <3>2, WatcherFacts DEF Settling
  <2> QED BY <1>5, <2>4, <2>5, <2>6, <2>7 DEF BuildInv
<1> QED BY <1>6, <1>7

LEMMA RemoveStep == ASSUME BuildInv, _remove PROVE BuildInv'
<1> DEFINE p == Head(events).of
<1>1. /\ watcher.pc = "idle" /\ events # <<>> /\ Head(events).is = "deleted" /\ events' = Tail(events)
      /\ by_release' = {e \in by_release : Slot(e.of) # Slot(p)}
      /\ UNCHANGED <<serves, root, disk, apart, watcher, boot, client, writes>>
  BY DEF _remove
<1>2. Watched
  BY <1>1 DEF Watched
<1>3. /\ Tail(events) \in Seq(FileEvents) /\ LastTells(Tail(events), disk) /\ Head(events) \in FileEvents
      /\ Head(events) = events[1] /\ 1 \in 1 .. Len(events)
      /\ \A i \in 1 .. Len(Tail(events)) : \E j \in 1 .. Len(events) : Tail(events)[i] = events[j]
      /\ \A q : Pending(events, q) <=> Pending(Tail(events), q) \/ q = p
      /\ ~Pending(Tail(events), p) => (Head(events).is = "changed" <=> disk[p] # 0)
  BY <1>1, <1>2, WatcherFacts, EventTaken
<1>4. p \in Archives /\ (p.aside => p.dir \in apart)
  <2>1. p \in Archives
    BY <1>3 DEF FileEvents
  <2> QED BY <1>2, <1>3, <2>1, WatcherFacts
<1> HIDE DEF p
<1>5. BuildTyped' /\ Apart'
  <2>1. BuildTyped'
    BY <1>1, <1>3 DEF BuildInv, BuildTyped
  <2>2. \A e \in by_release' : e \in by_release
    BY <1>1
  <2>3. Apart'
    BY <1>1, <1>3, <2>2 DEF BuildInv, Apart
  <2> QED BY <2>1, <2>3
<1>6. Generations'
  <2>1. Known' \subseteq Known
    BY <1>1 DEF Known
  <2>2. \A e \in Known : RecordSound(e)'
    BY <1>1 DEF BuildInv, Generations, RecordSound
  <2> QED BY <1>1, <2>1, <2>2 DEF BuildInv, Generations
<1>7. Scanning' /\ Walked'
  <2>1. ~client.calm
    BY <1>1 DEF BuildInv, Walked, Quiet
  <2> QED BY <1>1, <1>2, <2>1, WatcherFacts DEF Scanning, BuildInv, Walked
<1>8. Settling'
  <2>1. ASSUME NEW q \in Archives, ~q.aside, q.dir \notin apart, ~Pending(Tail(events), q) PROVE Indexed(q)'
    <3>1. CASE q # p
      <4>1. Indexed(q)
        BY <1>1, <1>2, <1>3, <2>1, <3>1, WatcherFacts
      <4>2. Slot(q) # Slot(p)
        BY <1>4, <2>1, <3>1 DEF Slot
      <4>3. \A e : e.of = q => (e \in by_release' <=> e \in by_release)
        BY <1>1, <4>2
      <4>4. Present' = Present /\ disk' = disk
        BY <1>1 DEF Present
      <4> QED BY <4>1, <4>3, <4>4 DEF Indexed
    <3>2. CASE q = p
      <4>1. disk[p] = 0
        BY <1>1, <1>3, <2>1, <3>2
      <4>2. q \notin Present' /\ \A e \in by_release' : e.of # q
        BY <1>1, <3>2, <4>1 DEF Present
      <4> QED BY <4>2 DEF Indexed
    <3> QED BY <3>1, <3>2
  <2> QED BY <1>1, <1>2, <1>3, <2>1, WatcherFacts DEF Settling, Watched
<1> QED BY <1>5, <1>6, <1>7, <1>8 DEF BuildInv

-----------------------------------------------------------------------------
(* A client's walk.                                                        *)

LEMMA ClientStep ==
    ASSUME BuildInv, boot.pc = "up", UNCHANGED <<serves, root, disk, sums, apart, by_release, boot, events, watcher, writes>>,
           NEW c, client' = c, DOMAIN c = DOMAIN NoClient, Hands(c) \subseteq Known,
           c.calm \in BOOLEAN, c.calm => Quiet, c.calm /\ apart = {} => WalkSound(c)
    PROVE  BuildInv'
<1>1. BuildTyped' /\ Apart'
  BY DEF BuildInv, BuildTyped, Apart
<1>2. Generations'
  <2>1. Known' \subseteq Known
    BY DEF Known, Hands
  <2>2. \A e \in Known : RecordSound(e)'
    BY DEF BuildInv, Generations, RecordSound
  <2> QED BY <2>1, <2>2 DEF BuildInv, Generations
<1>3. Scanning'
  BY DEF Scanning
<1>4. Settling'
  BY DEF BuildInv, Settling, Watched, Indexed, Present
<1>5. Walked'
  <2>1. WalkSound(c) => WalkSound(c)'
    BY DEF WalkSound, Odd, Given, Present
  <2> QED BY <2>1 DEF Walked, Quiet
<1> QED BY <1>1, <1>2, <1>3, <1>4, <1>5 DEF BuildInv

\* For a client that met no change the index is the directory's.
LEMMA CalmIndex ==
    ASSUME BuildInv, client.calm, apart = {}
    PROVE  /\ WalkSound(client)
           /\ \A e \in by_release : e.of \in Present /\ e.size = disk[e.of]
           /\ \A p \in Present : \E e \in by_release : e.of = p
<1>1. Quiet /\ WalkSound(client)
  BY DEF BuildInv, Walked
<1>2. watcher.pc = "idle" /\ events = <<>> /\ Watched
  BY <1>1 DEF Quiet, Watched
<1>3. ASSUME NEW p \in Archives, ~p.aside PROVE Indexed(p)
  <2>1. ~Pending(events, p)
    BY <1>2 DEF Pending
  <2> QED BY <1>2, <1>3, <2>1, WatcherFacts
<1>4. \A e \in by_release : e.of \in Archives /\ ~e.of.aside
  BY DEF BuildInv, Generations, Known, RecordSound, Entries, Apart
<1>5. \A e \in by_release : e.of \in Present /\ e.size = disk[e.of]
  BY <1>3, <1>4 DEF Indexed
<1>6. \A p \in Present : \E e \in by_release : e.of = p
  BY <1>3 DEF Indexed, Present
<1> QED BY <1>1, <1>5, <1>6

\* A walk that goes on from where it was.
LEMMA WalkGoes ==
    ASSUME BuildInv, boot.pc = "up", Keep, UNCHANGED by_release, NEW c, client' = c,
           DOMAIN c = DOMAIN client, c.calm = client.calm, Hands(c) \subseteq Known,
           client.calm /\ apart = {} => WalkSound(c)
    PROVE  BuildInv'
BY ClientStep DEF Keep, BuildInv, BuildTyped, Walked

LEMMA ClientFields == ASSUME BuildInv PROVE
    DOMAIN client = {"pc", "walk", "tag", "left", "got", "held", "token", "name", "count", "calm"}
BY DEF BuildInv, BuildTyped, NoClient

\* An answer that ends the walk, or leaves it where its other fields say.
LEMMA GoStep ==
    ASSUME BuildInv, boot.pc = "up", NEW pc, ClientGoes(pc), pc # "hash",
           ASSUME client.calm, apart = {} PROVE WalkSound([client EXCEPT !.pc = pc])
    PROVE  BuildInv'
<1> DEFINE c == [client EXCEPT !.pc = pc]
<1>1. client' = c /\ UNCHANGED by_release /\ Keep
  BY DEF ClientGoes
<1>2. c.pc = pc /\ c.calm = client.calm /\ DOMAIN c = DOMAIN client
  BY ClientFields
<1>3. client.calm /\ apart = {} => WalkSound(c)
  OBVIOUS
<1> HIDE DEF c
<1>4. Hands(c) \subseteq Known
  BY <1>2 DEF Hands
<1> QED BY <1>1, <1>2, <1>3, <1>4, WalkGoes

LEMMA EndStep ==
    ASSUME BuildInv, boot.pc = "up", NEW pc \in {"empty", "fetched", "verified", "missing", "mismatch"}, ClientGoes(pc),
           client.calm /\ apart = {} /\ pc = "missing" =>
               (client.walk = "latest" /\ client.tag = NoTag) \/ sums[client.tag] # NoSums \/ Odd,
           client.calm /\ apart = {} /\ pc = "mismatch" => sums[client.tag] # NoSums
    PROVE  BuildInv'
<1> DEFINE c == [client EXCEPT !.pc = pc]
<1>1. c.pc = pc /\ c.walk = client.walk /\ c.tag = client.tag
  BY ClientFields
<1> HIDE DEF c
<1>2. ASSUME client.calm, apart = {} PROVE WalkSound(c)
  BY <1>1, <1>2 DEF WalkSound
<1> QED BY <1>2, GoStep DEF c

LEMMA AskStep == ASSUME BuildInv, NEW w \in Walks, Ask(w) PROVE BuildInv'
<1> DEFINE c == [NoClient EXCEPT !.pc = w, !.walk = w, !.calm = Quiet]
<1>1. /\ boot.pc = "up" /\ client' = c
      /\ UNCHANGED <<serves, root, disk, sums, apart, by_release, boot, events, watcher, writes>>
  BY DEF Ask, Walking
<1>2. /\ c.pc = w /\ c.walk = w /\ c.calm = Quiet /\ c.tag = NoTag /\ c.got = {} /\ c.held = {}
      /\ DOMAIN c = DOMAIN NoClient
  BY DEF NoClient
<1> HIDE DEF c
<1>3. w \in {"nvm", "latest", "catalog", "page"}
  OBVIOUS
<1>4. Hands(c) \subseteq Known
  BY <1>2, <1>3 DEF Hands
<1>5. WalkSound(c)
  BY <1>2, <1>3 DEF WalkSound
<1>6. c.calm \in BOOLEAN /\ (c.calm => Quiet)
  BY <1>2 DEF Quiet
<1> QED BY <1>1, <1>2, <1>4, <1>5, <1>6, ClientStep

LEMMA ListingStep == ASSUME BuildInv, index_json PROVE BuildInv'
<1>1. boot.pc = "up" /\ client.pc = "nvm"
  BY DEF index_json, Walking
<1>2. CASE get_releases = {}
  BY <1>1, <1>2, EndStep DEF index_json
<1>3. ASSUME NEW t \in get_releases, NEW k \in index_document[t],
             client' = [client EXCEPT !.pc = "resolve", !.tag = t, !.token = k], UNCHANGED by_release, Keep
      PROVE  BuildInv'
  <2> DEFINE c == [client EXCEPT !.pc = "resolve", !.tag = t, !.token = k]
  <2>1. /\ c.pc = "resolve" /\ c.tag = t /\ c.token = k /\ c.got = client.got
        /\ c.calm = client.calm /\ DOMAIN c = DOMAIN client
    BY ClientFields
  <2> HIDE DEF c
  <2>2. PICK e \in by_release : e.of.dir = t /\ file_token(e.of) = k
    BY DEF index_document, get_files_for_release
  <2>3. ASSUME client.calm, apart = {} PROVE WalkSound(c)
    <3>1. e.of \in Present /\ client.got = {}
      BY <1>1, <2>3, CalmIndex DEF WalkSound
    <3> QED BY <2>1, <2>2, <3>1 DEF WalkSound, Fits
  <2>4. Hands(c) \subseteq Known
    BY <2>1 DEF Hands
  <2>5. client' = c
    BY <1>3 DEF c
  <2> QED BY <1>1, <1>3, <2>1, <2>3, <2>4, <2>5, WalkGoes
<1> QED BY <1>2, <1>3 DEF index_json

LEMMA LatestStep == ASSUME BuildInv, latest PROVE BuildInv'
<1>1. boot.pc = "up" /\ client.pc = "latest"
  BY DEF latest, Walking
<1>2. client.calm /\ apart = {} => client.walk = "latest" /\ client.tag = NoTag /\ client.got = {}
  BY <1>1, CalmIndex DEF WalkSound
<1>3. CASE ClientGoes("missing")
  BY <1>1, <1>2, <1>3, EndStep
<1>4. ASSUME NEW majors, NEW t \in resolve_alias(majors),
             client' = [client EXCEPT !.pc = "resolve", !.tag = t], UNCHANGED by_release, Keep
      PROVE  BuildInv'
  <2> DEFINE c == [client EXCEPT !.pc = "resolve", !.tag = t]
  <2>1. /\ c.pc = "resolve" /\ c.tag = t /\ c.walk = client.walk /\ c.got = client.got
        /\ c.calm = client.calm /\ DOMAIN c = DOMAIN client
    BY ClientFields
  <2>2. client' = c
    BY <1>4
  <2> HIDE DEF c
  <2>3. PICK e \in by_release : e.of.dir = t
    BY DEF resolve_alias, Newest, get_releases
  <2>4. ASSUME client.calm, apart = {} PROVE WalkSound(c)
    <3>1. e.of \in Present
      BY <2>4, CalmIndex
    <3>2. "latest" # "nvm"
      OBVIOUS
    <3> QED BY <1>2, <2>1, <2>3, <2>4, <3>1, <3>2 DEF WalkSound
  <2>5. Hands(c) \subseteq Known
    BY <2>1 DEF Hands
  <2> QED BY <1>1, <1>4, <2>1, <2>2, <2>4, <2>5, WalkGoes
<1> QED BY <1>3, <1>4 DEF latest

LEMMA SumsStep == ASSUME BuildInv, shasums PROVE BuildInv'
<1> DEFINE files == get_files_for_release(client.tag)
<1>1. boot.pc = "up" /\ client.pc = "resolve"
  BY DEF shasums, Walking
<1>2. files \subseteq by_release /\ \A e \in by_release : e \in files <=> e.of.dir = client.tag
  BY DEF get_files_for_release
<1>3. _resolve(client.tag) = {} <=> files = {}
  BY DEF _resolve
<1>4. client.calm /\ apart = {} => files # {}
  <2>1. SUFFICES ASSUME client.calm, apart = {} PROVE files # {}
    OBVIOUS
  <2>2. PICK p \in Present : p.dir = client.tag
    BY <1>1, <2>1, CalmIndex DEF WalkSound
  <2>3. PICK e \in by_release : e.of = p
    BY <2>1, CalmIndex
  <2> QED BY <1>2, <2>2, <2>3
<1>5. CASE _resolve(client.tag) = {}
  <2>1. ClientGoes("missing")
    BY <1>5 DEF shasums
  <2> QED BY <1>1, <1>3, <1>4, <1>5, <2>1, EndStep
<1>6. CASE _resolve(client.tag) # {} /\ sums[client.tag] # NoSums
  <2> DEFINE c == [client EXCEPT !.pc = "choose", !.got = sums[client.tag]]
  <2>1. client' = c /\ UNCHANGED by_release /\ Keep
    BY <1>6 DEF shasums
  <2>2. c.pc = "choose" /\ c.tag = client.tag /\ c.calm = client.calm /\ DOMAIN c = DOMAIN client
    BY ClientFields
  <2> HIDE DEF c
  <2>3. WalkSound(c)
    BY <1>6, <2>2 DEF WalkSound
  <2>4. Hands(c) \subseteq Known
    BY <2>2 DEF Hands
  <2> QED BY <1>1, <2>1, <2>2, <2>3, <2>4, WalkGoes
<1>7. CASE _resolve(client.tag) # {} /\ sums[client.tag] = NoSums
  <2> DEFINE c == [client EXCEPT !.pc = "hash", !.left = files]
  <2>1. client' = c /\ UNCHANGED by_release /\ Keep
    BY <1>7 DEF shasums
  <2>2. /\ c.pc = "hash" /\ c.left = files /\ c.tag = client.tag /\ c.got = client.got /\ c.walk = client.walk
        /\ c.token = client.token /\ c.calm = client.calm /\ DOMAIN c = DOMAIN client
    BY ClientFields
  <2> HIDE DEF c, files
  <2>3. ASSUME client.calm, apart = {} PROVE WalkSound(c)
    <3>1. client.got = {} /\ (client.walk = "nvm" => \E p \in Present : Fits(client, p))
      BY <1>1, <2>3, CalmIndex DEF WalkSound
    <3>2. files # {} /\ \A e \in files : e.of \in Present /\ e.of.dir = c.tag /\ e.size = disk[e.of]
      BY <1>2, <1>4, <2>2, <2>3, CalmIndex
    <3>3. client.walk = "nvm" => \E p \in Present : Fits(c, p) /\ \E e \in files : e.of = p
      <4>1. HAVE client.walk = "nvm"
      <4>2. PICK p \in Present : Fits(client, p)
        BY <3>1, <4>1
      <4>3. PICK e \in by_release : e.of = p
        BY <2>3, CalmIndex
      <4> QED BY <1>2, <2>2, <4>2, <4>3 DEF Fits
    <3> QED BY <2>2, <3>1, <3>2, <3>3 DEF WalkSound
  <2>4. Hands(c) \subseteq Known
    BY <1>2, <2>2 DEF Hands, Known
  <2> QED BY <1>1, <2>1, <2>2, <2>3, <2>4, WalkGoes
<1> QED BY <1>5, <1>6, <1>7

LEMMA ChooseStep == ASSUME BuildInv, choose PROVE BuildInv'
<1> DEFINE fits == {n \in {g[1] : g \in client.got} :
                      client.walk = "nvm" => \E p \in Archives : p.name = n /\ file_token(p) = client.token}
<1>1. boot.pc = "up" /\ client.pc = "choose"
  BY DEF choose, Walking
<1>2. client.calm /\ apart = {} /\ sums[client.tag] = NoSums =>
        /\ client.got # {} /\ \A g \in client.got : Given(client, g)
        /\ client.walk = "nvm" => \E p \in Present : Fits(client, p) /\ <<p.name, disk[p]>> \in client.got
  BY <1>1, CalmIndex DEF WalkSound
<1>3. CASE fits = {}
  <2>1. ClientGoes("missing")
    BY <1>3 DEF choose
  <2>2. ASSUME client.calm, apart = {}, sums[client.tag] = NoSums PROVE FALSE
    <3>1. CASE client.walk = "nvm"
      <4>1. PICK p \in Present : Fits(client, p) /\ <<p.name, disk[p]>> \in client.got
        BY <1>2, <2>2, <3>1
      <4>2. <<p.name, disk[p]>>[1] = p.name /\ p \in Archives
        BY DEF Present
      <4>3. p.name \in fits
        BY <4>1, <4>2 DEF Fits
      <4> QED BY <1>3, <4>3
    <3>2. CASE client.walk # "nvm"
      <4>1. PICK g \in client.got : TRUE
        BY <1>2, <2>2
      <4>2. g[1] \in fits
        BY <3>2, <4>1
      <4> QED BY <1>3, <4>2
    <3> QED BY <3>1, <3>2
  <2> QED BY <1>1, <2>1, <2>2, EndStep
<1>4. ASSUME NEW n \in fits, client' = [client EXCEPT !.pc = "download", !.name = n], UNCHANGED by_release, Keep
      PROVE  BuildInv'
  <2> DEFINE c == [client EXCEPT !.pc = "download", !.name = n]
  <2>1. client' = c
    BY <1>4
  <2>2. /\ c.pc = "download" /\ c.name = n /\ c.tag = client.tag /\ c.got = client.got
        /\ c.calm = client.calm /\ DOMAIN c = DOMAIN client
    BY ClientFields
  <2> HIDE DEF c
  <2>3. ASSUME client.calm, apart = {} PROVE WalkSound(c)
    <3>1. CASE sums[client.tag] # NoSums
      BY <2>2, <3>1 DEF WalkSound
    <3>2. CASE sums[client.tag] = NoSums
      <4>1. PICK g \in client.got : n = g[1]
        OBVIOUS
      <4>2. PICK p \in Present : p.dir = client.tag /\ g = <<p.name, disk[p]>>
        BY <1>2, <2>3, <3>2 DEF Given
      <4>3. Slot(p) = <<c.tag, c.name>> /\ <<c.name, disk[p]>> \in c.got
        BY <2>2, <4>1, <4>2 DEF Slot
      <4> QED BY <2>2, <4>3 DEF WalkSound
    <3> QED BY <3>1, <3>2
  <2>4. Hands(c) \subseteq Known
    BY <2>2 DEF Hands
  <2> QED BY <1>1, <1>4, <2>1, <2>2, <2>3, <2>4, WalkGoes
<1> QED BY <1>3, <1>4 DEF choose

\* What is indexed is offered.
LEMMA IndexedOffered ==
    ASSUME BuildInv, client.calm, apart = {}, NEW p \in Present, NEW t, NEW n, Slot(p) = <<t, n>>
    PROVE  Offered(t, n)
<1>1. PICK e \in by_release : e.of = p
  BY CalmIndex
<1>2. e.of.dir = t
  BY <1>1 DEF Slot
<1>3. get_file(t, n) # {} /\ get_files_for_release(t) # {}
  BY <1>1, <1>2 DEF get_file, get_files_for_release
<1> QED BY <1>3 DEF Offered, node_download, python_download, _resolve

LEMMA DownloadStep == ASSUME BuildInv, download PROVE BuildInv'
<1> DEFINE found == {p \in Archives : ~p.aside /\ Slot(p) = <<client.tag, client.name>> /\ disk[p] # 0}
<1>1. boot.pc = "up" /\ client.pc = "download"
  BY DEF download, Walking
<1>2. client.calm /\ apart = {} =>
         \/ sums[client.tag] # NoSums \/ (client.got = {} /\ Odd)
         \/ \E p \in Present : Slot(p) = <<client.tag, client.name>>
                               /\ (client.got = {} \/ <<client.name, disk[p]>> \in client.got)
  BY <1>1, CalmIndex DEF WalkSound
<1>3. CASE ~Offered(client.tag, client.name) \/ found = {}
  <2>1. ClientGoes("missing")
    BY <1>3 DEF download
  <2>2. ASSUME client.calm, apart = {}, NEW p \in Present, Slot(p) = <<client.tag, client.name>> PROVE FALSE
    <3>1. p \in found
      BY <2>2 DEF Present
    <3>2. Offered(client.tag, client.name)
      BY <2>2, IndexedOffered
    <3> QED BY <1>3, <3>1, <3>2
  <2> QED BY <1>1, <1>2, <2>1, <2>2, EndStep
<1>4. ASSUME NEW p \in found,
             ClientGoes(IF client.got = {} THEN "fetched"
                        ELSE IF <<client.name, disk[p]>> \in client.got THEN "verified" ELSE "mismatch")
      PROVE  BuildInv'
  <2>1. CASE client.got = {}
    BY <1>1, <1>4, <2>1, EndStep
  <2>2. CASE client.got # {} /\ <<client.name, disk[p]>> \in client.got
    BY <1>1, <1>4, <2>2, EndStep
  <2>3. CASE client.got # {} /\ <<client.name, disk[p]>> \notin client.got
    <3>1. ClientGoes("mismatch")
      BY <1>4, <2>3
    <3>2. client.calm /\ apart = {} => sums[client.tag] # NoSums
      <4>1. SUFFICES ASSUME client.calm, apart = {}, NEW q \in Present, Slot(q) = <<client.tag, client.name>>,
                            <<client.name, disk[q]>> \in client.got
                     PROVE  FALSE
        BY <1>2, <2>3
      <4>2. p = q
        <5>1. p \in Archives /\ q \in Archives /\ ~p.aside /\ ~q.aside /\ p.dir = q.dir /\ p.name = q.name
          BY <4>1 DEF Present, Slot
        <5> QED BY <5>1
      <4> QED BY <2>3, <4>1, <4>2
    <3> QED BY <1>1, <3>1, <3>2, EndStep
  <2> QED BY <2>1, <2>2, <2>3
<1> QED BY <1>3, <1>4 DEF download

\* The digest is that of the bytes the entry was made for, or of no bytes the entry
\* can be taken for.
LEMMA DigestFound ==
    ASSUME BuildInv, NEW e \in client.left, get_sha256(e)
    PROVE  LET d == IF e.digest # NoDigest THEN e.digest ELSE disk[e.of] IN
           /\ boot.pc = "up" /\ client.pc = "hash" /\ RecordSound(e) /\ e \in Known /\ d \in Nat
           /\ ~e.of.aside /\ e.size = disk[e.of] => d = disk[e.of]
           /\ client.calm /\ apart = {} => e.of \in Present /\ e.of.dir = client.tag /\ d = disk[e.of] /\ d # 0
<1> DEFINE d == IF e.digest # NoDigest THEN e.digest ELSE disk[e.of]
<1>1. boot.pc = "up" /\ client.pc = "hash"
  BY DEF get_sha256, Walking
<1>2. e \in Known
  BY <1>1 DEF Known, Hands
<1>3. RecordSound(e)
  BY <1>2 DEF BuildInv, Generations
<1>4. e \in Entries /\ e.of \in Archives /\ e.digest \in Nat /\ disk[e.of] \in Nat
  BY <1>3 DEF RecordSound, Entries, BuildInv, BuildTyped
<1>5. ~e.of.aside /\ e.size = disk[e.of] => d = disk[e.of]
  BY <1>3 DEF RecordSound
<1>6. ASSUME client.calm, apart = {} PROVE e.of \in Present /\ e.of.dir = client.tag /\ d = disk[e.of] /\ d # 0
  <2>1. e.of \in Present /\ e.of.dir = client.tag /\ e.size = disk[e.of]
    BY <1>1, <1>6, CalmIndex DEF WalkSound
  <2> QED BY <1>5, <2>1 DEF Present
<1> QED BY <1>1, <1>2, <1>3, <1>4, <1>5, <1>6

LEMMA DigestStep == ASSUME BuildInv, NEW e \in client.left, get_sha256(e) PROVE BuildInv'
<1> DEFINE d == IF e.digest # NoDigest THEN e.digest ELSE disk[e.of]
           upd(x) == IF x.of = e.of /\ x.gen = e.gen THEN [x EXCEPT !.digest = d] ELSE x
           c == [client EXCEPT !.left = @ \ {e}, !.got = @ \cup {<<e.of.name, d>>},
                               !.pc = IF client.left = {e} THEN "choose" ELSE "hash"]
<1>1. /\ boot.pc = "up" /\ client.pc = "hash" /\ RecordSound(e) /\ e \in Known /\ d \in Nat
      /\ ~e.of.aside /\ e.size = disk[e.of] => d = disk[e.of]
      /\ client.calm /\ apart = {} => e.of \in Present /\ e.of.dir = client.tag /\ d = disk[e.of] /\ d # 0
  BY DigestFound
<1>2. CASE d = 0
  <2>1. ClientGoes("error")
    BY <1>2 DEF get_sha256
  <2> QED BY <1>1, <1>2, <2>1, GoStep
<1>3. CASE d # 0
  <2>1. client' = c /\ by_release' = {upd(x) : x \in by_release} /\ Keep
    BY <1>3 DEF get_sha256
  <2>2. /\ c.left = client.left \ {e} /\ c.got = client.got \cup {<<e.of.name, d>>}
        /\ c.pc = (IF client.left = {e} THEN "choose" ELSE "hash")
        /\ c.tag = client.tag /\ c.walk = client.walk /\ c.token = client.token
        /\ c.calm = client.calm /\ DOMAIN c = DOMAIN client
    BY ClientFields
  <2> HIDE DEF c
  <2>3. \A x \in Known : RecordSound(x) /\ x \in Entries
    BY DEF BuildInv, Generations, RecordSound
  <2>4. ASSUME NEW x \in by_release
        PROVE  /\ upd(x) \in Entries /\ upd(x).of = x.of /\ upd(x).size = x.size /\ upd(x).gen = x.gen
               /\ upd(x).digest = x.digest \/ (upd(x).digest = d /\ x.of = e.of /\ x.gen = e.gen)
    <3>1. x \in Entries
      BY <2>3 DEF Known
    <3>2. /\ x.of \in Archives /\ x.size \in Nat /\ x.gen \in Nat
          /\ x = [of |-> x.of, size |-> x.size, digest |-> x.digest, gen |-> x.gen]
      BY <3>1 DEF Entries
    <3>3. [x EXCEPT !.digest = d] = [of |-> x.of, size |-> x.size, digest |-> d, gen |-> x.gen]
      BY <3>2
    <3>4. [of |-> x.of, size |-> x.size, digest |-> d, gen |-> x.gen] \in Entries
      BY <1>1, <3>2 DEF Entries
    <3>5. CASE x.of = e.of /\ x.gen = e.gen
      <4>1. upd(x) = [of |-> x.of, size |-> x.size, digest |-> d, gen |-> x.gen]
        BY <3>3, <3>5
      <4> HIDE DEF upd, d
      <4> QED BY <3>4, <3>5, <4>1
    <3>6. CASE ~(x.of = e.of /\ x.gen = e.gen)
      <4>1. upd(x) = x
        BY <3>6
      <4> HIDE DEF upd, d
      <4> QED BY <3>1, <4>1
    <3> QED BY <3>5, <3>6
  <2>5. \A x \in by_release : upd(x) \in by_release'
    BY <2>1
  <2>6. \A y \in by_release' : \E x \in by_release : y = upd(x)
    BY <2>1
  <2> HIDE DEF upd, d
  <2>7. UNCHANGED <<serves, root, disk, sums, overlay, apart, meta, boot, events, watcher, writes, walks>>
    BY <2>1 DEF Keep
  <2>8. BuildTyped'
    BY <2>1, <2>2, <2>7 DEF BuildInv, BuildTyped
  <2>9. Apart'
    <3>1. \A y \in by_release' : y.of.aside => y.of.dir \in apart
      BY <2>4, <2>6 DEF BuildInv, Apart
    <3> QED BY <2>7, <3>1 DEF BuildInv, Apart
  <2>10. Generations'
    <3>1. ASSUME NEW x \in by_release, NEW y, y = upd(x) PROVE RecordSound(y)'
      <4>1. RecordSound(x) /\ x \in Known
        BY <2>3 DEF Known
      <4>2. y \in Entries /\ y.of = x.of /\ y.size = x.size /\ y.gen = x.gen
        BY <2>4, <3>1
      <4>3. ~x.of.aside /\ x.size = disk[x.of] => y.digest \in {NoDigest, disk[x.of]}
        <5>1. CASE y.digest = x.digest
          BY <4>1, <5>1 DEF RecordSound
        <5>2. CASE y.digest = d /\ x.of = e.of /\ x.gen = e.gen
          <6>1. x.size = e.size
            BY <1>1, <4>1, <5>2 DEF BuildInv, Generations
          <6> QED BY <1>1, <5>2, <6>1
        <5> QED BY <2>4, <3>1, <5>1, <5>2
      <4> QED BY <2>7, <4>1, <4>2, <4>3 DEF RecordSound
    <3>2. Hands(client') \subseteq Known
      BY <1>1, <2>1, <2>2 DEF Known, Hands
    <3>3. \A y \in Known' : \/ y \in Known
                            \/ \E x \in by_release : y = upd(x)
      BY <2>6, <3>2 DEF Known
    <3>4. \A y \in Known' : RecordSound(y)'
      <4>1. TAKE y \in Known'
      <4>2. CASE y \in Known
        BY <2>3, <2>7, <4>2 DEF RecordSound
      <4>3. ASSUME NEW x \in by_release, y = upd(x) PROVE RecordSound(y)'
        BY <3>1, <4>3
      <4> QED BY <3>3, <4>2, <4>3
    <3>5. \A y \in Known' : \E x \in Known : y.of = x.of /\ y.gen = x.gen /\ y.size = x.size
      BY <2>4, <3>3 DEF Known
    <3>6. \A y, z \in Known' : y.of = z.of /\ y.gen = z.gen => y.size = z.size
      BY <3>5 DEF BuildInv, Generations
    <3>7. \A y, z \in by_release' : Slot(y.of) = Slot(z.of) => y = z
      <4>1. TAKE y, z \in by_release'
      <4>2. HAVE Slot(y.of) = Slot(z.of)
      <4>3. PICK a \in by_release : y = upd(a)
        BY <2>6
      <4>4. PICK b \in by_release : z = upd(b)
        BY <2>6
      <4>5. Slot(a.of) = Slot(b.of)
        BY <2>4, <4>2, <4>3, <4>4
      <4>6. a = b
        BY <4>5 DEF BuildInv, Generations
      <4> QED BY <4>3, <4>4, <4>6
    <3> QED BY <3>4, <3>6, <3>7 DEF Generations
  <2>11. Scanning'
    BY <1>1, <2>7 DEF Scanning
  <2>12. Settling'
    <3>1. ASSUME NEW p \in Archives, Indexed(p) PROVE Indexed(p)'
      <4>1. Present' = Present
        BY <2>7 DEF Present
      <4>2. (\E y \in by_release' : y.of = p) <=> (\E x \in by_release : x.of = p)
        BY <2>4, <2>5, <2>6
      <4>3. \A y \in by_release' : y.of = p => y.size = disk[p]
        BY <2>4, <2>6, <3>1 DEF Indexed
      <4> QED BY <2>7, <3>1, <4>1, <4>2, <4>3 DEF Indexed
    <3> QED BY <2>7, <3>1 DEF BuildInv, Settling, Watched
  <2>13. Walked'
    <3>1. client'.calm = client.calm /\ Quiet' = Quiet
      BY <2>1, <2>2, <2>7 DEF Quiet
    <3>2. ASSUME client.calm, apart = {} PROVE WalkSound(c)
      <4> DEFINE g == <<e.of.name, d>>
      <4>1. /\ \A x \in client.left : x.of \in Present /\ x.of.dir = c.tag /\ x.size = disk[x.of]
            /\ \A h \in client.got : Given(client, h)
            /\ client.walk = "nvm" => \E p \in Present : Fits(client, p)
                  /\ ((\E x \in client.left : x.of = p) \/ <<p.name, disk[p]>> \in client.got)
        BY <1>1, <2>2, <3>2, CalmIndex DEF WalkSound
      <4>2. e.of \in Present /\ e.of.dir = c.tag /\ d = disk[e.of]
        BY <1>1, <2>2, <3>2
      <4>3. c.got # {} /\ \A h \in c.got : Given(c, h)
        <5>1. Given(c, g)
          BY <4>2 DEF Given
        <5>2. \A h \in client.got : Given(c, h)
          BY <2>2, <4>1 DEF Given
        <5> QED BY <2>2, <5>1, <5>2
      <4>4. ASSUME c.walk = "nvm"
            PROVE  \E p \in Present : Fits(c, p) /\ ((\E x \in c.left : x.of = p) \/ <<p.name, disk[p]>> \in c.got)
        <5>1. PICK p \in Present : Fits(client, p)
                  /\ ((\E x \in client.left : x.of = p) \/ <<p.name, disk[p]>> \in client.got)
          BY <2>2, <4>1, <4>4
        <5>2. Fits(c, p)
          BY <2>2, <5>1 DEF Fits
        <5>3. CASE e.of = p
          <6>1. <<p.name, disk[p]>> = <<e.of.name, d>>
            BY <4>2, <5>3
          <6> QED BY <2>2, <5>2, <6>1
        <5>4. CASE e.of # p
          BY <2>2, <5>1, <5>2, <5>4
        <5> QED BY <5>3, <5>4
      <4>5. CASE client.left = {e}
        <5>1. c.pc = "choose" /\ c.left = {}
          BY <2>2, <4>5
        <5> QED BY <4>3, <4>4, <5>1 DEF WalkSound
      <4>6. CASE client.left # {e}
        <5>1. c.pc = "hash" /\ c.left # {} /\ \A x \in c.left : x \in client.left
          BY <2>2, <4>6
        <5> QED BY <4>1, <4>3, <4>4, <5>1 DEF WalkSound
      <4> QED BY <4>5, <4>6
    <3>3. c.pc # "counted"
      BY <2>2
    <3>4. \A a : a.pc # "counted" /\ WalkSound(a) => WalkSound(a)'
      BY <2>7 DEF WalkSound, Odd, Given, Present
    <3>5. client.calm \in BOOLEAN /\ (client.calm => Quiet)
      BY DEF BuildInv, Walked
    <3>6. client.calm /\ apart = {} => WalkSound(client)'
      BY <2>1, <3>2, <3>3, <3>4
    <3> QED BY <2>1, <2>7, <3>1, <3>5, <3>6 DEF Walked
  <2> QED BY <2>8, <2>9, <2>10, <2>11, <2>12, <2>13 DEF BuildInv
<1> QED BY <1>2, <1>3

\* The console's catalog.
LEMMA CatalogStep == ASSUME BuildInv, catalog PROVE BuildInv'
<1> DEFINE c == [client EXCEPT !.pc = "files", !.left = get_releases]
<1>1. boot.pc = "up" /\ client.pc = "catalog" /\ client' = c /\ UNCHANGED by_release /\ Keep
  BY DEF catalog, Walking
<1>2. /\ c.pc = "files" /\ c.walk = client.walk /\ c.got = client.got /\ c.held = client.held
      /\ c.calm = client.calm /\ DOMAIN c = DOMAIN client
  BY ClientFields
<1> HIDE DEF c
<1>3. ASSUME client.calm, apart = {} PROVE WalkSound(c)
  <2>1. client.walk = "catalog" /\ client.got = {} /\ client.held = {}
    BY <1>1, <1>3, CalmIndex DEF WalkSound
  <2> QED BY <1>2, <2>1 DEF WalkSound
<1>4. Hands(c) \subseteq Known
  BY <1>2 DEF Hands
<1> QED BY <1>1, <1>2, <1>3, <1>4, WalkGoes

LEMMA PayloadStep == ASSUME BuildInv, NEW t \in client.left, _payload(t) PROVE BuildInv'
<1> DEFINE c == [client EXCEPT !.left = @ \ {t}, !.held = @ \cup get_files_for_release(t)]
<1>1. boot.pc = "up" /\ client.pc = "files" /\ client' = c /\ UNCHANGED by_release /\ Keep
  BY DEF _payload, Walking
<1>2. /\ c.pc = "files" /\ c.walk = client.walk /\ c.got = client.got
      /\ c.held = client.held \cup get_files_for_release(t)
      /\ c.calm = client.calm /\ DOMAIN c = DOMAIN client
  BY <1>1, ClientFields
<1> HIDE DEF c
<1>3. ASSUME client.calm, apart = {} PROVE WalkSound(c)
  <2>1. client.walk = "catalog" /\ client.got = {} /\ \A e \in client.held : e.of \in Present
    BY <1>1, <1>3, CalmIndex DEF WalkSound
  <2>2. \A e \in get_files_for_release(t) : e.of \in Present
    BY <1>3, CalmIndex DEF get_files_for_release
  <2> QED BY <1>2, <2>1, <2>2 DEF WalkSound
<1>4. Hands(c) \subseteq Known
  BY <1>2 DEF Hands
<1> QED BY <1>1, <1>2, <1>3, <1>4, WalkGoes

\* A link leads to the archive it was written for, unless its name says another release.
LEMMA LinkLeads ==
    ASSUME BuildInv, NEW p \in Present, NEW t, NEW n, t = release_tag(p), n = p.name
    PROVE  Odd \/ Slot(p) = <<t, n>>
<1>1. CASE t = p.dir
  BY <1>1 DEF Slot
<1>2. CASE t # p.dir
  <2>1. t = p.tag
    BY <1>2 DEF release_tag, _entry, _build_entry
  <2> QED BY <1>2, <2>1 DEF Odd, Present
<1> QED BY <1>1, <1>2

LEMMA LinkStep == ASSUME BuildInv, _file_urls PROVE BuildInv'
<1>1. boot.pc = "up" /\ client.pc = "files"
  BY DEF _file_urls, Walking
<1>2. CASE client.held = {}
  BY <1>1, <1>2, EndStep DEF _file_urls
<1>3. ASSUME NEW e \in client.held, UNCHANGED by_release, Keep,
             client' = [client EXCEPT !.pc = "sha256", !.tag = release_tag(e.of), !.name = e.of.name]
      PROVE  BuildInv'
  <2> DEFINE c == [client EXCEPT !.pc = "sha256", !.tag = release_tag(e.of), !.name = e.of.name]
  <2>1. client' = c
    BY <1>3
  <2>2. /\ c.pc = "sha256" /\ c.tag = release_tag(e.of) /\ c.name = e.of.name /\ c.walk = client.walk
        /\ c.got = client.got /\ c.calm = client.calm /\ DOMAIN c = DOMAIN client
    BY ClientFields
  <2> HIDE DEF c
  <2>3. ASSUME client.calm, apart = {} PROVE WalkSound(c)
    <3>1. client.walk = "catalog" /\ client.got = {} /\ e.of \in Present
      BY <1>1, <2>3, CalmIndex DEF WalkSound
    <3>2. Odd \/ Slot(e.of) = <<c.tag, c.name>>
      BY <2>2, <3>1, LinkLeads
    <3> QED BY <2>2, <3>1, <3>2 DEF WalkSound
  <2>4. Hands(c) \subseteq Known
    BY <2>2 DEF Hands
  <2> QED BY <1>1, <1>3, <2>1, <2>2, <2>3, <2>4, WalkGoes
<1> QED BY <1>2, <1>3 DEF _file_urls

LEMMA ChecksumStep == ASSUME BuildInv, sha256 PROVE BuildInv'
<1>1. boot.pc = "up" /\ client.pc = "sha256"
  BY DEF sha256, Walking
<1>2. ASSUME client.calm, apart = {}
      PROVE  /\ client.walk = "catalog" /\ client.got = {}
             /\ Odd \/ \E p \in Present : Slot(p) = <<client.tag, client.name>>
  BY <1>1, <1>2, CalmIndex DEF WalkSound
<1>3. CASE ~Offered(client.tag, client.name)
  <2>1. ClientGoes("missing")
    BY <1>3 DEF sha256
  <2>2. client.calm /\ apart = {} => Odd
    BY <1>2, <1>3, IndexedOffered
  <2> QED BY <1>1, <2>1, <2>2, EndStep
<1>4. CASE Offered(client.tag, client.name)
  <2> DEFINE f == get_file(client.tag, client.name)
             c == [client EXCEPT !.pc = "hash", !.left = f]
  <2>1. client' = c /\ UNCHANGED by_release /\ Keep
    BY <1>4 DEF sha256
  <2>2. /\ c.pc = "hash" /\ c.left = f /\ c.tag = client.tag /\ c.walk = client.walk
        /\ c.got = client.got /\ c.calm = client.calm /\ DOMAIN c = DOMAIN client
    BY ClientFields
  <2>3. f # {} /\ f \subseteq by_release /\ \A e \in f : e.of.dir = client.tag
    BY <1>4 DEF get_file, Offered, node_download, python_download, Slot
  <2> HIDE DEF c, f
  <2>4. ASSUME client.calm, apart = {} PROVE WalkSound(c)
    <3>1. \A e \in c.left : e.of \in Present /\ e.of.dir = c.tag /\ e.size = disk[e.of]
      BY <2>2, <2>3, <2>4, CalmIndex
    <3>2. c.walk # "nvm" /\ c.got = {} /\ c.left # {}
      BY <1>2, <2>2, <2>3, <2>4
    <3> QED BY <2>2, <3>1, <3>2 DEF WalkSound
  <2>5. Hands(c) \subseteq Known
    BY <2>2, <2>3 DEF Hands, Known
  <2> QED BY <1>1, <2>1, <2>2, <2>4, <2>5, WalkGoes
<1> QED BY <1>3, <1>4

\* The HTML pages.
LEMMA DiscoveryStep == ASSUME BuildInv, discovery PROVE BuildInv'
<1> DEFINE c == [client EXCEPT !.pc = "counted", !.held = by_release]
<1>1. boot.pc = "up" /\ client.pc = "page" /\ client' = c /\ UNCHANGED by_release /\ Keep
  BY DEF discovery, Walking
<1>2. /\ c.pc = "counted" /\ c.held = by_release /\ c.got = client.got
      /\ c.calm = client.calm /\ DOMAIN c = DOMAIN client
  BY ClientFields
<1> HIDE DEF c
<1>3. ASSUME client.calm, apart = {} PROVE WalkSound(c)
  <2>1. client.got = {}
    BY <1>1, <1>3, CalmIndex DEF WalkSound
  <2> QED BY <1>2, <2>1 DEF WalkSound
<1>4. Hands(c) \subseteq Known
  BY <1>2 DEF Hands
<1> QED BY <1>1, <1>2, <1>3, <1>4, WalkGoes

LEMMA CountedStep == ASSUME BuildInv, discovery_counted PROVE BuildInv'
<1>1. boot.pc = "up" /\ client.pc = "counted"
  BY DEF discovery_counted, Walking
<1>2. CASE client.held = {}
  BY <1>1, <1>2, EndStep DEF discovery_counted
<1>3. ASSUME NEW e \in client.held, UNCHANGED by_release, Keep,
             client' = [client EXCEPT !.pc = "release", !.count = stats, !.tag = e.of.dir]
      PROVE  BuildInv'
  <2> DEFINE c == [client EXCEPT !.pc = "release", !.count = stats, !.tag = e.of.dir]
  <2>1. client' = c
    BY <1>3
  <2>2. /\ c.pc = "release" /\ c.count = stats /\ c.tag = e.of.dir /\ c.held = client.held
        /\ c.got = client.got /\ c.calm = client.calm /\ DOMAIN c = DOMAIN client
    BY ClientFields
  <2> HIDE DEF c
  <2>3. ASSUME client.calm, apart = {} PROVE WalkSound(c)
    <3>1. client.held = by_release /\ client.got = {}
      BY <1>1, <2>3, CalmIndex DEF WalkSound
    <3>2. e.of \in Present
      BY <2>3, <3>1, CalmIndex
    <3>3. c.count = Cardinality(c.held)
      BY <2>2, <3>1 DEF stats
    <3> QED BY <2>2, <3>1, <3>2, <3>3 DEF WalkSound
  <2>4. Hands(c) \subseteq Known
    BY <2>2 DEF Hands
  <2> QED BY <1>1, <1>3, <2>1, <2>2, <2>3, <2>4, WalkGoes
<1> QED BY <1>2, <1>3 DEF discovery_counted

LEMMA PageStep == ASSUME BuildInv, release_page PROVE BuildInv'
<1> DEFINE files == get_files_for_release(client.tag)
<1>1. boot.pc = "up" /\ client.pc = "release"
  BY DEF release_page, Walking
<1>2. ASSUME client.calm, apart = {} PROVE client.got = {} /\ \E p \in Present : p.dir = client.tag
  BY <1>1, <1>2, CalmIndex DEF WalkSound
<1>3. CASE files = {}
  <2>1. ClientGoes("missing")
    BY <1>3 DEF release_page
  <2>2. ASSUME client.calm, apart = {} PROVE FALSE
    <3>1. PICK p \in Present : p.dir = client.tag
      BY <1>2, <2>2
    <3>2. PICK e \in by_release : e.of = p
      BY <2>2, CalmIndex
    <3> QED BY <1>3, <3>1, <3>2 DEF get_files_for_release
  <2> QED BY <1>1, <2>1, <2>2, EndStep
<1>4. ASSUME NEW e \in files, UNCHANGED by_release, Keep,
             client' = [client EXCEPT !.pc = "download", !.tag = release_tag(e.of), !.name = e.of.name]
      PROVE  BuildInv'
  <2> DEFINE c == [client EXCEPT !.pc = "download", !.tag = release_tag(e.of), !.name = e.of.name]
  <2>1. client' = c
    BY <1>4
  <2>2. /\ c.pc = "download" /\ c.tag = release_tag(e.of) /\ c.name = e.of.name
        /\ c.got = client.got /\ c.calm = client.calm /\ DOMAIN c = DOMAIN client
    BY ClientFields
  <2> HIDE DEF c
  <2>3. ASSUME client.calm, apart = {} PROVE WalkSound(c)
    <3>1. e.of \in Present
      BY <2>3, CalmIndex DEF get_files_for_release
    <3>2. Odd \/ Slot(e.of) = <<c.tag, c.name>>
      BY <2>2, <3>1, LinkLeads
    <3>3. c.got = {}
      BY <1>2, <2>2, <2>3
    <3> QED BY <2>2, <3>1, <3>2, <3>3 DEF WalkSound
  <2>4. Hands(c) \subseteq Known
    BY <2>2 DEF Hands
  <2> QED BY <1>1, <1>4, <2>1, <2>2, <2>3, <2>4, WalkGoes
<1> QED BY <1>3, <1>4 DEF release_page

-----------------------------------------------------------------------------
(* The invariant, and what it says.                                        *)

LEMMA WalkSteps == ASSUME BuildInv, Walk PROVE BuildInv'
<1>1. ASSUME NEW w \in Walks, Ask(w) PROVE BuildInv'
  BY <1>1, AskStep
<1>2. ASSUME NEW e \in client.left, get_sha256(e) PROVE BuildInv'
  BY <1>2, DigestStep
<1>3. ASSUME NEW t \in client.left, _payload(t) PROVE BuildInv'
  BY <1>3, PayloadStep
<1>4. CASE index_json \/ latest \/ shasums \/ choose \/ download
  BY <1>4, ListingStep, LatestStep, SumsStep, ChooseStep, DownloadStep
<1>5. CASE catalog \/ _file_urls \/ sha256 \/ discovery \/ discovery_counted \/ release_page
  BY <1>5, CatalogStep, LinkStep, ChecksumStep, DiscoveryStep, CountedStep, PageStep
<1> QED BY <1>1, <1>2, <1>3, <1>4, <1>5 DEF Walk

LEMMA BuildStart == BuildInit => BuildInv
<1> SUFFICES ASSUME BuildInit PROVE BuildInv
  OBVIOUS
<1>1. /\ disk = [p \in Archives |-> 0] /\ writes = 0 /\ apart = {} /\ by_release = {} /\ events = <<>>
      /\ boot = [pc |-> "scan", todo |-> {}, read |-> {}] /\ watcher = [pc |-> "off", of |-> NoTag, gen |-> 0]
      /\ client = NoClient /\ serves \in {"python", "node"} /\ root \in BOOLEAN
  BY DEF BuildInit
<1>2. client.pc = "idle" /\ ~client.calm /\ client.calm = FALSE
  BY <1>1 DEF NoClient
<1>3. BuildTyped /\ Apart
  BY <1>1 DEF BuildTyped, Apart
<1>4. Known = {}
  BY <1>1, <1>2 DEF Known, Hands
<1>5. Generations
  BY <1>1, <1>4 DEF Generations
<1>6. Scanning /\ Settling /\ Walked
  BY <1>1, <1>2 DEF Scanning, Settling, Watched, Walked
<1> QED BY <1>3, <1>5, <1>6 DEF BuildInv

LEMMA BuildStep == ASSUME BuildInv, ~SyncsAtBoot, [BuildNext]_buildVars PROVE BuildInv'
<1>1. CASE BuildNext
  <2>1. Watch => BuildInv'
    BY CheckStep, StatStep, RemoveStep DEF Watch
  <2>2. Boot => BuildInv'
    BY BootSteps DEF Boot
  <2> QED BY <1>1, <2>1, <2>2, SyncSteps, WalkSteps DEF BuildNext
<1>2. CASE UNCHANGED buildVars
  <2>1. UNCHANGED <<serves, root, disk, sums, apart, by_release, boot, events, watcher, client, writes>>
    BY <1>2 DEF buildVars
  <2>2. BuildTyped' /\ Apart' /\ Scanning'
    BY <2>1 DEF BuildInv, BuildTyped, Apart, Scanning, Present, Entry
  <2>3. Known' = Known
    BY <2>1 DEF Known, Hands
  <2>4. \A e : RecordSound(e) => RecordSound(e)'
    BY <2>1 DEF RecordSound
  <2>5. Generations'
    BY <2>1, <2>3, <2>4 DEF BuildInv, Generations
  <2>6. Settling'
    BY <2>1 DEF BuildInv, Settling, Watched, Indexed, Present
  <2>7. WalkSound(client) => WalkSound(client)'
    BY <2>1 DEF WalkSound, Odd, Given, Present
  <2>8. Walked'
    BY <2>1, <2>7 DEF BuildInv, Walked, Quiet
  <2> QED BY <2>2, <2>5, <2>6, <2>8 DEF BuildInv
<1> QED BY <1>1, <1>2

LEMMA BuildsKept == BuildInv => BuildsTrue
<1> SUFFICES ASSUME BuildInv PROVE BuildsTrue
  OBVIOUS
<1>1. InStep
  <2> DEFINE kept == {e \in by_release : e.of.dir \notin apart}
             there == {p \in Archives : ~p.aside /\ p.ok /\ disk[p] # 0 /\ p.dir \notin apart}
  <2>1. SUFFICES ASSUME Quiet, root
                 PROVE  /\ {e.of : e \in kept} = there /\ Cardinality(kept) = Cardinality(there)
                        /\ \A e \in kept : e.size = disk[e.of] /\ e.digest \in {NoDigest, disk[e.of]}
    BY DEF InStep
  <2>2. watcher.pc = "idle" /\ events = <<>> /\ Watched
    BY <2>1 DEF Quiet, Watched
  <2>3. ASSUME NEW p \in Archives, ~p.aside, p.dir \notin apart PROVE Indexed(p)
    <3>1. ~Pending(events, p)
      BY <2>2 DEF Pending
    <3> QED BY <2>2, <2>3, <3>1, WatcherFacts
  <2>4. ASSUME NEW e \in kept
        PROVE  e.of \in there /\ e.size = disk[e.of] /\ e.digest \in {NoDigest, disk[e.of]}
    <3>1. RecordSound(e)
      BY DEF BuildInv, Generations, Known
    <3>2. e.of \in Archives /\ ~e.of.aside
      BY <3>1 DEF RecordSound, Entries, BuildInv, Apart
    <3>3. Indexed(e.of)
      BY <2>3, <3>2
    <3>4. e.of \in Present /\ e.size = disk[e.of]
      BY <3>3 DEF Indexed
    <3> QED BY <3>1, <3>2, <3>4 DEF RecordSound, Present
  <2>5. ASSUME NEW p \in there PROVE \E e \in kept : e.of = p
    BY <2>3 DEF Indexed, Present
  <2>6. \A e, x \in kept : e.of = x.of => e = x
    BY DEF BuildInv, Generations
  <2> HIDE DEF kept, there
  <2>7. Cardinality(kept) = Cardinality(there)
    <3> DEFINE f == [p \in there |-> CHOOSE e \in kept : e.of = p]
    <3>1. \A p \in there : f[p] \in kept /\ f[p].of = p
      BY <2>5
    <3>2. f \in [there -> kept]
      BY <3>1
    <3>3. \A e \in kept : \E p \in there : f[p] = e
      BY <2>4, <2>6, <3>1
    <3> HIDE DEF f
    <3>4. f \in Bijection(there, kept)
      <4>1. \A p, q \in there : f[p] = f[q] => p = q
        BY <3>1
      <4>2. f \in Injection(there, kept)
        BY <3>2, <4>1 DEF Injection, IsInjective
      <4>3. f \in Surjection(there, kept)
        BY <3>2, <3>3 DEF Surjection
      <4> QED BY <4>2, <4>3 DEF Bijection
    <3>5. ExistsBijection(there, kept)
      BY <3>4 DEF ExistsBijection
    <3>6. there \in SUBSET Archives
      BY DEF there
    <3>7. IsFiniteSet(there)
      BY <3>6, FS_Subset
    <3> QED BY <3>5, <3>7, FS_Bijection
  <2> QED BY <2>4, <2>5, <2>7
<1>2. WalkServed
  <2>1. SUFFICES ASSUME client.calm, root, apart = {}
                 PROVE  /\ client.pc = "missing" =>
                             \/ client.walk = "latest" /\ client.tag = NoTag
                             \/ sums[client.tag] # NoSums
                             \/ \E p \in Archives : p.tag # p.dir /\ disk[p] # 0
                        /\ client.pc = "mismatch" => sums[client.tag] # NoSums
                        /\ client.pc # "error"
                        /\ client.pc = "release" => client.count = Cardinality(client.held)
    BY DEF WalkServed
  <2>2. WalkSound(client)
    BY <2>1, CalmIndex
  <2> QED BY <2>2 DEF WalkSound, Odd
<1> QED BY <1>1, <1>2 DEF BuildsTrue

\* Where no sync runs while the process starts, whatever is synced later and in
\* whatever order the watcher's events and the requests fall: an index at rest is the
\* directory (index/base.py), and a client that met no change gets what the
\* documents pointed it to (routes/python_build.py, routes/node_build.py).
THEOREM BuildsHold == ~SyncsAtBoot => (BuildSpec => []BuildsTrue)
<1> SUFFICES ASSUME ~SyncsAtBoot PROVE BuildSpec => []BuildsTrue
  OBVIOUS
<1>1. BuildInv /\ [BuildNext]_buildVars => BuildInv'
  BY BuildStep
<1> QED BY BuildStart, <1>1, BuildsKept, PTL DEF BuildSpec
=============================================================================
