-------------------------- MODULE SchemaMigration --------------------------
(***************************************************************************)
(* The schema of evaluation_metrics and evaluation_runs on a volume of any *)
(* age, and the two programs that bring it up to date: migrate_db.sh, one  *)
(* committed statement after another, and MetricsStore.ensure_schema, one  *)
(* transaction on every connect, whose store goes on without it when it    *)
(* failed.  Either may run, fail or be killed while the other is at work.  *)
(*                                                                         *)
(* The schema is a set of the things a statement creates or drops; columns *)
(* that the same program adds for the same reason are one thing.           *)
(***************************************************************************)
EXTENDS Naturals, Sequences, FiniteSets

CONSTANTS
    Volumes, \* the volumes to start from: what they have, and their rows
    Ids,     \* bound: the ids of rows
    Samples, \* the sample ids of the evaluation
    Run,     \* its RUN_ID
    None,    \* NULL
    Faults   \* what may go wrong in this instance

Columns == {"run_id", "sample_id", "labels"}
Indexes == {"sample index", "indexes"}
Current == {"vector", "metrics table", "runs table", "scores", "constraints", "grants"}
               \cup Columns \cup Indexes
Stale == {"rougel", "cell index"}
Rows == [id : Ids, run : {None, Run}, sample : {None} \cup Samples \cup Ids]

ASSUME ConstantsAssumption ==
    /\ Volumes \subseteq [schema : SUBSET (Current \cup Stale), rows : SUBSET Rows]
    /\ Ids \cap Samples = {}
    /\ None \notin Ids \cup Samples \cup {Run}
    /\ Faults \subseteq {"postgres", "kill", "upgrade"}

\* What a volume of any age has in common.  A constraint names a column or a table
\* that exists; the rows have a primary key; the unique index is made last, over
\* rows that it does not refuse, and in place of what it replaces.
ASSUME VolumesAssumption ==
    \A v \in Volumes :
        /\ "constraints" \in v.schema => {"scores", "runs table"} \subseteq v.schema
        /\ "sample index" \in v.schema =>
               /\ v.schema \cap Stale = {}
               /\ \A row \in v.rows : row.run # None => row.sample # None
        /\ \A row, other \in v.rows : row.id = other.id => row = other
        /\ \A row \in v.rows : row.sample \in Ids => row.sample = row.id
        /\ \A row, other \in v.rows :
               row.run # None /\ row.run = other.run /\ row.sample # None
                   /\ row.sample = other.sample => row = other

VARIABLES
    schema,    \* what the database has
    rows,      \* evaluation_metrics
    collation, \* does datcollversion name the image's collation?
    misplaced, \* are the indexes still in the order of another collation?
    script,    \* where migrate_db.sh is, or its exit code
    mode,      \* MODE
    next,      \* the next statement of MIGRATION
    app,       \* where the step that writes is
    runId,     \* its RUN_ID, or None
    sample,    \* the sample it writes
    ready,     \* MetricsStore._schema_ready
    wrote,     \* what became of its last write
    troubled,  \* ghost: Postgres failed this step
    blind      \* ghost: rows were written while the indexes were misplaced

database == <<schema, rows, collation, misplaced>>
scriptVars == <<script, mode, next>>
appVars == <<app, runId, sample, ready, wrote, troubled>>
vars == <<database, scriptVars, appVars, blind>>

Init ==
    /\ \E v \in Volumes : schema = v.schema /\ rows = v.rows
    /\ collation = "current"
    /\ misplaced = FALSE
    /\ script = "not run"
    /\ mode = "migrate"
    /\ next = 1
    /\ app = "idle"
    /\ runId = None
    /\ sample \in Samples
    /\ ready = FALSE
    /\ wrote = "nothing"
    /\ troubled = FALSE
    /\ blind = FALSE

PostgresFails == "postgres" \in Faults

\* The rows a unique index on (run_id, approach, sample_id) would refuse.
Duplicated ==
    \E r, s \in rows : r # s /\ r.run # None /\ r.sample # None
                             /\ r.run = s.run /\ r.sample = s.sample

\* Seeded fault: the run is taken for the sample.
BackfilledFromRun(row) ==
    IF row.run # None /\ row.sample = None THEN [row EXCEPT !.sample = row.run] ELSE row

\* UPDATE evaluation_metrics SET sample_id = id::text.
Backfilled(row) ==
    IF row.run # None /\ row.sample = None THEN [row EXCEPT !.sample = row.id] ELSE row
-----------------------------------------------------------------------------
\* migrate_db.sh

Statements ==
    <<"vector", "runs table", "run_id", "sample_id", "labels", "drop rougel",
      "backfill", "drop cell index", "sample index", "indexes", "constraints", "grants">>

\* What a statement needs that an earlier one does not provide.
Executable(stmt) ==
    /\ stmt = "sample index" => ~ Duplicated
    /\ stmt = "constraints" => "scores" \in schema

Migrated(stmt) ==
    CASE stmt = "drop rougel" -> schema \ {"rougel"}
      [] stmt = "drop cell index" -> schema \ {"cell index"}
      [] stmt = "backfill" -> schema
      [] OTHER -> schema \cup {stmt}

\* report_drift looks for names; a runs table shows in its constraints.
Missing == ~ (Columns \cup Indexes \cup {"constraints"} \subseteq schema)

Running == {"collation", "repairing", "table", "migrating", "report"}

\* The script goes on at `where`, or ends with that exit code.
Goto(where) == script' = where /\ next' = 1 /\ UNCHANGED mode

Launch ==
    /\ script \notin Running
    /\ script' = "collation"
    /\ mode' \in {"migrate", "check"}
    /\ next' = 1
    /\ UNCHANGED <<database, appVars, blind>>

CheckCollation ==
    /\ script = "collation"
    /\ Goto(CASE collation = "current" -> "table"
              [] mode = "check" -> "failed"
              [] OTHER -> "repairing")
    /\ UNCHANGED <<database, appVars, blind>>

\* Seeded fault: the version is refreshed before the indexes are rebuilt.
RefreshFirst == <<"refresh", "reindex">>

Repairs == <<"reindex", "refresh">>

Advance(list, where) ==
    IF next = Len(list) THEN Goto(where) ELSE next' = next + 1 /\ UNCHANGED <<script, mode>>

\* REINDEX DATABASE fails on rows its unique indexes refuse.
Repair ==
    /\ script = "repairing"
    /\ IF Repairs[next] = "reindex"
          THEN /\ ("sample index" \in schema => ~ Duplicated)
               /\ misplaced' = FALSE
               /\ UNCHANGED collation
          ELSE /\ collation' = "current"
               /\ UNCHANGED misplaced
    /\ Advance(Repairs, "table")
    /\ UNCHANGED <<schema, rows, appVars, blind>>

\* "A table that does not exist yet is not drift"; nor is one that Postgres did not
\* find because it failed.
FindTable ==
    /\ script = "table"
    /\ \/ /\ "metrics table" \in schema
          /\ Goto(IF mode = "check" THEN "report" ELSE "migrating")
       \/ /\ "metrics table" \notin schema \/ PostgresFails
          /\ Goto("nothing to migrate")
    /\ UNCHANGED <<database, appVars, blind>>

Migrate ==
    /\ script = "migrating"
    /\ Executable(Statements[next])
    /\ schema' = Migrated(Statements[next])
    /\ rows' = IF Statements[next] = "backfill" THEN {Backfilled(r) : r \in rows} ELSE rows
    /\ Advance(Statements, "report")
    /\ UNCHANGED <<collation, misplaced, appVars, blind>>

\* ON_ERROR_STOP and set -e: the script ends at the first statement that fails.
Fail ==
    /\ script \in Running \ {"table"}
    /\ \/ PostgresFails
       \/ script = "migrating" /\ ~ Executable(Statements[next])
       \/ script = "repairing" /\ "sample index" \in schema /\ Duplicated
    /\ Goto("failed")
    /\ UNCHANGED <<database, appVars, blind>>

\* A query that fails finds nothing: a drift, unless it was for the stale column.
ReportDrift ==
    /\ script = "report"
    /\ \/ /\ Missing \/ "rougel" \in schema
          /\ Goto("failed")
       \/ /\ ~ Missing
          /\ "rougel" \in schema => PostgresFails
          /\ Goto("up to date")
    /\ UNCHANGED <<database, appVars, blind>>

KillScript ==
    /\ "kill" \in Faults
    /\ script \in Running
    /\ Goto("killed")
    /\ UNCHANGED <<database, appVars, blind>>
-----------------------------------------------------------------------------
\* A step that evaluates: MetricsStore

\* Seeded fault: the list in metrics_store.py lacks the index init-db.sql has.
EnsuredWithoutIndex ==
    (schema \ Stale) \cup {"metrics table", "runs table", "scores", "constraints", "indexes"}
                     \cup Columns

\* _ENSURE_SCHEMA_STATEMENTS: no extension for vectors, and nobody is granted
\* anything.
Ensured ==
    (schema \ Stale) \cup {"metrics table", "runs table", "scores", "constraints"}
                     \cup Columns \cup Indexes

\* ensure_schema, whose errors are only logged.
EnsureSchema(known) ==
    \/ /\ known
       /\ UNCHANGED <<schema, rows, ready, troubled>>
    \/ /\ ~ known
       /\ "sample index" \in schema \/ ~ Duplicated
       /\ schema' = Ensured
       /\ rows' = {Backfilled(r) : r \in rows}
       /\ ready' = TRUE
       /\ UNCHANGED troubled
    \/ /\ ~ known
       /\ PostgresFails \/ ("sample index" \notin schema /\ Duplicated)
       /\ troubled' = (troubled \/ PostgresFails)
       /\ ready' = FALSE
       /\ UNCHANGED <<schema, rows>>

\* A new process, or another stage of the one that is there; with or without a
\* RUN_ID.
StartStage ==
    /\ app = "idle"
    /\ app' = "connecting"
    /\ runId' \in {Run, None}
    /\ sample' \in Samples
    /\ wrote' = "nothing"
    /\ \/ UNCHANGED <<ready, troubled>>
       \/ ready' = FALSE /\ troubled' = FALSE
    /\ UNCHANGED <<database, scriptVars, blind>>

\* MetricsStore.__init__.
Connect ==
    /\ app = "connecting"
    /\ EnsureSchema(ready)
    /\ app' = IF runId = None THEN "inserting" ELSE "opening"
    /\ UNCHANGED <<collation, misplaced, scriptVars, runId, sample, wrote, blind>>

\* start_run is not tried again: the stage fails.
OpenRun ==
    /\ app = "opening"
    /\ \/ /\ "runs table" \in schema
          /\ app' = "inserting"
          /\ UNCHANGED <<wrote, troubled>>
       \/ /\ "runs table" \notin schema \/ PostgresFails
          /\ app' = "idle"
          /\ wrote' = "refused"
          /\ troubled' = (troubled \/ "runs table" \in schema)
    /\ UNCHANGED <<database, scriptVars, runId, sample, ready, blind>>

\* The statement of insert(): its columns, and the target of its ON CONFLICT.
Accepted ==
    /\ {"metrics table", "scores", "labels"} \subseteq schema
    /\ runId # None => {"run_id", "sample_id", "sample index"} \subseteq schema

SameCell(row) == runId # None /\ row.run = runId /\ row.sample = sample

\* An upsert, or a plain insert without a RUN_ID.  An index that is misplaced may
\* not find the row that is there.
Store ==
    \/ /\ \E row \in rows : SameCell(row)
       /\ UNCHANGED <<rows, blind>>
    \/ /\ (\E row \in rows : SameCell(row)) => misplaced
       /\ \E id \in Ids \ {row.id : row \in rows} :
             rows' = rows \cup
                {[id |-> id, run |-> runId, sample |-> IF runId = None THEN None ELSE sample]}
       /\ blind' = (blind \/ misplaced)

\* _execute, in insert's try or its retry; `otherwise` is where an error leads,
\* which may come after the commit.
Execute(otherwise, result) ==
    \/ /\ Accepted
       /\ Store
       /\ app' = "idle"
       /\ wrote' = "stored"
       /\ UNCHANGED troubled
    \/ /\ Accepted
       /\ PostgresFails
       /\ Store \/ UNCHANGED <<rows, blind>>
       /\ app' = otherwise
       /\ wrote' = result
       /\ troubled' = TRUE
    \/ /\ ~ Accepted
       /\ app' = otherwise
       /\ wrote' = result
       /\ UNCHANGED <<rows, blind, troubled>>

Insert ==
    /\ app = "inserting"
    /\ Execute("repairing", wrote)
    /\ UNCHANGED <<schema, collation, misplaced, scriptVars, runId, sample, ready>>

\* _schema_ready is forgotten first.
RepairSchema ==
    /\ app = "repairing"
    /\ EnsureSchema(FALSE)
    /\ app' = "retrying"
    /\ UNCHANGED <<collation, misplaced, scriptVars, runId, sample, wrote, blind>>

RetryInsert ==
    /\ app = "retrying"
    /\ Execute("idle", "lost")
    /\ UNCHANGED <<schema, collation, misplaced, scriptVars, runId, sample, ready>>

KillStep ==
    /\ "kill" \in Faults
    /\ app # "idle"
    /\ app' = "idle"
    /\ wrote' = "nothing"
    /\ ready' = FALSE
    /\ troubled' = FALSE
    /\ UNCHANGED <<database, scriptVars, runId, sample, blind>>

\* The volume is started under an image with another libc.
UpgradeImage ==
    /\ "upgrade" \in Faults
    /\ script \notin Running
    /\ app = "idle"
    /\ collation' = "stale"
    /\ misplaced' = TRUE
    /\ script' = "not run"
    /\ wrote' = "nothing"
    /\ UNCHANGED <<schema, rows, mode, next, runId, sample, ready, troubled, app, blind>>

Next ==
    \/ Launch \/ CheckCollation \/ Repair \/ FindTable \/ Migrate \/ Fail \/ ReportDrift
    \/ KillScript
    \/ StartStage \/ Connect \/ OpenRun \/ Insert \/ RepairSchema \/ RetryInsert \/ KillStep
    \/ UpgradeImage

Spec == Init /\ [][Next]_vars
-----------------------------------------------------------------------------
\* Every variable keeps its type.
TypeOK ==
    /\ schema \subseteq Current \cup Stale
    /\ rows \subseteq Rows
    /\ collation \in {"current", "stale"}
    /\ {misplaced, ready, troubled, blind} \subseteq BOOLEAN
    /\ script \in Running \cup {"not run", "nothing to migrate", "up to date", "failed", "killed"}
    /\ mode \in {"migrate", "check"}
    /\ next \in 1 .. Len(Statements)
    /\ app \in {"idle", "connecting", "opening", "inserting", "repairing", "retrying"}
    /\ runId \in {None, Run}
    /\ sample \in Samples
    /\ wrote \in {"nothing", "stored", "refused", "lost"}

\* "Checked by name so a partial migration is reported rather than assumed": when
\* the script says that the schema is up to date, there is nothing left to do, from
\* whatever a migration or an ensure_schema before it was cut short.  --check cannot
\* see the extension, and not the grants.
NothingLeftToMigrate ==
    script = "up to date" =>
        /\ (Current \ IF mode = "check" THEN {"vector", "grants", "scores"} ELSE {}) \subseteq schema
        /\ schema \cap Stale = {}
        /\ ~ misplaced
        /\ \A row \in rows : row.run # None => row.sample # None

\* "A re-run of a stage replaces its own rows": on a volume of any age, at every
\* point of its migration, a sample of a run has one row, so that the unique index
\* can be built; and a write is refused because Postgres failed, not because of
\* the schema it found.
EveryWriteIsOneRow ==
    ~ blind =>
        /\ ~ Duplicated
        /\ wrote \in {"refused", "lost"} => troubled
        /\ app = "idle" /\ wrote = "stored" /\ runId # None =>
              Cardinality({row \in rows : SameCell(row)}) = 1
=============================================================================
