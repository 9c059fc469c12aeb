----------------------- MODULE SchemaMigrationProofs -----------------------
(***************************************************************************)
(* Machine-checked proofs about SchemaMigration, for every set of volumes, *)
(* rows and samples, and every set of faults.                              *)
(***************************************************************************)
EXTENDS SchemaMigration, FiniteSetTheorems, TLAPS

(***************************************************************************)
(* The inductive invariant.  What migrate_db.sh says at its end rests on   *)
(* statements it committed long before, with MetricsStore at work between  *)
(* them: nothing that a statement did is ever undone by anybody.           *)
(***************************************************************************)

\* A repair is two commands, and the others follow Statements.
RepairIsShort == script = "repairing" => next \in 1 .. 2

\* Rows of a run that have no sample have been given one.
Sampled == \A row \in rows : row.run # None => row.sample # None

\* A constraint names a column or a table that exists.
ConstraintsHaveTables ==
    "constraints" \in schema => "scores" \in schema /\ "runs table" \in schema

\* The unique index comes after what it depends on and in place of the old one.
IndexIsLast ==
    "sample index" \in schema =>
        "rougel" \notin schema /\ "cell index" \notin schema /\ Sampled

\* Ids are unique, and a sample that is an id is the one of its own row.
RowsAreIdentified ==
    /\ \A row, other \in rows : row.id = other.id => row = other
    /\ \A row \in rows : row.sample \in Ids => row.sample = row.id

\* An index in the wrong order shows in the collation version until it is rebuilt.
MisplacedIsNoticed ==
    /\ misplaced => collation = "stale"
    /\ script = "repairing" /\ next = 2 => ~ misplaced
    /\ script \in {"table", "migrating", "report", "up to date"} => ~ misplaced

\* What a statement of the migration was for.
Done(stmt) ==
    /\ stmt = "drop rougel" => "rougel" \notin schema
    /\ stmt = "drop cell index" => "cell index" \notin schema
    /\ stmt = "backfill" => Sampled
    /\ stmt \in Current => stmt \in schema

MigratedSoFar ==
    /\ script \in {"migrating", "report"} => "metrics table" \in schema
    /\ script = "migrating" => mode = "migrate"
    /\ \A i \in 1 .. Len(Statements) :
           \/ script = "migrating" /\ i < next
           \/ script = "report" /\ mode = "migrate"
           => Done(Statements[i])

MigrationInv ==
    /\ TypeOK
    /\ RepairIsShort
    /\ ConstraintsHaveTables
    /\ IndexIsLast
    /\ RowsAreIdentified
    /\ MisplacedIsNoticed
    /\ MigratedSoFar
    /\ NothingLeftToMigrate

\* What ensure_schema leaves behind.
EnsuredThings ==
    {"metrics table", "runs table", "scores", "constraints"} \cup Columns \cup Indexes

\* The writer.  A step that goes on without its schema does so because Postgres
\* failed, and a stage that ended well has its row.
ReadyIsEnsured == ready => EnsuredThings \subseteq schema

WritesAsItShould ==
    /\ app # "idle" => wrote = "nothing"
    /\ ~ blind =>
           /\ ~ Duplicated
           /\ app = "opening" => troubled \/ "runs table" \in schema
           /\ app = "retrying" => troubled \/ Accepted
           /\ wrote \in {"refused", "lost"} => troubled
           /\ app = "idle" /\ wrote = "stored" /\ runId # None =>
                  \E row \in rows : SameCell(row)

IInv == MigrationInv /\ ReadyIsEnsured /\ WritesAsItShould

(***************************************************************************)
(* Facts about the operators.                                              *)
(***************************************************************************)
LEMMA StatementList ==
    /\ Len(Statements) = 12
    /\ Statements[1] = "vector" /\ Statements[2] = "runs table" /\ Statements[3] = "run_id"
    /\ Statements[4] = "sample_id" /\ Statements[5] = "labels" /\ Statements[6] = "drop rougel"
    /\ Statements[7] = "backfill" /\ Statements[8] = "drop cell index"
    /\ Statements[9] = "sample index" /\ Statements[10] = "indexes"
    /\ Statements[11] = "constraints" /\ Statements[12] = "grants"
BY DEF Statements

\* Where the statements are that others depend on; every other one creates a thing
\* of the current schema.
LEMMA StatementPlaces ==
    ASSUME NEW i \in 1 .. Len(Statements)
    PROVE  /\ i \in 1 .. 12
           /\ Statements[i] = "runs table" <=> i = 2
           /\ Statements[i] = "drop rougel" <=> i = 6
           /\ Statements[i] = "backfill" <=> i = 7
           /\ Statements[i] = "drop cell index" <=> i = 8
           /\ Statements[i] = "sample index" <=> i = 9
           /\ Statements[i] = "constraints" <=> i = 11
           /\ i \notin {6, 7, 8} => Statements[i] \in Current
           /\ i \in {6, 7, 8} => Statements[i] \notin Current
<1>1. i \in 1 .. 12
    BY StatementList
<1>2. i \in {1, 2, 3, 4, 5, 6, 7, 8, 9, 10, 11, 12}
    BY <1>1
<1>3. /\ {"vector", "runs table", "run_id", "sample_id", "labels", "sample index", "indexes",
          "constraints", "grants"} \subseteq Current
      /\ {"drop rougel", "backfill", "drop cell index"} \cap Current = {}
    BY DEF Current, Columns, Indexes
<1> QED
    BY <1>1, <1>2, <1>3, StatementList

LEMMA StatementCount == 1 .. Len(Statements) = 1 .. 12
<1>1. Len(Statements) = 12
    BY StatementList, Zenon
<1> QED
    BY <1>1

LEMMA FirstAndLast == 1 \in 1 .. Len(Statements) /\ 12 \in 1 .. Len(Statements)
<1>1. 1 \in 1 .. 12 /\ 12 \in 1 .. 12
    OBVIOUS
<1> QED
    BY <1>1, StatementCount, Zenon

\* A statement comes after those it depends on.
LEMMA StatementOrder ==
    ASSUME NEW j \in 1 .. Len(Statements)
    PROVE  /\ Statements[j] = "constraints" =>
                  \E i \in 1 .. Len(Statements) : i < j /\ Statements[i] = "runs table"
           /\ Statements[j] = "sample index" =>
                  \A stmt \in {"drop rougel", "backfill", "drop cell index"} :
                      \E i \in 1 .. Len(Statements) : i < j /\ Statements[i] = stmt
<1>1. /\ Statements[j] = "constraints" => j = 11
      /\ Statements[j] = "sample index" => j = 9
    BY StatementPlaces, Zenon
<1>2. /\ 2 \in 1 .. Len(Statements) /\ 6 \in 1 .. Len(Statements)
      /\ 7 \in 1 .. Len(Statements) /\ 8 \in 1 .. Len(Statements)
    BY StatementCount
<1>3. /\ Statements[2] = "runs table" /\ Statements[6] = "drop rougel"
      /\ Statements[7] = "backfill" /\ Statements[8] = "drop cell index"
    BY StatementList, Zenon
<1>4. 2 < 11 /\ 6 < 9 /\ 7 < 9 /\ 8 < 9
    OBVIOUS
<1> QED
    BY <1>1, <1>2, <1>3, <1>4, Zenon

LEMMA RepairList == Len(Repairs) = 2 /\ Repairs[1] = "reindex" /\ Repairs[2] = "refresh"
BY DEF Repairs

\* The three kinds of sample a row may have are told apart.
LEMMA SampleKinds ==
    /\ None \notin Ids /\ None \notin Samples /\ None # Run
    /\ \A s \in Samples : s \notin Ids
BY ConstantsAssumption

LEMMA BackfilledRow ==
    ASSUME NEW row \in Rows
    PROVE  /\ Backfilled(row) \in Rows
           /\ Backfilled(row).id = row.id
           /\ Backfilled(row).run = row.run
           /\ row.run # None /\ row.sample = None => Backfilled(row).sample = row.id
           /\ ~ (row.run # None /\ row.sample = None) => Backfilled(row).sample = row.sample
BY DEF Backfilled, Rows

\* UPDATE ... SET sample_id = id::text makes no two rows of a sample.
LEMMA Backfill ==
    ASSUME rows \subseteq Rows, RowsAreIdentified, rows' = {Backfilled(row) : row \in rows}
    PROVE  /\ rows' \subseteq Rows
           /\ RowsAreIdentified'
           /\ Sampled'
           /\ ~ Duplicated => ~ Duplicated'
<1>1. \A new \in rows' : \E row \in rows :
         /\ new = Backfilled(row) /\ row \in Rows /\ row.id \in Ids
         /\ new.id = row.id /\ new.run = row.run
         /\ row.run # None /\ row.sample = None => new.sample = row.id
         /\ ~ (row.run # None /\ row.sample = None) => new.sample = row.sample
    BY BackfilledRow DEF Rows
<1>2. rows' \subseteq Rows
    BY BackfilledRow
<1>3. RowsAreIdentified'
    <2>1. ASSUME NEW r \in rows', NEW s \in rows', r.id = s.id PROVE r = s
        BY <1>1, <2>1 DEF RowsAreIdentified
    <2>2. ASSUME NEW r \in rows', r.sample \in Ids PROVE r.sample = r.id
        BY <1>1, <2>2 DEF RowsAreIdentified
    <2> QED
        BY <2>1, <2>2 DEF RowsAreIdentified
<1>4. Sampled'
    BY <1>1, SampleKinds DEF Sampled
<1>5. ASSUME ~ Duplicated, Duplicated' PROVE FALSE
    <2>1. PICK r \in rows', s \in rows' : /\ r # s /\ r.run # None /\ r.sample # None
                                          /\ r.run = s.run /\ r.sample = s.sample
        BY <1>5 DEF Duplicated
    <2>2. PICK q \in rows : /\ r = Backfilled(q) /\ q.id \in Ids
                            /\ r.id = q.id /\ r.run = q.run
                            /\ q.run # None /\ q.sample = None => r.sample = q.id
                            /\ ~ (q.run # None /\ q.sample = None) => r.sample = q.sample
        BY <1>1
    <2>3. PICK t \in rows : /\ s = Backfilled(t) /\ t.id \in Ids
                            /\ s.id = t.id /\ s.run = t.run
                            /\ t.run # None /\ t.sample = None => s.sample = t.id
                            /\ ~ (t.run # None /\ t.sample = None) => s.sample = t.sample
        BY <1>1
    <2>4. q # t /\ q.id # t.id
        BY <2>1, <2>2, <2>3 DEF RowsAreIdentified
    <2>5. q.sample # None /\ t.sample # None
        BY <2>1, <2>2, <2>3, <2>4 DEF RowsAreIdentified
    <2> QED
        BY <1>5, <2>1, <2>2, <2>3, <2>4, <2>5 DEF Duplicated
<1> QED
    BY <1>2, <1>3, <1>4, <1>5

\* A row that is stored is a new sample of its run, unless the index is misplaced.
LEMMA StoreRow ==
    ASSUME rows \subseteq Rows, RowsAreIdentified, runId \in {None, Run}, sample \in Samples,
           runId' = runId, sample' = sample, Store
    PROVE  /\ rows' \subseteq Rows
           /\ RowsAreIdentified'
           /\ Sampled => Sampled'
           /\ ~ blind' => ~ blind
           /\ ~ blind' /\ ~ Duplicated => ~ Duplicated'
           /\ runId # None => (\E row \in rows : SameCell(row))'
<1>1. CASE UNCHANGED <<rows, blind>> /\ \E row \in rows : SameCell(row)
    BY <1>1 DEF RowsAreIdentified, Sampled, Duplicated, SameCell
<1>2. CASE /\ (\E row \in rows : SameCell(row)) => misplaced
           /\ \E id \in Ids \ {row.id : row \in rows} :
                 rows' = rows \cup
                    {[id |-> id, run |-> runId, sample |-> IF runId = None THEN None ELSE sample]}
           /\ blind' = (blind \/ misplaced)
    <2>1. PICK id \in Ids \ {row.id : row \in rows} :
             rows' = rows \cup
                {[id |-> id, run |-> runId, sample |-> IF runId = None THEN None ELSE sample]}
        BY <1>2
    <2> DEFINE new == [id |-> id, run |-> runId,
                       sample |-> IF runId = None THEN None ELSE sample]
    <2>2. /\ new \in Rows /\ new.id = id /\ new.run = runId
          /\ new.sample = IF runId = None THEN None ELSE sample
        BY DEF Rows
    <2>3. rows' = rows \cup {new} /\ \A row \in rows : row.id # id
        BY <2>1
    <2> HIDE DEF new
    <2>4. rows' \subseteq Rows
        BY <2>2, <2>3
    <2>5. RowsAreIdentified'
        BY <2>2, <2>3, SampleKinds DEF RowsAreIdentified
    <2>6. Sampled => Sampled'
        BY <2>2, <2>3, SampleKinds DEF Sampled
    <2>7. ~ blind' => ~ blind /\ ~ misplaced
        BY <1>2
    <2>8. ASSUME ~ misplaced, ~ Duplicated, Duplicated' PROVE FALSE
        <3>1. ~ \E row \in rows : SameCell(row)
            BY <1>2, <2>8
        <3> QED
            BY <2>2, <2>3, <2>8, <3>1 DEF Duplicated, SameCell
    <2>9. runId # None => new \in rows' /\ new.run = runId' /\ new.sample = sample'
        BY <2>2, <2>3
    <2>10. runId # None => (\E row \in rows : SameCell(row))'
        BY <2>9 DEF SameCell
    <2> QED
        BY <2>4, <2>5, <2>6, <2>7, <2>8, <2>10
<1> QED
    BY <1>1, <1>2 DEF Store

(***************************************************************************)
(* Type correctness.                                                       *)
(***************************************************************************)
FlagsOK == {misplaced, ready, troubled, blind} \subseteq BOOLEAN

PlacesOK ==
    /\ schema \subseteq Current \cup Stale
    /\ rows \subseteq Rows
    /\ collation \in {"current", "stale"}
    /\ script \in Running \cup {"not run", "nothing to migrate", "up to date", "failed", "killed"}
    /\ mode \in {"migrate", "check"}
    /\ next \in 1 .. Len(Statements)
    /\ app \in {"idle", "connecting", "opening", "inserting", "repairing", "retrying"}
    /\ runId \in {None, Run}
    /\ sample \in Samples
    /\ wrote \in {"nothing", "stored", "refused", "lost"}

LEMMA TypeHalves == TypeOK <=> FlagsOK /\ PlacesOK
BY DEF TypeOK, FlagsOK, PlacesOK

\* ensure_schema, when it commits.
Ensures ==
    /\ "sample index" \in schema \/ ~ Duplicated
    /\ schema' = Ensured
    /\ rows' = {Backfilled(row) : row \in rows}

\* Who writes the tables, and how.
LEMMA DatabaseWriters ==
    ASSUME [Next]_vars
    PROVE  \/ UNCHANGED <<schema, rows>>
           \/ (Connect \/ RepairSchema) /\ Ensures
           \/ Migrate
           \/ (Insert \/ RetryInsert) /\ Store /\ UNCHANGED <<schema, runId, sample>>
BY DEF vars, database, Next, Launch, CheckCollation, Repair, FindTable, Migrate, Fail, ReportDrift,
       KillScript, StartStage, Connect, OpenRun, Insert, RepairSchema, RetryInsert, KillStep,
       UpgradeImage, EnsureSchema, Ensures, Execute

LEMMA NextFlags == FlagsOK /\ [Next]_vars => FlagsOK'
<1> SUFFICES ASSUME FlagsOK, [Next]_vars PROVE FlagsOK'
    OBVIOUS
<1> USE DEF FlagsOK, vars, database, scriptVars, appVars, Next, Launch, CheckCollation, Repair,
            FindTable, Migrate, Fail, ReportDrift, KillScript, StartStage, Connect, OpenRun, Insert,
            RepairSchema, RetryInsert, KillStep, UpgradeImage, EnsureSchema, Execute, Store
<1>1. misplaced' \in BOOLEAN
    OBVIOUS
<1>2. ready' \in BOOLEAN
    OBVIOUS
<1>3. troubled' \in BOOLEAN
    OBVIOUS
<1>4. blind' \in BOOLEAN
    OBVIOUS
<1> QED
    BY <1>1, <1>2, <1>3, <1>4

\* Where the script and its place in a list go from one step to the next.
LEMMA ScriptMoves ==
    ASSUME PlacesOK, RepairIsShort, [Next]_vars
    PROVE  /\ script' \in Running \cup {"not run", "nothing to migrate", "up to date", "failed", "killed"}
           /\ next' \in 1 .. Len(Statements)
           /\ RepairIsShort'
<1>1. script' \in Running \cup {"not run", "nothing to migrate", "up to date", "failed", "killed"}
    BY DEF PlacesOK, vars, scriptVars, Next, Launch, CheckCollation, Repair, FindTable, Migrate,
           Fail, ReportDrift, KillScript, StartStage, Connect, OpenRun, Insert, RepairSchema,
           RetryInsert, KillStep, UpgradeImage, Goto, Advance, Running
<1>2. \/ UNCHANGED <<script, next>>
      \/ next' = 1
      \/ script = "repairing" /\ next # Len(Repairs) /\ next' = next + 1 /\ script' = script
      \/ script = "migrating" /\ next # Len(Statements) /\ next' = next + 1 /\ script' = script
      \/ next' = next /\ script' = "not run"
    BY DEF vars, scriptVars, Next, Launch, CheckCollation, Repair, FindTable, Migrate, Fail,
           ReportDrift, KillScript, StartStage, Connect, OpenRun, Insert, RepairSchema,
           RetryInsert, KillStep, UpgradeImage, Goto, Advance
<1>3. next \in 1 .. 12 /\ (script = "repairing" => next \in 1 .. 2)
    BY StatementList DEF PlacesOK, RepairIsShort
<1>4. /\ \A n \in 1 .. 2 : n # 2 => n + 1 = 2
      /\ \A n \in 1 .. 12 : n # 12 => n + 1 \in 1 .. 12
      /\ \A n \in 1 .. 2 : n \in 1 .. 12
      /\ 1 \in 1 .. 2 /\ 2 \in 1 .. 2
    OBVIOUS
<1>5. next' \in 1 .. 12
    BY <1>2, <1>3, <1>4, RepairList, StatementList, Zenon
<1>6. script' = "repairing" => next' \in 1 .. 2
    BY <1>2, <1>3, <1>4, RepairList, Zenon
<1> QED
    BY <1>1, <1>5, <1>6, StatementList DEF RepairIsShort

LEMMA NextPlaces ==
    ASSUME PlacesOK, RepairIsShort, RowsAreIdentified, [Next]_vars
    PROVE  PlacesOK'
<1>1. schema' \subseteq Current \cup Stale
    <2>1. Ensured \subseteq Current \cup Stale
        BY DEF PlacesOK, Ensured, Current, Columns, Indexes, Stale
    <2>2. ASSUME Migrate PROVE schema' \subseteq Current \cup Stale
        <3>2. schema' = Migrated(Statements[next])
            BY <2>2 DEF Migrate
        <3>3. next \in {6, 7, 8} \/ Statements[next] \in Current
            BY StatementPlaces DEF PlacesOK
        <3> QED
            BY <3>2, <3>3, StatementList DEF Migrated, PlacesOK
    <2> QED
        BY <2>1, <2>2, DatabaseWriters DEF Ensures, PlacesOK
<1>2. rows' \subseteq Rows
    <2>1. ASSUME Migrate PROVE rows' \subseteq Rows
        BY <2>1, Backfill DEF Migrate, PlacesOK
    <2> QED
        BY <2>1, DatabaseWriters, Backfill, StoreRow DEF Ensures, PlacesOK
<1>3. collation' \in {"current", "stale"} /\ mode' \in {"migrate", "check"}
    BY DEF PlacesOK, vars, database, scriptVars, Next, Launch, CheckCollation, Repair, FindTable,
           Migrate, Fail, ReportDrift, KillScript, StartStage, Connect, OpenRun, Insert,
           RepairSchema, RetryInsert, KillStep, UpgradeImage, Goto, Advance
<1>4. app' \in {"idle", "connecting", "opening", "inserting", "repairing", "retrying"}
    BY DEF PlacesOK, vars, appVars, Next, Launch, CheckCollation, Repair, FindTable, Migrate, Fail,
           ReportDrift, KillScript, StartStage, Connect, OpenRun, Insert, RepairSchema,
           RetryInsert, KillStep, UpgradeImage, Execute
<1>5. /\ runId' \in {None, Run} /\ sample' \in Samples
      /\ wrote' \in {"nothing", "stored", "refused", "lost"}
    BY DEF PlacesOK, vars, appVars, Next, Launch, CheckCollation, Repair, FindTable, Migrate, Fail,
           ReportDrift, KillScript, StartStage, Connect, OpenRun, Insert, RepairSchema,
           RetryInsert, KillStep, UpgradeImage, Execute
<1> QED
    BY <1>1, <1>2, <1>3, <1>4, <1>5, ScriptMoves DEF PlacesOK

(***************************************************************************)
(* Nothing is undone.                                                      *)
(***************************************************************************)
\* What is there stays, what is gone stays gone, and the rows keep their samples.
LEMMA NothingIsUndone ==
    ASSUME PlacesOK, RowsAreIdentified, [Next]_vars
    PROVE  /\ \A thing \in Current : thing \in schema => thing \in schema'
           /\ \A thing \in Stale : thing \in schema' => thing \in schema
           /\ Sampled => Sampled'
           /\ RowsAreIdentified'
<1>0. \A thing \in Stale : thing \notin Current
    BY DEF Stale, Current, Columns, Indexes
<1>1. CASE UNCHANGED <<schema, rows>>
    BY <1>1 DEF Sampled, RowsAreIdentified
<1>2. CASE Ensures
    <2>1. /\ \A thing \in Current : thing \in schema => thing \in schema'
          /\ \A thing \in Stale : thing \in schema' => thing \in schema
        BY <1>0, <1>2 DEF Ensures, Ensured, Stale, Current, Columns, Indexes
    <2> QED
        BY <1>2, <2>1, Backfill DEF Ensures, PlacesOK
<1>3. CASE Migrate
    <2>1. \/ UNCHANGED rows
          \/ rows' = {Backfilled(row) : row \in rows}
        BY <1>3 DEF Migrate
    <2>2. (Sampled => Sampled') /\ RowsAreIdentified'
        BY <2>1, Backfill DEF Sampled, RowsAreIdentified, PlacesOK
    <2>3. next \in {6, 7, 8} \/ Statements[next] \in Current
        BY StatementPlaces DEF PlacesOK
    <2>4. \/ schema' = schema \ {"rougel"}
          \/ schema' = schema \ {"cell index"}
          \/ schema' = schema
          \/ \E thing \in Current : schema' = schema \cup {thing}
        BY <1>3, <2>3, StatementList DEF Migrate, Migrated
    <2> QED
        BY <1>0, <2>2, <2>4 DEF Stale
<1>4. CASE Store /\ UNCHANGED <<schema, runId, sample>>
    BY <1>4, StoreRow DEF PlacesOK
<1> QED
    BY <1>1, <1>2, <1>3, <1>4, DatabaseWriters

LEMMA DoneStays ==
    ASSUME PlacesOK, RowsAreIdentified, [Next]_vars, NEW stmt, Done(stmt)
    PROVE  Done(stmt)'
BY NothingIsUndone DEF Done, Stale

(***************************************************************************)
(* The migration.                                                          *)
(***************************************************************************)
LEMMA MigrationInit == Init => MigrationInv
<1> SUFFICES ASSUME Init PROVE MigrationInv
    OBVIOUS
<1>1. PICK v \in Volumes : schema = v.schema /\ rows = v.rows
    BY DEF Init
<1>2. schema \subseteq Current \cup Stale /\ rows \subseteq Rows
    BY <1>1, ConstantsAssumption
<1>3. /\ collation = "current" /\ script = "not run" /\ mode = "migrate" /\ next = 1
      /\ app = "idle" /\ runId = None /\ sample \in Samples /\ wrote = "nothing"
    BY DEF Init
<1>4. FlagsOK /\ ~ misplaced
    BY DEF Init, FlagsOK
<1>5. PlacesOK
    <2>1. next \in 1 .. Len(Statements)
        <3>1. 1 \in 1 .. 12
            OBVIOUS
        <3> QED
            BY <1>3, <3>1, StatementCount, Zenon
    <2> QED
        BY <1>2, <1>3, <2>1 DEF PlacesOK
<1>6. ConstraintsHaveTables /\ IndexIsLast /\ RowsAreIdentified
    BY <1>1, VolumesAssumption
       DEF ConstraintsHaveTables, IndexIsLast, RowsAreIdentified, Sampled, Stale
<1> QED
    BY <1>3, <1>4, <1>5, <1>6, TypeHalves
       DEF MigrationInv, RepairIsShort, MisplacedIsNoticed, MigratedSoFar, NothingLeftToMigrate

LEMMA MisplacedStep ==
    ASSUME PlacesOK, RepairIsShort, MisplacedIsNoticed, [Next]_vars
    PROVE  MisplacedIsNoticed'
<1>1. CASE CheckCollation
    BY <1>1 DEF CheckCollation, Goto, database, MisplacedIsNoticed, PlacesOK
<1>2. CASE Repair
    <2>1. next = 1 \/ next = 2
        <3>1. next \in 1 .. 2
            BY <1>2 DEF Repair, RepairIsShort
        <3> QED
            BY <3>1
    <2>2. CASE next = 1
        <3>1. ~ misplaced' /\ script' = "repairing"
            BY <1>2, <2>2, RepairList DEF Repair, Advance
        <3> QED
            BY <3>1 DEF MisplacedIsNoticed
    <2>3. CASE next = 2
        <3>1. ~ misplaced'
            BY <1>2, <2>3, RepairList DEF Repair, MisplacedIsNoticed
        <3> QED
            BY <3>1 DEF MisplacedIsNoticed
    <2> QED
        BY <2>1, <2>2, <2>3
<1>3. CASE FindTable \/ ReportDrift \/ Fail \/ KillScript \/ Launch
    <2>1. /\ UNCHANGED <<collation, misplaced>> /\ script' # "repairing"
          /\ script' \in {"table", "migrating", "report", "up to date"} =>
                 script \in {"table", "migrating", "report", "up to date"}
        BY <1>3 DEF FindTable, ReportDrift, Fail, KillScript, Launch, Goto, database
    <2> QED
        BY <2>1 DEF MisplacedIsNoticed
<1>4. CASE Migrate
    BY <1>4 DEF Migrate, Advance, Goto, MisplacedIsNoticed
<1>5. CASE UpgradeImage
    BY <1>5 DEF UpgradeImage, MisplacedIsNoticed
<1>6. CASE UNCHANGED <<collation, misplaced, script, next>>
    BY <1>6 DEF MisplacedIsNoticed
<1> QED
    BY <1>1, <1>2, <1>3, <1>4, <1>5, <1>6
       DEF Next, vars, database, scriptVars, StartStage, Connect, OpenRun, Insert, RepairSchema,
           RetryInsert, KillStep

\* The order of the two programs is kept in what they leave.
LEMMA OrderStep ==
    ASSUME PlacesOK, RowsAreIdentified, ConstraintsHaveTables, IndexIsLast, MigratedSoFar,
           [Next]_vars
    PROVE  ConstraintsHaveTables' /\ IndexIsLast'
<1>0. /\ \A thing \in Current : thing \in schema => thing \in schema'
      /\ \A thing \in Stale : thing \in schema' => thing \in schema
      /\ Sampled => Sampled'
    BY NothingIsUndone
<1>1. /\ {"scores", "runs table", "constraints", "sample index"} \subseteq Current
      /\ {"rougel", "cell index"} \subseteq Stale
    BY DEF Current, Indexes, Stale
<1>2. CASE ("constraints" \in schema' => "constraints" \in schema)
           /\ ("sample index" \in schema' => "sample index" \in schema)
    BY <1>0, <1>1, <1>2 DEF ConstraintsHaveTables, IndexIsLast
<1>3. CASE Ensures
    <2>1. ConstraintsHaveTables'
        BY <1>3 DEF Ensures, Ensured, ConstraintsHaveTables
    <2>2. Sampled'
        BY <1>3, Backfill DEF Ensures, PlacesOK
    <2>3. "rougel" \notin schema' /\ "cell index" \notin schema'
        BY <1>3 DEF Ensures, Ensured, Stale, Columns, Indexes
    <2> QED
        BY <2>1, <2>2, <2>3 DEF IndexIsLast
<1>4. CASE Migrate
    <2> DEFINE stmt == Statements[next]
    <2>1. /\ next \in 1 .. Len(Statements) /\ Executable(stmt) /\ schema' = Migrated(stmt)
          /\ \A i \in 1 .. Len(Statements) : i < next => Done(Statements[i])
        BY <1>4 DEF Migrate, PlacesOK, MigratedSoFar
    <2>2. \/ schema' \subseteq schema
          \/ schema' = schema \cup {stmt}
        BY <2>1 DEF Migrated
    <2>3. CASE stmt = "constraints"
        <3>2. Done("runs table")
            BY <2>1, <2>3, StatementOrder
        <3>3. "scores" \in schema /\ "runs table" \in schema
            BY <1>1, <2>1, <2>3, <3>2 DEF Executable, Done
        <3> QED
            BY <1>0, <1>1, <2>2, <2>3, <3>3 DEF ConstraintsHaveTables, IndexIsLast
    <2>4. CASE stmt = "sample index"
        <3>1. ASSUME NEW what \in {"drop rougel", "backfill", "drop cell index"}
              PROVE  Done(what)
            <4>1. next \in 1 .. Len(Statements)
                BY <2>1
            <4>2. PICK i \in 1 .. Len(Statements) : i < next /\ Statements[i] = what
                BY <2>4, <4>1, StatementOrder, Zenon
            <4> QED
                BY <2>1, <4>2
        <3>2. Done("drop rougel") /\ Done("drop cell index") /\ Done("backfill")
            BY <3>1
        <3>3. "rougel" \notin schema' /\ "cell index" \notin schema' /\ Sampled'
            BY <1>0, <1>1, <3>2 DEF Done
        <3> QED
            BY <1>0, <1>1, <2>2, <2>4, <3>3 DEF ConstraintsHaveTables, IndexIsLast
    <2>5. CASE stmt \notin {"constraints", "sample index"}
        BY <1>2, <2>2, <2>5
    <2> QED
        BY <2>3, <2>4, <2>5
<1>5. CASE UNCHANGED schema
    BY <1>2, <1>5
<1> QED
    BY <1>3, <1>4, <1>5, DatabaseWriters

\* A statement that was executed is done.
LEMMA MigrateDoes ==
    ASSUME PlacesOK, RowsAreIdentified, Migrate, NEW stmt, stmt = Statements[next]
    PROVE  Done(stmt)'
<1>1. next \in 1 .. Len(Statements) /\ schema' = Migrated(stmt)
    BY DEF Migrate, PlacesOK
<1>2. CASE stmt = "drop rougel" \/ stmt = "drop cell index"
    <2>1. stmt \notin Current
        BY <1>2 DEF Current, Columns, Indexes
    <2> QED
        BY <1>1, <1>2, <2>1 DEF Done, Migrated
<1>3. CASE stmt = "backfill"
    <2>1. Sampled'
        BY <1>3, Backfill DEF Migrate, PlacesOK
    <2>2. stmt \notin Current
        BY <1>3 DEF Current, Columns, Indexes
    <2> QED
        BY <1>3, <2>1, <2>2 DEF Done
<1>4. CASE stmt \notin {"drop rougel", "drop cell index", "backfill"}
    <2>1. schema' = schema \cup {stmt}
        BY <1>1, <1>4 DEF Migrated
    <2> QED
        BY <1>4, <2>1 DEF Done
<1> QED
    BY <1>2, <1>3, <1>4

LEMMA ProgressStep ==
    ASSUME PlacesOK, RowsAreIdentified, MigratedSoFar, [Next]_vars
    PROVE  MigratedSoFar'
<1>0. "metrics table" \in schema => "metrics table" \in schema'
    BY NothingIsUndone DEF Current
<1>1. CASE FindTable
    <2>1. /\ next' = 1 /\ mode' = mode
          /\ \/ script' = "nothing to migrate"
             \/ script' = "report" /\ mode # "migrate" /\ "metrics table" \in schema
             \/ script' = "migrating" /\ mode # "check" /\ "metrics table" \in schema
        BY <1>1 DEF FindTable, Goto
    <2>2. mode \in {"migrate", "check"}
        BY DEF PlacesOK
    <2>3. \A i \in 1 .. Len(Statements) : ~ (i < next')
        <3>1. \A i \in 1 .. 12 : ~ (i < 1)
            OBVIOUS
        <3> QED
            BY <2>1, <3>1, StatementCount, Zenon
    <2> QED
        BY <1>0, <2>1, <2>2, <2>3 DEF MigratedSoFar
<1>2. CASE Migrate
    <2>1. /\ "metrics table" \in schema /\ mode = "migrate" /\ mode' = mode
          /\ \A i \in 1 .. Len(Statements) : i < next => Done(Statements[i])
        BY <1>2 DEF Migrate, MigratedSoFar, Advance, Goto
    <2>2. \/ next = Len(Statements) /\ script' = "report"
          \/ next' = next + 1 /\ script' = "migrating"
        BY <1>2 DEF Migrate, Advance, Goto
    <2>3. ASSUME NEW i \in 1 .. Len(Statements),
                 (script' = "migrating" /\ i < next') \/ script' = "report"
          PROVE  Done(Statements[i])'
        <3>1. next \in 1 .. 12 /\ i \in 1 .. 12 /\ Len(Statements) = 12
            BY StatementList DEF PlacesOK
        <3>2. i < next \/ i = next
            BY <2>2, <2>3, <3>1
        <3>3. CASE i < next
            BY <2>1, <3>3, DoneStays
        <3>4. CASE i = next
            BY <1>2, <3>4, MigrateDoes
        <3> QED
            BY <3>2, <3>3, <3>4
    <2> QED
        BY <1>0, <2>1, <2>2, <2>3 DEF MigratedSoFar
<1>3. CASE UNCHANGED <<script, mode, next>>
    <2>1. \A i \in 1 .. Len(Statements) : Done(Statements[i]) => Done(Statements[i])'
        BY DoneStays
    <2> QED
        BY <1>0, <1>3, <2>1 DEF MigratedSoFar
<1>4. CASE script' \notin {"migrating", "report"}
    BY <1>4 DEF MigratedSoFar
<1> QED
    BY <1>1, <1>2, <1>3, <1>4
       DEF Next, vars, scriptVars, Launch, CheckCollation, Repair, Fail, ReportDrift, KillScript,
           StartStage, Connect, OpenRun, Insert, RepairSchema, RetryInsert, KillStep, UpgradeImage,
           Goto, Advance

\* What the script says at its end, and what goes on saying it.
LEMMA NothingLeftStep ==
    ASSUME PlacesOK, RepairIsShort, RowsAreIdentified, ConstraintsHaveTables, IndexIsLast,
           MisplacedIsNoticed,
           MigratedSoFar, NothingLeftToMigrate, [Next]_vars
    PROVE  NothingLeftToMigrate'
<1>0. /\ \A thing \in Current : thing \in schema => thing \in schema'
      /\ \A thing \in Stale : thing \in schema' => thing \in schema
      /\ Sampled => Sampled'
      /\ MisplacedIsNoticed'
    BY NothingIsUndone, MisplacedStep
<1> SUFFICES ASSUME script' = "up to date"
             PROVE  /\ (Current \ IF mode' = "check" THEN {"vector", "grants", "scores"} ELSE {})
                           \subseteq schema'
                    /\ schema' \cap Stale = {}
                    /\ ~ misplaced'
                    /\ Sampled'
    BY DEF NothingLeftToMigrate, Sampled
<1>1. CASE ReportDrift
    <2>1. /\ script = "report" /\ mode' = mode /\ UNCHANGED <<schema, rows, misplaced>>
          /\ ~ Missing
        BY <1>1 DEF ReportDrift, Goto, database
    <2>2. /\ Columns \cup Indexes \cup {"constraints", "metrics table"} \subseteq schema
        BY <2>1 DEF Missing, MigratedSoFar
    <2>3. "runs table" \in schema /\ "scores" \in schema
        BY <2>2 DEF ConstraintsHaveTables
    <2>4. "rougel" \notin schema /\ "cell index" \notin schema /\ Sampled
        BY <2>2 DEF IndexIsLast, Indexes
    <2>5. ~ misplaced
        BY <2>1 DEF MisplacedIsNoticed
    <2>6. mode # "check" => "vector" \in schema /\ "grants" \in schema
        <3>1. 1 \in 1 .. Len(Statements) /\ 12 \in 1 .. Len(Statements)
            BY FirstAndLast
        <3>2. Statements[1] = "vector" /\ Statements[12] = "grants"
            BY StatementList, Zenon
        <3>3. mode # "check" => Done("vector") /\ Done("grants")
            BY <2>1, <3>1, <3>2 DEF MigratedSoFar, PlacesOK
        <3> QED
            BY <3>3 DEF Done, Current
    <2> QED
        BY <1>0, <2>1, <2>2, <2>3, <2>4, <2>5, <2>6 DEF Current, Stale
<1>2. CASE script = "up to date" /\ UNCHANGED mode
    <2>1. /\ (Current \ IF mode = "check" THEN {"vector", "grants", "scores"} ELSE {}) \subseteq schema
          /\ schema \cap Stale = {}
          /\ Sampled
        BY <1>2 DEF NothingLeftToMigrate, Sampled
    <2>2. ~ misplaced'
        BY <1>0 DEF MisplacedIsNoticed
    <2> QED
        BY <1>0, <1>2, <2>1, <2>2
<1> QED
    BY <1>1, <1>2
       DEF Next, vars, scriptVars, Launch, CheckCollation, Repair, FindTable, Migrate, Fail,
           KillScript, StartStage, Connect, OpenRun, Insert, RepairSchema, RetryInsert, KillStep,
           UpgradeImage, Goto, Advance

LEMMA MigrationStep == MigrationInv /\ [Next]_vars => MigrationInv'
<1> SUFFICES ASSUME MigrationInv, [Next]_vars PROVE MigrationInv'
    OBVIOUS
<1>1. FlagsOK /\ PlacesOK
    BY TypeHalves DEF MigrationInv
<1>2. FlagsOK' /\ PlacesOK'
    BY <1>1, NextFlags, NextPlaces DEF MigrationInv
<1>3. TypeOK'
    BY <1>2 DEF TypeOK, FlagsOK, PlacesOK
<1> QED
    BY <1>1, <1>3, ScriptMoves, NothingIsUndone, OrderStep, MisplacedStep, ProgressStep,
       NothingLeftStep DEF MigrationInv

(***************************************************************************)
(* The writer.                                                             *)
(***************************************************************************)
LEMMA EnsuredThingsAre ==
    /\ EnsuredThings \subseteq Current
    /\ EnsuredThings \subseteq Ensured
    /\ {"runs table", "metrics table", "scores", "labels", "run_id", "sample_id", "sample index"}
           \subseteq EnsuredThings
BY DEF EnsuredThings, Ensured, Current, Columns, Indexes, Stale

\* An insert finds its columns and its index again in a schema that had them.
LEMMA AcceptedStays ==
    ASSUME PlacesOK, RowsAreIdentified, [Next]_vars, runId' = runId
    PROVE  /\ Accepted => Accepted'
           /\ EnsuredThings \subseteq schema => EnsuredThings \subseteq schema'
           /\ EnsuredThings \subseteq schema' => Accepted' /\ "runs table" \in schema'
           /\ "runs table" \in schema => "runs table" \in schema'
<1>1. \A thing \in EnsuredThings : thing \in Current /\ (thing \in schema => thing \in schema')
    BY NothingIsUndone, EnsuredThingsAre
<1>2. /\ "runs table" \in EnsuredThings /\ "metrics table" \in EnsuredThings
      /\ "scores" \in EnsuredThings /\ "labels" \in EnsuredThings
      /\ "run_id" \in EnsuredThings /\ "sample_id" \in EnsuredThings
      /\ "sample index" \in EnsuredThings
    BY EnsuredThingsAre
<1> QED
    BY <1>1, <1>2 DEF Accepted

\* ensure_schema only fails because Postgres does.
LEMMA EnsureOutcome ==
    ASSUME NEW known \in BOOLEAN, EnsureSchema(known), ReadyIsEnsured, known => ready
    PROVE  /\ ready' => EnsuredThings \subseteq schema'
           /\ \/ EnsuredThings \subseteq schema'
              \/ troubled'
              \/ Duplicated
<1>1. CASE known
    BY <1>1 DEF EnsureSchema, ReadyIsEnsured
<1>2. CASE ~ known /\ schema' = Ensured
    BY <1>2, EnsuredThingsAre
<1>3. CASE ~ known /\ (PostgresFails \/ ("sample index" \notin schema /\ Duplicated))
           /\ troubled' = (troubled \/ PostgresFails) /\ ~ ready'
    BY <1>3
<1> QED
    BY <1>1, <1>2, <1>3 DEF EnsureSchema

LEMMA WriterInit == Init => ReadyIsEnsured /\ WritesAsItShould
<1> SUFFICES ASSUME Init PROVE ReadyIsEnsured /\ WritesAsItShould
    OBVIOUS
<1>1. app = "idle" /\ wrote = "nothing" /\ ~ ready
    BY DEF Init
<1>2. ~ Duplicated
    BY VolumesAssumption DEF Init, Duplicated
<1> QED
    BY <1>1, <1>2 DEF ReadyIsEnsured, WritesAsItShould

\* The index refuses nothing of what is there, until rows were written past it.
LEMMA NoDuplicateStep ==
    ASSUME PlacesOK, RowsAreIdentified, WritesAsItShould, [Next]_vars
    PROVE  /\ ~ blind' => ~ blind
           /\ ~ blind' => ~ Duplicated'
<1>1. CASE UNCHANGED <<rows, blind>>
    BY <1>1 DEF WritesAsItShould, Duplicated
<1>2. CASE UNCHANGED blind /\ rows' = {Backfilled(row) : row \in rows}
    BY <1>2, Backfill DEF WritesAsItShould, PlacesOK
<1>3. CASE Store /\ UNCHANGED <<runId, sample>>
    BY <1>3, StoreRow DEF WritesAsItShould, PlacesOK
<1> QED
    BY <1>1, <1>2, <1>3
       DEF Next, vars, database, Launch, CheckCollation, Repair, FindTable, Migrate, Fail,
           ReportDrift, KillScript, StartStage, Connect, OpenRun, Insert, RepairSchema,
           RetryInsert, KillStep, UpgradeImage, EnsureSchema, Execute

\* The steps of a stage up to its first insert.
LEMMA ConnectStep ==
    ASSUME PlacesOK, FlagsOK, RowsAreIdentified, ReadyIsEnsured, WritesAsItShould,
           Connect \/ RepairSchema
    PROVE  ReadyIsEnsured' /\ WritesAsItShould'
<1>0. /\ [Next]_vars /\ app # "idle" /\ UNCHANGED <<runId, wrote, blind>>
      /\ app' \in {"inserting", "opening", "retrying"}
    BY DEF Next, Connect, RepairSchema
<1>1. PICK known \in BOOLEAN : EnsureSchema(known) /\ (known => ready)
    BY DEF Connect, RepairSchema, FlagsOK
<1>2. /\ ready' => EnsuredThings \subseteq schema'
      /\ EnsuredThings \subseteq schema' \/ troubled' \/ Duplicated
    BY <1>1, EnsureOutcome
<1>3. EnsuredThings \subseteq schema' => Accepted' /\ "runs table" \in schema'
    BY <1>0, AcceptedStays
<1>4. ~ blind' => ~ Duplicated /\ ~ Duplicated'
    BY <1>0, NoDuplicateStep DEF WritesAsItShould
<1>5. wrote' = "nothing"
    BY <1>0 DEF WritesAsItShould
<1> QED
    BY <1>0, <1>2, <1>3, <1>4, <1>5 DEF ReadyIsEnsured, WritesAsItShould

LEMMA OpenRunStep ==
    ASSUME PlacesOK, RowsAreIdentified, ReadyIsEnsured, WritesAsItShould, OpenRun
    PROVE  ReadyIsEnsured' /\ WritesAsItShould'
<1>0. /\ [Next]_vars /\ app = "opening" /\ UNCHANGED <<schema, ready, blind>>
    BY DEF Next, OpenRun, database
<1>1. ~ blind' => ~ Duplicated'
    BY <1>0, NoDuplicateStep
<1>2. \/ app' = "inserting" /\ UNCHANGED <<wrote, troubled>>
      \/ /\ app' = "idle" /\ wrote' = "refused"
         /\ troubled \/ "runs table" \in schema => troubled'
    BY DEF OpenRun
<1> QED
    BY <1>0, <1>1, <1>2 DEF ReadyIsEnsured, WritesAsItShould

\* An insert that is not stored has met a failing Postgres, or a schema that was
\* not made because of one.
LEMMA InsertStep ==
    ASSUME PlacesOK, RowsAreIdentified, ReadyIsEnsured, WritesAsItShould, Insert \/ RetryInsert
    PROVE  ReadyIsEnsured' /\ WritesAsItShould'
<1>0. /\ [Next]_vars /\ app \in {"inserting", "retrying"}
      /\ UNCHANGED <<schema, ready, runId, sample>>
      /\ wrote = "nothing"
    BY DEF Next, Insert, RetryInsert, WritesAsItShould
<1>1. ~ blind' => ~ blind /\ ~ Duplicated'
    BY <1>0, NoDuplicateStep
<1>2. Accepted' <=> Accepted
    BY <1>0 DEF Accepted
<1>3. \/ Store /\ app' = "idle" /\ wrote' = "stored"
      \/ /\ \/ app' = "repairing" /\ wrote' = "nothing"
            \/ app = "retrying" /\ app' = "idle" /\ wrote' = "lost"
         /\ troubled' \/ (~ Accepted /\ troubled' = troubled)
    BY <1>0 DEF Insert, RetryInsert, Execute
<1>4. CASE Store /\ app' = "idle" /\ wrote' = "stored"
    <2>1. runId # None => (\E row \in rows : SameCell(row))'
        BY <1>0, <1>4, StoreRow DEF PlacesOK
    <2> QED
        BY <1>0, <1>1, <1>4, <2>1 DEF ReadyIsEnsured, WritesAsItShould
<1>5. CASE app' = "repairing" /\ wrote' = "nothing"
    BY <1>0, <1>1, <1>5 DEF ReadyIsEnsured, WritesAsItShould
<1>6. CASE /\ app = "retrying" /\ app' = "idle" /\ wrote' = "lost"
           /\ troubled' \/ (~ Accepted /\ troubled' = troubled)
    BY <1>0, <1>1, <1>6 DEF ReadyIsEnsured, WritesAsItShould
<1> QED
    BY <1>3, <1>4, <1>5, <1>6

\* A migration under a step that is not running leaves it its row.
LEMMA RowStays ==
    ASSUME PlacesOK, RowsAreIdentified, rows' = {Backfilled(row) : row \in rows},
           UNCHANGED <<runId, sample>>, \E row \in rows : SameCell(row)
    PROVE  (\E row \in rows : SameCell(row))'
<1>1. PICK row \in rows : SameCell(row)
    OBVIOUS
<1>2. row \in Rows /\ sample \in Samples
    BY DEF PlacesOK
<1>3. Backfilled(row).run = runId /\ Backfilled(row).sample = sample
    BY <1>1, <1>2, BackfilledRow, SampleKinds DEF SameCell
<1> QED
    BY <1>1, <1>3 DEF SameCell

LEMMA OtherStep ==
    ASSUME PlacesOK, RowsAreIdentified, ReadyIsEnsured, WritesAsItShould, [Next]_vars,
           UNCHANGED <<app, runId, sample, ready, wrote, troubled, blind>>
    PROVE  ReadyIsEnsured' /\ WritesAsItShould'
<1>1. /\ Accepted => Accepted'
      /\ EnsuredThings \subseteq schema => EnsuredThings \subseteq schema'
      /\ "runs table" \in schema => "runs table" \in schema'
    BY AcceptedStays
<1>2. ~ blind' => ~ Duplicated'
    BY NoDuplicateStep
<1>3. app = "idle" /\ (\E row \in rows : SameCell(row)) => (\E row \in rows : SameCell(row))'
    <2>1. ASSUME app = "idle", \E row \in rows : SameCell(row)
          PROVE  (\E row \in rows : SameCell(row))'
        <3>1. UNCHANGED rows \/ rows' = {Backfilled(row) : row \in rows}
            BY <2>1, DatabaseWriters DEF Migrate, Connect, RepairSchema, Insert, RetryInsert
        <3>2. CASE UNCHANGED rows
            BY <2>1, <3>2 DEF SameCell
        <3> QED
            BY <2>1, <3>1, <3>2, RowStays
    <2> QED
        BY <2>1
<1> QED
    BY <1>1, <1>2, <1>3 DEF ReadyIsEnsured, WritesAsItShould

LEMMA WriterStep ==
    ASSUME MigrationInv, ReadyIsEnsured, WritesAsItShould, [Next]_vars
    PROVE  ReadyIsEnsured' /\ WritesAsItShould'
<1>0. FlagsOK /\ PlacesOK /\ RowsAreIdentified
    BY TypeHalves DEF MigrationInv
<1>1. CASE Connect \/ RepairSchema
    BY <1>0, <1>1, ConnectStep
<1>2. CASE OpenRun
    BY <1>0, <1>2, OpenRunStep
<1>3. CASE Insert \/ RetryInsert
    BY <1>0, <1>3, InsertStep
<1>4. CASE StartStage \/ KillStep \/ UpgradeImage
    <2>1. ~ blind' => ~ Duplicated'
        BY <1>0, NoDuplicateStep
    <2>2. wrote' = "nothing" /\ UNCHANGED schema
        BY <1>4 DEF StartStage, KillStep, UpgradeImage, database
    <2>3. app' \notin {"opening", "retrying", "inserting"}
        BY <1>4 DEF StartStage, KillStep, UpgradeImage
    <2>4. ready' => ready
        BY <1>4, Zenon DEF StartStage, KillStep, UpgradeImage
    <2> QED
        BY <2>1, <2>2, <2>3, <2>4 DEF ReadyIsEnsured, WritesAsItShould
<1>5. CASE UNCHANGED <<app, runId, sample, ready, wrote, troubled, blind>>
    BY <1>0, <1>5, OtherStep
<1> QED
    BY <1>1, <1>2, <1>3, <1>4, <1>5
       DEF Next, vars, appVars, Launch, CheckCollation, Repair, FindTable, Migrate, Fail,
           ReportDrift, KillScript

LEMMA SchemaInvariant == Spec => []IInv
<1>1. Init => IInv
    BY MigrationInit, WriterInit DEF IInv
<1>2. IInv /\ [Next]_vars => IInv'
    BY MigrationStep, WriterStep DEF IInv
<1> QED
    BY <1>1, <1>2, PTL DEF Spec

\* Every variable keeps its type.
THEOREM TypeCorrect == Spec => []TypeOK
<1>1. IInv => TypeOK
    BY DEF IInv, MigrationInv
<1> QED
    BY <1>1, SchemaInvariant, PTL

\* migrate_db.sh: "schema is up to date" is said of a schema that is, whatever was
\* cut short before and whatever MetricsStore did between its statements.
THEOREM UpToDateIsTrue == Spec => []NothingLeftToMigrate
<1>1. IInv => NothingLeftToMigrate
    BY DEF IInv, MigrationInv
<1> QED
    BY <1>1, SchemaInvariant, PTL

\* MetricsStore.insert: at every point of a migration a sample of a run has one row,
\* and a write is refused because Postgres failed and not because of its schema.
THEOREM WritesAreSingleRows == Spec => []EveryWriteIsOneRow
<1>1. ASSUME IInv PROVE EveryWriteIsOneRow
    <2>1. ASSUME ~ blind, app = "idle", wrote = "stored", runId # None
          PROVE  Cardinality({row \in rows : SameCell(row)}) = 1
        <3>1. PICK row \in rows : SameCell(row)
            BY <1>1, <2>1 DEF IInv, WritesAsItShould
        <3>2. sample # None
            BY <1>1, SampleKinds DEF IInv, MigrationInv, TypeOK
        <3>3. \A other \in rows : SameCell(other) => other = row
            BY <1>1, <2>1, <3>1, <3>2 DEF IInv, WritesAsItShould, Duplicated, SameCell
        <3>4. {other \in rows : SameCell(other)} = {row}
            BY <3>1, <3>3
        <3> QED
            BY <3>4, FS_Singleton
    <2> QED
        BY <1>1, <2>1 DEF IInv, WritesAsItShould, EveryWriteIsOneRow
<1> QED
    BY <1>1, SchemaInvariant, PTL
=============================================================================
