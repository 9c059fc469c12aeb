------------------------- MODULE MCSchemaMigration -------------------------
(***************************************************************************)
(* Volumes for TLC: a fresh one that init-db.sql built, one without the    *)
(* table, one from before run_id, and one whose rows are identified by     *)
(* their question.                                                         *)
(***************************************************************************)
EXTENDS SchemaMigration

Row(i, r) == [id |-> i, run |-> r, sample |-> None]

MCVolumes == {
    [schema |-> Current, rows |-> {}],
    [schema |-> {}, rows |-> {}],
    [schema |-> {"metrics table", "scores", "rougel"}, rows |-> {Row("a", None)}],
    [schema |-> {"metrics table", "scores", "rougel", "run_id", "cell index"},
     rows |-> {Row("a", Run), Row("b", Run)}] }
=============================================================================
