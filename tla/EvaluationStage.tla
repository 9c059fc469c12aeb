-------------------------- MODULE EvaluationStage --------------------------
(***************************************************************************)
(* The evaluation stages of one pipeline run (RUN_ID is set): the step     *)
(* scripts 02, 04 and 06, run_stage_evaluation, MLflowTracker.stage_run    *)
(* and MetricsStore, and the stores they write - Postgres                  *)
(* (evaluation_metrics, evaluation_runs), the completion gauge, the parent *)
(* MLflow run and the result files under data/processed.                   *)
(*                                                                         *)
(* One process runs at a time (docker compose exec, one step after the     *)
(* other).  Any call to Postgres or MLflow may fail, a Postgres commit may *)
(* be applied although its acknowledgement is lost, generation may fail,   *)
(* and the process may be killed between any two of its steps.             *)
(***************************************************************************)
EXTENDS Naturals, Sequences, FiniteSets

CONSTANTS
    Approaches,   \* the values of the `approach` column
    Scripts,      \* what one process evaluates, in order: <<"baseline">> for
                  \* step 02, three approaches for step 06
    MaxPrompts,   \* bound: the largest number of evaluation prompts
    MaxAttempts,  \* bound: the number of stage attempts of a behaviour
    Faults        \* what may go wrong in this instance

ASSUME ConstantsAssumption ==
    /\ MaxPrompts \in Nat \ {0}
    /\ MaxAttempts \in Nat
    /\ Scripts \subseteq Seq(Approaches) \ {<<>>}
    /\ \A script \in Scripts : \A i, j \in 1 .. Len(script) :
           script[i] = script[j] => i = j
    /\ Faults \subseteq {"postgres", "mlflow", "generation", "kill"}

VARIABLES
    \* Postgres
    rows,         \* evaluation_metrics: the attempt that wrote each sample's row
    status,       \* evaluation_runs.status; "none" when there is no row
    expected,     \* evaluation_runs.expected_samples
    recorded,     \* evaluation_runs.recorded_samples
    owner,        \* the attempt evaluation_runs.mlflow_run_id points to
    \* the other sinks
    complete,     \* the evaluation_run_complete gauge
    parent,       \* the status of the parent MLflow run of the last attempt
    saved,        \* the attempt each result file under data/processed is from
    \* the process
    pc,           \* where the process is
    exited,       \* how the last process ended
    script,       \* the approaches this process evaluates
    pos,          \* the one it is at
    nPrompts,     \* len(test_prompts), read once by main()
    attempt,      \* the number of stage attempts so far (a parent run id each)
    fallback,     \* inside _manual_fallback
    answered,     \* the samples of side_channel
    next,         \* the loop index over test_prompts
    logged,       \* len(_question_metrics)
    failedWrites, \* MetricsStore.failed_writes, one counter per process
    report        \* the results main() holds, by attempt

postgres == <<rows, status, expected, recorded, owner>>
stage == <<fallback, answered, next, logged>>
process == <<pc, exited, script, pos, nPrompts, attempt, stage, failedWrites,
             report>>
vars == <<postgres, complete, parent, saved, process>>

Samples == 0 .. MaxPrompts - 1
Attempts == 0 .. MaxAttempts
Prompts == 0 .. nPrompts - 1
NoAttempt == [a \in Approaches |-> 0]

\* The approach of the stage the process is in.
current == script[pos]

\* The loop of run_stage_evaluation reaches a prompt that has an answer.
HasAnswer(s) == fallback \/ s \in answered

(***************************************************************************)
(* The environment.  _execute opens a connection, runs one statement and   *)
(* commits.  Its caller sees no error only for "ack"; for "lost_ack" the   *)
(* commit was applied before the connection broke.                         *)
(***************************************************************************)
WriteOutcomes ==
    IF "postgres" \in Faults THEN {"ack", "lost_ack", "error"} ELSE {"ack"}

Applied(outcome) == outcome # "error"

MlflowRaises == IF "mlflow" \in Faults THEN BOOLEAN ELSE {FALSE}
GenerationRaises == IF "generation" \in Faults THEN BOOLEAN ELSE {FALSE}

Init ==
    /\ rows = [a \in Approaches |-> [s \in Samples |-> 0]]
    /\ status = [a \in Approaches |-> "none"]
    /\ expected = NoAttempt
    /\ recorded = NoAttempt
    /\ owner = NoAttempt
    /\ complete = NoAttempt
    /\ parent = [a \in Approaches |-> "none"]
    /\ saved = NoAttempt
    /\ pc = "idle"
    /\ exited = "never"
    /\ script = <<>>
    /\ pos = 1
    /\ nPrompts = 0
    /\ attempt = 0
    /\ fallback = FALSE
    /\ answered = {}
    /\ next = 0
    /\ logged = 0
    /\ failedWrites = 0
    /\ report = NoAttempt

Goto(label) == pc' = label

\* Seeded fault: main() catches the exception of a stage and goes on to the end.
ExitSwallowsErrors(how) ==
    /\ pc' = "idle"
    /\ exited' = "ok"

Exit(how) ==
    /\ pc' = "idle"
    /\ exited' = how

\* A step script starts: it loads the prompts and the class-level counters of
\* MetricsStore are those of a new process.
Launch ==
    /\ pc = "idle"
    /\ \E chosen \in Scripts, n \in 1 .. MaxPrompts :
          /\ attempt + Len(chosen) <= MaxAttempts
          /\ script' = chosen
          /\ nPrompts' = n
    /\ Goto("setup")
    /\ pos' = 1
    /\ failedWrites' = 0
    /\ report' = NoAttempt
    /\ UNCHANGED <<postgres, complete, parent, saved, exited, attempt, stage>>

\* main() loads the model, then MLflowTracker(...): with RUN_ID set an unavailable
\* MLflow raises.  MetricsStore() swallows schema errors.
Setup ==
    /\ pc = "setup"
    /\ \E raises \in MlflowRaises \cup GenerationRaises :
          IF raises THEN Exit("error") ELSE Goto("open") /\ UNCHANGED exited
    /\ UNCHANGED <<postgres, complete, parent, saved, script, pos, nPrompts,
                   attempt, stage, failedWrites, report>>

\* Seeded fault: stage_run leaves the gauge of the earlier attempt alone.
GaugeKeptWhenOpened == complete

GaugeWhenOpened == [complete EXCEPT ![current] = 0]

\* stage_run up to mlflow.start_run: the gauge is cleared first.
OpenStage ==
    /\ pc = "open"
    /\ complete' = GaugeWhenOpened
    /\ logged' = 0
    /\ \E raises \in MlflowRaises :
          IF raises
            THEN Exit("error") /\ UNCHANGED <<attempt, parent>>
            ELSE /\ attempt' = attempt + 1
                 /\ parent' = [parent EXCEPT ![current] = "running"]
                 /\ Goto("register")
                 /\ UNCHANGED exited
    /\ UNCHANGED <<postgres, saved, script, pos, nPrompts, fallback, answered,
                   next, failedWrites, report>>

\* Seeded fault: an error of start_run is logged and the stage goes on.
AfterStartRunSwallowed(outcome) == "annotate"

AfterStartRun(outcome) ==
    IF outcome = "ack" THEN "annotate" ELSE "close_failed"

\* metrics_store.start_run: the upsert reopens the lifecycle of the approach.
\* An error leaves stage_run through the mlflow.start_run context manager.
StartRun ==
    /\ pc = "register"
    /\ \E outcome \in WriteOutcomes :
          /\ IF Applied(outcome)
               THEN /\ status' = [status EXCEPT ![current] = "running"]
                    /\ expected' = [expected EXCEPT ![current] = nPrompts]
                    /\ recorded' = [recorded EXCEPT ![current] = 0]
                    /\ owner' = [owner EXCEPT ![current] = attempt]
               ELSE UNCHANGED <<status, expected, recorded, owner>>
          /\ Goto(AfterStartRun(outcome))
    /\ UNCHANGED <<rows, complete, parent, saved, exited, script, pos, nPrompts,
                   attempt, stage, failedWrites, report>>

\* The set_tag and log_param calls between start_run and the try statement.
Annotate ==
    /\ pc = "annotate"
    /\ \E raises \in MlflowRaises :
          Goto(IF raises THEN "close_failed" ELSE "evaluate")
    /\ UNCHANGED <<postgres, complete, parent, saved, exited, script, pos,
                   nPrompts, attempt, stage, failedWrites, report>>

\* log_run_metrics, then mlflow.genai.evaluate.  A predict_fn that raises leaves
\* its sample out of side_channel; when evaluate itself raises, the manual
\* fallback generates every answer again.
Evaluate ==
    /\ pc = "evaluate"
    /\ next' = 0
    /\ \/ /\ "mlflow" \in Faults
          /\ Goto("fail")
          /\ UNCHANGED <<fallback, answered>>
       \/ /\ \E some \in SUBSET Prompts :
                /\ "generation" \notin Faults => some = Prompts
                /\ answered' = some
          /\ fallback' = FALSE
          /\ Goto("log")
       \/ /\ "mlflow" \in Faults
          /\ fallback' = TRUE
          /\ answered' = {}
          /\ Goto("log")
    /\ UNCHANGED <<postgres, complete, parent, saved, exited, script, pos,
                   nPrompts, attempt, logged, failedWrites, report>>

\* Seeded fault: the loop over test_prompts runs once too often.
MorePromptsOffByOne == next <= nPrompts

MorePrompts == next < nPrompts

\* Seeded fault: skipping a prompt forgets to move on to the next one.
SkipPromptForgotten == next' = next

SkipPrompt == next' = next + 1

\* The loop over test_prompts: a prompt without an answer is skipped, and the
\* tracker counts an answer before the store has accepted it.
LogEvaluation ==
    /\ pc = "log"
    /\ MorePrompts
    /\ \/ /\ ~ HasAnswer(next)
          /\ SkipPrompt
          /\ UNCHANGED <<pc, logged>>
       \/ /\ HasAnswer(next)
          /\ \E raises \in GenerationRaises :
                IF raises THEN Goto("fail") /\ UNCHANGED logged
                          ELSE Goto("insert") /\ logged' = logged + 1
          /\ UNCHANGED next
    /\ UNCHANGED <<postgres, complete, parent, saved, exited, script, pos,
                   nPrompts, attempt, fallback, answered, failedWrites, report>>

\* Seeded fault: rows are keyed by question text, which two prompts may share.
UpsertByQuestion(outcome) ==
    rows' = IF Applied(outcome) THEN [rows EXCEPT ![current][0] = attempt]
                                ELSE rows

\* INSERT ... ON CONFLICT (run_id, approach, sample_id) DO UPDATE.
Upsert(outcome) ==
    rows' = IF Applied(outcome) THEN [rows EXCEPT ![current][next] = attempt]
                                ELSE rows

\* MetricsStore.insert, first try.
Insert ==
    /\ pc = "insert"
    /\ \E outcome \in WriteOutcomes :
          /\ Upsert(outcome)
          /\ IF outcome = "ack" THEN Goto("log") /\ next' = next + 1
                                ELSE Goto("retry") /\ UNCHANGED next
    /\ UNCHANGED <<status, expected, recorded, owner, complete, parent, saved,
                   exited, script, pos, nPrompts, attempt, fallback, answered,
                   logged, failedWrites, report>>

\* MetricsStore.insert, the retry after ensure_schema: its failure is counted
\* and swallowed.
RetryInsert ==
    /\ pc = "retry"
    /\ \E outcome \in WriteOutcomes :
          /\ Upsert(outcome)
          /\ failedWrites' = IF outcome = "ack" THEN failedWrites
                                                ELSE failedWrites + 1
    /\ next' = next + 1
    /\ Goto("log")
    /\ UNCHANGED <<status, expected, recorded, owner, complete, parent, saved,
                   exited, script, pos, nPrompts, attempt, fallback, answered,
                   logged, report>>

\* Seeded fault: the stage body ends without raise_if_writes_failed.
IncompleteIgnoringLostRows == \E s \in Prompts : ~ HasAnswer(s)

Incomplete ==
    \/ \E s \in Prompts : ~ HasAnswer(s)
    \/ failedWrites > 0

\* The end of the stage body: log_run_metrics, then missing answers and lost
\* rows raise inside stage_run.
Verify ==
    /\ pc = "log"
    /\ next = nPrompts
    /\ \E raises \in MlflowRaises :
          Goto(IF raises \/ Incomplete THEN "fail" ELSE "aggregate")
    /\ UNCHANGED <<postgres, complete, parent, saved, exited, script, pos,
                   nPrompts, attempt, stage, failedWrites, report>>

\* _log_parent_aggregates, still inside the try statement.
Aggregate ==
    /\ pc = "aggregate"
    /\ \E raises \in MlflowRaises :
          Goto(IF raises THEN "fail" ELSE "complete")
    /\ UNCHANGED <<postgres, complete, parent, saved, exited, script, pos,
                   nPrompts, attempt, stage, failedWrites, report>>

\* Seeded fault: the gauge is set whether or not finish_run returned.
GaugeRegardless(outcome, verdict) ==
    [complete EXCEPT ![current] = IF verdict = "completed" THEN 1 ELSE 0]

GaugeAfterFinish(outcome, verdict) ==
    IF outcome = "ack"
      THEN [complete EXCEPT ![current] = IF verdict = "completed" THEN 1 ELSE 0]
      ELSE complete

\* finish_run, an UPDATE, and the gauge that is set once it returned.
FinishRun(outcome, verdict) ==
    /\ IF Applied(outcome)
         THEN /\ status' = [status EXCEPT ![current] = verdict]
              /\ recorded' = [recorded EXCEPT ![current] = logged]
         ELSE UNCHANGED <<status, recorded>>
    /\ complete' = GaugeAfterFinish(outcome, verdict)
    /\ UNCHANGED <<rows, expected, owner, parent, saved, exited, script, pos,
                   nPrompts, attempt, stage, failedWrites, report>>

Verdict == IF logged = nPrompts THEN "completed" ELSE "failed"

\* Seeded fault: an error of finish_run is logged and the stage returns.
AfterFinishSwallowed(outcome) ==
    IF Verdict = "completed" THEN "close" ELSE "close_failed"

AfterFinish(outcome) ==
    IF outcome = "ack" /\ Verdict = "completed" THEN "close" ELSE "close_failed"

\* _finish_pipeline_run(..., "completed"): a count that does not match is
\* persisted as failed and raised.  It runs in the else clause, so its own
\* errors are not followed by a second finish_run.
FinishCompleted ==
    /\ pc = "complete"
    /\ \E outcome \in WriteOutcomes :
          /\ FinishRun(outcome, Verdict)
          /\ Goto(AfterFinish(outcome))

\* The except clause: _finish_pipeline_run(..., "failed"), then raise.
FinishFailed ==
    /\ pc = "fail"
    /\ \E outcome \in WriteOutcomes : FinishRun(outcome, "failed")
    /\ Goto("close_failed")

\* The mlflow.start_run context manager ends the parent run, and
\* run_stage_evaluation returns its results to main().
CloseStage ==
    /\ pc = "close"
    /\ \E raises \in MlflowRaises :
          IF raises
            THEN Exit("error") /\ UNCHANGED <<parent, report, pos>>
            ELSE /\ parent' = [parent EXCEPT ![current] = "finished"]
                 /\ report' = [report EXCEPT ![current] = attempt]
                 /\ IF pos < Len(script)
                      THEN Goto("setup") /\ pos' = pos + 1
                      ELSE Goto("save") /\ UNCHANGED pos
                 /\ UNCHANGED exited
    /\ UNCHANGED <<postgres, complete, saved, script, nPrompts, attempt, stage,
                   failedWrites>>

\* The same context manager on the way of an exception, which ends main().
CloseFailedStage ==
    /\ pc = "close_failed"
    /\ \E raises \in MlflowRaises :
          parent' = IF raises THEN parent
                    ELSE [parent EXCEPT ![current] = "failed"]
    /\ Exit("error")
    /\ UNCHANGED <<postgres, complete, saved, script, pos, nPrompts, attempt,
                   stage, failedWrites, report>>

\* save_stage_results (02, 04) or comparison_report.json (06), after every
\* approach of the script; 06 then opens one more MLflow run, which may raise.
SaveResults ==
    /\ pc = "save"
    /\ saved' = [a \in Approaches |-> IF report[a] # 0 THEN report[a]
                                                       ELSE saved[a]]
    /\ \E raises \in MlflowRaises :
          IF raises /\ Len(script) > 1 THEN Exit("error") ELSE Exit("ok")
    /\ UNCHANGED <<postgres, complete, parent, script, pos, nPrompts, attempt,
                   stage, failedWrites, report>>

\* SIGKILL: the out-of-memory killer, host_guard.sh or docker stop.
Kill ==
    /\ "kill" \in Faults
    /\ pc # "idle"
    /\ Exit("killed")
    /\ UNCHANGED <<postgres, complete, parent, saved, script, pos, nPrompts,
                   attempt, stage, failedWrites, report>>

\* The steps the running process takes by itself.
Step ==
    \/ Setup \/ OpenStage \/ StartRun \/ Annotate \/ Evaluate
    \/ LogEvaluation \/ Insert \/ RetryInsert \/ Verify \/ Aggregate
    \/ FinishCompleted \/ FinishFailed \/ CloseStage \/ CloseFailedStage
    \/ SaveResults

Next == Launch \/ Step \/ Kill

Spec == Init /\ [][Next]_vars

\* A process that can take a step takes it; nobody has to start one.
FairSpec == Spec /\ WF_vars(Step)
-----------------------------------------------------------------------------
TypeStores ==
    /\ rows \in [Approaches -> [Samples -> Attempts]]
    /\ status \in [Approaches -> {"none", "running", "completed", "failed"}]
    /\ expected \in [Approaches -> 0 .. MaxPrompts]
    /\ recorded \in [Approaches -> Nat]
    /\ owner \in [Approaches -> Attempts]
    /\ complete \in [Approaches -> {0, 1}]
    /\ parent \in [Approaches -> {"none", "running", "finished", "failed"}]
    /\ saved \in [Approaches -> Attempts]

TypeProcess ==
    /\ report \in [Approaches -> Attempts]
    /\ pc \in {"idle", "setup", "open", "register", "annotate", "evaluate",
               "log", "insert", "retry", "aggregate", "complete", "fail",
               "close", "close_failed", "save"}
    /\ exited \in {"never", "ok", "error", "killed"}
    /\ script \in Scripts \cup {<<>>}
    /\ pos \in Nat \ {0}
    /\ pc # "idle" => script \in Scripts /\ pos \in 1 .. Len(script)
    /\ nPrompts \in 0 .. MaxPrompts
    /\ attempt \in Attempts
    /\ fallback \in BOOLEAN
    /\ answered \subseteq Samples
    /\ next \in 0 .. MaxPrompts
    /\ pc \in {"insert", "retry"} => next < nPrompts
    /\ logged \in Nat
    /\ failedWrites \in Nat

\* Every variable keeps its type; a process that runs is inside its script.
TypeOK == TypeStores /\ TypeProcess

\* "A partial run cannot be marked completed": whatever was lost, retried or
\* overwritten by an earlier attempt, a lifecycle that says completed has one
\* row of its own attempt in Postgres for every expected sample.
CompletedIsPersisted ==
    \A a \in Approaches : status[a] = "completed" =>
        /\ recorded[a] = expected[a]
        /\ \A s \in 0 .. expected[a] - 1 : rows[a][s] = owner[a]

\* The other sinks never claim more than the ledger: a completion gauge at 1 or
\* a FINISHED parent run belongs to an approach whose lifecycle is completed.
NoSinkClaimsMoreThanTheLedger ==
    \A a \in Approaches :
        complete[a] = 1 \/ parent[a] = "finished" => status[a] = "completed"

\* "A pipeline stops instead of exporting incomplete evidence": the process
\* exits 0, and lets run_pipeline.sh go on, only when every approach of its
\* script is completed in every sink and the result files are of that attempt.
ExitZeroMeansEvidence ==
    pc = "idle" /\ exited = "ok" =>
        \A i \in 1 .. Len(script) :
            LET a == script[i]
            IN  /\ status[a] = "completed"
                /\ complete[a] = 1
                /\ parent[a] = "finished"
                /\ saved[a] = owner[a]

\* A result file never shows answers of a lifecycle that was not completed.
ResultFilesAreOfCompletedStages ==
    \A a \in Approaches :
        saved[a] # 0 /\ saved[a] = owner[a] => status[a] = "completed"

\* A completed lifecycle is only left by reopening it, and by then the gauge has
\* been taken down: no scrape sees "complete" over a lifecycle that runs again.
ReopenedOnlyBehindTheGauge ==
    [][\A a \in Approaches :
          status[a] = "completed" /\ status'[a] # "completed" =>
              status'[a] = "running" /\ complete[a] = 0]_vars

\* An answer row is only written for the attempt that owns the lifecycle, while
\* it is running and for an expected sample: no write lands after the verdict.
RowsOnlyUnderRunningLifecycle ==
    [][\A a \in Approaches : \A s \in Samples :
          rows'[a][s] # rows[a][s] =>
              /\ status[a] = "running"
              /\ rows'[a][s] = owner[a]
              /\ s < expected[a]]_vars

\* A step script always ends, whatever fails on the way.
ProcessEnds == pc # "idle" ~> pc = "idle"

\* The Run Integrity dashboard derives missing_samples from recorded_samples:
\* what a settled lifecycle counts as recorded is in evaluation_metrics.
RecordedSamplesAreInPostgres ==
    \A a \in Approaches : status[a] \in {"completed", "failed"} =>
        recorded[a] <= Cardinality({s \in Samples : rows[a][s] = owner[a]})

\* The lifecycle this stage implements: evidence is what the owning attempt has
\* stored.
Ledger == INSTANCE StageLedger WITH
    evidence <- [a \in Approaches |->
                    {s \in Samples : owner[a] # 0 /\ rows[a][s] = owner[a]}]

\* EvaluationStage implements StageLedger.
ImplementsLedger == Ledger!Spec
=============================================================================
