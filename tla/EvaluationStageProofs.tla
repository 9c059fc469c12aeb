----------------------- MODULE EvaluationStageProofs -----------------------
(***************************************************************************)
(* Machine-checked proofs about EvaluationStage, for every set of          *)
(* approaches and scripts, every number of prompts and attempts and every  *)
(* set of faults.                                                          *)
(***************************************************************************)
EXTENDS EvaluationStage, TLAPS

(***************************************************************************)
(* Type correctness.  The attempt counter stays below its bound because    *)
(* Launch reserves one attempt per approach of the script.                 *)
(***************************************************************************)
AttemptsReserved ==
    /\ pc \in {"setup", "open"} => attempt + (Len(script) - pos) < MaxAttempts
    /\ pc # "idle" => attempt + (Len(script) - pos) <= MaxAttempts

TypeInv == TypeStores /\ TypeProcess /\ AttemptsReserved

\* What the other proofs use of the constants.
LEMMA Bounds == MaxPrompts \in Nat /\ MaxPrompts > 0 /\ MaxAttempts \in Nat
BY ConstantsAssumption

LEMMA ScriptIsSequence ==
    ASSUME NEW chosen \in Scripts
    PROVE  /\ chosen \in Seq(Approaches)
           /\ Len(chosen) \in Nat
           /\ Len(chosen) > 0
           /\ \A i \in 1 .. Len(chosen) : chosen[i] \in Approaches
<1>1. chosen \in Seq(Approaches) /\ chosen # <<>>
    BY ConstantsAssumption
<1> QED
    BY <1>1

\* The approach a running process is at is one of the approaches.
LEMMA CurrentIsApproach ==
    ASSUME TypeProcess, pc # "idle"
    PROVE  /\ script \in Scripts
           /\ Len(script) \in Nat
           /\ pos \in Nat
           /\ 1 <= pos
           /\ pos <= Len(script)
           /\ current \in Approaches
<1>1. script \in Scripts /\ pos \in 1 .. Len(script)
    BY DEF TypeProcess
<1>2. Len(script) \in Nat /\ \A i \in 1 .. Len(script) : script[i] \in Approaches
    BY <1>1, ScriptIsSequence
<1> QED
    BY <1>1, <1>2 DEF current

LEMMA TypeInit == Init => TypeInv
<1> SUFFICES ASSUME Init PROVE TypeInv
    OBVIOUS
<1>0. NoAttempt \in [Approaches -> Attempts] /\ NoAttempt \in [Approaches -> Nat]
    BY Bounds DEF NoAttempt, Attempts
<1>1. TypeStores
    <2>1. rows \in [Approaches -> [Samples -> Attempts]]
        BY Bounds DEF Init, Attempts
    <2>2. /\ expected \in [Approaches -> 0 .. MaxPrompts]
          /\ complete \in [Approaches -> {0, 1}]
        BY Bounds DEF Init, NoAttempt
    <2>3. /\ status \in [Approaches -> {"none", "running", "completed", "failed"}]
          /\ parent \in [Approaches -> {"none", "running", "finished", "failed"}]
        BY DEF Init
    <2>4. recorded = NoAttempt /\ owner = NoAttempt /\ saved = NoAttempt
        BY DEF Init
    <2> QED
        BY <1>0, <2>1, <2>2, <2>3, <2>4 DEF TypeStores
<1>2. TypeProcess
    <2>1. report \in [Approaches -> Attempts]
        BY <1>0 DEF Init
    <2>2. attempt \in Attempts /\ nPrompts \in 0 .. MaxPrompts /\ next \in 0 .. MaxPrompts
        BY Bounds DEF Init, Attempts
    <2>3. pc = "idle" /\ exited = "never"
        BY DEF Init
    <2>4. script \in Scripts \cup {<<>>}
        BY DEF Init
    <2>5. fallback \in BOOLEAN
        BY DEF Init
    <2>6. answered \subseteq Samples
        BY DEF Init
    <2>7. logged \in Nat /\ failedWrites \in Nat /\ pos \in Nat \ {0}
        BY DEF Init
    <2> QED
        BY <2>1, <2>2, <2>3, <2>4, <2>5, <2>6, <2>7 DEF TypeProcess
<1>3. AttemptsReserved
    BY DEF Init, AttemptsReserved
<1> QED
    BY <1>1, <1>2, <1>3 DEF TypeInv


\* The steps that only move the process leave the stores alone.
LEMMA TypeStoresUnchanged ==
    ASSUME TypeStores, UNCHANGED <<postgres, complete, parent, saved>>
    PROVE  TypeStores'
BY DEF TypeStores, postgres, Attempts, Samples

LEMMA TypeLaunch == TypeInv /\ Launch => TypeInv'
<1> SUFFICES ASSUME TypeInv, Launch PROVE TypeInv'
    OBVIOUS
<1>0. TypeStores /\ TypeProcess
    BY DEF TypeInv
<1>1. PICK chosen \in Scripts, n \in 1 .. MaxPrompts :
         /\ attempt + Len(chosen) <= MaxAttempts
         /\ script' = chosen
         /\ nPrompts' = n
    BY DEF Launch
<1>2. Len(chosen) \in Nat /\ Len(chosen) > 0
    BY ScriptIsSequence
<1>3. /\ pc' = "setup" /\ pos' = 1 /\ failedWrites' = 0 /\ report' = NoAttempt
      /\ UNCHANGED <<exited, attempt, fallback, answered, next, logged>>
    BY DEF Launch, Goto, stage
<1>4. attempt \in Nat /\ MaxAttempts \in Nat
    BY <1>0, Bounds DEF TypeProcess, Attempts
<1>5. TypeStores'
    BY <1>0, TypeStoresUnchanged DEF Launch
<1>6. TypeProcess'
    <2>1. report' \in [Approaches -> Attempts]
        BY <1>3, Bounds DEF NoAttempt, Attempts
    <2>2. script' \in Scripts /\ pos' \in 1 .. Len(script') /\ pos' \in Nat \ {0}
        BY <1>1, <1>2, <1>3
    <2>3. nPrompts' \in 0 .. MaxPrompts
        BY <1>1, Bounds
    <2> QED
        BY <1>0, <1>3, <2>1, <2>2, <2>3 DEF TypeProcess, Attempts, Samples
<1>7. AttemptsReserved'
    BY <1>1, <1>2, <1>3, <1>4 DEF AttemptsReserved
<1> QED
    BY <1>5, <1>6, <1>7 DEF TypeInv

LEMMA TypeSetup == TypeInv /\ Setup => TypeInv'
<1> SUFFICES ASSUME TypeInv, Setup PROVE TypeInv'
    OBVIOUS
<1>0. TypeStores /\ TypeProcess /\ AttemptsReserved
    BY DEF TypeInv
<1>1. \/ pc' = "idle" /\ exited' = "error"
      \/ pc' = "open" /\ exited' = exited
    BY DEF Setup, Exit, Goto
<1>2. TypeStores'
    BY <1>0, TypeStoresUnchanged DEF Setup
<1>3. TypeProcess'
    BY <1>0, <1>1 DEF Setup, TypeProcess, Attempts, Samples, stage
<1>4. AttemptsReserved'
    BY <1>0, <1>1 DEF Setup, AttemptsReserved
<1> QED
    BY <1>2, <1>3, <1>4 DEF TypeInv

LEMMA TypeOpenStage == TypeInv /\ OpenStage => TypeInv'
<1> SUFFICES ASSUME TypeInv, OpenStage PROVE TypeInv'
    OBVIOUS
<1>0. TypeStores /\ TypeProcess /\ AttemptsReserved
    BY DEF TypeInv
<1>1. pc = "open" /\ current \in Approaches /\ pos \in Nat /\ pos <= Len(script) /\ Len(script) \in Nat
    BY <1>0, CurrentIsApproach DEF OpenStage
<1>2. \/ pc' = "idle" /\ exited' = "error" /\ UNCHANGED <<attempt, parent>>
      \/ /\ pc' = "register" /\ exited' = exited /\ attempt' = attempt + 1
         /\ parent' = [parent EXCEPT ![current] = "running"]
    BY DEF OpenStage, Exit, Goto
<1>3. attempt \in Nat /\ attempt < MaxAttempts /\ MaxAttempts \in Nat
    BY <1>0, <1>1, Bounds DEF AttemptsReserved, TypeProcess, Attempts
<1>4. attempt' \in Attempts
    BY <1>2, <1>3 DEF Attempts
<1>5. TypeStores'
    BY <1>0, <1>1, <1>2 DEF OpenStage, GaugeWhenOpened, TypeStores, postgres, Attempts, Samples
<1>6. TypeProcess'
    BY <1>0, <1>2, <1>4 DEF OpenStage, TypeProcess, Attempts, Samples
<1>7. AttemptsReserved'
    BY <1>0, <1>1, <1>2, <1>3 DEF OpenStage, AttemptsReserved
<1> QED
    BY <1>5, <1>6, <1>7 DEF TypeInv
\* A step inside a stage that only moves the process: Annotate, Verify, Aggregate.
LEMMA TypeMove ==
    ASSUME TypeInv, pc # "idle",
           pc' \in {"evaluate", "aggregate", "complete", "fail", "close_failed"},
           UNCHANGED <<postgres, complete, parent, saved, exited, script, pos,
                       nPrompts, attempt, stage, failedWrites, report>>
    PROVE  TypeInv'
<1>0. TypeStores /\ TypeProcess /\ AttemptsReserved
    BY DEF TypeInv
<1>1. TypeStores'
    BY <1>0, TypeStoresUnchanged
<1>2. TypeProcess'
    BY <1>0 DEF TypeProcess, Attempts, Samples, stage
<1>3. AttemptsReserved'
    BY <1>0 DEF AttemptsReserved
<1> QED
    BY <1>1, <1>2, <1>3 DEF TypeInv

LEMMA TypeStartRun == TypeInv /\ StartRun => TypeInv'
<1> SUFFICES ASSUME TypeInv, StartRun PROVE TypeInv'
    OBVIOUS
<1>0. TypeStores /\ TypeProcess /\ AttemptsReserved
    BY DEF TypeInv
<1>1. pc = "register" /\ current \in Approaches
    BY <1>0, CurrentIsApproach DEF StartRun
<1>2. pc' \in {"annotate", "close_failed"}
    BY DEF StartRun, AfterStartRun, Goto
<1>3. nPrompts \in 0 .. MaxPrompts /\ attempt \in Attempts
    BY <1>0 DEF TypeProcess
<1>4. \/ UNCHANGED <<status, expected, recorded, owner>>
      \/ /\ status' = [status EXCEPT ![current] = "running"]
         /\ expected' = [expected EXCEPT ![current] = nPrompts]
         /\ recorded' = [recorded EXCEPT ![current] = 0]
         /\ owner' = [owner EXCEPT ![current] = attempt]
    BY DEF StartRun
<1>5. TypeStores'
    <2>1. CASE UNCHANGED <<status, expected, recorded, owner>>
        BY <1>0, <2>1, TypeStoresUnchanged DEF StartRun, postgres
    <2>2. CASE /\ status' = [status EXCEPT ![current] = "running"]
               /\ expected' = [expected EXCEPT ![current] = nPrompts]
               /\ recorded' = [recorded EXCEPT ![current] = 0]
               /\ owner' = [owner EXCEPT ![current] = attempt]
        BY <1>0, <1>1, <1>3, <2>2 DEF StartRun, TypeStores, Samples
    <2> QED
        BY <1>4, <2>1, <2>2
<1>6. TypeProcess'
    BY <1>0, <1>1, <1>2 DEF StartRun, TypeProcess, Attempts, Samples, stage
<1>7. AttemptsReserved'
    BY <1>0, <1>1, <1>2 DEF StartRun, AttemptsReserved
<1> QED
    BY <1>5, <1>6, <1>7 DEF TypeInv

LEMMA TypeEvaluate == TypeInv /\ Evaluate => TypeInv'
<1> SUFFICES ASSUME TypeInv, Evaluate PROVE TypeInv'
    OBVIOUS
<1>0. TypeStores /\ TypeProcess /\ AttemptsReserved
    BY DEF TypeInv
<1>1. nPrompts \in 0 .. MaxPrompts /\ Prompts \subseteq Samples
    BY <1>0, Bounds DEF TypeProcess, Prompts, Samples
<1>2. /\ pc = "evaluate" /\ pc' \in {"fail", "log"} /\ next' = 0
      /\ UNCHANGED <<exited, script, pos, nPrompts, attempt, logged,
                     failedWrites, report>>
    BY DEF Evaluate, Goto
<1>3. answered' \subseteq Samples
    BY <1>0, <1>1 DEF Evaluate, TypeProcess
<1>4. fallback' \in BOOLEAN
    BY <1>0 DEF Evaluate, TypeProcess
<1>5. TypeStores'
    BY <1>0, TypeStoresUnchanged DEF Evaluate
<1>6. TypeProcess'
    BY <1>0, <1>2, <1>3, <1>4, Bounds DEF TypeProcess, Attempts, Samples
<1>7. AttemptsReserved'
    BY <1>0, <1>2 DEF AttemptsReserved
<1> QED
    BY <1>5, <1>6, <1>7 DEF TypeInv

LEMMA TypeLogEvaluation == TypeInv /\ LogEvaluation => TypeInv'
<1> SUFFICES ASSUME TypeInv, LogEvaluation PROVE TypeInv'
    OBVIOUS
<1>0. TypeStores /\ TypeProcess /\ AttemptsReserved
    BY DEF TypeInv
<1>1. /\ nPrompts \in Nat /\ nPrompts <= MaxPrompts /\ MaxPrompts \in Nat
      /\ next \in Nat /\ next < nPrompts /\ logged \in Nat
    BY <1>0, Bounds DEF TypeProcess, LogEvaluation, MorePrompts
<1>2. \/ pc' = "log" /\ next' = next + 1 /\ logged' = logged
      \/ pc' = "fail" /\ next' = next /\ logged' = logged
      \/ pc' = "insert" /\ next' = next /\ logged' = logged + 1
    BY DEF LogEvaluation, SkipPrompt, Goto
<1>3. /\ pc = "log"
      /\ UNCHANGED <<exited, script, pos, nPrompts, attempt, fallback, answered,
                     failedWrites, report>>
    BY DEF LogEvaluation
<1>4. next' \in 0 .. MaxPrompts /\ logged' \in Nat /\ pc' # "retry"
      /\ (pc' = "insert" => next' < nPrompts')
    BY <1>1, <1>2, <1>3
<1>5. TypeStores'
    BY <1>0, TypeStoresUnchanged DEF LogEvaluation
<1>6. TypeProcess'
    BY <1>0, <1>2, <1>3, <1>4 DEF TypeProcess, Attempts, Samples
<1>7. AttemptsReserved'
    BY <1>0, <1>2, <1>3 DEF AttemptsReserved
<1> QED
    BY <1>5, <1>6, <1>7 DEF TypeInv

\* Both tries of MetricsStore.insert.
LEMMA TypeUpsert ==
    ASSUME TypeStores, TypeProcess, pc \in {"insert", "retry"}, NEW outcome, Upsert(outcome)
    PROVE  rows' \in [Approaches -> [Samples -> Attempts]]
<1>1. current \in Approaches /\ next \in Samples /\ attempt \in Attempts
    BY CurrentIsApproach, Bounds DEF TypeProcess, Samples
<1>2. rows \in [Approaches -> [Samples -> Attempts]]
    BY DEF TypeStores
<1>3. [rows EXCEPT ![current][next] = attempt] \in [Approaches -> [Samples -> Attempts]]
    BY <1>1, <1>2
<1> QED
    BY <1>2, <1>3 DEF Upsert

LEMMA TypeInsert == TypeInv /\ (Insert \/ RetryInsert) => TypeInv'
<1> SUFFICES ASSUME TypeInv, Insert \/ RetryInsert PROVE TypeInv'
    OBVIOUS
<1>0. TypeStores /\ TypeProcess /\ AttemptsReserved
    BY DEF TypeInv
<1>1. /\ nPrompts \in Nat /\ nPrompts <= MaxPrompts /\ MaxPrompts \in Nat
      /\ next \in Nat /\ next < nPrompts /\ failedWrites \in Nat
    BY <1>0, Bounds DEF TypeProcess, Insert, RetryInsert
<1>2. /\ \/ pc' = "log" /\ next' = next + 1
         \/ pc' = "retry" /\ next' = next
      /\ \/ failedWrites' = failedWrites
         \/ failedWrites' = failedWrites + 1
    BY DEF Insert, RetryInsert, Goto
<1>3. /\ pc \in {"insert", "retry"}
      /\ UNCHANGED <<status, expected, recorded, owner, complete, parent, saved,
                     exited, script, pos, nPrompts, attempt, fallback, answered,
                     logged, report>>
    BY DEF Insert, RetryInsert
<1>4. next' \in 0 .. MaxPrompts /\ failedWrites' \in Nat /\ pc' # "insert"
      /\ (pc' = "retry" => next' < nPrompts')
    BY <1>1, <1>2, <1>3
<1>5. rows' \in [Approaches -> [Samples -> Attempts]]
    BY <1>0, <1>3, TypeUpsert DEF Insert, RetryInsert
<1>6. TypeStores'
    BY <1>0, <1>3, <1>5 DEF TypeStores, Attempts, Samples
<1>7. TypeProcess'
    BY <1>0, <1>2, <1>3, <1>4 DEF TypeProcess, Attempts, Samples
<1>8. AttemptsReserved'
    BY <1>0, <1>2, <1>3 DEF AttemptsReserved
<1> QED
    BY <1>6, <1>7, <1>8 DEF TypeInv

LEMMA TypeFinish == TypeInv /\ (FinishCompleted \/ FinishFailed) => TypeInv'
<1> SUFFICES ASSUME TypeInv, FinishCompleted \/ FinishFailed PROVE TypeInv'
    OBVIOUS
<1>0. TypeStores /\ TypeProcess /\ AttemptsReserved
    BY DEF TypeInv
<1>1. PICK outcome \in WriteOutcomes, verdict \in {"completed", "failed"} :
         FinishRun(outcome, verdict)
    BY DEF FinishCompleted, FinishFailed, Verdict
<1>2. /\ pc \in {"complete", "fail"} /\ pc' \in {"close", "close_failed"}
      /\ UNCHANGED <<rows, expected, owner, parent, saved, exited, script, pos,
                     nPrompts, attempt, stage, failedWrites, report>>
    BY <1>1 DEF FinishCompleted, FinishFailed, AfterFinish, Goto, FinishRun
<1>3. current \in Approaches /\ logged \in Nat
    BY <1>0, <1>2, CurrentIsApproach DEF TypeProcess
<1>4. /\ status' \in [Approaches -> {"none", "running", "completed", "failed"}]
      /\ recorded' \in [Approaches -> Nat]
    BY <1>0, <1>1, <1>3 DEF FinishRun, TypeStores
<1>5. complete' \in [Approaches -> {0, 1}]
    BY <1>0, <1>1, <1>3 DEF FinishRun, GaugeAfterFinish, TypeStores
<1>6. TypeStores'
    BY <1>0, <1>2, <1>4, <1>5 DEF TypeStores, Attempts, Samples
<1>7. TypeProcess'
    BY <1>0, <1>2 DEF TypeProcess, Attempts, Samples, stage
<1>8. AttemptsReserved'
    BY <1>0, <1>2 DEF AttemptsReserved
<1> QED
    BY <1>6, <1>7, <1>8 DEF TypeInv

LEMMA TypeCloseStage == TypeInv /\ CloseStage => TypeInv'
<1> SUFFICES ASSUME TypeInv, CloseStage PROVE TypeInv'
    OBVIOUS
<1>0. TypeStores /\ TypeProcess /\ AttemptsReserved
    BY DEF TypeInv
<1>1. /\ pc = "close" /\ current \in Approaches /\ script \in Scripts
      /\ Len(script) \in Nat /\ pos \in Nat /\ 1 <= pos /\ pos <= Len(script)
    BY <1>0, CurrentIsApproach DEF CloseStage
<1>2. attempt \in Nat /\ attempt \in Attempts /\ MaxAttempts \in Nat
    BY <1>0, Bounds DEF TypeProcess, Attempts
<1>3. /\ \/ pc' = "idle" /\ exited' = "error" /\ UNCHANGED <<parent, report, pos>>
         \/ /\ parent' = [parent EXCEPT ![current] = "finished"]
            /\ report' = [report EXCEPT ![current] = attempt]
            /\ \/ pos < Len(script) /\ pc' = "setup" /\ pos' = pos + 1
               \/ pc' = "save" /\ pos' = pos
            /\ exited' = exited
      /\ UNCHANGED <<postgres, complete, saved, script, nPrompts, attempt, stage,
                     failedWrites>>
    BY DEF CloseStage, Exit, Goto
<1>4. parent' \in [Approaches -> {"none", "running", "finished", "failed"}]
    BY <1>0, <1>1, <1>3 DEF TypeStores
<1>5. report' \in [Approaches -> Attempts]
    BY <1>0, <1>1, <1>2, <1>3 DEF TypeProcess
<1>6. TypeStores'
    BY <1>0, <1>3, <1>4 DEF TypeStores, Attempts, Samples, postgres
<1>7. pos' \in Nat \ {0} /\ pos' \in 1 .. Len(script)
    BY <1>1, <1>3
<1>8. TypeProcess'
    BY <1>0, <1>1, <1>3, <1>5, <1>7 DEF TypeProcess, Attempts, Samples, stage
<1>9. AttemptsReserved'
    BY <1>0, <1>1, <1>2, <1>3 DEF AttemptsReserved
<1> QED
    BY <1>6, <1>8, <1>9 DEF TypeInv

\* The steps that end the process: CloseFailedStage, SaveResults and Kill.
LEMMA TypeExit == TypeInv /\ (CloseFailedStage \/ SaveResults \/ Kill) => TypeInv'
<1> SUFFICES ASSUME TypeInv, CloseFailedStage \/ SaveResults \/ Kill PROVE TypeInv'
    OBVIOUS
<1>0. TypeStores /\ TypeProcess
    BY DEF TypeInv
<1>1. /\ pc # "idle" /\ pc' = "idle" /\ exited' \in {"ok", "error", "killed"}
      /\ UNCHANGED <<postgres, complete, script, pos, nPrompts, attempt, stage,
                     failedWrites, report>>
    BY DEF CloseFailedStage, SaveResults, Kill, Exit
<1>2. current \in Approaches
    BY <1>0, <1>1, CurrentIsApproach
<1>3. parent' \in [Approaches -> {"none", "running", "finished", "failed"}]
    BY <1>0, <1>2 DEF CloseFailedStage, SaveResults, Kill, TypeStores
<1>4. saved' \in [Approaches -> Attempts]
    BY <1>0 DEF CloseFailedStage, SaveResults, Kill, TypeStores, TypeProcess
<1>5. TypeStores'
    BY <1>0, <1>1, <1>3, <1>4 DEF TypeStores, Attempts, Samples, postgres
<1>6. TypeProcess'
    BY <1>0, <1>1 DEF TypeProcess, Attempts, Samples, stage
<1>7. AttemptsReserved'
    BY <1>1 DEF AttemptsReserved
<1> QED
    BY <1>5, <1>6, <1>7 DEF TypeInv

LEMMA TypeStep == TypeInv /\ [Next]_vars => TypeInv'
<1> SUFFICES ASSUME TypeInv, [Next]_vars PROVE TypeInv'
    OBVIOUS
<1>1. CASE Annotate \/ Verify \/ Aggregate
    BY <1>1, TypeMove DEF Annotate, Verify, Aggregate, Goto
<1>2. CASE UNCHANGED vars
    BY <1>2 DEF TypeInv, TypeStores, TypeProcess, AttemptsReserved, vars, process,
                postgres, stage, Samples, Attempts
<1> QED
    BY <1>1, <1>2, TypeLaunch, TypeSetup, TypeOpenStage, TypeStartRun, TypeEvaluate,
       TypeLogEvaluation, TypeInsert, TypeFinish, TypeCloseStage, TypeExit
       DEF Next, Step

\* Every variable keeps its type in every behaviour.
THEOREM TypeCorrect == Spec => []TypeOK
<1>1. TypeInv => TypeOK
    BY DEF TypeInv, TypeOK
<1> QED
    BY TypeInit, TypeStep, <1>1, PTL DEF Spec
(***************************************************************************)
(* The inductive invariant.  It says what a stage in progress may rely on: *)
(* the lifecycle it opened is still its own, and until the verdict every   *)
(* other sink stays behind the ledger.                                     *)
(***************************************************************************)
InStage == pc \in {"annotate", "evaluate", "log", "insert", "retry", "aggregate",
                   "complete", "fail"}

\* From start_run to the verdict the ledger row belongs to this attempt.
StageOwnsLifecycle == InStage =>
    /\ status[current] = "running"
    /\ owner[current] = attempt
    /\ expected[current] = nPrompts
    /\ attempt # 0

\* From the opening of the stage to the verdict the sinks claim nothing.
SinksAreDown ==
    /\ InStage \/ pc = "register" => complete[current] = 0
    /\ InStage \/ pc \in {"register", "close", "close_failed"} =>
           parent[current] = "running"

\* Attempts are numbered in order, and a stage opens with a number of its own.
AttemptsAreFresh ==
    /\ \A a \in Approaches : owner[a] <= attempt
    /\ \A a \in Approaches : \A s \in Samples : rows[a][s] <= attempt
    /\ pc = "register" => attempt > 0 /\ \A a \in Approaches : \A s \in Samples :
                                             rows[a][s] < attempt

\* The owning attempt has only written rows of expected samples.
OnlyExpectedRows ==
    \A a \in Approaches : \A s \in Samples :
        owner[a] # 0 /\ rows[a][s] = owner[a] => s < expected[a]

\* As long as no write was lost, the loop leaves a stored row behind it for
\* every answered prompt.
StoredBehindTheLoop ==
    pc \in {"log", "insert", "retry"} /\ failedWrites = 0 =>
        \A s \in 0 .. next - 1 : HasAnswer(s) => rows[current][s] = attempt

\* Past Verify every expected sample is stored.
VerifiedIsStored ==
    pc \in {"aggregate", "complete"} =>
        \A s \in Prompts : rows[current][s] = attempt

\* A stage that is about to return has its verdict in the ledger.
ClosingIsCompleted == pc = "close" => status[current] = "completed"

StageInv ==
    /\ StageOwnsLifecycle
    /\ SinksAreDown
    /\ AttemptsAreFresh
    /\ OnlyExpectedRows
    /\ StoredBehindTheLoop
    /\ VerifiedIsStored
    /\ ClosingIsCompleted
    /\ CompletedIsPersisted
    /\ NoSinkClaimsMoreThanTheLedger

IInv == TypeInv /\ StageInv
LEMMA StageInit == Init => StageInv
<1> SUFFICES ASSUME Init PROVE StageInv
    OBVIOUS
<1>1. pc = "idle" /\ attempt = 0
    BY DEF Init
<1>2. \A a \in Approaches : /\ owner[a] = 0 /\ status[a] = "none" /\ complete[a] = 0
                            /\ parent[a] = "none"
                            /\ \A s \in Samples : rows[a][s] = 0
    BY DEF Init, NoAttempt
<1>3. StageOwnsLifecycle /\ SinksAreDown /\ StoredBehindTheLoop /\ VerifiedIsStored
      /\ ClosingIsCompleted
    BY <1>1 DEF StageOwnsLifecycle, SinksAreDown, StoredBehindTheLoop,
                VerifiedIsStored, ClosingIsCompleted, InStage
<1>4. AttemptsAreFresh /\ OnlyExpectedRows
    BY <1>1, <1>2 DEF AttemptsAreFresh, OnlyExpectedRows
<1>5. CompletedIsPersisted /\ NoSinkClaimsMoreThanTheLedger
    BY <1>2 DEF CompletedIsPersisted, NoSinkClaimsMoreThanTheLedger
<1> QED
    BY <1>3, <1>4, <1>5 DEF StageInv

\* What is said of the stores alone survives a step that leaves them alone.
LEMMA StoresUnchanged ==
    ASSUME StageInv, UNCHANGED <<postgres, complete, parent>>
    PROVE  /\ OnlyExpectedRows'
           /\ CompletedIsPersisted'
           /\ NoSinkClaimsMoreThanTheLedger'
BY DEF StageInv, postgres, OnlyExpectedRows, CompletedIsPersisted, Samples,
       NoSinkClaimsMoreThanTheLedger

\* Launch, Setup, SaveResults and Kill: the process is in no stage afterwards.
LEMMA OutsideStage ==
    ASSUME StageInv, UNCHANGED <<postgres, complete, parent, attempt>>,
           pc' \in {"idle", "setup", "open"}
    PROVE  StageInv'
<1>1. AttemptsAreFresh'
    BY DEF StageInv, AttemptsAreFresh, postgres, Samples
<1> QED
    BY <1>1, StoresUnchanged
       DEF StageInv, StageOwnsLifecycle, SinksAreDown, StoredBehindTheLoop,
           VerifiedIsStored, ClosingIsCompleted, InStage

LEMMA OpenStageKeeps == IInv /\ OpenStage => StageInv'
<1> SUFFICES ASSUME IInv, OpenStage PROVE StageInv'
    OBVIOUS
<1>0. TypeStores /\ TypeProcess /\ StageInv
    BY DEF IInv, TypeInv
<1>1. pc = "open" /\ current \in Approaches /\ current' = current
    BY <1>0, CurrentIsApproach DEF OpenStage, current
<1>2. /\ complete' = [complete EXCEPT ![current] = 0]
      /\ UNCHANGED <<rows, status, expected, recorded, owner>>
      /\ \/ pc' = "idle" /\ UNCHANGED <<attempt, parent>>
         \/ /\ pc' = "register" /\ attempt' = attempt + 1
            /\ parent' = [parent EXCEPT ![current] = "running"]
    BY DEF OpenStage, GaugeWhenOpened, Exit, Goto, postgres
<1>3. SinksAreDown'
    BY <1>0, <1>1, <1>2 DEF SinksAreDown, InStage, TypeStores
<1>4. AttemptsAreFresh'
    <2>1. attempt \in Nat /\ \A a \in Approaches :
              owner[a] \in Nat /\ \A s \in Samples : rows[a][s] \in Nat
        BY <1>0 DEF TypeStores, TypeProcess, Attempts
    <2>2. \A a \in Approaches : owner[a] <= attempt /\ \A s \in Samples : rows[a][s] <= attempt
        BY <1>0 DEF StageInv, AttemptsAreFresh
    <2> QED
        BY <1>2, <2>1, <2>2 DEF AttemptsAreFresh, Samples
<1>5. OnlyExpectedRows' /\ CompletedIsPersisted'
    BY <1>0, <1>2 DEF StageInv, OnlyExpectedRows, CompletedIsPersisted, Samples
<1>6. NoSinkClaimsMoreThanTheLedger'
    BY <1>0, <1>1, <1>2 DEF StageInv, NoSinkClaimsMoreThanTheLedger, TypeStores
<1> QED
    BY <1>2, <1>3, <1>4, <1>5, <1>6
       DEF StageInv, StageOwnsLifecycle, StoredBehindTheLoop, VerifiedIsStored,
           ClosingIsCompleted, InStage

LEMMA StartRunKeeps == IInv /\ StartRun => StageInv'
<1> SUFFICES ASSUME IInv, StartRun PROVE StageInv'
    OBVIOUS
<1>0. TypeStores /\ TypeProcess /\ StageInv
    BY DEF IInv, TypeInv
<1>1. pc = "register" /\ current \in Approaches /\ current' = current
    BY <1>0, CurrentIsApproach DEF StartRun, current
<1>2. UNCHANGED <<rows, complete, parent, nPrompts, attempt>>
    BY DEF StartRun
<1>3. \/ pc' = "close_failed" /\ UNCHANGED <<status, expected, recorded, owner>>
      \/ /\ pc' \in {"annotate", "close_failed"}
         /\ status' = [status EXCEPT ![current] = "running"]
         /\ expected' = [expected EXCEPT ![current] = nPrompts]
         /\ recorded' = [recorded EXCEPT ![current] = 0]
         /\ owner' = [owner EXCEPT ![current] = attempt]
    BY DEF StartRun, AfterStartRun, Applied, Goto
<1>4. SinksAreDown'
    BY <1>0, <1>1, <1>2, <1>3 DEF StageInv, SinksAreDown, InStage
<1>5. StageOwnsLifecycle'
    <2>1. attempt # 0
        BY <1>0, <1>1 DEF StageInv, AttemptsAreFresh, TypeProcess, Attempts
    <2> QED
        BY <1>0, <1>1, <1>2, <1>3, <2>1 DEF StageOwnsLifecycle, InStage, TypeStores
<1>6. attempt \in Nat /\ \A a \in Approaches : \A s \in Samples :
          rows[a][s] < attempt /\ rows[a][s] \in Nat
    BY <1>0, <1>1 DEF StageInv, AttemptsAreFresh, TypeStores, TypeProcess, Attempts
<1>7. AttemptsAreFresh'
    <2>1. \A a \in Approaches : owner[a] <= attempt
        BY <1>0 DEF StageInv, AttemptsAreFresh
    <2>2. \A a \in Approaches : owner'[a] \in {owner[a], attempt}
        BY <1>0, <1>1, <1>3 DEF TypeStores
    <2>3. \A a \in Approaches : owner'[a] <= attempt
        BY <1>6, <2>1, <2>2
    <2>4. \A a \in Approaches : \A s \in Samples : rows[a][s] <= attempt
        BY <1>6
    <2>5. pc' # "register"
        BY <1>3
    <2> QED
        BY <1>2, <2>3, <2>4, <2>5 DEF AttemptsAreFresh, Samples
<1>8. OnlyExpectedRows'
    <2>1. SUFFICES ASSUME NEW a \in Approaches, NEW s \in Samples,
                          owner'[a] # 0, rows[a][s] = owner'[a]
                   PROVE  s < expected'[a]
        BY <1>2 DEF OnlyExpectedRows, Samples
    <2>2. rows[a][s] # attempt
        BY <1>6
    <2>3. owner'[a] = owner[a] /\ expected'[a] = expected[a]
        BY <1>0, <1>1, <1>3, <2>1, <2>2 DEF TypeStores
    <2> QED
        BY <1>0, <2>1, <2>3 DEF StageInv, OnlyExpectedRows
<1>9. CompletedIsPersisted'
    BY <1>0, <1>1, <1>2, <1>3 DEF StageInv, CompletedIsPersisted, TypeStores
<1>10. NoSinkClaimsMoreThanTheLedger'
    <2>1. complete[current] = 0 /\ parent[current] = "running"
        BY <1>0, <1>1 DEF StageInv, SinksAreDown
    <2> QED
        BY <1>0, <1>1, <1>2, <1>3, <2>1
           DEF StageInv, NoSinkClaimsMoreThanTheLedger, TypeStores
<1> QED
    BY <1>3, <1>4, <1>5, <1>7, <1>8, <1>9, <1>10
       DEF StageInv, StoredBehindTheLoop, VerifiedIsStored, ClosingIsCompleted

\* Annotate, Evaluate, LogEvaluation, Verify and Aggregate write no store: they
\* keep all but what is said of the answers stored so far.
LEMMA MoveInStage ==
    ASSUME StageInv, InStage,
           UNCHANGED <<postgres, complete, parent, script, pos, nPrompts, attempt>>,
           InStage' \/ pc' = "close_failed"
    PROVE  /\ StageOwnsLifecycle'
           /\ SinksAreDown'
           /\ AttemptsAreFresh'
           /\ ClosingIsCompleted'
<1>1. current' = current
    BY DEF current
<1>2. UNCHANGED <<rows, status, expected, owner>>
    BY DEF postgres
<1>3. StageOwnsLifecycle'
    BY <1>1, <1>2 DEF StageInv, StageOwnsLifecycle, InStage
<1>4. SinksAreDown'
    BY <1>1 DEF StageInv, SinksAreDown, InStage
<1>5. AttemptsAreFresh'
    BY <1>2 DEF StageInv, AttemptsAreFresh, Samples, InStage
<1>6. ClosingIsCompleted'
    BY DEF ClosingIsCompleted, InStage
<1> QED
    BY <1>3, <1>4, <1>5, <1>6
LEMMA AnnotateKeeps == IInv /\ Annotate => StageInv'
<1> SUFFICES ASSUME IInv, Annotate PROVE StageInv'
    OBVIOUS
<1>0. StageInv
    BY DEF IInv
<1>1. InStage /\ pc' \in {"close_failed", "evaluate"}
    BY DEF Annotate, InStage, Goto
<1>2. UNCHANGED <<postgres, complete, parent, script, pos, nPrompts, attempt>>
    BY DEF Annotate
<1>3. InStage' \/ pc' = "close_failed"
    BY <1>1 DEF InStage
<1> QED
    BY <1>0, <1>1, <1>2, <1>3, MoveInStage, StoresUnchanged
       DEF StageInv, StoredBehindTheLoop, VerifiedIsStored

LEMMA EvaluateKeeps == IInv /\ Evaluate => StageInv'
<1> SUFFICES ASSUME IInv, Evaluate PROVE StageInv'
    OBVIOUS
<1>0. StageInv
    BY DEF IInv
<1>1. InStage /\ InStage' /\ pc' \in {"fail", "log"} /\ next' = 0
    BY DEF Evaluate, InStage, Goto
<1>2. UNCHANGED <<postgres, complete, parent, script, pos, nPrompts, attempt>>
    BY DEF Evaluate
<1>3. StoredBehindTheLoop'
    BY <1>1 DEF StoredBehindTheLoop
<1>4. VerifiedIsStored'
    BY <1>1 DEF VerifiedIsStored
<1> QED
    BY <1>0, <1>1, <1>2, <1>3, <1>4, MoveInStage, StoresUnchanged DEF StageInv

LEMMA LogEvaluationKeeps == IInv /\ LogEvaluation => StageInv'
<1> SUFFICES ASSUME IInv, LogEvaluation PROVE StageInv'
    OBVIOUS
<1>0. StageInv /\ next \in Nat
    BY DEF IInv, TypeInv, TypeProcess
<1>1. InStage /\ InStage' /\ pc = "log" /\ pc' \in {"log", "insert", "fail"}
    BY DEF LogEvaluation, InStage, Goto
<1>2. UNCHANGED <<postgres, complete, parent, script, pos, nPrompts, attempt,
                  fallback, answered, failedWrites>>
    BY DEF LogEvaluation
<1>3. StoredBehindTheLoop'
    <2>1. /\ rows' = rows /\ current' = current
          /\ \A s : HasAnswer(s)' <=> HasAnswer(s)
        BY <1>2 DEF postgres, current, HasAnswer
    <2>2. \/ next' = next
          \/ next' = next + 1 /\ ~ HasAnswer(next)
        BY DEF LogEvaluation, SkipPrompt
    <2>3. SUFFICES ASSUME failedWrites = 0, NEW s \in 0 .. next' - 1, HasAnswer(s)
                   PROVE  rows[current][s] = attempt
        BY <1>2, <2>1 DEF StoredBehindTheLoop
    <2>4. s \in 0 .. next - 1
        BY <1>0, <2>2, <2>3
    <2> QED
        BY <1>0, <1>1, <2>3, <2>4 DEF StageInv, StoredBehindTheLoop
<1>4. VerifiedIsStored'
    BY <1>1 DEF VerifiedIsStored
<1> QED
    BY <1>0, <1>1, <1>2, <1>3, <1>4, MoveInStage, StoresUnchanged DEF StageInv

LEMMA VerifyKeeps == IInv /\ Verify => StageInv'
<1> SUFFICES ASSUME IInv, Verify PROVE StageInv'
    OBVIOUS
<1>0. StageInv /\ failedWrites \in Nat /\ nPrompts \in Nat
    BY DEF IInv, TypeInv, TypeProcess
<1>1. InStage /\ InStage' /\ pc = "log" /\ next = nPrompts
    BY DEF Verify, InStage, Goto
<1>2. UNCHANGED <<postgres, complete, parent, script, pos, nPrompts, attempt>>
    BY DEF Verify
<1>3. \/ pc' = "fail"
      \/ pc' = "aggregate" /\ ~ Incomplete
    BY DEF Verify, Goto
<1>4. StoredBehindTheLoop'
    BY <1>3 DEF StoredBehindTheLoop
<1>5. VerifiedIsStored'
    <2>1. CASE pc' = "fail"
        BY <2>1 DEF VerifiedIsStored
    <2>2. CASE ~ Incomplete
        <3>1. failedWrites = 0 /\ \A s \in Prompts : HasAnswer(s)
            BY <1>0, <2>2 DEF Incomplete
        <3>2. \A s \in Prompts : rows[current][s] = attempt
            BY <1>0, <1>1, <3>1 DEF StageInv, StoredBehindTheLoop, Prompts
        <3> QED
            BY <1>2, <3>2 DEF VerifiedIsStored, Prompts, current, postgres
    <2> QED
        BY <1>3, <2>1, <2>2
<1> QED
    BY <1>0, <1>1, <1>2, <1>4, <1>5, MoveInStage, StoresUnchanged DEF StageInv

LEMMA AggregateKeeps == IInv /\ Aggregate => StageInv'
<1> SUFFICES ASSUME IInv, Aggregate PROVE StageInv'
    OBVIOUS
<1>0. StageInv
    BY DEF IInv
<1>1. InStage /\ InStage' /\ pc = "aggregate" /\ pc' \in {"fail", "complete"}
    BY DEF Aggregate, InStage, Goto
<1>2. UNCHANGED <<postgres, complete, parent, script, pos, nPrompts, attempt>>
    BY DEF Aggregate
<1>3. StoredBehindTheLoop'
    BY <1>1 DEF StoredBehindTheLoop
<1>4. VerifiedIsStored'
    BY <1>0, <1>1, <1>2 DEF StageInv, VerifiedIsStored, Prompts, current, postgres
<1> QED
    BY <1>0, <1>1, <1>2, <1>3, <1>4, MoveInStage, StoresUnchanged DEF StageInv

\* Both tries of MetricsStore.insert change at most the row of the sample the
\* loop is at, and give it the attempt that owns the lifecycle.
LEMMA UpsertRow ==
    ASSUME TypeStores, TypeProcess, pc \in {"insert", "retry"}, NEW outcome, Upsert(outcome)
    PROVE  /\ \A a \in Approaches : \A s \in Samples :
                  rows'[a][s] # rows[a][s] => a = current /\ s = next /\ rows'[a][s] = attempt
           /\ outcome = "ack" => rows'[current][next] = attempt
           /\ next \in Samples
<1>1. current \in Approaches /\ next \in Samples
    BY CurrentIsApproach, Bounds DEF TypeProcess, Samples
<1>2. rows \in [Approaches -> [Samples -> Attempts]]
    BY DEF TypeStores
<1>3. CASE outcome = "error"
    BY <1>1, <1>3 DEF Upsert, Applied
<1>4. CASE outcome # "error"
    <2>1. rows' = [rows EXCEPT ![current][next] = attempt]
        BY <1>4 DEF Upsert, Applied
    <2> QED
        BY <1>1, <1>2, <2>1
<1> QED
    BY <1>3, <1>4

LEMMA InsertKeeps == IInv /\ (Insert \/ RetryInsert) => StageInv'
<1> SUFFICES ASSUME IInv, Insert \/ RetryInsert PROVE StageInv'
    OBVIOUS
<1>0. TypeStores /\ TypeProcess /\ StageInv
    BY DEF IInv, TypeInv
<1>1. /\ pc \in {"insert", "retry"} /\ pc' \in {"log", "retry"}
      /\ UNCHANGED <<status, expected, recorded, owner, complete, parent, script,
                     pos, nPrompts, attempt, fallback, answered>>
    BY DEF Insert, RetryInsert, Goto
<1>2. PICK outcome \in WriteOutcomes :
         /\ Upsert(outcome)
         /\ \/ next' = next
            \/ next' = next + 1 /\ (failedWrites' = 0 => outcome = "ack")
         /\ failedWrites' = 0 => failedWrites = 0
    <2>1. failedWrites \in Nat
        BY <1>0 DEF TypeProcess
    <2>2. CASE Insert
        BY <2>2 DEF Insert
    <2>3. CASE RetryInsert
        BY <2>1, <2>3 DEF RetryInsert
    <2> QED
        BY <2>2, <2>3
<1>3. /\ \A a \in Approaches : \A s \in Samples :
             rows'[a][s] # rows[a][s] => a = current /\ s = next /\ rows'[a][s] = attempt
      /\ outcome = "ack" => rows'[current][next] = attempt
      /\ next \in Samples
    BY <1>0, <1>1, <1>2, UpsertRow
<1>4. /\ current \in Approaches /\ current' = current
      /\ InStage /\ InStage'
      /\ status[current] = "running" /\ owner[current] = attempt
      /\ expected[current] = nPrompts /\ next < nPrompts /\ next \in Nat
      /\ nPrompts \in Nat /\ nPrompts <= MaxPrompts /\ attempt # 0
    BY <1>0, <1>1, CurrentIsApproach, Bounds
       DEF StageInv, StageOwnsLifecycle, InStage, current, TypeProcess
<1>5. StageOwnsLifecycle'
    BY <1>1, <1>4 DEF StageOwnsLifecycle
<1>6. SinksAreDown'
    BY <1>0, <1>1, <1>4 DEF StageInv, SinksAreDown, InStage
<1>7. AttemptsAreFresh'
    <2>1. \A a \in Approaches : owner[a] <= attempt /\ \A s \in Samples : rows[a][s] <= attempt
        BY <1>0 DEF StageInv, AttemptsAreFresh
    <2>2. attempt \in Nat
        BY <1>0 DEF TypeProcess, Attempts
    <2>3. \A a \in Approaches : \A s \in Samples : rows'[a][s] <= attempt
        BY <1>3, <2>1, <2>2
    <2> QED
        BY <1>1, <2>1, <2>3 DEF AttemptsAreFresh, Samples
<1>8. OnlyExpectedRows'
    BY <1>0, <1>1, <1>3, <1>4 DEF StageInv, OnlyExpectedRows, Samples
<1>9. StoredBehindTheLoop'
    <2>1. \A s : HasAnswer(s)' <=> HasAnswer(s)
        BY <1>1 DEF HasAnswer
    <2>2. SUFFICES ASSUME failedWrites' = 0, NEW s \in 0 .. next' - 1, HasAnswer(s)
                   PROVE  rows'[current][s] = attempt
        BY <1>1, <1>4, <2>1 DEF StoredBehindTheLoop
    <2>3. CASE s = next
        BY <1>2, <1>3, <1>4, <2>2, <2>3
    <2>4. CASE s # next
        <3>1. s \in 0 .. next - 1 /\ s \in Samples
            BY <1>2, <1>4, <2>2, <2>4, Bounds DEF Samples
        <3>2. rows[current][s] = attempt
            BY <1>0, <1>1, <1>2, <2>2, <3>1 DEF StageInv, StoredBehindTheLoop
        <3> QED
            BY <1>3, <1>4, <2>4, <3>1, <3>2
    <2> QED
        BY <2>3, <2>4
<1>10. VerifiedIsStored' /\ ClosingIsCompleted'
    BY <1>1 DEF VerifiedIsStored, ClosingIsCompleted
<1>11. CompletedIsPersisted'
    <2>1. SUFFICES ASSUME NEW a \in Approaches, status[a] = "completed"
                   PROVE  /\ recorded[a] = expected[a]
                          /\ \A s \in 0 .. expected[a] - 1 : rows'[a][s] = owner[a]
        BY <1>1 DEF CompletedIsPersisted
    <2>2. a # current
        BY <1>4, <2>1
    <2>3. expected[a] \in 0 .. MaxPrompts
        BY <1>0 DEF TypeStores
    <2>4. \A s \in 0 .. expected[a] - 1 : s \in Samples /\ rows'[a][s] = rows[a][s]
        BY <1>3, <2>2, <2>3, Bounds DEF Samples
    <2> QED
        BY <1>0, <2>1, <2>4 DEF StageInv, CompletedIsPersisted
<1>12. NoSinkClaimsMoreThanTheLedger'
    BY <1>0, <1>1 DEF StageInv, NoSinkClaimsMoreThanTheLedger
<1> QED
    BY <1>5, <1>6, <1>7, <1>8, <1>9, <1>10, <1>11, <1>12 DEF StageInv

LEMMA FinishKeeps == IInv /\ (FinishCompleted \/ FinishFailed) => StageInv'
<1> SUFFICES ASSUME IInv, FinishCompleted \/ FinishFailed PROVE StageInv'
    OBVIOUS
<1>0. TypeStores /\ TypeProcess /\ StageInv
    BY DEF IInv, TypeInv
<1>1. PICK outcome \in WriteOutcomes, verdict \in {"completed", "failed"} :
         /\ FinishRun(outcome, verdict)
         /\ verdict = "completed" => pc = "complete" /\ logged = nPrompts
         /\ pc' = "close" => outcome = "ack" /\ verdict = "completed"
    BY DEF FinishCompleted, FinishFailed, Verdict, AfterFinish, Goto
<1>2. /\ pc \in {"complete", "fail"} /\ pc' \in {"close", "close_failed"}
      /\ UNCHANGED <<rows, expected, owner, parent, script, pos, nPrompts, attempt>>
    BY <1>1 DEF FinishRun, FinishCompleted, FinishFailed, AfterFinish, Goto
<1>3. /\ current \in Approaches /\ current' = current
      /\ status[current] = "running" /\ owner[current] = attempt
      /\ expected[current] = nPrompts /\ complete[current] = 0
      /\ parent[current] = "running"
    BY <1>0, <1>2, CurrentIsApproach
       DEF StageInv, StageOwnsLifecycle, SinksAreDown, InStage, current
<1>4. \/ outcome = "error" /\ UNCHANGED <<status, recorded>>
      \/ /\ outcome # "error"
         /\ status' = [status EXCEPT ![current] = verdict]
         /\ recorded' = [recorded EXCEPT ![current] = logged]
    BY <1>1 DEF FinishRun, Applied
<1>5. \/ complete' = complete
      \/ /\ outcome = "ack"
         /\ complete' = [complete EXCEPT ![current] =
                            IF verdict = "completed" THEN 1 ELSE 0]
    BY <1>1 DEF FinishRun, GaugeAfterFinish
<1>6. StageOwnsLifecycle' /\ StoredBehindTheLoop' /\ VerifiedIsStored'
    BY <1>2 DEF StageOwnsLifecycle, StoredBehindTheLoop, VerifiedIsStored, InStage
<1>7. SinksAreDown'
    BY <1>2, <1>3 DEF SinksAreDown, InStage
<1>8. AttemptsAreFresh'
    BY <1>0, <1>2 DEF StageInv, AttemptsAreFresh, Samples
<1>9. OnlyExpectedRows'
    BY <1>0, <1>2 DEF StageInv, OnlyExpectedRows, Samples
<1>10. ClosingIsCompleted'
    BY <1>0, <1>1, <1>3, <1>4 DEF ClosingIsCompleted, TypeStores
<1>11. CompletedIsPersisted'
    <2>1. SUFFICES ASSUME NEW a \in Approaches, status'[a] = "completed"
                   PROVE  /\ recorded'[a] = expected[a]
                          /\ \A s \in 0 .. expected[a] - 1 : rows[a][s] = owner[a]
        BY <1>2 DEF CompletedIsPersisted
    <2>2. CASE status[a] = "completed"
        <3>1. a # current
            BY <1>3, <2>2
        <3>2. recorded'[a] = recorded[a]
            BY <1>0, <1>3, <1>4, <3>1 DEF TypeStores
        <3> QED
            BY <1>0, <2>2, <3>2 DEF StageInv, CompletedIsPersisted
    <2>3. CASE status[a] # "completed"
        <3>1. /\ a = current /\ verdict = "completed"
              /\ recorded'[current] = logged
            BY <1>0, <1>3, <1>4, <2>1, <2>3 DEF TypeStores
        <3>2. \A s \in Prompts : rows[current][s] = attempt
            BY <1>0, <1>1, <3>1 DEF StageInv, VerifiedIsStored
        <3> QED
            BY <1>1, <1>3, <3>1, <3>2 DEF Prompts
    <2> QED
        BY <2>2, <2>3
<1>12. NoSinkClaimsMoreThanTheLedger'
    <2>1. SUFFICES ASSUME NEW a \in Approaches, complete'[a] = 1 \/ parent[a] = "finished"
                   PROVE  status'[a] = "completed"
        BY <1>2 DEF NoSinkClaimsMoreThanTheLedger
    <2>2. CASE a = current
        BY <1>0, <1>3, <1>4, <1>5, <2>1, <2>2 DEF TypeStores
    <2>3. CASE a # current
        <3>1. complete'[a] = complete[a] /\ status'[a] = status[a]
            BY <1>0, <1>3, <1>4, <1>5, <2>3 DEF TypeStores
        <3> QED
            BY <1>0, <2>1, <3>1 DEF StageInv, NoSinkClaimsMoreThanTheLedger
    <2> QED
        BY <2>2, <2>3
<1> QED
    BY <1>6, <1>7, <1>8, <1>9, <1>10, <1>11, <1>12 DEF StageInv

LEMMA CloseKeeps == IInv /\ (CloseStage \/ CloseFailedStage) => StageInv'
<1> SUFFICES ASSUME IInv, CloseStage \/ CloseFailedStage PROVE StageInv'
    OBVIOUS
<1>0. TypeStores /\ TypeProcess /\ StageInv
    BY DEF IInv, TypeInv
<1>1. /\ pc \in {"close", "close_failed"} /\ pc' \in {"idle", "setup", "save"}
      /\ UNCHANGED <<postgres, complete, attempt>>
      /\ \/ parent' = parent
         \/ parent' = [parent EXCEPT ![current] = "failed"]
         \/ pc = "close" /\ parent' = [parent EXCEPT ![current] = "finished"]
    BY DEF CloseStage, CloseFailedStage, Exit, Goto
<1>2. current \in Approaches
    BY <1>0, <1>1, CurrentIsApproach
<1>3. AttemptsAreFresh' /\ OnlyExpectedRows' /\ CompletedIsPersisted'
    BY <1>0, <1>1 DEF StageInv, AttemptsAreFresh, OnlyExpectedRows,
                      CompletedIsPersisted, Samples, postgres
<1>4. NoSinkClaimsMoreThanTheLedger'
    <2>1. pc = "close" => status[current] = "completed"
        BY <1>0 DEF StageInv, ClosingIsCompleted
    <2> QED
        BY <1>0, <1>1, <1>2, <2>1
           DEF StageInv, NoSinkClaimsMoreThanTheLedger, TypeStores, postgres
<1> QED
    BY <1>1, <1>3, <1>4
       DEF StageInv, StageOwnsLifecycle, SinksAreDown, StoredBehindTheLoop,
           VerifiedIsStored, ClosingIsCompleted, InStage

LEMMA SaveResultsKeeps == IInv /\ SaveResults => StageInv'
BY OutsideStage DEF IInv, SaveResults, Exit

LEMMA StageStep == IInv /\ [Next]_vars => StageInv'
<1> SUFFICES ASSUME IInv, [Next]_vars PROVE StageInv'
    OBVIOUS
<1>1. CASE Launch \/ Setup \/ Kill
    BY <1>1, OutsideStage DEF IInv, Launch, Setup, Kill, Exit, Goto
<1>2. CASE UNCHANGED vars
    <2>1. UNCHANGED <<rows, status, expected, recorded, owner, complete, parent,
                      pc, script, pos, nPrompts, attempt, fallback, answered, next,
                      failedWrites>>
        BY <1>2 DEF vars, postgres, process, stage
    <2>2. StageInv
        BY DEF IInv
    <2> QED
        BY <2>1, <2>2
           DEF StageInv, StageOwnsLifecycle, SinksAreDown, AttemptsAreFresh,
               OnlyExpectedRows, StoredBehindTheLoop, VerifiedIsStored,
               ClosingIsCompleted, CompletedIsPersisted, HasAnswer, InStage,
               NoSinkClaimsMoreThanTheLedger, Samples, Prompts, current
<1> QED
    BY <1>1, <1>2, OpenStageKeeps, StartRunKeeps, AnnotateKeeps, EvaluateKeeps,
       LogEvaluationKeeps, InsertKeeps, VerifyKeeps, AggregateKeeps, FinishKeeps,
       CloseKeeps, SaveResultsKeeps DEF Next, Step

LEMMA InvariantHolds == Spec => []IInv
<1>1. Init => IInv
    BY TypeInit, StageInit DEF IInv
<1>2. IInv /\ [Next]_vars => IInv'
    BY TypeStep, StageStep DEF IInv
<1> QED
    BY <1>1, <1>2, PTL DEF Spec

\* "A partial run cannot be marked completed": finish_run only says completed
\* when every expected sample is a row of the attempt that owns the lifecycle,
\* whatever writes were lost and wherever earlier processes died.
THEOREM CompletedMeansPersisted == Spec => []CompletedIsPersisted
<1>1. IInv => CompletedIsPersisted
    BY DEF IInv, StageInv
<1> QED
    BY <1>1, InvariantHolds, PTL

\* stage_run takes the gauge down before it reopens a lifecycle and the parent
\* run ends after the verdict: neither is ever ahead of evaluation_runs.
THEOREM SinksStayBehindTheLedger == Spec => []NoSinkClaimsMoreThanTheLedger
<1>1. IInv => NoSinkClaimsMoreThanTheLedger
    BY DEF IInv, StageInv
<1> QED
    BY <1>1, InvariantHolds, PTL
(***************************************************************************)
(* What main() holds and what it saves.  An exit code of 0 says something  *)
(* about every stage of the script, but is given after the last one: while *)
(* the process runs, the stages it has left must stay as it left them.     *)
(***************************************************************************)
\* The results main() holds are of stages that are completed in every sink.
ReportedIsCompleted == pc # "idle" =>
    \A a \in Approaches : report[a] # 0 =>
        /\ report[a] = owner[a]
        /\ status[a] = "completed"
        /\ complete[a] = 1
        /\ parent[a] = "finished"

\* main() holds results of exactly the stages it has been through.
ReportedIsBehind == pc # "idle" =>
    \A i \in 1 .. Len(script) :
        /\ pc # "save" => (report[script[i]] # 0 <=> i < pos)
        /\ pc = "save" => report[script[i]] # 0

\* No result file or result is of an attempt that is still to come.
ResultsAreOfThePast ==
    /\ \A a \in Approaches : saved[a] <= attempt /\ report[a] <= attempt
    /\ pc = "register" => \A a \in Approaches : saved[a] < attempt

\* A stage that returns has set the gauge and owns the lifecycle.
ClosingOwnsLifecycle == pc = "close" =>
    complete[current] = 1 /\ owner[current] = attempt /\ attempt # 0

ResultsInv ==
    /\ ReportedIsCompleted
    /\ ReportedIsBehind
    /\ ResultsAreOfThePast
    /\ ClosingOwnsLifecycle
    /\ ExitZeroMeansEvidence
    /\ ResultFilesAreOfCompletedStages

\* An approach appears once in a script.
LEMMA OncePerScript ==
    ASSUME NEW chosen \in Scripts, NEW i \in 1 .. Len(chosen), NEW j \in 1 .. Len(chosen),
           chosen[i] = chosen[j]
    PROVE  i = j
BY ConstantsAssumption

\* main() holds nothing yet of the stage it is in.
LEMMA CurrentIsUnreported ==
    ASSUME TypeProcess, ReportedIsBehind, pc \notin {"idle", "save"}
    PROVE  report[current] = 0
<1>1. pos \in 1 .. Len(script)
    BY DEF TypeProcess
<1> QED
    BY <1>1 DEF ReportedIsBehind, current, TypeProcess

LEMMA ResultsInit == Init => ResultsInv
<1> SUFFICES ASSUME Init PROVE ResultsInv
    OBVIOUS
<1>1. pc = "idle" /\ exited = "never" /\ attempt = 0
    BY DEF Init
<1>2. \A a \in Approaches : saved[a] = 0 /\ report[a] = 0
    BY DEF Init, NoAttempt
<1> QED
    BY <1>1, <1>2
       DEF ResultsInv, ReportedIsCompleted, ReportedIsBehind, ResultsAreOfThePast,
           ClosingOwnsLifecycle, ExitZeroMeansEvidence, ResultFilesAreOfCompletedStages

\* The steps that write no ledger and no result.
LEMMA ResultsMove ==
    ASSUME ResultsInv,
           UNCHANGED <<status, owner, complete, parent, saved, script, pos, attempt, report>>,
           pc \notin {"idle", "save"},
           pc' \notin {"idle", "register", "close", "save"}
    PROVE  ResultsInv'
BY DEF ResultsInv, ReportedIsCompleted, ReportedIsBehind, ResultsAreOfThePast,
       ClosingOwnsLifecycle, ExitZeroMeansEvidence, ResultFilesAreOfCompletedStages

\* A process that ends with an error, or is killed, promises nothing.
LEMMA ResultsExit ==
    ASSUME ResultsInv, UNCHANGED <<status, owner, saved, attempt, report>>,
           pc' = "idle", exited' # "ok"
    PROVE  ResultsInv'
BY DEF ResultsInv, ReportedIsCompleted, ReportedIsBehind, ResultsAreOfThePast,
       ClosingOwnsLifecycle, ExitZeroMeansEvidence, ResultFilesAreOfCompletedStages

LEMMA ResultsLaunch == IInv /\ ResultsInv /\ Launch => ResultsInv'
<1> SUFFICES ASSUME IInv, ResultsInv, Launch PROVE ResultsInv'
    OBVIOUS
<1>0. attempt \in Nat
    BY DEF IInv, TypeInv, TypeProcess, Attempts
<1>1. /\ pc' = "setup" /\ pos' = 1 /\ report' = NoAttempt /\ script' \in Scripts
      /\ UNCHANGED <<status, owner, saved, attempt>>
    BY DEF Launch, Goto, postgres
<1>2. \A a \in Approaches : report'[a] = 0
    BY <1>1 DEF NoAttempt
<1>3. Len(script') \in Nat /\ \A i \in 1 .. Len(script') : script'[i] \in Approaches
    BY <1>1, ScriptIsSequence
<1>4. ReportedIsBehind'
    BY <1>1, <1>2, <1>3 DEF ReportedIsBehind
<1> QED
    BY <1>0, <1>1, <1>2, <1>4
       DEF ResultsInv, ReportedIsCompleted, ResultsAreOfThePast, ClosingOwnsLifecycle,
           ExitZeroMeansEvidence, ResultFilesAreOfCompletedStages

\* An approach with results is not the one whose gauge is taken down.
LEMMA ResultsOpenStage == IInv /\ ResultsInv /\ OpenStage => ResultsInv'
<1> SUFFICES ASSUME IInv, ResultsInv, OpenStage PROVE ResultsInv'
    OBVIOUS
<1>0. TypeStores /\ TypeProcess
    BY DEF IInv, TypeInv
<1>1. pc = "open" /\ current \in Approaches /\ report[current] = 0
    BY <1>0, CurrentIsApproach, CurrentIsUnreported DEF OpenStage, ResultsInv
<1>2. CASE pc' = "idle"
    <2>1. exited' # "ok" /\ UNCHANGED <<status, owner, saved, attempt, report>>
        BY <1>2 DEF OpenStage, Exit, Goto, postgres
    <2> QED
        BY <1>2, <2>1, ResultsExit
<1>3. CASE pc' # "idle"
    <2>1. /\ pc' = "register" /\ attempt' = attempt + 1
          /\ complete' = [complete EXCEPT ![current] = 0]
          /\ parent' = [parent EXCEPT ![current] = "running"]
          /\ UNCHANGED <<status, owner, saved, script, pos, report>>
        BY <1>3 DEF OpenStage, GaugeWhenOpened, Exit, Goto, postgres
    <2>2. attempt \in Nat /\ \A a \in Approaches : saved[a] \in Nat /\ report[a] \in Nat
        BY <1>0 DEF TypeStores, TypeProcess, Attempts
    <2>3. ReportedIsCompleted'
        BY <1>0, <1>1, <2>1 DEF ResultsInv, ReportedIsCompleted, TypeStores
    <2>4. ResultsAreOfThePast'
        BY <2>1, <2>2 DEF ResultsInv, ResultsAreOfThePast
    <2> QED
        BY <1>1, <2>1, <2>3, <2>4
           DEF ResultsInv, ReportedIsBehind, ClosingOwnsLifecycle, ExitZeroMeansEvidence,
               ResultFilesAreOfCompletedStages
<1> QED
    BY <1>2, <1>3

\* The attempt that takes the lifecycle over has saved nothing.
LEMMA ResultsStartRun == IInv /\ ResultsInv /\ StartRun => ResultsInv'
<1> SUFFICES ASSUME IInv, ResultsInv, StartRun PROVE ResultsInv'
    OBVIOUS
<1>0. TypeStores /\ TypeProcess
    BY DEF IInv, TypeInv
<1>1. pc = "register" /\ current \in Approaches /\ report[current] = 0
    BY <1>0, CurrentIsApproach, CurrentIsUnreported DEF StartRun, ResultsInv
<1>2. /\ pc' \in {"annotate", "close_failed"}
      /\ UNCHANGED <<complete, parent, saved, script, pos, attempt, report>>
    BY DEF StartRun, AfterStartRun, Goto
<1>3. \/ UNCHANGED <<status, owner>>
      \/ /\ status' = [status EXCEPT ![current] = "running"]
         /\ owner' = [owner EXCEPT ![current] = attempt]
    BY DEF StartRun
<1>4. \A a \in Approaches : a # current => status'[a] = status[a] /\ owner'[a] = owner[a]
    BY <1>0, <1>1, <1>3 DEF TypeStores
<1>5. ReportedIsCompleted'
    BY <1>1, <1>2, <1>4 DEF ResultsInv, ReportedIsCompleted
<1>6. ResultsAreOfThePast'
    BY <1>2 DEF ResultsInv, ResultsAreOfThePast
<1>7. ResultFilesAreOfCompletedStages'
    <2>1. CASE UNCHANGED <<status, owner>>
        BY <1>2, <2>1 DEF ResultsInv, ResultFilesAreOfCompletedStages
    <2>2. CASE owner' = [owner EXCEPT ![current] = attempt]
        <3>1. saved[current] < attempt /\ saved[current] \in Nat /\ attempt \in Nat
            BY <1>0, <1>1 DEF ResultsInv, ResultsAreOfThePast, TypeStores, TypeProcess, Attempts
        <3>2. saved'[current] # owner'[current]
            BY <1>0, <1>1, <1>2, <2>2, <3>1 DEF TypeStores
        <3> QED
            BY <1>2, <1>4, <3>2 DEF ResultsInv, ResultFilesAreOfCompletedStages
    <2> QED
        BY <1>3, <2>1, <2>2
<1> QED
    BY <1>1, <1>2, <1>5, <1>6, <1>7
       DEF ResultsInv, ReportedIsBehind, ClosingOwnsLifecycle, ExitZeroMeansEvidence

\* The verdict is about the approach the process is at.
LEMMA ResultsFinish == IInv /\ ResultsInv /\ (FinishCompleted \/ FinishFailed) => ResultsInv'
<1> SUFFICES ASSUME IInv, ResultsInv, FinishCompleted \/ FinishFailed PROVE ResultsInv'
    OBVIOUS
<1>0. TypeStores /\ TypeProcess /\ StageInv
    BY DEF IInv, TypeInv
<1>1. PICK outcome \in WriteOutcomes, verdict \in {"completed", "failed"} :
         /\ FinishRun(outcome, verdict)
         /\ pc' = "close" => outcome = "ack" /\ verdict = "completed"
    BY DEF FinishCompleted, FinishFailed, Verdict, AfterFinish, Goto
<1>2. /\ pc \in {"complete", "fail"} /\ pc' \in {"close", "close_failed"}
      /\ UNCHANGED <<owner, parent, saved, script, pos, attempt, report>>
    BY <1>1 DEF FinishRun, FinishCompleted, FinishFailed, AfterFinish, Goto
<1>3. /\ current \in Approaches /\ current' = current /\ report[current] = 0
      /\ status[current] = "running" /\ owner[current] = attempt /\ attempt # 0
    BY <1>0, <1>2, CurrentIsApproach, CurrentIsUnreported
       DEF ResultsInv, StageInv, StageOwnsLifecycle, InStage, current
<1>4. \A a \in Approaches : a # current => status'[a] = status[a] /\ complete'[a] = complete[a]
    BY <1>0, <1>1, <1>3 DEF FinishRun, GaugeAfterFinish, TypeStores
<1>5. ReportedIsCompleted'
    BY <1>2, <1>3, <1>4 DEF ResultsInv, ReportedIsCompleted
<1>6. ClosingOwnsLifecycle'
    <2>1. ASSUME pc' = "close" PROVE complete'[current] = 1
        BY <1>0, <1>1, <1>3, <2>1 DEF FinishRun, GaugeAfterFinish, TypeStores
    <2> QED
        BY <1>2, <1>3, <2>1 DEF ClosingOwnsLifecycle
<1>7. ResultFilesAreOfCompletedStages'
    <2>1. saved[current] = 0 \/ saved[current] # owner[current]
        BY <1>3 DEF ResultsInv, ResultFilesAreOfCompletedStages
    <2> QED
        BY <1>2, <1>3, <1>4, <2>1 DEF ResultsInv, ResultFilesAreOfCompletedStages
<1> QED
    BY <1>2, <1>5, <1>6, <1>7
       DEF ResultsInv, ReportedIsBehind, ResultsAreOfThePast, ExitZeroMeansEvidence

\* A stage that returns hands main() the results of a completed lifecycle.
LEMMA ResultsCloseStage == IInv /\ ResultsInv /\ CloseStage => ResultsInv'
<1> SUFFICES ASSUME IInv, ResultsInv, CloseStage PROVE ResultsInv'
    OBVIOUS
<1>0. TypeStores /\ TypeProcess /\ StageInv
    BY DEF IInv, TypeInv
<1>1. CASE pc' = "idle"
    <2>1. exited' # "ok" /\ UNCHANGED <<status, owner, saved, attempt, report>>
        BY <1>1 DEF CloseStage, Exit, Goto, postgres
    <2> QED
        BY <1>1, <2>1, ResultsExit
<1>2. CASE pc' # "idle"
    <2>1. /\ pc = "close" /\ current \in Approaches /\ script \in Scripts
          /\ Len(script) \in Nat /\ pos \in Nat /\ 1 <= pos /\ pos <= Len(script)
        BY <1>0, CurrentIsApproach DEF CloseStage
    <2>2. /\ UNCHANGED <<status, owner, complete, saved, attempt, script>>
          /\ parent' = [parent EXCEPT ![current] = "finished"]
          /\ report' = [report EXCEPT ![current] = attempt]
          /\ \/ pos < Len(script) /\ pc' = "setup" /\ pos' = pos + 1
             \/ pos = Len(script) /\ pc' = "save" /\ pos' = pos
        BY <1>2, <2>1 DEF CloseStage, Exit, Goto, postgres
    <2>3. /\ status[current] = "completed" /\ complete[current] = 1
          /\ owner[current] = attempt /\ attempt # 0
        BY <1>0, <2>1 DEF StageInv, ClosingIsCompleted, ResultsInv, ClosingOwnsLifecycle
    <2>4. report'[current] = attempt /\ \A a \in Approaches : a # current => report'[a] = report[a]
        BY <1>0, <2>1, <2>2 DEF TypeProcess
    <2>5. ReportedIsCompleted'
        BY <1>0, <2>1, <2>2, <2>3, <2>4 DEF ResultsInv, ReportedIsCompleted, TypeStores
    <2>6. ReportedIsBehind'
        <3> SUFFICES ASSUME NEW i \in 1 .. Len(script)
                     PROVE  /\ pc' # "save" => (report'[script[i]] # 0 <=> i < pos')
                            /\ pc' = "save" => report'[script[i]] # 0
            BY <2>2 DEF ReportedIsBehind
        <3>1. script[i] \in Approaches /\ (report[script[i]] # 0 <=> i < pos)
            BY <2>1, ScriptIsSequence DEF ResultsInv, ReportedIsBehind
        <3>2. script[i] = current <=> i = pos
            BY <2>1, OncePerScript DEF current
        <3>3. report'[script[i]] # 0 <=> i < pos \/ i = pos
            BY <2>3, <2>4, <3>1, <3>2
        <3> QED
            BY <2>1, <2>2, <3>3
    <2>7. ResultsAreOfThePast'
        <3>1. attempt \in Nat
            BY <1>0 DEF TypeProcess, Attempts
        <3>2. report'[current] <= attempt
            BY <2>4, <3>1
        <3> QED
            BY <2>2, <2>4, <3>2 DEF ResultsInv, ResultsAreOfThePast
    <2> QED
        BY <2>2, <2>5, <2>6, <2>7
           DEF ResultsInv, ClosingOwnsLifecycle, ExitZeroMeansEvidence,
               ResultFilesAreOfCompletedStages
<1> QED
    BY <1>1, <1>2

\* What is saved is what main() holds: one result of every stage of the script.
LEMMA ResultsSaveResults == IInv /\ ResultsInv /\ SaveResults => ResultsInv'
<1> SUFFICES ASSUME IInv, ResultsInv, SaveResults PROVE ResultsInv'
    OBVIOUS
<1>0. TypeStores /\ TypeProcess
    BY DEF IInv, TypeInv
<1>1. /\ pc = "save" /\ pc' = "idle"
      /\ UNCHANGED <<status, owner, complete, parent, script, attempt, report>>
    BY DEF SaveResults, Exit, postgres
<1>2. \A a \in Approaches : saved'[a] = IF report[a] # 0 THEN report[a] ELSE saved[a]
    BY DEF SaveResults
<1>3. script \in Scripts /\ \A i \in 1 .. Len(script) : script[i] \in Approaches
    BY <1>0, <1>1, CurrentIsApproach, ScriptIsSequence
<1>4. \A i \in 1 .. Len(script) : report[script[i]] # 0
    BY <1>1 DEF ResultsInv, ReportedIsBehind
<1>5. ExitZeroMeansEvidence'
    BY <1>1, <1>2, <1>3, <1>4 DEF ResultsInv, ReportedIsCompleted, ExitZeroMeansEvidence
<1>6. ResultFilesAreOfCompletedStages'
    BY <1>1, <1>2 DEF ResultsInv, ReportedIsCompleted, ResultFilesAreOfCompletedStages
<1>7. ResultsAreOfThePast'
    BY <1>1, <1>2 DEF ResultsInv, ResultsAreOfThePast
<1> QED
    BY <1>1, <1>5, <1>6, <1>7
       DEF ResultsInv, ReportedIsCompleted, ReportedIsBehind, ClosingOwnsLifecycle

LEMMA ResultsStep == IInv /\ ResultsInv /\ [Next]_vars => ResultsInv'
<1> SUFFICES ASSUME IInv, ResultsInv, [Next]_vars PROVE ResultsInv'
    OBVIOUS
<1>1. CASE Annotate \/ Evaluate \/ LogEvaluation \/ Insert \/ RetryInsert \/ Verify \/ Aggregate
    <2>1. /\ pc \notin {"idle", "save"}
          /\ pc' \notin {"idle", "register", "close", "save"}
        BY <1>1 DEF Annotate, Evaluate, LogEvaluation, Insert, RetryInsert, Verify, Aggregate, Goto
    <2>2. UNCHANGED <<status, owner, complete, parent, saved, script, pos, attempt, report>>
        BY <1>1 DEF Annotate, Evaluate, LogEvaluation, Insert, RetryInsert, Verify, Aggregate,
                    postgres
    <2> QED
        BY <2>1, <2>2, ResultsMove
<1>2. CASE Setup
    BY <1>2, ResultsMove, ResultsExit DEF Setup, Exit, Goto, postgres
<1>3. CASE CloseFailedStage \/ Kill
    BY <1>3, ResultsExit DEF CloseFailedStage, Kill, Exit, postgres
<1>4. CASE UNCHANGED vars
    BY <1>4 DEF vars, postgres, process, ResultsInv, ReportedIsCompleted, ReportedIsBehind,
                ResultsAreOfThePast, ClosingOwnsLifecycle, ExitZeroMeansEvidence,
                ResultFilesAreOfCompletedStages, current
<1> QED
    BY <1>1, <1>2, <1>3, <1>4, ResultsLaunch, ResultsOpenStage, ResultsStartRun, ResultsFinish,
       ResultsCloseStage, ResultsSaveResults DEF Next, Step

LEMMA ResultsInvariant == Spec => []ResultsInv
BY ResultsInit, ResultsStep, InvariantHolds, PTL DEF Spec

\* "A pipeline stops instead of exporting incomplete evidence": a step script
\* exits 0 only when every approach of its script is completed in Postgres, the
\* gauge and MLflow, and the files it saved are of the attempts that own them.
THEOREM ExitZeroIsEvidence == Spec => []ExitZeroMeansEvidence
<1>1. ResultsInv => ExitZeroMeansEvidence
    BY DEF ResultsInv
<1> QED
    BY <1>1, ResultsInvariant, PTL

\* save_stage_results: a result file that is of the attempt owning its lifecycle
\* is of one that was completed.
THEOREM ResultFilesAreCompleted == Spec => []ResultFilesAreOfCompletedStages
<1>1. ResultsInv => ResultFilesAreOfCompletedStages
    BY DEF ResultsInv
<1> QED
    BY <1>1, ResultsInvariant, PTL
(***************************************************************************)
(* Action properties.                                                      *)
(***************************************************************************)
\* Only StartRun and finish_run write the status column.
LEMMA StatusWriters ==
    ASSUME [Next]_vars, status' # status
    PROVE  StartRun \/ FinishCompleted \/ FinishFailed
BY DEF Next, Step, vars, postgres, Launch, Setup, OpenStage, Annotate, Evaluate,
       LogEvaluation, Insert, RetryInsert, Verify, Aggregate, CloseStage,
       CloseFailedStage, SaveResults, Kill

\* A completed lifecycle is only reopened once stage_run has cleared the gauge,
\* and a verdict is never given twice.
THEOREM ReopenedBehindTheGauge == Spec => ReopenedOnlyBehindTheGauge
<1>1. ASSUME IInv, [Next]_vars
      PROVE  [\A a \in Approaches :
                 status[a] = "completed" /\ status'[a] # "completed" =>
                     status'[a] = "running" /\ complete[a] = 0]_vars
    <2>0. TypeStores /\ TypeProcess /\ StageInv
        BY <1>1 DEF IInv, TypeInv
    <2>1. SUFFICES ASSUME NEW a \in Approaches, status[a] = "completed",
                          status'[a] # "completed"
                   PROVE  status'[a] = "running" /\ complete[a] = 0
        OBVIOUS
    <2>2. CASE StartRun
        <3>1. pc = "register" /\ current \in Approaches /\ complete[current] = 0
            BY <2>0, <2>2, CurrentIsApproach DEF StartRun, StageInv, SinksAreDown
        <3>2. status' = status \/ status' = [status EXCEPT ![current] = "running"]
            BY <2>2 DEF StartRun
        <3> QED
            BY <2>0, <2>1, <3>1, <3>2 DEF TypeStores
    <2>3. CASE FinishCompleted \/ FinishFailed
        <3>1. InStage /\ current \in Approaches /\ status[current] = "running"
            BY <2>0, <2>3, CurrentIsApproach
               DEF FinishCompleted, FinishFailed, InStage, StageInv, StageOwnsLifecycle
        <3>2. PICK verdict : \/ status' = status
                             \/ status' = [status EXCEPT ![current] = verdict]
            BY <2>3 DEF FinishCompleted, FinishFailed, FinishRun
        <3> QED
            BY <2>0, <2>1, <3>1, <3>2 DEF TypeStores
    <2> QED
        BY <1>1, <2>1, <2>2, <2>3, StatusWriters
<1> QED
    BY <1>1, InvariantHolds, PTL DEF Spec, ReopenedOnlyBehindTheGauge

\* Only the two tries of MetricsStore.insert write answer rows.
LEMMA RowWriters ==
    ASSUME [Next]_vars, rows' # rows
    PROVE  Insert \/ RetryInsert
BY DEF Next, Step, vars, postgres, Launch, Setup, OpenStage, StartRun, Annotate,
       Evaluate, LogEvaluation, Verify, Aggregate, FinishCompleted, FinishFailed,
       FinishRun, CloseStage, CloseFailedStage, SaveResults, Kill

\* No answer row is written before start_run, after the verdict, or for a sample
\* the lifecycle does not expect.
THEOREM RowsUnderRunningLifecycle == Spec => RowsOnlyUnderRunningLifecycle
<1>1. ASSUME IInv, [Next]_vars
      PROVE  [\A a \in Approaches : \A s \in Samples :
                 rows'[a][s] # rows[a][s] =>
                     /\ status[a] = "running"
                     /\ rows'[a][s] = owner[a]
                     /\ s < expected[a]]_vars
    <2>0. TypeStores /\ TypeProcess /\ StageInv
        BY <1>1 DEF IInv, TypeInv
    <2>1. SUFFICES ASSUME NEW a \in Approaches, NEW s \in Samples,
                          rows'[a][s] # rows[a][s]
                   PROVE  /\ status[a] = "running"
                          /\ rows'[a][s] = owner[a]
                          /\ s < expected[a]
        OBVIOUS
    <2>2. pc \in {"insert", "retry"} /\ \E outcome : Upsert(outcome)
        BY <1>1, <2>1, RowWriters DEF Insert, RetryInsert
    <2>3. a = current /\ s = next /\ rows'[a][s] = attempt
        BY <2>0, <2>1, <2>2, UpsertRow
    <2>4. /\ status[current] = "running" /\ owner[current] = attempt
          /\ expected[current] = nPrompts /\ next < nPrompts
        BY <2>0, <2>2 DEF StageInv, StageOwnsLifecycle, InStage, TypeProcess
    <2> QED
        BY <2>3, <2>4
<1> QED
    BY <1>1, InvariantHolds, PTL DEF Spec, RowsOnlyUnderRunningLifecycle

(***************************************************************************)
(* Refinement: start_run begins a lifecycle, an applied insert stores an   *)
(* answer, an applied finish_run gives the verdict, and every other step   *)
(* leaves the ledger alone.                                                *)
(***************************************************************************)
Evidence(a) == {s \in Samples : owner[a] # 0 /\ rows[a][s] = owner[a]}

\* A running process has at least one prompt to evaluate.
PromptsLoaded == pc # "idle" => nPrompts \in 1 .. MaxPrompts

LEMMA PromptsStep == PromptsLoaded /\ [Next]_vars => PromptsLoaded'
<1> SUFFICES ASSUME PromptsLoaded, [Next]_vars PROVE PromptsLoaded'
    OBVIOUS
<1>1. CASE Launch
    BY <1>1 DEF Launch, PromptsLoaded
<1>2. CASE ~ Launch
    <2>1. UNCHANGED nPrompts /\ (pc = "idle" => pc' = "idle")
        BY <1>2 DEF Next, Step, vars, process, Setup, OpenStage, StartRun, Annotate,
           Evaluate, LogEvaluation, Insert, RetryInsert, Verify, Aggregate,
           FinishCompleted, FinishFailed, FinishRun, CloseStage, CloseFailedStage,
           SaveResults, Kill
    <2> QED
        BY <2>1 DEF PromptsLoaded
<1> QED
    BY <1>1, <1>2

LEMMA LedgerInit == Init => Ledger!Init
<1> SUFFICES ASSUME Init PROVE Ledger!Init
    OBVIOUS
<1>1. \A a \in Approaches : Evidence(a) = {}
    BY DEF Init, NoAttempt, Evidence
<1>2. [a \in Approaches |-> Evidence(a)] = [a \in Approaches |-> {}]
    BY <1>1
<1> QED
    BY <1>2 DEF Init, NoAttempt, Ledger!Init, Evidence

LEMMA LedgerBegin ==
    ASSUME IInv, PromptsLoaded, StartRun
    PROVE  Ledger!Begin(current, nPrompts) \/ UNCHANGED Ledger!vars
<1>0. TypeStores /\ TypeProcess /\ StageInv
    BY DEF IInv, TypeInv
<1>1. /\ pc = "register" /\ current \in Approaches /\ rows' = rows
      /\ attempt # 0 /\ \A s \in Samples : rows[current][s] # attempt
    BY <1>0, CurrentIsApproach
       DEF StartRun, StageInv, AttemptsAreFresh, TypeStores, TypeProcess, Attempts
<1>2. CASE UNCHANGED <<status, expected, owner>>
    BY <1>1, <1>2 DEF Ledger!vars
<1>3. CASE /\ status' = [status EXCEPT ![current] = "running"]
           /\ expected' = [expected EXCEPT ![current] = nPrompts]
           /\ owner' = [owner EXCEPT ![current] = attempt]
    <2>1. \A a \in Approaches :
              Evidence(a)' = IF a = current THEN {} ELSE Evidence(a)
        BY <1>0, <1>1, <1>3 DEF Evidence, Samples, TypeStores
    <2>2. [a \in Approaches |-> Evidence(a)'] =
              [[a \in Approaches |-> Evidence(a)] EXCEPT ![current] = {}]
        BY <1>1, <2>1
    <2> QED
        BY <1>3, <2>2 DEF Ledger!Begin, Evidence
<1> QED
    BY <1>2, <1>3 DEF StartRun

LEMMA LedgerStore ==
    ASSUME IInv, Insert \/ RetryInsert
    PROVE  \/ next \in Samples /\ current \in Approaches /\ Ledger!Store(current, next)
           \/ UNCHANGED Ledger!vars
<1>0. TypeStores /\ TypeProcess /\ StageInv
    BY DEF IInv, TypeInv
<1>1. /\ pc \in {"insert", "retry"}
      /\ UNCHANGED <<status, expected, owner>>
    BY DEF Insert, RetryInsert
<1>2. /\ current \in Approaches /\ next \in Samples /\ next < nPrompts
      /\ status[current] = "running" /\ owner[current] = attempt
      /\ expected[current] = nPrompts /\ attempt # 0
    BY <1>0, <1>1, CurrentIsApproach, Bounds
       DEF StageInv, StageOwnsLifecycle, InStage, TypeProcess, Samples
<1>3. CASE rows' = rows
    BY <1>1, <1>3 DEF Ledger!vars
<1>4. CASE rows' = [rows EXCEPT ![current][next] = attempt]
    <2>1. \A a \in Approaches :
              Evidence(a)' = IF a = current THEN Evidence(a) \cup {next} ELSE Evidence(a)
        BY <1>0, <1>1, <1>2, <1>4 DEF Evidence, Samples, TypeStores
    <2>2. [a \in Approaches |-> Evidence(a)'] =
              [[a \in Approaches |-> Evidence(a)] EXCEPT ![current] = @ \cup {next}]
        BY <1>2, <2>1
    <2> QED
        BY <1>1, <1>2, <2>2 DEF Ledger!Store, Evidence
<1> QED
    BY <1>2, <1>3, <1>4 DEF Insert, RetryInsert, Upsert

LEMMA LedgerVerdict ==
    ASSUME IInv, FinishCompleted \/ FinishFailed
    PROVE  /\ current \in Approaches
           /\ Ledger!Complete(current) \/ Ledger!Fail(current) \/ UNCHANGED Ledger!vars
<1>0. TypeStores /\ TypeProcess /\ StageInv
    BY DEF IInv, TypeInv
<1>1. PICK outcome \in WriteOutcomes, verdict \in {"completed", "failed"} :
         /\ FinishRun(outcome, verdict)
         /\ verdict = "completed" => pc = "complete"
    BY DEF FinishCompleted, FinishFailed, Verdict
<1>2. /\ pc \in {"complete", "fail"}
      /\ UNCHANGED <<rows, expected, owner>>
    BY <1>1 DEF FinishRun, FinishCompleted, FinishFailed
<1>3. /\ current \in Approaches /\ attempt # 0
      /\ status[current] = "running" /\ owner[current] = attempt
      /\ expected[current] = nPrompts /\ nPrompts \in 0 .. MaxPrompts
    BY <1>0, <1>2, CurrentIsApproach
       DEF StageInv, StageOwnsLifecycle, InStage, TypeProcess
<1>4. [a \in Approaches |-> Evidence(a)'] = [a \in Approaches |-> Evidence(a)]
    BY <1>2 DEF Evidence, Samples
<1>5. CASE UNCHANGED status
    BY <1>2, <1>3, <1>5 DEF Ledger!vars
<1>6. CASE status' = [status EXCEPT ![current] = "failed"]
    BY <1>2, <1>3, <1>4, <1>6 DEF Ledger!Fail, Evidence
<1>7. CASE /\ status' = [status EXCEPT ![current] = "completed"]
           /\ verdict = "completed"
    <2>1. \A s \in 0 .. nPrompts - 1 : rows[current][s] = attempt
        BY <1>0, <1>1, <1>7 DEF StageInv, VerifiedIsStored, Prompts
    <2>2. \A s \in Samples : rows[current][s] = attempt => s < nPrompts
        BY <1>0, <1>3 DEF StageInv, OnlyExpectedRows
    <2>3. Evidence(current) = 0 .. nPrompts - 1
        BY <1>3, <2>1, <2>2, Bounds DEF Evidence, Samples
    <2> QED
        BY <1>2, <1>3, <1>4, <1>7, <2>3 DEF Ledger!Complete, Evidence
<1> QED
    BY <1>1, <1>3, <1>5, <1>6, <1>7 DEF FinishRun

LEMMA LedgerStep ==
    IInv /\ PromptsLoaded /\ [Next]_vars => [Ledger!Next]_(Ledger!vars)
<1> SUFFICES ASSUME IInv, PromptsLoaded, [Next]_vars
             PROVE  [Ledger!Next]_(Ledger!vars)
    OBVIOUS
<1>1. CASE StartRun
    <2>1. current \in Approaches /\ nPrompts \in 1 .. MaxPrompts
        BY <1>1, CurrentIsApproach DEF StartRun, PromptsLoaded, IInv, TypeInv
    <2> QED
        BY <1>1, <2>1, LedgerBegin DEF Ledger!Next, Ledger!Begin
<1>2. CASE Insert \/ RetryInsert
    <2>1. Samples = Ledger!Samples
        BY DEF Samples, Ledger!Samples
    <2> QED
        BY <1>2, <2>1, LedgerStore DEF Ledger!Next, Ledger!Store
<1>3. CASE FinishCompleted \/ FinishFailed
    BY <1>3, LedgerVerdict DEF Ledger!Next
<1>4. CASE UNCHANGED <<rows, status, expected, owner>>
    BY <1>4 DEF Ledger!vars
<1> QED
    BY <1>1, <1>2, <1>3, <1>4
       DEF Next, Step, vars, postgres, Launch, Setup, OpenStage, Annotate, Evaluate,
           LogEvaluation, Verify, Aggregate, CloseStage, CloseFailedStage,
           SaveResults, Kill

\* run_stage_evaluation, stage_run and MetricsStore together implement the
\* ledger: no retry, lost acknowledgement, crash or re-run gives a lifecycle a
\* history evaluation_runs does not promise.
THEOREM StageImplementsLedger == Spec => ImplementsLedger
<1>1. Init => PromptsLoaded
    BY DEF Init, PromptsLoaded
<1>2. Spec => []PromptsLoaded
    BY <1>1, PromptsStep, PTL DEF Spec
<1> QED
    BY <1>2, InvariantHolds, LedgerInit, LedgerStep, PTL DEF Spec, ImplementsLedger, Ledger!Spec
=============================================================================
