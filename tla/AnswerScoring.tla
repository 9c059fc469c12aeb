--------------------------- MODULE AnswerScoring ---------------------------
(***************************************************************************)
(* How one stage of run_stage_evaluation gets from its prompts to scored   *)
(* answers: predict_fn under MLflow's harness, the scorers on what it      *)
(* returned, the loop that logs every sample, and the manual fallback.     *)
(* This is the Evaluate and MorePrompts of EvaluationStage from inside.    *)
(*                                                                         *)
(* Three things are shared by whatever runs at the same time: what the     *)
(* pipeline remembers of its last retrieval and generation, the rows of    *)
(* the side channel, and the verdicts the Evaluator remembers.  A text is  *)
(* a member of a small set; scores that are functions of the texts are     *)
(* left out, except for hit@k.                                             *)
(***************************************************************************)
EXTENDS Naturals, Sequences, FiniteSets

CONSTANTS
    Prompts,   \* the questions, by sample; two samples may ask the same
    Contexts,  \* what retrieval finds for a question: paragraphs of chunks
    Texts,     \* the answers a model may give
    Verdicts,  \* the scores the judge may give
    None,      \* no verdict, no meta, no answer
    Workers,   \* the threads of MLFLOW_GENAI_EVAL_MAX_WORKERS
    TopK,      \* vector_store.top_k
    DefaultK,  \* the k of evaluate_response when nobody names one
    CacheSize  \* _SCORE_CACHE_SIZE

Samples == 1 .. Len(Prompts)
Questions == {Prompts[s] : s \in Samples}
\* retrieve_context asks for top_k chunks, each of one paragraph or more.
Paragraphs == Seq([chunk : 1 .. TopK, truth : BOOLEAN])
Passes == {"validation", "evaluation", "fallback"}
Generations == [sample : Samples, pass : Passes]
Scorers == {"judge_groundedness", "quality_score"}

ASSUME ScoringAssumption ==
    /\ Prompts \in Seq(Questions) \ {<<>>}
    /\ \A q \in Questions : /\ Contexts[q] \in Paragraphs
                           /\ \A i \in 1 .. Len(Contexts[q]) : Contexts[q][i].chunk <= i
    /\ None \notin Texts \cup Verdicts
    /\ \A n \in {TopK, DefaultK, CacheSize} : n \in Nat \ {0}

VARIABLES
    rag,       \* use_rag
    judge,     \* is there a judge_fn?
    phase,     \* where the stage is
    todo,      \* samples the harness has not given to a worker
    worker,    \* what each worker is doing
    lastGeneration, \* last_generation_meta: of which generation it is
    lastRetrieval,  \* last_retrieval_meta: for which generation it was
    sideChannel,    \* side_channel
    scores,    \* per sample and scorer: not due, due, being asked, or scored
    cache,     \* Evaluator._judge_cache
    next,      \* the sample the loop is at
    answer,    \* the answer the fallback is scoring
    logged,    \* the calls of log_evaluation
    contested  \* ghost: texts the judge was asked about twice

harness == <<todo, worker, sideChannel>>
meta == <<lastGeneration, lastRetrieval>>
judging == <<scores, cache, contested>>
loop == <<next, answer, logged>>
setup == <<rag, judge>>
scoringVars == <<setup, phase, harness, meta, judging, loop>>

Idle == [at |-> "idle"]
Unscored == [scorer \in Scorers |-> [at |-> "not due"]]

\* "MLflow otherwise spends a whole extra generation": unless its variable is set
\* to true, the harness begins by trying the first sample.
ScoringInit ==
    /\ rag \in BOOLEAN
    /\ judge \in {FALSE, rag}
    /\ phase \in {"validating", "evaluating"}
    /\ todo = Samples
    /\ worker = [w \in Workers |-> Idle]
    /\ lastGeneration = None
    /\ lastRetrieval = None
    /\ sideChannel = <<>>
    /\ scores = [s \in Samples |-> Unscored]
    /\ cache = << >>
    /\ next = 1
    /\ answer = None
    /\ logged = <<>>
    /\ contested = {}
-----------------------------------------------------------------------------
\* predict_fn

Busy == {w \in Workers : worker[w].at # "idle"}

\* Ghost: whoever works beside somebody else is not alone.
Beside(others) ==
    [w \in Workers |-> IF w \in others THEN [worker[w] EXCEPT !.alone = FALSE] ELSE worker[w]]

Begin(w, s, pass) ==
    worker' = [Beside(Busy) EXCEPT ![w] =
                  [at |-> IF rag THEN "retrieving" ELSE "generating",
                   gen |-> [sample |-> s, pass |-> pass],
                   alone |-> Busy = {}]]

Validate ==
    /\ phase = "validating"
    /\ Busy = {}
    /\ \E w \in Workers : Begin(w, 1, "validation")
    /\ UNCHANGED <<setup, phase, todo, sideChannel, meta, judging, loop>>

Predict(w) ==
    /\ phase = "evaluating"
    /\ worker[w].at = "idle"
    /\ \E s \in todo :
          /\ \A other \in todo : s <= other
          /\ todo' = todo \ {s}
          /\ Begin(w, s, "evaluation")
    /\ UNCHANGED <<setup, phase, sideChannel, meta, judging, loop>>

\* retrieve_context.
Retrieve(w) ==
    /\ worker[w].at = "retrieving"
    /\ lastRetrieval' = worker[w].gen
    /\ worker' = [worker EXCEPT ![w].at = "generating"]
    /\ UNCHANGED <<setup, phase, todo, sideChannel, lastGeneration, judging, loop>>

\* generate_response.
Generate(w) ==
    /\ worker[w].at = "generating"
    /\ lastGeneration' = worker[w].gen
    /\ \E text \in Texts :
          worker' = [worker EXCEPT ![w] =
                        [at |-> "recording", gen |-> @.gen, alone |-> @.alone, text |-> text]]
    /\ UNCHANGED <<setup, phase, todo, sideChannel, lastRetrieval, judging, loop>>

\* A validation that is over, whichever way.
AfterPrediction(w) == phase' = "evaluating" /\ worker' = [worker EXCEPT ![w] = Idle]

\* _row_from_pipeline, whose fields are of the pipeline's last calls, and the append.
RecordRow(w) ==
    /\ worker[w].at = "recording"
    /\ sideChannel' = Append(sideChannel,
          [gen |-> worker[w].gen, text |-> worker[w].text, alone |-> worker[w].alone,
           generation |-> lastGeneration, retrieval |-> IF rag THEN lastRetrieval ELSE None])
    /\ scores' = IF worker[w].gen.pass = "evaluation" /\ judge
                 THEN [scores EXCEPT ![worker[w].gen.sample] =
                          [scorer \in Scorers |-> [at |-> "due", text |-> worker[w].text]]]
                 ELSE scores
    /\ AfterPrediction(w)
    /\ UNCHANGED <<setup, todo, meta, cache, contested, loop>>

\* It raises: MLflow notes it and goes on without an answer.
PredictFails(w) ==
    /\ worker[w].at \in {"retrieving", "generating"}
    /\ AfterPrediction(w)
    /\ UNCHANGED <<setup, todo, sideChannel, meta, judging, loop>>
-----------------------------------------------------------------------------
\* The judge

\* The key of a verdict; the context is what was retrieved for the question.
Key(s, text) == <<Prompts[s], text>>

Remembered(key, verdict) ==
    IF Cardinality(DOMAIN cache) < CacheSize
    THEN [k \in DOMAIN cache \cup {key} |-> IF k = key THEN verdict ELSE cache[k]]
    ELSE cache

\* Seeded fault: the judge goes through generate_response.
JudgeGenerates == lastGeneration' = None /\ UNCHANGED lastRetrieval

\* judge_response: "does not clobber last_generation_meta".
JudgeResponse == UNCHANGED meta

Asking(key) ==
    \E s \in Samples, scorer \in Scorers :
        scores[s][scorer].at = "asking" /\ Key(s, scores[s][scorer].text) = key

Scored(s, scorer, verdict) ==
    scores' = [scores EXCEPT ![s][scorer] =
                  [at |-> "scored", text |-> @.text, verdict |-> verdict]]

\* A scorer looks for the verdict ...
LookUp(s, scorer) ==
    LET due == scores[s][scorer]
    IN  /\ due.at = "due"
        /\ IF Key(s, due.text) \in DOMAIN cache
              THEN /\ Scored(s, scorer, cache[Key(s, due.text)])
                   /\ UNCHANGED contested
              ELSE /\ scores' = [scores EXCEPT ![s][scorer].at = "asking"]
                   /\ contested' = contested \cup
                         (IF Asking(Key(s, due.text)) THEN {Key(s, due.text)} ELSE {})
        /\ phase \in {"evaluating", "validating"}
        /\ UNCHANGED <<setup, phase, harness, meta, cache, loop>>

\* What a judge that failed, or answered without a digit, has said.
Outcomes == Verdicts \cup {None}

\* Ghost: there was no room to remember it.
Forgotten(key) == IF Cardinality(DOMAIN cache) < CacheSize THEN {} ELSE {key}

\* ... and has asked for it.
Ask(s, scorer) ==
    LET due == scores[s][scorer]
    IN  /\ due.at = "asking"
        /\ phase \in {"evaluating", "validating"}
        /\ \E verdict \in Outcomes :
              /\ Scored(s, scorer, verdict)
              /\ cache' = Remembered(Key(s, due.text), verdict)
        /\ contested' = contested \cup Forgotten(Key(s, due.text))
        /\ JudgeResponse
        /\ UNCHANGED <<setup, phase, harness, loop>>

\* evaluate_response on the main thread.
Judged(s, text, verdict) ==
    LET key == Key(s, text)
    IN  \/ /\ ~ judge
           /\ verdict = None
           /\ UNCHANGED <<cache, contested, meta>>
        \/ /\ judge /\ key \in DOMAIN cache
           /\ verdict = cache[key]
           /\ UNCHANGED <<cache, contested, meta>>
        \/ /\ judge /\ key \notin DOMAIN cache
           /\ cache' = Remembered(key, verdict)
           /\ contested' = contested \cup Forgotten(key)
           /\ JudgeResponse
-----------------------------------------------------------------------------
\* mlflow.genai.evaluate ends

EvaluateReturns ==
    /\ phase = "evaluating"
    /\ todo = {}
    /\ Busy = {}
    /\ \A s \in Samples, scorer \in Scorers : scores[s][scorer].at \in {"not due", "scored"}
    /\ phase' = "logging"
    /\ UNCHANGED <<setup, harness, meta, judging, loop>>

\* What the try statement is about.
Guarded == {"validating", "evaluating"}

\* Every prompt is asked again, from the first; the rows and the assessments there
\* are stay unused.
EvaluateRaises ==
    /\ phase \in Guarded
    /\ phase' = "fallback"
    /\ next' = 1
    /\ todo' = {}
    /\ worker' = [w \in Workers |-> Idle]
    /\ sideChannel' = <<>>
    /\ scores' = [s \in Samples |-> Unscored]
    /\ UNCHANGED <<setup, meta, cache, contested, answer, logged>>
-----------------------------------------------------------------------------
\* by_sample and the loop over the prompts

\* A row replaces an earlier one of its sample.
RowsOf(s) == {i \in 1 .. Len(sideChannel) : sideChannel[i].gen.sample = s}
BySample(s) == sideChannel[CHOOSE i \in RowsOf(s) : \A j \in RowsOf(s) : j <= i]

Log(row, verdict) ==
    logged' = Append(logged, [sample |-> next, gen |-> row.gen, text |-> row.text,
                              generation |-> row.generation, retrieval |-> row.retrieval,
                              alone |-> row.alone, verdict |-> verdict])

LogSample ==
    /\ phase = "logging"
    /\ next \in Samples
    /\ RowsOf(next) # {}
    /\ \E verdict \in Outcomes :
          /\ Judged(next, BySample(next).text, verdict)
          /\ Log(BySample(next), verdict)
    /\ next' = next + 1
    /\ UNCHANGED <<setup, phase, harness, scores, answer>>

SkipSample ==
    /\ phase = "logging"
    /\ next \in Samples
    /\ RowsOf(next) = {}
    /\ next' = next + 1
    /\ UNCHANGED <<setup, phase, harness, meta, judging, answer, logged>>

\* _manual_fallback: retrieve and generate ...
FallbackAnswers ==
    /\ phase = "fallback"
    /\ answer = None
    /\ next \in Samples
    /\ answer' \in Texts
    /\ LET gen == [sample |-> next, pass |-> "fallback"]
       IN  /\ lastGeneration' = gen
           /\ lastRetrieval' = IF rag THEN gen ELSE lastRetrieval
    /\ UNCHANGED <<setup, phase, harness, judging, next, logged>>

\* ... evaluate_response, and only then the meta of the generation.
FallbackScores ==
    /\ phase = "fallback"
    /\ answer # None
    /\ \E verdict \in Outcomes :
          /\ Judged(next, answer, verdict)
          /\ Log([gen |-> [sample |-> next, pass |-> "fallback"], text |-> answer,
                  alone |-> TRUE, generation |-> lastGeneration',
                  retrieval |-> IF rag THEN lastRetrieval' ELSE None], verdict)
    /\ answer' = None
    /\ next' = next + 1
    /\ UNCHANGED <<setup, phase, harness, scores>>

\* A generation that raises ends the stage.
FallbackFails ==
    /\ phase = "fallback"
    /\ answer = None
    /\ next \in Samples
    /\ phase' = "failed"
    /\ UNCHANGED <<setup, harness, meta, judging, loop>>

\* Seeded fault: nobody counts.
EndRegardless ==
    /\ phase \in {"logging", "fallback"}
    /\ next > Len(Prompts)
    /\ phase' = "done"
    /\ UNCHANGED <<setup, harness, meta, judging, loop>>

\* "n of m prompts produced no answer".
End ==
    /\ phase \in {"logging", "fallback"}
    /\ next > Len(Prompts)
    /\ phase' = IF Len(logged) = Len(Prompts) THEN "done" ELSE "failed"
    /\ UNCHANGED <<setup, harness, meta, judging, loop>>

-----------------------------------------------------------------------------
\* retrieval_hit_at_k: the context is split at its blank lines.
HitAtK(context, k) == \E i \in 1 .. Len(context) : i <= k /\ context[i].truth

\* The hit a row is about, the one in its quality_score assessment, and the one
\* that is an assessment itself, for which no k is named.
RowHit(q) == HitAtK(Contexts[q], TopK)
BlendedHit(q) == HitAtK(Contexts[q], DefaultK)
AssessedHit(q) == HitAtK(Contexts[q], Len(Contexts[q]))
-----------------------------------------------------------------------------
ScoringNext ==
    \/ Validate
    \/ \E w \in Workers : Predict(w) \/ Retrieve(w) \/ Generate(w) \/ RecordRow(w) \/ PredictFails(w)
    \/ \E s \in Samples, scorer \in Scorers : LookUp(s, scorer) \/ Ask(s, scorer)
    \/ EvaluateReturns \/ EvaluateRaises
    \/ LogSample \/ SkipSample
    \/ FallbackAnswers \/ FallbackScores \/ FallbackFails
    \/ End

ScoringSpec == ScoringInit /\ [][ScoringNext]_scoringVars
-----------------------------------------------------------------------------
\* Every variable keeps its type, and no sample is logged more than once.
ScoringTypeOK ==
    /\ {rag, judge} \subseteq BOOLEAN
    /\ phase \in {"validating", "evaluating", "logging", "fallback", "done", "failed"}
    /\ todo \subseteq Samples
    /\ \A w \in Workers :
          /\ worker[w].at \in {"idle", "retrieving", "generating", "recording"}
          /\ worker[w].at # "idle" => worker[w].gen \in Generations
    /\ {lastGeneration, lastRetrieval} \subseteq Generations \cup {None}
    /\ \A i \in 1 .. Len(sideChannel) : sideChannel[i].gen \in Generations
    /\ \A s \in Samples, scorer \in Scorers :
          scores[s][scorer].at \in {"not due", "due", "asking", "scored"}
    /\ DOMAIN cache \cup contested \subseteq Questions \X Texts
    /\ \A key \in DOMAIN cache : cache[key] \in Outcomes
    /\ next \in 1 .. Len(Prompts) + 1
    /\ answer \in Texts \cup {None}
    /\ Len(logged) < next

\* A row is about its own prompt, and is measured by the calls its answer came
\* from, if nothing else was generated at the same time.
MeasuredOnItsOwn(row) ==
    /\ row.gen.sample = row.sample
    /\ row.alone => /\ row.generation = row.gen
                    /\ row.retrieval = IF rag THEN row.gen ELSE None

\* What its assessments say of an answer the harness has scored is what its row
\* says: the judge's verdict, in both places it counts, unless the judge was asked
\* twice, and hit@k.
AssessedAsLogged(row) ==
    LET score == scores[row.sample]
        context == Contexts[Prompts[row.sample]]
    IN  /\ \A scorer \in Scorers :
              /\ row.gen.pass = "evaluation"
              /\ score[scorer].at = "scored"
              /\ Key(row.sample, row.text) \notin contested
              => score[scorer].verdict = row.verdict
        /\ (\A i \in 1 .. Len(context) : context[i].chunk = i) =>
              /\ RowHit(Prompts[row.sample]) = BlendedHit(Prompts[row.sample])
              /\ RowHit(Prompts[row.sample]) = AssessedHit(Prompts[row.sample])

\* "A scorer that computes a slightly different quality_score than the one written
\* to Postgres is the kind of discrepancy nobody finds for months"; and a row's
\* latency is that of its answer, whether it went through the harness, beside the
\* judge's own generations, or through the fallback.
EvidenceIsOfOneAnswer ==
    \A i \in 1 .. Len(logged) : MeasuredOnItsOwn(logged[i]) /\ AssessedAsLogged(logged[i])
-----------------------------------------------------------------------------
Promise == INSTANCE AnswerLog WITH
    NPrompts <- Len(Prompts),
    entries <- [i \in 1 .. Len(logged) |-> logged[i].sample],
    outcome <- IF phase \in {"done", "failed"} THEN phase ELSE "open"

\* However its prompts are answered, by threads that fail now and then or by a fallback
\* that begins again, a stage logs them in order, none twice, and ends well exactly when
\* none is missing.
ImplementsAnswerLog == Promise!Spec
=============================================================================
