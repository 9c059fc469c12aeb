---------------------------- MODULE AnswerProofs ----------------------------
(***************************************************************************)
(* Proofs about what an answer rests on: the index its context is          *)
(* retrieved from (VectorIndex), for every set of settings, every vector   *)
(* length, any number of processes and every set of faults, and the way it *)
(* is measured and scored (AnswerScoring), for any prompts, contexts,      *)
(* texts, verdicts and workers and a memory of any size; that a stage      *)
(* implements AnswerLog; and what its hit@k, which splits chunks, is worth.*)
(***************************************************************************)
EXTENDS AnswerScoring, VectorIndex, WellFoundedInduction, TLAPS

(***************************************************************************)
(* VectorIndex.  Its inductive invariant: what is retrieved from depends   *)
(* on a fingerprint some earlier process has left, so the link between the *)
(* fingerprint and the vectors has to hold at every step of a rebuild, not *)
(* only between processes.                                                 *)
(***************************************************************************)

\* Vectors that were recorded are those of the fingerprint, even in the middle of
\* a rebuild.
RecordedIsOfTheIndex ==
    ~ unrecorded => \A i \in 1 .. Len(index) : index[i] = fingerprint

\* A process that probes has found no fingerprint, or that of its own settings.
ProbesOwnFingerprint ==
    pc = "probe" => stored = fingerprint /\ fingerprint \in {NoConfig, config}

\* from_documents inserts into a collection it has just made empty.
InsertsIntoEmpty == pc = "insert" => index = Empty

\* The fingerprint is written over one build, of the process's own settings.
RecordsItsBuild == pc = "record" => index = <<config>>

IndexInv ==
    /\ TypeOK
    /\ RecordedIsOfTheIndex
    /\ ProbesOwnFingerprint
    /\ InsertsIntoEmpty
    /\ RecordsItsBuild
    /\ RetrievesFromMatchingBuild

\* A collection is empty or holds the vectors of one build.
LEMMA OneBuild ==
    ASSUME TypeOK
    PROVE  \/ index = Empty /\ Len(index) = 0
           \/ /\ Len(index) = 1
              /\ index[1] \in Configs
              /\ index = <<index[1]>>
              /\ index # Empty
BY DEF TypeOK, Empty

LEMMA AppendToEmpty == \A c : Append(Empty, c) = <<c>> /\ Len(<<c>>) = 1 /\ <<c>>[1] = c /\ <<c>> # Empty
BY DEF Empty

LEMMA NothingToBeOf ==
    ASSUME NEW content, NEW file, content = Empty
    PROVE  \A i \in 1 .. Len(content) : content[i] = file
BY DEF Empty

LEMMA InitIndexInv == Init => IndexInv
<1> SUFFICES ASSUME Init PROVE IndexInv
    OBVIOUS
<1>1. MaxProcesses \in Nat
    BY ConstantsAssumption
<1>2. TypeOK
    <2>0. processes \in 0 .. MaxProcesses
        BY <1>1 DEF Init
    <2>1. unrecorded \in BOOLEAN
        BY DEF Init
    <2>2. index = Empty /\ config \in Configs /\ stored = NoConfig
        BY DEF Init
    <2>3. fingerprint \in Configs \cup {NoConfig} /\ settings \in Configs
        BY DEF Init
    <2>4. pc = "idle"
        BY DEF Init
    <2> QED
        BY <2>0, <2>1, <2>2, <2>3, <2>4 DEF TypeOK
<1>3. Len(index) = 0
    BY DEF Init, Empty
<1> QED
    BY <1>2, <1>3 DEF Init, IndexInv, RecordedIsOfTheIndex, ProbesOwnFingerprint, InsertsIntoEmpty,
       RecordsItsBuild, RetrievesFromMatchingBuild

LEMMA StartIndexInv == IndexInv /\ Start => IndexInv'
<1> SUFFICES ASSUME IndexInv, Start PROVE IndexInv'
    OBVIOUS
<1>1. TypeOK'
    BY ConstantsAssumption DEF IndexInv, Start, TypeOK
<1> QED
    BY <1>1 DEF IndexInv, Start, RecordedIsOfTheIndex, ProbesOwnFingerprint, InsertsIntoEmpty,
       RecordsItsBuild, RetrievesFromMatchingBuild

LEMMA EditConfigIndexInv == IndexInv /\ EditConfig => IndexInv'
BY DEF IndexInv, EditConfig, process, TypeOK, RecordedIsOfTheIndex, ProbesOwnFingerprint,
   InsertsIntoEmpty, RecordsItsBuild, RetrievesFromMatchingBuild

\* Without its fingerprint a collection is unrecorded; without its collection a
\* fingerprint is about nothing.
LEMMA LoseVolumeIndexInv == IndexInv /\ LoseVolume => IndexInv'
<1> SUFFICES ASSUME IndexInv, LoseVolume PROVE IndexInv'
    OBVIOUS
<1>1. TypeOK'
    BY DEF IndexInv, LoseVolume, process, TypeOK
<1>2. RecordedIsOfTheIndex'
    <2>1. CASE index' = Empty
        BY <2>1, NothingToBeOf DEF RecordedIsOfTheIndex
    <2>2. CASE UNCHANGED index /\ unrecorded' = (unrecorded \/ index # Empty)
        <3>1. ~ unrecorded' => index' = Empty
            BY <2>2
        <3> QED
            BY <3>1, NothingToBeOf DEF RecordedIsOfTheIndex
    <2> QED
        BY <2>1, <2>2 DEF LoseVolume
<1> QED
    BY <1>1, <1>2 DEF IndexInv, LoseVolume, process, ProbesOwnFingerprint, InsertsIntoEmpty,
       RecordsItsBuild, RetrievesFromMatchingBuild

LEMMA CheckFingerprintIndexInv == IndexInv /\ CheckFingerprint => IndexInv'
<1> SUFFICES ASSUME IndexInv, CheckFingerprint PROVE IndexInv'
    OBVIOUS
<1>1. TypeOK'
    BY DEF IndexInv, CheckFingerprint, TypeOK
<1>2. ProbesOwnFingerprint'
    BY DEF IndexInv, CheckFingerprint, Stale, ProbesOwnFingerprint
<1> QED
    BY <1>1, <1>2 DEF IndexInv, CheckFingerprint, RecordedIsOfTheIndex, InsertsIntoEmpty,
       RecordsItsBuild, RetrievesFromMatchingBuild

\* An index that was recorded is not adopted: its fingerprint is there.
LEMMA ProbeIndexInv == IndexInv /\ Probe => IndexInv'
<1> SUFFICES ASSUME IndexInv, Probe PROVE IndexInv'
    OBVIOUS
<1>0. TypeOK /\ NoConfig \notin Configs
    BY ConstantsAssumption DEF IndexInv
<1>1. /\ pc = "probe" /\ stored = fingerprint /\ fingerprint \in {NoConfig, config}
      /\ pc' \in {"read", "use"}
      /\ UNCHANGED <<index, unrecorded, settings, config, stored, processes>>
      /\ fingerprint' \in {fingerprint, config}
    BY DEF IndexInv, Probe, Written, process, ProbesOwnFingerprint
<1>2. TypeOK'
    BY <1>0, <1>1 DEF TypeOK
<1>3. ASSUME pc' = "use"
      PROVE  Len(index) = 1 /\ (~ unrecorded => index[1] = config /\ fingerprint = config)
    <2>1. index # Empty
        BY <1>3 DEF Probe, Usable
    <2>2. Len(index) = 1 /\ index[1] \in Configs
        BY <1>0, <2>1, OneBuild
    <2>3. ~ unrecorded => index[1] = fingerprint
        BY <2>2 DEF IndexInv, RecordedIsOfTheIndex
    <2> QED
        BY <1>0, <1>1, <2>2, <2>3
<1>4. RecordedIsOfTheIndex'
    <2>1. CASE pc' = "use"
        BY <1>1, <1>3, <2>1 DEF IndexInv, RecordedIsOfTheIndex
    <2>2. CASE pc' = "read"
        BY <1>1, <2>2 DEF IndexInv, Probe, RecordedIsOfTheIndex
    <2> QED
        BY <1>1, <2>1, <2>2
<1> QED
    BY <1>1, <1>2, <1>3, <1>4 DEF IndexInv, ProbesOwnFingerprint, InsertsIntoEmpty,
       RecordsItsBuild, RetrievesFromMatchingBuild

LEMMA ReadDocumentsIndexInv == IndexInv /\ ReadDocuments => IndexInv'
BY DEF IndexInv, ReadDocuments, process, TypeOK, RecordedIsOfTheIndex, ProbesOwnFingerprint,
   InsertsIntoEmpty, RecordsItsBuild, RetrievesFromMatchingBuild

\* What is left of the collection is what was there, or nothing.
LEMMA ShrinkIndexInv ==
    ASSUME IndexInv,
           index' \in {index, Empty},
           pc' \in {"idle", "embed", "insert"},
           pc' = "insert" => index' = Empty,
           UNCHANGED <<fingerprint, settings, unrecorded, process>>
    PROVE  IndexInv'
<1>1. Len(Empty) = 0
    BY DEF Empty
<1>2. TypeOK'
    BY DEF IndexInv, TypeOK, process
<1>3. RecordedIsOfTheIndex'
    BY <1>1 DEF IndexInv, RecordedIsOfTheIndex
<1> QED
    BY <1>2, <1>3 DEF IndexInv, ProbesOwnFingerprint, InsertsIntoEmpty, RecordsItsBuild,
       RetrievesFromMatchingBuild

LEMMA DropCollectionIndexInv == IndexInv /\ DropCollection => IndexInv'
BY ShrinkIndexInv DEF DropCollection

LEMMA EmbedIndexInv == IndexInv /\ Embed => IndexInv'
BY ShrinkIndexInv DEF Embed, Recreated

LEMMA InsertVectorsIndexInv == IndexInv /\ InsertVectors => IndexInv'
<1> SUFFICES ASSUME IndexInv, InsertVectors PROVE IndexInv'
    OBVIOUS
<1>1. /\ index = Empty
      /\ index' \in {Empty, <<config>>}
      /\ pc' \in {"record", "idle"}
      /\ pc' = "record" => index' = <<config>>
      /\ unrecorded' = (index' # Empty /\ fingerprint # config)
      /\ UNCHANGED <<fingerprint, settings, config, stored, processes>>
    BY AppendToEmpty DEF IndexInv, InsertVectors, InsertsIntoEmpty, process
<1>2. TypeOK'
    BY <1>1 DEF IndexInv, TypeOK
<1>3. RecordedIsOfTheIndex'
    <2>1. CASE index' = Empty
        BY <2>1, NothingToBeOf DEF RecordedIsOfTheIndex
    <2>2. CASE index' = <<config>>
        <3>1. index' # Empty /\ Len(index') = 1 /\ index'[1] = config
            BY <2>2, AppendToEmpty
        <3>2. ~ unrecorded' => fingerprint' = config
            BY <1>1, <3>1
        <3> QED
            BY <3>1, <3>2 DEF RecordedIsOfTheIndex
    <2> QED
        BY <1>1, <2>1, <2>2
<1> QED
    BY <1>1, <1>2, <1>3 DEF IndexInv, ProbesOwnFingerprint, InsertsIntoEmpty, RecordsItsBuild,
       RetrievesFromMatchingBuild

LEMMA RecordIndexInv == IndexInv /\ Record => IndexInv'
<1> SUFFICES ASSUME IndexInv, Record PROVE IndexInv'
    OBVIOUS
<1>1. /\ index = <<config>> /\ pc' = "use"
      /\ UNCHANGED <<index, settings, config, stored, processes>>
      /\ \/ fingerprint' = config /\ unrecorded' = FALSE
         \/ UNCHANGED <<fingerprint, unrecorded>>
    BY DEF IndexInv, Record, Written, RecordsItsBuild, process
<1>2. Len(index) = 1 /\ index[1] = config
    BY <1>1, AppendToEmpty
<1>3. TypeOK'
    BY <1>1 DEF IndexInv, TypeOK
<1>4. RecordedIsOfTheIndex'
    BY <1>1, <1>2 DEF IndexInv, RecordedIsOfTheIndex
<1> QED
    BY <1>1, <1>2, <1>3, <1>4 DEF IndexInv, ProbesOwnFingerprint, InsertsIntoEmpty,
       RecordsItsBuild, RetrievesFromMatchingBuild

\* A process that ends, by itself or killed, leaves what is there.
LEMMA EndIndexInv == IndexInv /\ (Use \/ Kill) => IndexInv'
BY DEF IndexInv, Use, Kill, process, TypeOK, RecordedIsOfTheIndex, ProbesOwnFingerprint,
   InsertsIntoEmpty, RecordsItsBuild, RetrievesFromMatchingBuild

LEMMA NextIndexInv == IndexInv /\ [Next]_vars => IndexInv'
<1> SUFFICES ASSUME IndexInv, [Next]_vars PROVE IndexInv'
    OBVIOUS
<1>1. CASE UNCHANGED vars
    BY <1>1 DEF vars, process, IndexInv, TypeOK, RecordedIsOfTheIndex, ProbesOwnFingerprint,
       InsertsIntoEmpty, RecordsItsBuild, RetrievesFromMatchingBuild
<1> QED
    BY <1>1, StartIndexInv, EditConfigIndexInv, LoseVolumeIndexInv, CheckFingerprintIndexInv, ProbeIndexInv,
       ReadDocumentsIndexInv, DropCollectionIndexInv, EmbedIndexInv, InsertVectorsIndexInv, RecordIndexInv, EndIndexInv
       DEF Next, Step

LEMMA IndexInvariant == Spec => []IndexInv
BY InitIndexInv, NextIndexInv, PTL DEF Spec

\* The collection never holds two builds, and every variable keeps its type.
THEOREM IndexTypeCorrect == Spec => []TypeOK
<1>1. IndexInv => TypeOK
    BY DEF IndexInv
<1> QED
    BY <1>1, IndexInvariant, PTL

\* RAGPipeline.retrieve_context: whatever was edited, lost, interrupted or half
\* rebuilt before, one complete build is retrieved from, and one that has a
\* fingerprint is of the settings its queries are embedded with.
THEOREM RetrievalMatches == Spec => []RetrievesFromMatchingBuild
<1>1. IndexInv => RetrievesFromMatchingBuild
    BY DEF IndexInv
<1> QED
    BY <1>1, IndexInvariant, PTL

\* _write_fingerprint: between processes the file is about the vectors in Postgres.
THEOREM FingerprintIsTrue == Spec => []FingerprintIsOfTheIndex
<1>1. IndexInv => FingerprintIsOfTheIndex
    BY DEF IndexInv, RecordedIsOfTheIndex, FingerprintIsOfTheIndex
<1> QED
    BY <1>1, IndexInvariant, PTL
-----------------------------------------------------------------------------
(***************************************************************************)
(* AnswerScoring.  Its inductive invariant: what ties a row to the calls   *)
(* of its answer while a worker is in them, and a verdict to the one the   *)
(* judge gave, from the scorer that asks to the loop that logs.            *)
(***************************************************************************)

Measures == Generations \cup {None}
WorkerStates ==
    {Idle} \cup [at : {"retrieving", "generating"}, gen : Generations, alone : BOOLEAN]
           \cup [at : {"recording"}, gen : Generations, alone : BOOLEAN, text : Texts]
Rows == [gen : Generations, text : Texts, alone : BOOLEAN,
         generation : Measures, retrieval : Measures]
LoggedRows == [sample : Samples, gen : Generations, text : Texts, generation : Measures,
               retrieval : Measures, alone : BOOLEAN, verdict : Outcomes]
ScoreStates ==
    [at : {"not due"}] \cup [at : {"due", "asking"}, text : Texts]
                       \cup [at : {"scored"}, text : Texts, verdict : Outcomes]

\* The types, with the fields of the records.
Typed ==
    /\ ScoringTypeOK
    /\ worker \in [Workers -> WorkerStates]
    /\ sideChannel \in Seq(Rows)
    /\ scores \in [Samples -> [Scorers -> ScoreStates]]
    /\ logged \in Seq(LoggedRows)

\* The harness is at work only inside the try statement, and nothing is logged there.
HarnessIsGuarded ==
    /\ \A w \in Workers : worker[w].at # "idle" => phase \in Guarded
    /\ phase \in Guarded => logged = <<>>
    /\ phase \notin Guarded =>
          \A s \in Samples, scorer \in Scorers : scores[s][scorer].at \in {"not due", "scored"}

\* Who is alone has no other worker beside it, and the pipeline remembers its calls.
AloneIsMeasured ==
    \A w \in Workers :
        worker[w].at # "idle" /\ worker[w].alone =>
            /\ \A v \in Workers : worker[v].at # "idle" => v = w
            /\ worker[w].at # "retrieving" /\ rag => lastRetrieval = worker[w].gen
            /\ worker[w].at = "recording" => lastGeneration = worker[w].gen

\* An answer of the fallback is of the prompt the loop is at, and so is what the
\* pipeline remembers until it is logged.
FallbackIsMeasured ==
    answer # None =>
        /\ phase = "fallback"
        /\ next \in Samples
        /\ lastGeneration = [sample |-> next, pass |-> "fallback"]
        /\ rag => lastRetrieval = [sample |-> next, pass |-> "fallback"]

\* A row of whoever was alone is measured by its own calls, in the side channel ...
RowsAreMeasured ==
    \A i \in 1 .. Len(sideChannel) :
        sideChannel[i].alone =>
            /\ sideChannel[i].generation = sideChannel[i].gen
            /\ sideChannel[i].retrieval = IF rag THEN sideChannel[i].gen ELSE None

\* ... and in the log.
LogIsMeasured == \A i \in 1 .. Len(logged) : MeasuredOnItsOwn(logged[i])

Evaluates(w, s) ==
    worker[w].at # "idle" /\ worker[w].gen = [sample |-> s, pass |-> "evaluation"]

\* A sample is handed out once, and its scores are of the one answer it got.
AnsweredOnce ==
    /\ \A w \in Workers, s \in Samples :
          Evaluates(w, s) =>
              /\ s \notin todo
              /\ \A v \in Workers : Evaluates(v, s) => v = w
              /\ \A scorer \in Scorers : scores[s][scorer].at = "not due"
    /\ \A s \in todo, scorer \in Scorers : scores[s][scorer].at = "not due"
    /\ \A i \in 1 .. Len(sideChannel) :
          sideChannel[i].gen.pass = "evaluation" =>
              /\ sideChannel[i].gen.sample \notin todo
              /\ \A w \in Workers : ~ Evaluates(w, sideChannel[i].gen.sample)
              /\ \A scorer \in Scorers :
                    scores[sideChannel[i].gen.sample][scorer].at # "not due" =>
                        scores[sideChannel[i].gen.sample][scorer].text = sideChannel[i].text

NoJudgeNoScores ==
    ~ judge => \A s \in Samples, scorer \in Scorers : scores[s][scorer].at = "not due"

\* The key of a score that has a text.
KeyOf(s, scorer) == Key(s, scores[s][scorer].text)

\* Whoever asks is the first and the only one to, or the text is contested; and what
\* it is told is remembered and stays.
VerdictsAreKept ==
    \A s \in Samples, scorer \in Scorers :
        /\ scores[s][scorer].at = "asking" /\ KeyOf(s, scorer) \notin contested =>
              /\ KeyOf(s, scorer) \notin DOMAIN cache
              /\ \A r \in Samples, other \in Scorers :
                    scores[r][other].at = "asking" /\ KeyOf(r, other) = KeyOf(s, scorer) =>
                        r = s /\ other = scorer
        /\ scores[s][scorer].at = "scored" /\ KeyOf(s, scorer) \notin contested =>
              /\ KeyOf(s, scorer) \in DOMAIN cache
              /\ cache[KeyOf(s, scorer)] = scores[s][scorer].verdict

\* The verdict of a row is that of its assessments.
LogIsAssessed ==
    \A i \in 1 .. Len(logged), scorer \in Scorers :
        /\ logged[i].gen.pass = "evaluation"
        /\ scores[logged[i].sample][scorer].at = "scored"
        /\ Key(logged[i].sample, logged[i].text) \notin contested
        => scores[logged[i].sample][scorer].verdict = logged[i].verdict

ScoringInv ==
    /\ Typed
    /\ HarnessIsGuarded
    /\ AloneIsMeasured
    /\ FallbackIsMeasured
    /\ RowsAreMeasured
    /\ LogIsMeasured
    /\ AnsweredOnce
    /\ NoJudgeNoScores
    /\ VerdictsAreKept
    /\ LogIsAssessed
-----------------------------------------------------------------------------
(***************************************************************************)
(* The records of a worker, of a score and of a row.                       *)
(***************************************************************************)

LEMMA WorkerShapes ==
    ASSUME NEW x \in WorkerStates
    PROVE  /\ x.at \in {"idle", "retrieving", "generating", "recording"}
           /\ x.at = "idle" => x = Idle
           /\ x.at # "idle" => x.gen \in Generations
           /\ x.at = "recording" => x.text \in Texts
BY DEF WorkerStates, Idle

LEMMA AloneIsBoolean ==
    ASSUME NEW x \in WorkerStates, x.at # "idle"
    PROVE  x.alone \in BOOLEAN
BY DEF WorkerStates, Idle

\* A worker that is joined is no longer alone.
LEMMA JoinedShapes ==
    ASSUME NEW x \in WorkerStates, x.at # "idle",
           NEW y, y = [x EXCEPT !.alone = FALSE]
    PROVE  y \in WorkerStates /\ y.at = x.at /\ y.gen = x.gen /\ ~ y.alone
<1>1. CASE x \in [at : {"retrieving", "generating"}, gen : Generations, alone : BOOLEAN]
    BY <1>1 DEF WorkerStates
<1>2. CASE x \in [at : {"recording"}, gen : Generations, alone : BOOLEAN, text : Texts]
    BY <1>2 DEF WorkerStates
<1> QED
    BY <1>1, <1>2 DEF WorkerStates, Idle

\* A worker that begins, has retrieved, or has generated.
LEMMA BegunShapes ==
    ASSUME NEW gen \in Generations, NEW alone \in BOOLEAN,
           NEW at \in {"retrieving", "generating"},
           NEW y, y = [at |-> at, gen |-> gen, alone |-> alone]
    PROVE  y \in WorkerStates /\ y.at = at /\ y.gen = gen /\ y.alone = alone
BY DEF WorkerStates

LEMMA RetrievedShapes ==
    ASSUME NEW x \in WorkerStates, x.at = "retrieving",
           NEW y, y = [x EXCEPT !.at = "generating"]
    PROVE  y \in WorkerStates /\ y.at = "generating" /\ y.gen = x.gen /\ y.alone = x.alone
BY DEF WorkerStates, Idle

LEMMA GeneratedShapes ==
    ASSUME NEW x \in WorkerStates, x.at = "generating", NEW text \in Texts,
           NEW y, y = [at |-> "recording", gen |-> x.gen, alone |-> x.alone, text |-> text]
    PROVE  y \in WorkerStates /\ y.at = "recording" /\ y.gen = x.gen /\ y.alone = x.alone
<1>1. x.gen \in Generations /\ x.alone \in BOOLEAN
    BY DEF WorkerStates, Idle
<1> QED
    BY <1>1 DEF WorkerStates

LEMMA ScoreShapes ==
    ASSUME NEW x \in ScoreStates
    PROVE  /\ x.at \in {"not due", "due", "asking", "scored"}
           /\ x.at # "not due" => x.text \in Texts
           /\ x.at = "scored" => x.verdict \in Outcomes
BY DEF ScoreStates

LEMMA ScoredShapes ==
    ASSUME NEW x \in ScoreStates, x.at \in {"due", "asking"}, NEW verdict \in Outcomes,
           NEW y, y = [at |-> "scored", text |-> x.text, verdict |-> verdict]
    PROVE  /\ y \in ScoreStates
           /\ y.at = "scored" /\ y.text = x.text /\ y.verdict = verdict
<1>1. x.text \in Texts
    BY ScoreShapes
<1> QED
    BY <1>1 DEF ScoreStates

LEMMA AskingShapes ==
    ASSUME NEW x \in ScoreStates, x.at = "due", NEW y, y = [x EXCEPT !.at = "asking"]
    PROVE  y \in ScoreStates /\ y.at = "asking" /\ y.text = x.text
BY DEF ScoreStates

LEMMA DueShapes ==
    ASSUME NEW text \in Texts, NEW y, y = [at |-> "due", text |-> text]
    PROVE  y \in ScoreStates /\ y.at = "due" /\ y.text = text
BY DEF ScoreStates

LEMMA UnscoredShapes ==
    /\ Unscored \in [Scorers -> ScoreStates]
    /\ \A scorer \in Scorers : Unscored[scorer].at = "not due"
<1>1. [at |-> "not due"] \in ScoreStates
    BY DEF ScoreStates
<1> QED
    BY <1>1 DEF Unscored

LEMMA GenerationShapes ==
    \A s \in Samples, pass \in Passes :
        LET gen == [sample |-> s, pass |-> pass]
        IN  gen \in Generations /\ gen.sample = s /\ gen.pass = pass
BY DEF Generations

\* There is a prompt; samples are numbers.
LEMMA SamplesAreNumbers ==
    /\ Len(Prompts) \in Nat \ {0}
    /\ 1 \in Samples
    /\ \A s \in Samples : s \in Nat /\ s \in 1 .. Len(Prompts) /\ Prompts[s] \in Questions
<1>1. Prompts \in Seq(Questions) /\ Prompts # <<>>
    BY ScoringAssumption
<1>2. Len(Prompts) \in Nat \ {0}
    BY <1>1
<1> QED
    BY <1>2 DEF Samples, Questions

LEMMA KeysAreTyped ==
    \A s \in Samples, text \in Texts : Key(s, text) \in Questions \X Texts
BY SamplesAreNumbers DEF Key

\* A set of positions that has a member has a last one.
LEMMA LastPosition ==
    ASSUME NEW n \in Nat, NEW T \in SUBSET (1 .. n), T # {}
    PROVE  \E i \in T : \A j \in T : j <= i
<1> DEFINE U == {n - i : i \in T}
           Smaller == {ss \in Nat \X Nat : ss[1] < ss[2]}
<1>1. U \subseteq Nat /\ U # {}
    <2>1. \A i \in T : n - i \in Nat
        OBVIOUS
    <2>2. PICK i \in T : TRUE
        OBVIOUS
    <2>3. n - i \in U
        BY <2>2
    <2> QED
        BY <2>1, <2>3
<1>2. PICK u \in U : \A v \in U : ~ (<<v, u>> \in Smaller)
    <2>1. IsWellFoundedOn(Smaller, Nat)
        BY NatLessThanWellFounded DEF OpToRel
    <2> HIDE DEF U, Smaller
    <2> QED
        BY <1>1, <2>1, WFMin
<1>3. u \in Nat /\ \A v \in U : u <= v
    <2>1. ASSUME NEW v \in U PROVE u <= v
        <3>1. u \in Nat /\ v \in Nat
            BY <1>1, <2>1
        <3>2. ~ (v < u)
            BY <1>2, <2>1, <3>1
        <3> QED
            BY <3>1, <3>2
    <2> QED
        BY <1>1, <2>1
<1>4. PICK i \in T : u = n - i
    BY <1>2
<1>5. ASSUME NEW j \in T PROVE j <= i
    <2>1. u <= n - j
        BY <1>3
    <2> QED
        BY <1>4, <2>1
<1> QED
    BY <1>5

\* by_sample has a row of each sample that has one.
LEMMA RowOfItsSample ==
    ASSUME Typed, NEW s, RowsOf(s) # {}
    PROVE  \E i \in 1 .. Len(sideChannel) :
               sideChannel[i].gen.sample = s /\ BySample(s) = sideChannel[i]
<1>1. Len(sideChannel) \in Nat /\ RowsOf(s) \in SUBSET (1 .. Len(sideChannel))
    BY DEF Typed, RowsOf
<1>2. \E i \in RowsOf(s) : \A j \in RowsOf(s) : j <= i
    BY <1>1, LastPosition
<1>3. (CHOOSE i \in RowsOf(s) : \A j \in RowsOf(s) : j <= i) \in RowsOf(s)
    BY <1>2
<1> QED
    BY <1>3 DEF RowsOf, BySample
-----------------------------------------------------------------------------
(***************************************************************************)
(* What a prediction does to the workers.                                  *)
(***************************************************************************)

\* Whoever begins is alone if nobody was at work, and ends the others' being alone.
LEMMA BeginChanges ==
    ASSUME Typed, NEW w \in Workers, worker[w].at = "idle",
           NEW s \in Samples, NEW pass \in Passes, Begin(w, s, pass)
    PROVE  /\ worker' \in [Workers -> WorkerStates]
           /\ worker'[w].at # "idle" /\ worker'[w].at # "recording"
           /\ rag => worker'[w].at = "retrieving"
           /\ worker'[w].gen = [sample |-> s, pass |-> pass]
           /\ worker'[w].alone => \A v \in Workers : worker[v].at = "idle"
           /\ \A v \in Workers \ {w} :
                 /\ worker'[v].at = worker[v].at
                 /\ worker[v].at # "idle" => worker'[v].gen = worker[v].gen /\ ~ worker'[v].alone
<1> DEFINE gen == [sample |-> s, pass |-> pass]
           at == IF rag THEN "retrieving" ELSE "generating"
           nobody == Busy = {}
           begun == [at |-> at, gen |-> gen, alone |-> nobody]
<1>1. worker \in [Workers -> WorkerStates]
    BY DEF Typed
<1>2. worker' = [Beside(Busy) EXCEPT ![w] = begun]
    BY DEF Begin
<1>3. /\ begun \in WorkerStates
      /\ begun.at = at /\ begun.gen = gen /\ begun.alone = nobody
    <2>1. gen \in Generations /\ at \in {"retrieving", "generating"} /\ nobody \in BOOLEAN
        BY GenerationShapes
    <2> HIDE DEF gen, at, nobody
    <2> QED
        BY <2>1, BegunShapes
<1>4. ASSUME NEW v \in Workers
      PROVE  /\ Beside(Busy)[v] \in WorkerStates
             /\ Beside(Busy)[v].at = worker[v].at
             /\ worker[v].at # "idle" =>
                   Beside(Busy)[v].gen = worker[v].gen /\ ~ Beside(Busy)[v].alone
    <2>1. worker[v] \in WorkerStates
        BY <1>1
    <2>2. CASE worker[v].at = "idle"
        <3>1. Beside(Busy)[v] = worker[v]
            BY <2>2 DEF Beside, Busy
        <3> QED
            BY <2>1, <2>2, <3>1
    <2>3. CASE worker[v].at # "idle"
        <3>1. Beside(Busy)[v] = [worker[v] EXCEPT !.alone = FALSE]
            BY <2>3 DEF Beside, Busy
        <3> QED
            BY <2>1, <2>3, <3>1, JoinedShapes
    <2> QED
        BY <2>2, <2>3
<1>5. Beside(Busy) = [v \in Workers |-> Beside(Busy)[v]]
    BY DEF Beside
<1> HIDE DEF begun
<1>6. /\ worker' \in [Workers -> WorkerStates]
      /\ worker'[w] = begun
      /\ \A v \in Workers \ {w} : worker'[v] = Beside(Busy)[v]
    BY <1>2, <1>3, <1>4, <1>5
<1>7. Busy = {} => \A v \in Workers : worker[v].at = "idle"
    BY DEF Busy
<1> QED
    BY <1>3, <1>4, <1>6, <1>7

\* The other steps of a prediction are of one worker.
LEMMA OneWorkerChanges ==
    ASSUME Typed, NEW w \in Workers, NEW y \in WorkerStates, worker' = [worker EXCEPT ![w] = y]
    PROVE  /\ worker' \in [Workers -> WorkerStates]
           /\ worker'[w] = y
           /\ \A v \in Workers \ {w} : worker'[v] = worker[v]
BY DEF Typed

LEMMA RetrieveChanges ==
    ASSUME Typed, NEW w \in Workers, Retrieve(w)
    PROVE  /\ worker' \in [Workers -> WorkerStates]
           /\ worker[w].at = "retrieving"
           /\ worker'[w].at = "generating"
           /\ worker'[w].gen = worker[w].gen /\ worker'[w].alone = worker[w].alone
           /\ \A v \in Workers \ {w} : worker'[v] = worker[v]
<1> DEFINE y == [worker[w] EXCEPT !.at = "generating"]
<1>1. worker[w] \in WorkerStates /\ worker[w].at = "retrieving"
    BY DEF Typed, Retrieve
<1>2. /\ y \in WorkerStates /\ y.at = "generating"
      /\ y.gen = worker[w].gen /\ y.alone = worker[w].alone
    BY <1>1, RetrievedShapes
<1>3. worker' = [worker EXCEPT ![w] = y]
    BY DEF Retrieve
<1> HIDE DEF y
<1> QED
    BY <1>1, <1>2, <1>3, OneWorkerChanges

LEMMA GenerateChanges ==
    ASSUME Typed, NEW w \in Workers, Generate(w)
    PROVE  /\ worker' \in [Workers -> WorkerStates]
           /\ worker[w].at = "generating"
           /\ worker'[w].at = "recording"
           /\ worker'[w].gen = worker[w].gen /\ worker'[w].alone = worker[w].alone
           /\ \A v \in Workers \ {w} : worker'[v] = worker[v]
<1>1. worker[w] \in WorkerStates /\ worker[w].at = "generating"
    BY DEF Typed, Generate
<1>2. PICK text \in Texts :
          worker' = [worker EXCEPT ![w] =
                        [at |-> "recording", gen |-> worker[w].gen, alone |-> worker[w].alone,
                         text |-> text]]
    BY <1>1 DEF Generate, Typed
<1> DEFINE y == [at |-> "recording", gen |-> worker[w].gen, alone |-> worker[w].alone,
                 text |-> text]
<1>3. /\ y \in WorkerStates /\ y.at = "recording"
      /\ y.gen = worker[w].gen /\ y.alone = worker[w].alone
    BY <1>1, GeneratedShapes
<1>4. worker' = [worker EXCEPT ![w] = y]
    BY <1>2
<1> HIDE DEF y
<1> QED
    BY <1>1, <1>3, <1>4, OneWorkerChanges

LEMMA EndedChanges ==
    ASSUME Typed, NEW w \in Workers, AfterPrediction(w)
    PROVE  /\ worker' \in [Workers -> WorkerStates]
           /\ worker'[w].at = "idle"
           /\ \A v \in Workers \ {w} : worker'[v] = worker[v]
           /\ phase' = "evaluating"
<1>1. Idle \in WorkerStates /\ Idle.at = "idle"
    BY DEF WorkerStates, Idle
<1> QED
    BY <1>1, OneWorkerChanges DEF AfterPrediction

\* Whichever step a prediction makes, a worker that is at work afterwards, and did not
\* begin with this step, is of the generation it was of, and alone only if it was.
LEMMA StandingPredictions ==
    ASSUME Typed, NEW w \in Workers,
           Retrieve(w) \/ Generate(w) \/ AfterPrediction(w),
           NEW v \in Workers, worker'[v].at # "idle"
    PROVE  /\ worker[v].at # "idle"
           /\ worker'[v].gen = worker[v].gen
           /\ worker'[v].alone = worker[v].alone
BY RetrieveChanges, GenerateChanges, EndedChanges

\* The workers of a state with the types.
LEMMA WorkersTyped ==
    ASSUME worker' \in [Workers -> WorkerStates]
    PROVE  \A w \in Workers :
              /\ worker'[w].at \in {"idle", "retrieving", "generating", "recording"}
              /\ worker'[w].at # "idle" => worker'[w].gen \in Generations
<1> SUFFICES ASSUME NEW w \in Workers
             PROVE  /\ worker'[w].at \in {"idle", "retrieving", "generating", "recording"}
                    /\ worker'[w].at # "idle" => worker'[w].gen \in Generations
    OBVIOUS
<1>1. worker'[w] \in WorkerStates
    OBVIOUS
<1> QED
    BY <1>1, WorkerShapes
-----------------------------------------------------------------------------
(***************************************************************************)
(* The steps of a prediction.                                              *)
(***************************************************************************)

LEMMA TypedPrediction ==
    ASSUME Typed, worker' \in [Workers -> WorkerStates],
           phase' \in {"validating", "evaluating"}, todo' \subseteq Samples,
           lastGeneration' \in Measures, lastRetrieval' \in Measures,
           UNCHANGED <<setup, sideChannel, judging, loop>>
    PROVE  Typed'
<1>1. ScoringTypeOK'
    BY WorkersTyped DEF Typed, ScoringTypeOK, Measures, setup, judging, loop
<1> QED
    BY <1>1 DEF Typed, judging, loop

\* In the try statement nothing is logged, and no answer of the fallback is there.
LEMMA NothingIsLogged ==
    ASSUME phase' \in Guarded, logged' = <<>>, answer' = None
    PROVE  /\ HarnessIsGuarded' /\ FallbackIsMeasured'
           /\ LogIsMeasured' /\ LogIsAssessed'
<1>1. Len(logged') = 0
    OBVIOUS
<1>2. LogIsMeasured' /\ LogIsAssessed'
    BY <1>1 DEF LogIsMeasured, LogIsAssessed
<1> QED
    BY <1>2 DEF HarnessIsGuarded, FallbackIsMeasured

LEMMA GuardedHasNoLog ==
    ASSUME ScoringInv, phase \in Guarded
    PROVE  logged = <<>> /\ answer = None
BY DEF ScoringInv, HarnessIsGuarded, FallbackIsMeasured, Guarded

LEMMA JudgingStands ==
    ASSUME ScoringInv, UNCHANGED <<setup, judging>>
    PROVE  NoJudgeNoScores' /\ VerdictsAreKept'
<1>1. UNCHANGED <<judge, scores, cache, contested>>
    BY DEF setup, judging
<1>2. \A s, scorer : KeyOf(s, scorer)' = KeyOf(s, scorer)
    BY <1>1 DEF KeyOf
<1>3. NoJudgeNoScores /\ VerdictsAreKept
    BY DEF ScoringInv
<1> QED
    BY <1>1, <1>2, <1>3 DEF NoJudgeNoScores, VerdictsAreKept

LEMMA RowTypes ==
    ASSUME Typed, NEW i \in 1 .. Len(sideChannel)
    PROVE  sideChannel[i] \in Rows /\ sideChannel[i].gen.sample \in Samples
<1>1. sideChannel[i] \in Rows
    BY DEF Typed
<1> QED
    BY <1>1 DEF Rows, Generations

LEMMA AnsweredAgain ==
    ASSUME UNCHANGED sideChannel,
           \A r \in todo', scorer \in Scorers : scores'[r][scorer].at = "not due",
           \A v \in Workers, r \in Samples :
               Evaluates(v, r)' =>
                   /\ r \notin todo'
                   /\ \A u \in Workers : Evaluates(u, r)' => u = v
                   /\ \A scorer \in Scorers : scores'[r][scorer].at = "not due",
           \A i \in 1 .. Len(sideChannel) :
               sideChannel[i].gen.pass = "evaluation" =>
                   /\ sideChannel[i].gen.sample \notin todo'
                   /\ \A v \in Workers : ~ Evaluates(v, sideChannel[i].gen.sample)'
                   /\ \A scorer \in Scorers :
                         scores'[sideChannel[i].gen.sample][scorer].at # "not due" =>
                             scores'[sideChannel[i].gen.sample][scorer].text = sideChannel[i].text
    PROVE  AnsweredOnce'
BY DEF AnsweredOnce

\* As long as no generation is begun, the samples being evaluated are those that were.
LEMMA AnsweredStands ==
    ASSUME ScoringInv, UNCHANGED <<sideChannel, scores>>, todo' \subseteq todo,
           \A v \in Workers, r \in Samples : Evaluates(v, r)' => Evaluates(v, r)
    PROVE  AnsweredOnce'
<1>1. \A i \in 1 .. Len(sideChannel) : sideChannel[i].gen.sample \in Samples
    BY RowTypes DEF ScoringInv
<1>2. AnsweredOnce
    BY DEF ScoringInv
<1>3. \A v \in Workers, r \in Samples :
          Evaluates(v, r)' =>
              /\ r \notin todo'
              /\ \A u \in Workers : Evaluates(u, r)' => u = v
              /\ \A scorer \in Scorers : scores'[r][scorer].at = "not due"
    BY <1>2 DEF AnsweredOnce
<1>4. \A r \in todo', scorer \in Scorers : scores'[r][scorer].at = "not due"
    BY <1>2 DEF AnsweredOnce
<1>5. ASSUME NEW i \in 1 .. Len(sideChannel), sideChannel[i].gen.pass = "evaluation"
      PROVE  /\ sideChannel[i].gen.sample \notin todo'
             /\ \A v \in Workers : ~ Evaluates(v, sideChannel[i].gen.sample)'
             /\ \A scorer \in Scorers :
                   scores[sideChannel[i].gen.sample][scorer].at # "not due" =>
                       scores[sideChannel[i].gen.sample][scorer].text = sideChannel[i].text
    <2> DEFINE r == sideChannel[i].gen.sample
    <2>2. r \in Samples /\ r \notin todo /\ \A v \in Workers : ~ Evaluates(v, r)
        BY <1>1, <1>2, <1>5 DEF AnsweredOnce
    <2>3. \A v \in Workers : ~ Evaluates(v, r)'
        BY <2>2
    <2> QED
        BY <1>2, <1>5, <2>2, <2>3 DEF AnsweredOnce
<1> QED
    BY <1>3, <1>4, <1>5, AnsweredAgain

LEMMA RowsStand ==
    ASSUME ScoringInv, UNCHANGED <<setup, sideChannel>>
    PROVE  RowsAreMeasured'
BY DEF ScoringInv, RowsAreMeasured, setup

\* A sample that begins to be evaluated has not been answered.
LEMMA BeginInv ==
    ASSUME ScoringInv, phase \in Guarded,
           NEW w \in Workers, worker[w].at = "idle",
           NEW s \in Samples, NEW pass \in {"validation", "evaluation"}, Begin(w, s, pass),
           todo' \subseteq todo, pass = "evaluation" => s \in todo /\ s \notin todo',
           UNCHANGED <<setup, phase, sideChannel, meta, judging, loop>>
    PROVE  ScoringInv'
<1> DEFINE gen == [sample |-> s, pass |-> pass]
<1>1. Typed /\ logged = <<>> /\ answer = None
    BY GuardedHasNoLog DEF ScoringInv
<1>2. /\ worker' \in [Workers -> WorkerStates]
      /\ worker'[w].at # "idle" /\ worker'[w].at # "recording"
      /\ rag => worker'[w].at = "retrieving"
      /\ worker'[w].gen = gen
      /\ worker'[w].alone => \A v \in Workers : worker[v].at = "idle"
      /\ \A v \in Workers \ {w} :
            /\ worker'[v].at = worker[v].at
            /\ worker[v].at # "idle" => worker'[v].gen = worker[v].gen /\ ~ worker'[v].alone
    BY <1>1, BeginChanges DEF Passes
<1>3. Typed'
    BY <1>1, <1>2, TypedPrediction DEF Typed, ScoringTypeOK, Guarded, Measures, meta
<1>4. AloneIsMeasured'
    BY <1>2 DEF AloneIsMeasured, setup, meta
<1>5. AnsweredOnce'
    <2>1. gen.sample = s /\ gen.pass = pass
        OBVIOUS
    <2>2. \A v \in Workers \ {w}, r \in Samples : Evaluates(v, r)' => Evaluates(v, r)
        BY <1>2 DEF Evaluates
    <2>3. \A r \in Samples : Evaluates(w, r)' => r = s /\ pass = "evaluation"
        BY <1>2 DEF Evaluates
    <2>4. s \in todo => \A v \in Workers : ~ Evaluates(v, s)
        BY DEF ScoringInv, AnsweredOnce
    <2>0. /\ UNCHANGED <<sideChannel, scores>>
          /\ \A r \in todo, scorer \in Scorers : scores[r][scorer].at = "not due"
          /\ \A v \in Workers, r \in Samples :
                Evaluates(v, r) =>
                    /\ r \notin todo
                    /\ \A u \in Workers : Evaluates(u, r) => u = v
                    /\ \A scorer \in Scorers : scores[r][scorer].at = "not due"
        BY DEF ScoringInv, AnsweredOnce, judging
    <2>5. CASE pass # "evaluation"
        <3>1. \A v \in Workers, r \in Samples : Evaluates(v, r)' => Evaluates(v, r)
            BY <2>2, <2>3, <2>5
        <3> QED
            BY <2>0, <3>1, AnsweredStands
    <2>6. CASE pass = "evaluation"
        <3>1. ASSUME NEW v \in Workers, NEW r \in Samples, Evaluates(v, r)'
              PROVE  /\ r \notin todo'
                     /\ \A u \in Workers : Evaluates(u, r)' => u = v
                     /\ \A scorer \in Scorers : scores'[r][scorer].at = "not due"
            <4>1. CASE v = w
                <5>1. r = s /\ s \in todo /\ s \notin todo'
                    BY <2>3, <2>6, <3>1, <4>1
                <5> QED
                    BY <2>0, <2>2, <2>4, <4>1, <5>1
            <4>2. CASE v # w
                <5>1. Evaluates(v, r)
                    BY <2>2, <3>1, <4>2
                <5>2. r # s
                    BY <2>4, <2>6, <5>1
                <5> QED
                    BY <2>0, <2>2, <2>3, <5>1, <5>2
            <4> QED
                BY <4>1, <4>2
        <3>2. ASSUME NEW i \in 1 .. Len(sideChannel), sideChannel[i].gen.pass = "evaluation"
              PROVE  /\ sideChannel[i].gen.sample \notin todo'
                     /\ \A v \in Workers : ~ Evaluates(v, sideChannel[i].gen.sample)'
                     /\ \A scorer \in Scorers :
                           scores[sideChannel[i].gen.sample][scorer].at # "not due" =>
                               scores[sideChannel[i].gen.sample][scorer].text = sideChannel[i].text
            <4> DEFINE r == sideChannel[i].gen.sample
            <4>1. r \in Samples
                BY <1>1, RowTypes
            <4>2. /\ r \notin todo
                  /\ \A v \in Workers : ~ Evaluates(v, r)
                  /\ \A scorer \in Scorers :
                        scores[r][scorer].at # "not due" => scores[r][scorer].text = sideChannel[i].text
                BY <3>2 DEF ScoringInv, AnsweredOnce
            <4>3. r # s
                BY <2>6, <4>2
            <4>4. \A v \in Workers : ~ Evaluates(v, r)'
                BY <2>2, <2>3, <4>1, <4>2, <4>3
            <4> QED
                BY <4>2, <4>4
        <3>3. \A r \in todo', scorer \in Scorers : scores'[r][scorer].at = "not due"
            BY <2>0
        <3>4. \A v \in Workers, r \in Samples :
                  Evaluates(v, r)' =>
                      /\ r \notin todo'
                      /\ \A u \in Workers : Evaluates(u, r)' => u = v
                      /\ \A scorer \in Scorers : scores'[r][scorer].at = "not due"
            BY <3>1
        <3>5. \A i \in 1 .. Len(sideChannel) :
                  sideChannel[i].gen.pass = "evaluation" =>
                      /\ sideChannel[i].gen.sample \notin todo'
                      /\ \A v \in Workers : ~ Evaluates(v, sideChannel[i].gen.sample)'
                      /\ \A scorer \in Scorers :
                            scores[sideChannel[i].gen.sample][scorer].at # "not due" =>
                                scores[sideChannel[i].gen.sample][scorer].text
                                    = sideChannel[i].text
            BY <3>2
        <3> QED
            BY <2>0, <3>3, <3>4, <3>5, AnsweredAgain
    <2> QED
        BY <2>5, <2>6
<1> QED
    BY <1>1, <1>3, <1>4, <1>5, NothingIsLogged, JudgingStands, RowsStand DEF ScoringInv, loop

LEMMA ValidateInv == ScoringInv /\ Validate => ScoringInv'
<1> SUFFICES ASSUME ScoringInv, Validate PROVE ScoringInv'
    OBVIOUS
<1>1. PICK w \in Workers : Begin(w, 1, "validation")
    BY DEF Validate
<1>2. worker[w].at = "idle"
    BY DEF Validate, Busy
<1> QED
    BY <1>1, <1>2, BeginInv, SamplesAreNumbers DEF Validate, Guarded

LEMMA PredictInv ==
    ASSUME ScoringInv, NEW w \in Workers, Predict(w)
    PROVE  ScoringInv'
<1>1. PICK s \in todo : todo' = todo \ {s} /\ Begin(w, s, "evaluation")
    BY DEF Predict
<1>2. s \in Samples
    BY DEF ScoringInv, Typed, ScoringTypeOK
<1> QED
    BY <1>1, <1>2, BeginInv DEF Predict, Guarded

\* Whoever is alone is measured by the call it makes, and whoever is not alone need not
\* be: no other worker is alone beside it.
LEMMA CallInv ==
    ASSUME ScoringInv, NEW w \in Workers,
           \/ Retrieve(w) /\ lastRetrieval' = worker[w].gen /\ UNCHANGED lastGeneration
           \/ Generate(w) /\ lastGeneration' = worker[w].gen /\ UNCHANGED lastRetrieval,
           UNCHANGED <<setup, phase, todo, sideChannel, judging, loop>>
    PROVE  ScoringInv'
<1>1. Typed /\ worker[w].at # "idle" /\ worker[w] \in WorkerStates
    BY RetrieveChanges, GenerateChanges DEF ScoringInv, Typed
<1>2. phase \in Guarded /\ logged = <<>> /\ answer = None
    BY <1>1, GuardedHasNoLog DEF ScoringInv, HarnessIsGuarded
<1>3. worker[w].gen \in Generations
    BY <1>1, WorkerShapes
<1>4. worker' \in [Workers -> WorkerStates] /\ worker'[w].at # "idle"
    BY <1>1, RetrieveChanges, GenerateChanges
<1>5. Typed'
    BY <1>1, <1>2, <1>3, <1>4, TypedPrediction DEF Typed, ScoringTypeOK, Guarded, Measures
<1>6. AloneIsMeasured'
    <2>1. ASSUME NEW v \in Workers, worker'[v].at # "idle", worker'[v].alone
          PROVE  \A u \in Workers : worker'[u].at # "idle" => u = v
        BY <1>1, <2>1, StandingPredictions DEF ScoringInv, AloneIsMeasured
    <2>2. ASSUME NEW v \in Workers, worker'[v].at # "idle", worker'[v].alone
          PROVE  /\ worker'[v].at # "retrieving" /\ rag => lastRetrieval' = worker'[v].gen
                 /\ worker'[v].at = "recording" => lastGeneration' = worker'[v].gen
        <3>1. v = w /\ worker[w].alone
            BY <1>1, <1>4, <2>1, <2>2, StandingPredictions
        <3>2. CASE Retrieve(w)
            BY <1>1, <3>1, <3>2, RetrieveChanges DEF Retrieve
        <3>3. CASE Generate(w)
            BY <1>1, <3>1, <3>3, GenerateChanges DEF Generate, ScoringInv, AloneIsMeasured
        <3> QED
            BY <3>2, <3>3
    <2> QED
        BY <2>1, <2>2 DEF AloneIsMeasured, setup
<1>7. AnsweredOnce'
    <2>1. \A v \in Workers, r \in Samples : Evaluates(v, r)' => Evaluates(v, r)
        BY <1>1, StandingPredictions DEF Evaluates
    <2> QED
        BY <2>1, AnsweredStands DEF judging
<1> QED
    BY <1>2, <1>5, <1>6, <1>7, NothingIsLogged, JudgingStands, RowsStand DEF ScoringInv, loop

LEMMA RetrieveInv ==
    ASSUME ScoringInv, NEW w \in Workers, Retrieve(w)
    PROVE  ScoringInv'
BY CallInv DEF Retrieve

LEMMA GenerateInv ==
    ASSUME ScoringInv, NEW w \in Workers, Generate(w)
    PROVE  ScoringInv'
BY CallInv DEF Generate

LEMMA PredictFailsInv ==
    ASSUME ScoringInv, NEW w \in Workers, PredictFails(w)
    PROVE  ScoringInv'
<1>1. Typed /\ AfterPrediction(w) /\ worker[w].at # "idle"
    BY DEF ScoringInv, PredictFails
<1>2. phase \in Guarded /\ logged = <<>> /\ answer = None
    BY <1>1, GuardedHasNoLog DEF ScoringInv, HarnessIsGuarded
<1>3. worker' \in [Workers -> WorkerStates] /\ worker'[w].at = "idle" /\ phase' = "evaluating"
    BY <1>1, EndedChanges
<1>4. UNCHANGED <<setup, todo, sideChannel, meta, judging, loop>>
    BY DEF PredictFails
<1>5. Typed'
    BY <1>1, <1>3, <1>4, TypedPrediction DEF Typed, ScoringTypeOK, Measures, meta
<1>6. AloneIsMeasured'
    <2>1. \A v \in Workers : worker'[v].at # "idle" => worker'[v] = worker[v]
        BY <1>1, EndedChanges
    <2> QED
        BY <1>4, <2>1 DEF ScoringInv, AloneIsMeasured, setup, meta
<1>7. AnsweredOnce'
    <2>1. \A v \in Workers, r \in Samples : Evaluates(v, r)' => Evaluates(v, r)
        BY <1>1, EndedChanges DEF Evaluates
    <2> QED
        BY <1>4, <2>1, AnsweredStands DEF judging
<1> QED
    BY <1>2, <1>3, <1>4, <1>5, <1>6, <1>7, NothingIsLogged, JudgingStands, RowsStand
       DEF ScoringInv, loop, Guarded

LEMMA Appended ==
    ASSUME NEW S, NEW q \in Seq(S), NEW e \in S, NEW p, p = Append(q, e)
    PROVE  /\ p \in Seq(S)
           /\ Len(q) \in Nat /\ Len(p) = Len(q) + 1
           /\ p[Len(q) + 1] = e
           /\ \A i \in 1 .. Len(q) : p[i] = q[i]
OBVIOUS

\* The row of an answer, and the scores that become due with it.
LEMMA RecordChanges ==
    ASSUME Typed, NEW w \in Workers, RecordRow(w)
    PROVE  /\ worker[w].at = "recording" /\ worker[w].gen \in Generations
           /\ \E row \in Rows :
                 /\ sideChannel' = Append(sideChannel, row)
                 /\ row.gen = worker[w].gen /\ row.text = worker[w].text
                 /\ row.alone = worker[w].alone
                 /\ row.generation = lastGeneration
                 /\ row.retrieval = IF rag THEN lastRetrieval ELSE None
<1>1. /\ worker[w] \in WorkerStates /\ worker[w].at = "recording"
      /\ lastGeneration \in Measures /\ lastRetrieval \in Measures
    BY DEF Typed, ScoringTypeOK, Measures, RecordRow
<1>2. worker[w].gen \in Generations /\ worker[w].text \in Texts /\ worker[w].alone \in BOOLEAN
    BY <1>1, WorkerShapes, AloneIsBoolean
<1> DEFINE retrieval == IF rag THEN lastRetrieval ELSE None
           alone == worker[w].alone
           row == [gen |-> worker[w].gen, text |-> worker[w].text, alone |-> alone,
                   generation |-> lastGeneration, retrieval |-> retrieval]
<1>3. retrieval \in Measures
    BY <1>1 DEF Measures
<1>4. sideChannel' = Append(sideChannel, row)
    BY DEF RecordRow
<1>5. /\ row \in Rows
      /\ row.gen = worker[w].gen /\ row.text = worker[w].text /\ row.alone = alone
      /\ row.generation = lastGeneration /\ row.retrieval = retrieval
    <2> HIDE DEF retrieval
    <2>1. row \in Rows
        BY <1>1, <1>2, <1>3 DEF Rows
    <2> QED
        BY <2>1
<1> HIDE DEF row
<1> QED
    BY <1>1, <1>2, <1>4, <1>5

LEMMA DueChanges ==
    ASSUME Typed, NEW w \in Workers, RecordRow(w),
           worker[w].gen.pass = "evaluation", judge
    PROVE  /\ scores' \in [Samples -> [Scorers -> ScoreStates]]
           /\ \A scorer \in Scorers :
                 /\ scores'[worker[w].gen.sample][scorer].at = "due"
                 /\ scores'[worker[w].gen.sample][scorer].text = worker[w].text
           /\ \A s \in Samples \ {worker[w].gen.sample} : scores'[s] = scores[s]
<1>1. worker[w] \in WorkerStates /\ worker[w].at = "recording"
    BY DEF Typed, RecordRow
<1>2. worker[w].gen.sample \in Samples /\ worker[w].text \in Texts
    BY <1>1, WorkerShapes DEF Generations
<1> DEFINE y == [at |-> "due", text |-> worker[w].text]
           due == [scorer \in Scorers |-> y]
<1>3. y \in ScoreStates /\ y.at = "due" /\ y.text = worker[w].text
    BY <1>2, DueShapes
<1>4. scores' = [scores EXCEPT ![worker[w].gen.sample] = due]
    BY DEF RecordRow
<1>5. scores \in [Samples -> [Scorers -> ScoreStates]]
    BY DEF Typed
<1> HIDE DEF y
<1> QED
    BY <1>2, <1>3, <1>4, <1>5

LEMMA ScoresTyped ==
    ASSUME scores' \in [Samples -> [Scorers -> ScoreStates]]
    PROVE  \A s \in Samples, scorer \in Scorers :
               scores'[s][scorer].at \in {"not due", "due", "asking", "scored"}
<1> SUFFICES ASSUME NEW s \in Samples, NEW scorer \in Scorers
             PROVE  scores'[s][scorer].at \in {"not due", "due", "asking", "scored"}
    OBVIOUS
<1>1. scores'[s][scorer] \in ScoreStates
    OBVIOUS
<1> QED
    BY <1>1, ScoreShapes

LEMMA EvaluatesOwn ==
    ASSUME NEW w, worker[w].at # "idle", worker[w].gen \in Generations,
           worker[w].gen.pass = "evaluation"
    PROVE  Evaluates(w, worker[w].gen.sample)
BY DEF Evaluates, Generations

\* The row of a worker that was alone has what its own calls left, and an evaluated
\* sample has one row, whose text its scores are about.
LEMMA RecordInv ==
    ASSUME ScoringInv, NEW w \in Workers, RecordRow(w)
    PROVE  ScoringInv'
<1>1. /\ Typed /\ AfterPrediction(w)
      /\ worker[w].at = "recording" /\ worker[w].gen \in Generations
    BY RecordChanges DEF ScoringInv, RecordRow
<1>2. phase \in Guarded /\ logged = <<>> /\ answer = None
    BY <1>1, GuardedHasNoLog DEF ScoringInv, HarnessIsGuarded
<1>3. /\ worker' \in [Workers -> WorkerStates] /\ phase' = "evaluating"
      /\ \A v \in Workers : worker'[v].at # "idle" => v # w /\ worker'[v] = worker[v]
    BY <1>1, EndedChanges
<1>4. UNCHANGED <<setup, todo, meta, cache, contested, loop>>
    BY DEF RecordRow
<1>5. PICK row \in Rows :
          /\ sideChannel' = Append(sideChannel, row)
          /\ row.gen = worker[w].gen /\ row.text = worker[w].text
          /\ row.alone = worker[w].alone
          /\ row.generation = lastGeneration
          /\ row.retrieval = IF rag THEN lastRetrieval ELSE None
    BY <1>1, RecordChanges
<1>6. /\ sideChannel' \in Seq(Rows)
      /\ Len(sideChannel) \in Nat /\ Len(sideChannel') = Len(sideChannel) + 1
      /\ sideChannel'[Len(sideChannel) + 1] = row
      /\ \A i \in 1 .. Len(sideChannel) : sideChannel'[i] = sideChannel[i]
    BY <1>1, <1>5, Appended DEF Typed
<1> DEFINE s == worker[w].gen.sample
           due == worker[w].gen.pass = "evaluation" /\ judge
<1>7. s \in Samples
    BY <1>1 DEF Generations
<1>8. due =>
          /\ scores' \in [Samples -> [Scorers -> ScoreStates]]
          /\ \A scorer \in Scorers : /\ scores'[s][scorer].at = "due"
                                     /\ scores'[s][scorer].text = worker[w].text
          /\ \A r \in Samples \ {s} : scores'[r] = scores[r]
    BY <1>1, DueChanges
<1>9. ~ due => scores' = scores
    BY DEF RecordRow
<1> HIDE DEF s, due
<1>10. scores' \in [Samples -> [Scorers -> ScoreStates]]
    BY <1>1, <1>8, <1>9 DEF Typed
<1>11. Typed'
    <2>0. \A i \in 1 .. Len(sideChannel') : sideChannel'[i] \in Rows
        BY <1>6
    <2>1. \A i \in 1 .. Len(sideChannel') : sideChannel'[i].gen \in Generations
        BY <2>0 DEF Rows
    <2>2. ScoringTypeOK'
        BY <1>1, <1>3, <1>4, <1>10, <2>1, WorkersTyped, ScoresTyped
           DEF Typed, ScoringTypeOK, setup, meta, loop
    <2> QED
        BY <1>1, <1>3, <1>4, <1>6, <1>10, <2>2 DEF Typed, loop
<1>12. AloneIsMeasured'
    BY <1>3, <1>4 DEF ScoringInv, AloneIsMeasured, setup, meta
<1>13. RowsAreMeasured'
    <2>1. row.alone => row.generation = row.gen /\ row.retrieval = IF rag THEN row.gen ELSE None
        BY <1>1, <1>5 DEF ScoringInv, AloneIsMeasured
    <2>2. ASSUME NEW i \in 1 .. Len(sideChannel'), sideChannel'[i].alone
          PROVE  /\ sideChannel'[i].generation = sideChannel'[i].gen
                 /\ sideChannel'[i].retrieval = IF rag THEN sideChannel'[i].gen ELSE None
        <3>1. CASE i = Len(sideChannel) + 1
            BY <1>6, <2>1, <2>2, <3>1
        <3>2. CASE i \in 1 .. Len(sideChannel)
            BY <1>6, <2>2, <3>2 DEF ScoringInv, RowsAreMeasured
        <3> QED
            BY <1>6, <3>1, <3>2
    <2> QED
        BY <1>4, <2>2 DEF RowsAreMeasured, setup
<1>14. due => Evaluates(w, s)
    BY <1>1, EvaluatesOwn DEF s, due
<1>15. AnsweredOnce'
    <2>0. AnsweredOnce
        BY DEF ScoringInv
    <2>1. \A v \in Workers, r \in Samples : Evaluates(v, r)' => v # w /\ Evaluates(v, r)
        BY <1>3 DEF Evaluates
    <2>2. ASSUME NEW r \in Samples, r # s \/ ~ due PROVE scores'[r] = scores[r]
        BY <1>8, <1>9, <2>2
    <2>3. \A v \in Workers, r \in Samples :
              Evaluates(v, r)' =>
                  /\ r \notin todo'
                  /\ \A u \in Workers : Evaluates(u, r)' => u = v
                  /\ \A scorer \in Scorers : scores'[r][scorer].at = "not due"
        <3> SUFFICES ASSUME NEW v \in Workers, NEW r \in Samples, Evaluates(v, r)'
                     PROVE  /\ r \notin todo'
                            /\ \A u \in Workers : Evaluates(u, r)' => u = v
                            /\ \A scorer \in Scorers : scores'[r][scorer].at = "not due"
            OBVIOUS
        <3>1. v # w /\ Evaluates(v, r)
            BY <2>1
        <3>2. r # s \/ ~ due
            BY <1>14, <2>0, <3>1 DEF AnsweredOnce
        <3>3. scores'[r] = scores[r]
            BY <2>2, <3>2
        <3> QED
            BY <1>4, <2>0, <2>1, <3>1, <3>3 DEF AnsweredOnce
    <2>4. \A r \in todo', scorer \in Scorers : scores'[r][scorer].at = "not due"
        <3> SUFFICES ASSUME NEW r \in todo', NEW scorer \in Scorers
                     PROVE  scores'[r][scorer].at = "not due"
            OBVIOUS
        <3>1. r \in todo /\ r \in Samples
            BY <1>1, <1>4 DEF Typed, ScoringTypeOK
        <3>2. r # s \/ ~ due
            BY <1>7, <1>14, <2>0, <3>1 DEF AnsweredOnce
        <3> QED
            BY <2>0, <2>2, <3>1, <3>2 DEF AnsweredOnce
    <2>5. ASSUME NEW i \in 1 .. Len(sideChannel'), sideChannel'[i].gen.pass = "evaluation",
                 NEW r, r = sideChannel'[i].gen.sample
          PROVE  /\ r \notin todo'
                 /\ \A v \in Workers : ~ Evaluates(v, r)'
                 /\ \A scorer \in Scorers :
                       scores'[r][scorer].at # "not due" =>
                           scores'[r][scorer].text = sideChannel'[i].text
        <3>1. CASE i = Len(sideChannel) + 1
            <4>1. /\ worker[w].gen.pass = "evaluation" /\ r = s
                  /\ sideChannel'[i].text = worker[w].text
                BY <1>5, <1>6, <2>5, <3>1 DEF s
            <4>2. Evaluates(w, s)
                BY <1>1, <4>1, EvaluatesOwn DEF s
            <4>3. /\ s \notin todo
                  /\ \A v \in Workers : Evaluates(v, s) => v = w
                  /\ \A scorer \in Scorers : scores[s][scorer].at = "not due"
                BY <1>7, <2>0, <4>2 DEF AnsweredOnce
            <4>4. \A scorer \in Scorers :
                      scores'[s][scorer].at # "not due" => scores'[s][scorer].text = worker[w].text
                BY <1>8, <1>9, <4>3
            <4> QED
                BY <1>4, <1>7, <2>1, <4>1, <4>3, <4>4
        <3>2. CASE i \in 1 .. Len(sideChannel)
            <4>1. sideChannel'[i] = sideChannel[i]
                BY <1>6, <3>2
            <4>2. r \in Samples
                BY <1>1, <2>5, <3>2, <4>1, RowTypes
            <4>3. /\ r \notin todo
                  /\ \A v \in Workers : ~ Evaluates(v, r)
                  /\ \A scorer \in Scorers :
                        scores[r][scorer].at # "not due" =>
                            scores[r][scorer].text = sideChannel'[i].text
                BY <2>0, <2>5, <3>2, <4>1 DEF AnsweredOnce
            <4>4. r # s \/ ~ due
                BY <1>14, <4>3
            <4>5. scores'[r] = scores[r]
                BY <2>2, <4>2, <4>4
            <4> QED
                BY <1>4, <2>1, <4>2, <4>3, <4>5
        <3>3. i = Len(sideChannel) + 1 \/ i \in 1 .. Len(sideChannel)
            BY <1>6
        <3> QED
            BY <3>1, <3>2, <3>3
    <2>6. \A i \in 1 .. Len(sideChannel') :
              sideChannel'[i].gen.pass = "evaluation" =>
                  /\ sideChannel'[i].gen.sample \notin todo'
                  /\ \A v \in Workers : ~ Evaluates(v, sideChannel[i].gen.sample)'
                  /\ \A scorer \in Scorers :
                        scores'[sideChannel'[i].gen.sample][scorer].at # "not due" =>
                            scores'[sideChannel'[i].gen.sample][scorer].text = sideChannel'[i].text
        BY <2>5 DEF Evaluates
    <2> QED
        BY <2>3, <2>4, <2>6 DEF AnsweredOnce
<1>16. NoJudgeNoScores'
    BY <1>4, <1>9 DEF ScoringInv, NoJudgeNoScores, setup, due
<1>17. VerdictsAreKept'
    <2>1. ASSUME NEW r \in Samples, NEW scorer \in Scorers,
                 scores'[r][scorer].at \in {"asking", "scored"}
          PROVE  scores'[r][scorer] = scores[r][scorer]
        BY <1>8, <1>9, <2>1
    <2>2. \A r \in Samples, scorer \in Scorers :
              scores'[r][scorer].at \in {"asking", "scored"} =>
                  scores'[r][scorer] = scores[r][scorer]
        BY <2>1
    <2>3. VerdictsAreKept /\ UNCHANGED <<cache, contested>>
        BY <1>4 DEF ScoringInv
    <2> QED
        BY <2>2, <2>3 DEF VerdictsAreKept, KeyOf
<1> QED
    BY <1>2, <1>3, <1>4, <1>11, <1>12, <1>13, <1>15, <1>16, <1>17, NothingIsLogged
       DEF ScoringInv, loop, Guarded
-----------------------------------------------------------------------------
(***************************************************************************)
(* The judge.                                                              *)
(***************************************************************************)

LEMMA OneScoreChanges ==
    ASSUME Typed, NEW s \in Samples, NEW scorer \in Scorers, NEW y \in ScoreStates,
           scores' = [scores EXCEPT ![s][scorer] = y]
    PROVE  /\ scores' \in [Samples -> [Scorers -> ScoreStates]]
           /\ scores'[s][scorer] = y
           /\ \A r \in Samples, other \in Scorers :
                 r # s \/ other # scorer => scores'[r][other] = scores[r][other]
<1>1. scores \in [Samples -> [Scorers -> ScoreStates]]
    BY DEF Typed
<1>2. scores[s] \in [Scorers -> ScoreStates]
    BY <1>1
<1>3. [scores[s] EXCEPT ![scorer] = y] \in [Scorers -> ScoreStates]
    BY <1>2
<1>4. scores' = [scores EXCEPT ![s] = [scores[s] EXCEPT ![scorer] = y]]
    OBVIOUS
<1>5. scores'[s] = [scores[s] EXCEPT ![scorer] = y]
    BY <1>1, <1>4
<1> QED
    BY <1>1, <1>2, <1>3, <1>4, <1>5

\* What a memory that may be full does with a verdict.
LEMMA RememberedFacts ==
    ASSUME NEW key, NEW verdict, cache' = Remembered(key, verdict)
    PROVE  /\ DOMAIN cache' \subseteq DOMAIN cache \cup {key}
           /\ \A k \in DOMAIN cache : k \in DOMAIN cache' /\ (k # key => cache'[k] = cache[k])
           /\ \A k \in DOMAIN cache' :
                 cache'[k] = verdict \/ (k \in DOMAIN cache /\ cache'[k] = cache[k])
           /\ key \in Forgotten(key) \/ (key \in DOMAIN cache' /\ cache'[key] = verdict)
BY DEF Remembered, Forgotten

\* Whatever a scorer learns, the rest of the stage stands.
LEMMA ScorerInv ==
    ASSUME ScoringInv, NEW s \in Samples, NEW scorer \in Scorers, NEW y \in ScoreStates,
           scores[s][scorer].at \in {"due", "asking"},
           y.at \in {"asking", "scored"}, y.text = scores[s][scorer].text,
           scores' = [scores EXCEPT ![s][scorer] = y],
           phase \in Guarded, UNCHANGED <<setup, phase, harness, meta, loop>>,
           DOMAIN cache' \cup contested' \subseteq Questions \X Texts,
           \A key \in DOMAIN cache' : cache'[key] \in Outcomes,
           VerdictsAreKept'
    PROVE  ScoringInv'
<1>1. Typed /\ logged = <<>> /\ answer = None
    BY GuardedHasNoLog DEF ScoringInv
<1>2. /\ scores' \in [Samples -> [Scorers -> ScoreStates]]
      /\ scores'[s][scorer] = y
      /\ \A r \in Samples, other \in Scorers :
            r # s \/ other # scorer => scores'[r][other] = scores[r][other]
    BY <1>1, OneScoreChanges
<1>3. /\ UNCHANGED <<rag, judge, phase, todo, worker, sideChannel>>
      /\ UNCHANGED <<lastGeneration, lastRetrieval, next, answer, logged>>
    BY DEF setup, harness, meta, loop
<1>4. Typed'
    <2>1. ScoringTypeOK'
        BY <1>1, <1>2, <1>3, ScoresTyped DEF Typed, ScoringTypeOK
    <2> QED
        BY <1>1, <1>2, <1>3, <2>1 DEF Typed
<1>5. AloneIsMeasured' /\ RowsAreMeasured'
    BY <1>3 DEF ScoringInv, AloneIsMeasured, RowsAreMeasured
<1>6. \A r \in Samples, other \in Scorers :
          /\ scores'[r][other].at = "not due" <=> scores[r][other].at = "not due"
          /\ scores[r][other].at # "not due" => scores'[r][other].text = scores[r][other].text
    <2> SUFFICES ASSUME NEW r \in Samples, NEW other \in Scorers
                 PROVE  /\ scores'[r][other].at = "not due" <=> scores[r][other].at = "not due"
                        /\ scores[r][other].at # "not due" =>
                              scores'[r][other].text = scores[r][other].text
        OBVIOUS
    <2>1. CASE r = s /\ other = scorer
        BY <1>2, <2>1
    <2>2. CASE r # s \/ other # scorer
        BY <1>2, <2>2
    <2> QED
        BY <2>1, <2>2
<1>7. AnsweredOnce'
    <2>1. \A v, r : Evaluates(v, r)' = Evaluates(v, r)
        BY <1>3 DEF Evaluates
    <2>2. todo \subseteq Samples /\ \A i \in 1 .. Len(sideChannel) : sideChannel[i].gen.sample \in Samples
        BY <1>1, RowTypes DEF Typed, ScoringTypeOK
    <2>3. AnsweredOnce
        BY DEF ScoringInv
    <2>4. \A v \in Workers, r \in Samples :
              Evaluates(v, r) =>
                  /\ r \notin todo
                  /\ \A u \in Workers : Evaluates(u, r) => u = v
                  /\ \A other \in Scorers : scores'[r][other].at = "not due"
        BY <1>6, <2>3 DEF AnsweredOnce
    <2>5. \A r \in todo, other \in Scorers : scores'[r][other].at = "not due"
        BY <1>6, <2>2, <2>3 DEF AnsweredOnce
    <2>6. ASSUME NEW i \in 1 .. Len(sideChannel), sideChannel[i].gen.pass = "evaluation",
                 NEW r, r = sideChannel[i].gen.sample
          PROVE  /\ r \notin todo
                 /\ \A v \in Workers : ~ Evaluates(v, r)
                 /\ \A other \in Scorers :
                       scores'[r][other].at # "not due" => scores'[r][other].text = sideChannel[i].text
        <3>1. r \in Samples
            BY <2>2, <2>6
        <3>2. /\ r \notin todo
              /\ \A v \in Workers : ~ Evaluates(v, r)
              /\ \A other \in Scorers :
                    scores[r][other].at # "not due" => scores[r][other].text = sideChannel[i].text
            BY <2>3, <2>6 DEF AnsweredOnce
        <3> QED
            BY <1>6, <3>1, <3>2
    <2>7. ASSUME NEW i \in 1 .. Len(sideChannel), sideChannel[i].gen.pass = "evaluation"
          PROVE  /\ sideChannel[i].gen.sample \notin todo'
                 /\ \A v \in Workers : ~ Evaluates(v, sideChannel[i].gen.sample)'
                 /\ \A other \in Scorers :
                       scores'[sideChannel[i].gen.sample][other].at # "not due" =>
                           scores'[sideChannel[i].gen.sample][other].text = sideChannel[i].text
        BY <1>3, <2>1, <2>6, <2>7
    <2>8. \A v \in Workers, r \in Samples :
              Evaluates(v, r)' =>
                  /\ r \notin todo'
                  /\ \A u \in Workers : Evaluates(u, r)' => u = v
                  /\ \A other \in Scorers : scores'[r][other].at = "not due"
        BY <1>3, <2>1, <2>4
    <2>9. \A r \in todo', other \in Scorers : scores'[r][other].at = "not due"
        BY <1>3, <2>5
    <2> QED
        BY <1>3, <2>7, <2>8, <2>9, AnsweredAgain
<1>8. NoJudgeNoScores'
    BY <1>3, <1>6 DEF ScoringInv, NoJudgeNoScores
<1> QED
    BY <1>1, <1>3, <1>4, <1>5, <1>7, <1>8, NothingIsLogged DEF ScoringInv

\* A scorer that finds the text asked about by another makes it contested.
LEMMA LookUpInv ==
    ASSUME ScoringInv, NEW s \in Samples, NEW scorer \in Scorers, LookUp(s, scorer)
    PROVE  ScoringInv'
<1> DEFINE x == scores[s][scorer]
           key == KeyOf(s, scorer)
<1>1. /\ Typed /\ x \in ScoreStates /\ x.at = "due" /\ phase \in Guarded
      /\ UNCHANGED <<setup, phase, harness, meta, cache, loop>>
      /\ VerdictsAreKept
    BY DEF ScoringInv, Typed, LookUp, Guarded
<1>2. x.text \in Texts /\ key \in Questions \X Texts
    BY <1>1, ScoreShapes, KeysAreTyped DEF KeyOf
<1>3. /\ DOMAIN cache \cup contested \subseteq Questions \X Texts
      /\ \A k \in DOMAIN cache : cache[k] \in Outcomes
    BY <1>1 DEF Typed, ScoringTypeOK
<1>4. CASE key \in DOMAIN cache
    <2> DEFINE y == [at |-> "scored", text |-> x.text, verdict |-> cache[key]]
    <2>1. y \in ScoreStates /\ y.at = "scored" /\ y.text = x.text /\ y.verdict = cache[key]
        BY <1>1, <1>3, <1>4, ScoredShapes
    <2>2. scores' = [scores EXCEPT ![s][scorer] = y] /\ UNCHANGED contested
        BY <1>1, <1>4 DEF LookUp, Scored, KeyOf, Typed
    <2> HIDE DEF y
    <2>3. VerdictsAreKept'
        <3>1. /\ scores'[s][scorer] = y
              /\ \A r \in Samples, other \in Scorers :
                    r # s \/ other # scorer => scores'[r][other] = scores[r][other]
            BY <1>1, <2>1, <2>2, OneScoreChanges
        <3>2. \A r \in Samples, other \in Scorers :
                  KeyOf(r, other)' = KeyOf(r, other)
            BY <2>1, <3>1 DEF KeyOf
        <3>3. cache' = cache /\ contested' = contested
            BY <1>1, <2>2
        <3>4. \A r \in Samples, other \in Scorers :
                  scores'[r][other].at = "asking" => scores[r][other].at = "asking"
            BY <2>1, <3>1
        <3> QED
            BY <1>1, <1>4, <2>1, <3>1, <3>2, <3>3, <3>4 DEF VerdictsAreKept
    <2> QED
        BY <1>1, <1>3, <2>1, <2>2, <2>3, ScorerInv
<1>5. CASE key \notin DOMAIN cache
    <2> DEFINE y == [x EXCEPT !.at = "asking"]
    <2>1. y \in ScoreStates /\ y.at = "asking" /\ y.text = x.text
        BY <1>1, AskingShapes
    <2>2. /\ scores' = [scores EXCEPT ![s][scorer] = y]
          /\ contested' = contested \cup (IF Asking(key) THEN {key} ELSE {})
        BY <1>1, <1>5 DEF LookUp, KeyOf, Typed
    <2> HIDE DEF y
    <2>3. VerdictsAreKept'
        <3>1. /\ scores'[s][scorer] = y
              /\ \A r \in Samples, other \in Scorers :
                    r # s \/ other # scorer => scores'[r][other] = scores[r][other]
            BY <1>1, <2>1, <2>2, OneScoreChanges
        <3>2. \A r \in Samples, other \in Scorers :
                  KeyOf(r, other)' = KeyOf(r, other)
            BY <2>1, <3>1 DEF KeyOf
        <3>3. cache' = cache /\ contested \subseteq contested'
            BY <1>1, <2>2
        <3>4. \A r \in Samples, other \in Scorers :
                  scores[r][other].at = "asking" /\ KeyOf(r, other) = key => key \in contested'
            BY <2>2 DEF Asking, KeyOf
        <3>5. ASSUME NEW r \in Samples, NEW other \in Scorers,
                     scores'[r][other].at = "asking", KeyOf(r, other) \notin contested'
              PROVE  /\ KeyOf(r, other) \notin DOMAIN cache
                     /\ \A q \in Samples, third \in Scorers :
                           scores'[q][third].at = "asking" /\ KeyOf(q, third) = KeyOf(r, other) =>
                               q = r /\ third = other
            <4>1. CASE r = s /\ other = scorer
                BY <1>5, <3>1, <3>4, <3>5, <4>1
            <4>2. CASE r # s \/ other # scorer
                <5>1. scores[r][other].at = "asking" /\ KeyOf(r, other) # key
                    BY <3>1, <3>4, <3>5, <4>2
                <5>2. KeyOf(r, other) \notin contested
                    BY <3>3, <3>5
                <5>3. ASSUME NEW q \in Samples, NEW third \in Scorers,
                             scores'[q][third].at = "asking", KeyOf(q, third) = KeyOf(r, other)
                      PROVE  scores[q][third].at = "asking"
                    BY <3>1, <5>1, <5>3
                <5> QED
                    BY <1>1, <5>1, <5>2, <5>3 DEF VerdictsAreKept
            <4> QED
                BY <4>1, <4>2
        <3>6. ASSUME NEW r \in Samples, NEW other \in Scorers,
                     scores'[r][other].at = "scored", KeyOf(r, other) \notin contested'
              PROVE  /\ KeyOf(r, other) \in DOMAIN cache
                     /\ cache[KeyOf(r, other)] = scores'[r][other].verdict
            <4>1. scores'[r][other] = scores[r][other]
                BY <2>1, <3>1, <3>6
            <4> QED
                BY <1>1, <3>3, <3>6, <4>1 DEF VerdictsAreKept
        <3> HIDE DEF key
        <3> QED
            BY <3>2, <3>3, <3>5, <3>6 DEF VerdictsAreKept
    <2>4. contested' \subseteq Questions \X Texts
        BY <1>2, <1>3, <2>2
    <2> QED
        BY <1>1, <1>3, <2>1, <2>2, <2>3, <2>4, ScorerInv
<1> QED
    BY <1>4, <1>5

\* What the judge says is remembered, or the text is contested.
LEMMA AskInv ==
    ASSUME ScoringInv, NEW s \in Samples, NEW scorer \in Scorers, Ask(s, scorer)
    PROVE  ScoringInv'
<1> DEFINE x == scores[s][scorer]
           key == KeyOf(s, scorer)
<1>1. /\ Typed /\ x \in ScoreStates /\ x.at = "asking" /\ phase \in Guarded
      /\ UNCHANGED <<setup, phase, harness, meta, loop>>
      /\ VerdictsAreKept
      /\ contested' = contested \cup Forgotten(key)
    BY DEF ScoringInv, Typed, Ask, Guarded, JudgeResponse, KeyOf
<1>2. PICK verdict \in Outcomes :
          /\ scores' = [scores EXCEPT ![s][scorer] =
                           [at |-> "scored", text |-> x.text, verdict |-> verdict]]
          /\ cache' = Remembered(key, verdict)
    BY <1>1 DEF Ask, Scored, KeyOf, Typed
<1>3. x.text \in Texts /\ key \in Questions \X Texts
    BY <1>1, ScoreShapes, KeysAreTyped DEF KeyOf
<1> DEFINE y == [at |-> "scored", text |-> x.text, verdict |-> verdict]
<1>4. y \in ScoreStates /\ y.at = "scored" /\ y.text = x.text /\ y.verdict = verdict
    BY <1>1, ScoredShapes
<1>5. scores' = [scores EXCEPT ![s][scorer] = y]
    BY <1>2
<1> HIDE DEF y
<1>6. /\ scores'[s][scorer] = y
      /\ \A r \in Samples, other \in Scorers :
            r # s \/ other # scorer => scores'[r][other] = scores[r][other]
    BY <1>1, <1>4, <1>5, OneScoreChanges
<1>7. \A r \in Samples, other \in Scorers : KeyOf(r, other)' = KeyOf(r, other)
    BY <1>4, <1>6 DEF KeyOf
<1>8. /\ DOMAIN cache' \subseteq DOMAIN cache \cup {key}
      /\ \A k \in DOMAIN cache : k \in DOMAIN cache' /\ (k # key => cache'[k] = cache[k])
      /\ \A k \in DOMAIN cache' :
            cache'[k] = verdict \/ (k \in DOMAIN cache /\ cache'[k] = cache[k])
      /\ key \in Forgotten(key) \/ (key \in DOMAIN cache' /\ cache'[key] = verdict)
    BY <1>2, RememberedFacts
<1>9. /\ DOMAIN cache' \cup contested' \subseteq Questions \X Texts
      /\ \A k \in DOMAIN cache' : cache'[k] \in Outcomes
    <2>1. /\ DOMAIN cache \cup contested \subseteq Questions \X Texts
          /\ \A k \in DOMAIN cache : cache[k] \in Outcomes
        BY <1>1 DEF Typed, ScoringTypeOK
    <2>2. Forgotten(key) \subseteq {key}
        BY DEF Forgotten
    <2> HIDE DEF key
    <2> QED
        BY <1>1, <1>2, <1>3, <1>8, <2>1, <2>2
<1>10. VerdictsAreKept'
    <2> HIDE DEF key
    <2>1. ASSUME NEW r \in Samples, NEW other \in Scorers,
                 scores'[r][other].at = "asking", KeyOf(r, other) \notin contested'
          PROVE  /\ KeyOf(r, other) \notin DOMAIN cache'
                 /\ \A q \in Samples, third \in Scorers :
                       scores'[q][third].at = "asking" /\ KeyOf(q, third) = KeyOf(r, other) =>
                           q = r /\ third = other
        <3>1. (r # s \/ other # scorer) /\ scores[r][other].at = "asking"
            BY <1>4, <1>6, <2>1
        <3>2. KeyOf(r, other) \notin contested
            BY <1>1, <2>1
        <3>3. /\ KeyOf(r, other) \notin DOMAIN cache
              /\ \A q \in Samples, third \in Scorers :
                    scores[q][third].at = "asking" /\ KeyOf(q, third) = KeyOf(r, other) =>
                        q = r /\ third = other
            BY <1>1, <3>1, <3>2 DEF VerdictsAreKept
        <3>4. KeyOf(r, other) # key
            BY <1>1, <3>1, <3>3 DEF key
        <3>5. \A q \in Samples, third \in Scorers :
                  scores'[q][third].at = "asking" => scores[q][third].at = "asking"
            BY <1>4, <1>6
        <3> QED
            BY <1>8, <3>3, <3>4, <3>5
    <2>2. ASSUME NEW r \in Samples, NEW other \in Scorers,
                 scores'[r][other].at = "scored", KeyOf(r, other) \notin contested'
          PROVE  /\ KeyOf(r, other) \in DOMAIN cache'
                 /\ cache'[KeyOf(r, other)] = scores'[r][other].verdict
        <3>1. CASE r = s /\ other = scorer
            <4>1. KeyOf(r, other) = key /\ key \notin Forgotten(key)
                BY <1>1, <2>2, <3>1 DEF key
            <4> QED
                BY <1>4, <1>6, <1>8, <3>1, <4>1
        <3>2. CASE r # s \/ other # scorer
            <4>1. scores'[r][other] = scores[r][other] /\ KeyOf(r, other) \notin contested
                BY <1>1, <1>6, <2>2, <3>2
            <4>2. /\ KeyOf(r, other) \in DOMAIN cache
                  /\ cache[KeyOf(r, other)] = scores[r][other].verdict
                BY <1>1, <2>2, <4>1 DEF VerdictsAreKept
            <4>3. key \in contested \/ key \notin DOMAIN cache
                BY <1>1 DEF VerdictsAreKept, key
            <4>4. KeyOf(r, other) # key
                BY <4>1, <4>2, <4>3
            <4> QED
                BY <1>8, <4>1, <4>2, <4>4
        <3> QED
            BY <3>1, <3>2
    <2> QED
        BY <1>7, <2>1, <2>2 DEF VerdictsAreKept
<1> QED
    BY <1>1, <1>4, <1>5, <1>9, <1>10, ScorerInv
-----------------------------------------------------------------------------
(***************************************************************************)
(* The end of the harness, the loop over the prompts and the fallback.     *)
(***************************************************************************)

\* Nobody is at work.
NobodyWorks ==
    /\ \A w \in Workers : worker[w].at = "idle"
    /\ \A s \in Samples, scorer \in Scorers : scores[s][scorer].at \in {"not due", "scored"}

LEMMA OutsideNobodyWorks ==
    ASSUME ScoringInv, phase \notin Guarded
    PROVE  NobodyWorks
BY DEF ScoringInv, HarnessIsGuarded, NobodyWorks

LEMMA LoopIsTyped ==
    ASSUME Typed
    PROVE  /\ Len(Prompts) \in Nat /\ 1 \in 1 .. Len(Prompts) + 1
           /\ next \in Nat /\ next \in 1 .. Len(Prompts) + 1
           /\ Len(logged) \in Nat /\ Len(logged) < next
           /\ lastGeneration \in Measures /\ lastRetrieval \in Measures
           /\ answer \in Texts \cup {None}
<1>1. /\ next \in 1 .. Len(Prompts) + 1 /\ Len(logged) < next
      /\ lastGeneration \in Measures /\ lastRetrieval \in Measures
      /\ answer \in Texts \cup {None}
    BY DEF Typed, ScoringTypeOK, Measures
<1>2. logged \in Seq(LoggedRows)
    BY DEF Typed
<1>3. Len(Prompts) \in Nat
    BY SamplesAreNumbers
<1> QED
    BY <1>1, <1>2, <1>3

LEMMA LogStands ==
    ASSUME ScoringInv, UNCHANGED <<setup, scores, logged>>, contested \subseteq contested'
    PROVE  LogIsMeasured' /\ LogIsAssessed'
<1>1. LogIsMeasured'
    BY DEF ScoringInv, LogIsMeasured, MeasuredOnItsOwn, setup
<1>2. LogIsAssessed'
    BY DEF ScoringInv, LogIsAssessed, Key
<1> QED
    BY <1>1, <1>2

\* What the steps of the main thread that log nothing leave as it is.
LEMMA LoopStands ==
    ASSUME ScoringInv, NobodyWorks, UNCHANGED <<setup, harness, judging, logged>>,
           phase' \in {"logging", "fallback", "done", "failed"},
           next' \in 1 .. Len(Prompts) + 1, next <= next',
           answer' \in Texts \cup {None},
           lastGeneration' \in Measures, lastRetrieval' \in Measures,
           FallbackIsMeasured'
    PROVE  ScoringInv'
<1>1. /\ Typed
      /\ UNCHANGED <<rag, judge, todo, worker, sideChannel, scores, cache, contested, logged>>
    BY DEF ScoringInv, setup, harness, judging
<1>2. Typed'
    <2>1. Len(logged) \in Nat /\ Len(logged) < next /\ next \in Nat /\ next' \in Nat
        BY <1>1, LoopIsTyped
    <2>2. Len(logged') < next'
        BY <1>1, <2>1
    <2>3. ScoringTypeOK'
        BY <1>1, <2>2 DEF Typed, ScoringTypeOK, Measures
    <2> QED
        BY <1>1, <2>3 DEF Typed
<1>3. HarnessIsGuarded' /\ AloneIsMeasured'
    BY <1>1 DEF NobodyWorks, HarnessIsGuarded, AloneIsMeasured, Guarded
<1>4. AnsweredOnce'
    <2>1. \A v \in Workers, r \in Samples : Evaluates(v, r)' => Evaluates(v, r)
        BY <1>1 DEF Evaluates
    <2> QED
        BY <1>1, <2>1, AnsweredStands
<1> QED
    BY <1>1, <1>2, <1>3, <1>4, JudgingStands, RowsStand, LogStands DEF ScoringInv

LEMMA EvaluateReturnsInv == ScoringInv /\ EvaluateReturns => ScoringInv'
<1> SUFFICES ASSUME ScoringInv, EvaluateReturns PROVE ScoringInv'
    OBVIOUS
<1>1. Typed /\ phase \in Guarded
    BY DEF ScoringInv, EvaluateReturns, Guarded
<1>2. logged = <<>> /\ answer = None
    BY <1>1, GuardedHasNoLog
<1>3. NobodyWorks
    BY DEF EvaluateReturns, Busy, NobodyWorks
<1>4. UNCHANGED <<setup, harness, meta, judging, loop>> /\ phase' = "logging"
    BY DEF EvaluateReturns
<1>5. /\ next' \in 1 .. Len(Prompts) + 1 /\ next <= next'
      /\ lastGeneration' \in Measures /\ lastRetrieval' \in Measures
      /\ answer' = None /\ UNCHANGED logged
    <2>1. UNCHANGED <<lastGeneration, lastRetrieval, next, answer, logged>>
        BY <1>4 DEF meta, loop
    <2> QED
        BY <1>1, <1>2, <2>1, LoopIsTyped
<1> QED
    BY <1>3, <1>4, <1>5, LoopStands DEF FallbackIsMeasured

\* The fallback begins without rows and without assessments.
LEMMA EvaluateRaisesInv == ScoringInv /\ EvaluateRaises => ScoringInv'
<1> SUFFICES ASSUME ScoringInv, EvaluateRaises PROVE ScoringInv'
    OBVIOUS
<1>1. /\ Typed /\ phase \in Guarded /\ phase' = "fallback"
      /\ next' = 1 /\ todo' = {} /\ sideChannel' = <<>>
      /\ worker' = [w \in Workers |-> Idle] /\ scores' = [s \in Samples |-> Unscored]
      /\ UNCHANGED <<setup, meta, cache, contested, answer, logged>>
    BY DEF ScoringInv, EvaluateRaises
<1>2. logged' = <<>> /\ Len(logged') = 0 /\ answer' = None
    BY <1>1, GuardedHasNoLog
<1>3. Idle \in WorkerStates /\ Idle.at = "idle"
    BY DEF Idle, WorkerStates
<1>4. /\ worker' \in [Workers -> WorkerStates]
      /\ \A w \in Workers : worker'[w].at = "idle"
    <2> HIDE DEF Idle
    <2> QED
        BY <1>1, <1>3
<1>5. /\ scores' \in [Samples -> [Scorers -> ScoreStates]]
      /\ \A s \in Samples, scorer \in Scorers : scores'[s][scorer].at = "not due"
    BY <1>1, UnscoredShapes
<1>6. sideChannel' \in Seq(Rows) /\ Len(sideChannel') = 0
    BY <1>1
<1>7. Typed'
    <2>1. ScoringTypeOK'
        <3>1. next' \in 1 .. Len(Prompts) + 1 /\ Len(logged') < next'
            BY <1>1, <1>2, LoopIsTyped
        <3>2. UNCHANGED <<rag, judge, lastGeneration, lastRetrieval>>
            BY <1>1 DEF setup, meta
        <3>3. \A i \in 1 .. Len(sideChannel') : sideChannel'[i].gen \in Generations
            BY <1>6
        <3>4. /\ {rag', judge'} \subseteq BOOLEAN
              /\ phase' \in {"validating", "evaluating", "logging", "fallback", "done", "failed"}
              /\ todo' \subseteq Samples
              /\ {lastGeneration', lastRetrieval'} \subseteq Generations \cup {None}
              /\ answer' \in Texts \cup {None}
            BY <1>1, <1>2, <3>2 DEF Typed, ScoringTypeOK
        <3>5. /\ DOMAIN cache' \cup contested' \subseteq Questions \X Texts
              /\ \A key \in DOMAIN cache' : cache'[key] \in Outcomes
            BY <1>1 DEF Typed, ScoringTypeOK
        <3> QED
            BY <1>4, <1>5, <3>1, <3>3, <3>4, <3>5 DEF ScoringTypeOK
    <2> QED
        BY <1>1, <1>4, <1>5, <1>6, <2>1 DEF Typed
<1>8. HarnessIsGuarded' /\ AloneIsMeasured' /\ FallbackIsMeasured'
    BY <1>1, <1>2, <1>4, <1>5 DEF HarnessIsGuarded, AloneIsMeasured, FallbackIsMeasured, Guarded
<1>9. RowsAreMeasured' /\ LogIsMeasured' /\ LogIsAssessed'
    BY <1>2, <1>6 DEF RowsAreMeasured, LogIsMeasured, LogIsAssessed
<1>10. AnsweredOnce'
    <2>1. \A v \in Workers, r \in Samples : ~ Evaluates(v, r)'
        BY <1>4 DEF Evaluates
    <2>2. \A i \in 1 .. Len(sideChannel') : FALSE
        BY <1>6
    <2> QED
        BY <1>1, <2>1, <2>2 DEF AnsweredOnce
<1>11. NoJudgeNoScores' /\ VerdictsAreKept'
    BY <1>5 DEF NoJudgeNoScores, VerdictsAreKept
<1> QED
    BY <1>7, <1>8, <1>9, <1>10, <1>11 DEF ScoringInv

\* A sample without a row is passed over.
LEMMA SkipSampleInv == ScoringInv /\ SkipSample => ScoringInv'
<1> SUFFICES ASSUME ScoringInv, SkipSample PROVE ScoringInv'
    OBVIOUS
<1>1. /\ Typed /\ phase = "logging" /\ next \in Samples /\ next' = next + 1
      /\ UNCHANGED <<setup, phase, harness, meta, judging, answer, logged>>
    BY DEF ScoringInv, SkipSample
<1>2. answer' = None
    BY <1>1 DEF ScoringInv, FallbackIsMeasured
<1>3. NobodyWorks
    BY <1>1, OutsideNobodyWorks DEF Guarded
<1>4. /\ next' \in 1 .. Len(Prompts) + 1 /\ next <= next'
      /\ lastGeneration' \in Measures /\ lastRetrieval' \in Measures
    BY <1>1, LoopIsTyped DEF Samples, meta
<1> QED
    BY <1>1, <1>2, <1>3, <1>4, LoopStands DEF FallbackIsMeasured

\* The fallback retrieves for, and answers, the prompt the loop is at.
LEMMA FallbackAnswersInv == ScoringInv /\ FallbackAnswers => ScoringInv'
<1> SUFFICES ASSUME ScoringInv, FallbackAnswers PROVE ScoringInv'
    OBVIOUS
<1> DEFINE gen == [sample |-> next, pass |-> "fallback"]
<1>1. /\ Typed /\ phase = "fallback" /\ next \in Samples /\ answer' \in Texts
      /\ lastGeneration' = gen /\ lastRetrieval' = IF rag THEN gen ELSE lastRetrieval
      /\ UNCHANGED <<setup, phase, harness, judging, next, logged>>
    BY DEF ScoringInv, FallbackAnswers
<1>2. gen \in Measures
    BY <1>1, GenerationShapes DEF Measures, Passes
<1>3. NobodyWorks
    BY <1>1, OutsideNobodyWorks DEF Guarded
<1>4. /\ next' \in 1 .. Len(Prompts) + 1 /\ next <= next'
      /\ lastGeneration' \in Measures /\ lastRetrieval' \in Measures
    <2> HIDE DEF gen
    <2> QED
        BY <1>1, <1>2, LoopIsTyped
<1>5. FallbackIsMeasured'
    BY <1>1 DEF FallbackIsMeasured, setup
<1> QED
    BY <1>1, <1>3, <1>4, <1>5, LoopStands

LEMMA FallbackFailsInv == ScoringInv /\ FallbackFails => ScoringInv'
<1> SUFFICES ASSUME ScoringInv, FallbackFails PROVE ScoringInv'
    OBVIOUS
<1>1. /\ Typed /\ phase = "fallback" /\ answer = None /\ phase' = "failed"
      /\ UNCHANGED <<setup, harness, meta, judging, loop>>
    BY DEF ScoringInv, FallbackFails
<1>2. NobodyWorks
    BY <1>1, OutsideNobodyWorks DEF Guarded
<1>3. UNCHANGED <<lastGeneration, lastRetrieval, next, answer, logged>>
    BY <1>1 DEF meta, loop
<1>4. /\ next' \in 1 .. Len(Prompts) + 1 /\ next <= next'
      /\ lastGeneration' \in Measures /\ lastRetrieval' \in Measures /\ answer' = None
    BY <1>1, <1>3, LoopIsTyped
<1> QED
    BY <1>1, <1>2, <1>3, <1>4, LoopStands DEF FallbackIsMeasured

\* The loop is over; an answer of the fallback would be of a prompt it is at.
LEMMA EndInv == ScoringInv /\ End => ScoringInv'
<1> SUFFICES ASSUME ScoringInv, End PROVE ScoringInv'
    OBVIOUS
<1>1. /\ Typed /\ phase \in {"logging", "fallback"} /\ next > Len(Prompts)
      /\ phase' \in {"done", "failed"}
      /\ UNCHANGED <<setup, harness, meta, judging, loop>>
    BY DEF ScoringInv, End
<1>2. NobodyWorks
    BY <1>1, OutsideNobodyWorks DEF Guarded
<1>3. next \notin Samples
    BY <1>1, LoopIsTyped DEF Samples
<1>4. answer = None
    BY <1>3 DEF ScoringInv, FallbackIsMeasured
<1>5. UNCHANGED <<lastGeneration, lastRetrieval, next, answer, logged>>
    BY <1>1 DEF meta, loop
<1>6. /\ next' \in 1 .. Len(Prompts) + 1 /\ next <= next'
      /\ lastGeneration' \in Measures /\ lastRetrieval' \in Measures /\ answer' = None
    BY <1>1, <1>4, <1>5, LoopIsTyped
<1> QED
    BY <1>1, <1>2, <1>5, <1>6, LoopStands DEF FallbackIsMeasured

\* evaluate_response learns what is remembered, or what is remembered from then on.
LEMMA JudgedFacts ==
    ASSUME ScoringInv, NobodyWorks, UNCHANGED <<setup, scores>>,
           NEW s \in Samples, NEW text \in Texts, NEW verdict \in Outcomes,
           Judged(s, text, verdict)
    PROVE  /\ UNCHANGED meta
           /\ contested \subseteq contested'
           /\ DOMAIN cache' \cup contested' \subseteq Questions \X Texts
           /\ \A k \in DOMAIN cache' : cache'[k] \in Outcomes
           /\ VerdictsAreKept'
           /\ judge /\ Key(s, text) \notin contested' =>
                 Key(s, text) \in DOMAIN cache' /\ cache'[Key(s, text)] = verdict
<1> DEFINE key == Key(s, text)
<1>1. /\ DOMAIN cache \cup contested \subseteq Questions \X Texts
      /\ \A k \in DOMAIN cache : cache[k] \in Outcomes
    BY DEF ScoringInv, Typed, ScoringTypeOK
<1>2. \A r \in Samples, other \in Scorers : KeyOf(r, other)' = KeyOf(r, other)
    BY DEF KeyOf
<1>3. key \in Questions \X Texts
    BY KeysAreTyped
<1>4. VerdictsAreKept
    BY DEF ScoringInv
<1> HIDE DEF key
<1>5. CASE UNCHANGED <<cache, contested, meta>> /\ (judge => key \in DOMAIN cache /\ verdict = cache[key])
    <2>1. VerdictsAreKept'
        BY <1>2, <1>4, <1>5 DEF VerdictsAreKept
    <2> QED
        BY <1>1, <1>5, <2>1 DEF key
<1>6. CASE /\ key \notin DOMAIN cache /\ cache' = Remembered(key, verdict)
           /\ contested' = contested \cup Forgotten(key) /\ UNCHANGED meta
    <2>1. /\ DOMAIN cache' \subseteq DOMAIN cache \cup {key}
          /\ \A k \in DOMAIN cache : k \in DOMAIN cache' /\ (k # key => cache'[k] = cache[k])
          /\ \A k \in DOMAIN cache' :
                cache'[k] = verdict \/ (k \in DOMAIN cache /\ cache'[k] = cache[k])
          /\ key \in Forgotten(key) \/ (key \in DOMAIN cache' /\ cache'[key] = verdict)
        BY <1>6, RememberedFacts
    <2>2. Forgotten(key) \subseteq {key}
        BY DEF Forgotten
    <2>3. /\ DOMAIN cache' \cup contested' \subseteq Questions \X Texts
          /\ \A k \in DOMAIN cache' : cache'[k] \in Outcomes
        BY <1>1, <1>3, <1>6, <2>1, <2>2
    <2>4. ASSUME NEW r \in Samples, NEW other \in Scorers,
                 scores[r][other].at = "scored", KeyOf(r, other) \notin contested'
          PROVE  /\ KeyOf(r, other) \in DOMAIN cache'
                 /\ cache'[KeyOf(r, other)] = scores[r][other].verdict
        <3>1. /\ KeyOf(r, other) \in DOMAIN cache
              /\ cache[KeyOf(r, other)] = scores[r][other].verdict
            BY <1>4, <1>6, <2>4 DEF VerdictsAreKept
        <3> QED
            BY <1>6, <2>1, <3>1
    <2>5. VerdictsAreKept'
        BY <1>2, <2>4 DEF VerdictsAreKept, NobodyWorks
    <2> QED
        BY <1>6, <2>1, <2>3, <2>5 DEF key
<1> QED
    BY <1>5, <1>6 DEF Judged, JudgeResponse, key

LEMMA LoggedShapes ==
    ASSUME NEW row \in Rows, NEW s \in Samples, NEW verdict \in Outcomes,
           NEW y, y = [sample |-> s, gen |-> row.gen, text |-> row.text,
                       generation |-> row.generation, retrieval |-> row.retrieval,
                       alone |-> row.alone, verdict |-> verdict]
    PROVE  /\ y \in LoggedRows
           /\ y.sample = s /\ y.gen = row.gen /\ y.text = row.text /\ y.verdict = verdict
           /\ y.alone = row.alone
           /\ y.generation = row.generation /\ y.retrieval = row.retrieval
<1> DEFINE alone == row.alone
<1>1. /\ row.gen \in Generations /\ row.text \in Texts /\ alone \in BOOLEAN
      /\ row.generation \in Measures /\ row.retrieval \in Measures
    BY DEF Rows
<1>2. y = [sample |-> s, gen |-> row.gen, text |-> row.text,
           generation |-> row.generation, retrieval |-> row.retrieval,
           alone |-> alone, verdict |-> verdict]
    OBVIOUS
<1> HIDE DEF alone
<1>3. /\ y \in LoggedRows
      /\ y.sample = s /\ y.gen = row.gen /\ y.text = row.text /\ y.verdict = verdict
      /\ y.alone = alone
      /\ y.generation = row.generation /\ y.retrieval = row.retrieval
    BY <1>1, <1>2 DEF LoggedRows
<1> QED
    BY <1>3 DEF alone

\* What a row was measured by, if it was alone.
MeasuredRow(row) ==
    row.alone => /\ row.generation = row.gen
                 /\ row.retrieval = IF rag THEN row.gen ELSE None

\* What its sample's scores are about, if the harness has scored it.
ScoredOnIts(row) ==
    row.gen.pass = "evaluation" =>
        \A scorer \in Scorers :
            scores[next][scorer].at # "not due" => scores[next][scorer].text = row.text

\* A row that is logged is measured by its own calls if it was alone, and its verdict is
\* the one its assessments have.
LEMMA LogInv ==
    ASSUME ScoringInv, NobodyWorks, phase \in {"logging", "fallback"}, next \in Samples,
           NEW row \in Rows, NEW verdict \in Outcomes,
           Judged(next, row.text, verdict), Log(row, verdict),
           row.gen.sample = next,
           MeasuredRow(row),
           ScoredOnIts(row),
           next' = next + 1, answer' = None,
           UNCHANGED <<setup, phase, harness, scores>>
    PROVE  ScoringInv'
<1>1. /\ Typed /\ UNCHANGED <<rag, judge, phase, todo, worker, sideChannel, scores>>
      /\ row.text \in Texts
    BY DEF ScoringInv, setup, harness, Rows
<1>2. /\ UNCHANGED <<lastGeneration, lastRetrieval>>
      /\ contested \subseteq contested'
      /\ DOMAIN cache' \cup contested' \subseteq Questions \X Texts
      /\ \A k \in DOMAIN cache' : cache'[k] \in Outcomes
      /\ VerdictsAreKept'
      /\ judge /\ Key(next, row.text) \notin contested' =>
            /\ Key(next, row.text) \in DOMAIN cache'
            /\ cache'[Key(next, row.text)] = verdict
    BY <1>1, JudgedFacts DEF meta
<1> DEFINE y == [sample |-> next, gen |-> row.gen, text |-> row.text,
                 generation |-> row.generation, retrieval |-> row.retrieval,
                 alone |-> row.alone, verdict |-> verdict]
<1>3. /\ y \in LoggedRows
      /\ y.sample = next /\ y.gen = row.gen /\ y.text = row.text /\ y.verdict = verdict
      /\ y.alone = row.alone
      /\ y.generation = row.generation /\ y.retrieval = row.retrieval
    BY LoggedShapes
<1>4. logged' = Append(logged, y)
    BY DEF Log
<1> HIDE DEF y
<1>5. /\ logged' \in Seq(LoggedRows)
      /\ Len(logged) \in Nat /\ Len(logged') = Len(logged) + 1
      /\ logged'[Len(logged) + 1] = y
      /\ \A i \in 1 .. Len(logged) : logged'[i] = logged[i]
    <2>1. logged \in Seq(LoggedRows)
        BY <1>1 DEF Typed
    <2>2. y \in LoggedRows
        BY <1>3
    <2> QED
        BY <1>4, <2>1, <2>2, Appended
<1>6. /\ next' \in 1 .. Len(Prompts) + 1 /\ Len(logged') < next'
      /\ lastGeneration' \in Measures /\ lastRetrieval' \in Measures
    <2>1. /\ next' \in 1 .. Len(Prompts) + 1 /\ Len(logged) < next
          /\ lastGeneration \in Measures /\ lastRetrieval \in Measures
        BY <1>1, LoopIsTyped DEF Samples
    <2>2. next \in Nat
        BY <1>1, LoopIsTyped
    <2>3. Len(logged') < next'
        BY <1>5, <2>1, <2>2
    <2> QED
        BY <1>2, <2>1, <2>3
<1>7. Typed'
    <2>1. ScoringTypeOK'
        BY <1>1, <1>2, <1>6 DEF Typed, ScoringTypeOK, Measures
    <2> QED
        BY <1>1, <1>5, <2>1 DEF Typed
<1>8. HarnessIsGuarded' /\ AloneIsMeasured' /\ FallbackIsMeasured'
    BY <1>1 DEF NobodyWorks, HarnessIsGuarded, AloneIsMeasured, FallbackIsMeasured, Guarded
<1>9. AnsweredOnce'
    <2>1. \A v \in Workers, r \in Samples : Evaluates(v, r)' => Evaluates(v, r)
        BY <1>1 DEF Evaluates
    <2> QED
        BY <1>1, <2>1, AnsweredStands
<1>10. NoJudgeNoScores'
    BY <1>1 DEF ScoringInv, NoJudgeNoScores
<1>11. \A i \in 1 .. Len(logged') : i = Len(logged) + 1 \/ i \in 1 .. Len(logged)
    BY <1>5
<1>12. LogIsMeasured'
    <2>1. /\ y.gen.sample = y.sample
          /\ y.alone => /\ y.generation = y.gen
                        /\ y.retrieval = IF rag THEN y.gen ELSE None
        BY <1>3 DEF MeasuredRow
    <2>2. ASSUME NEW i \in 1 .. Len(logged')
          PROVE  /\ logged'[i].gen.sample = logged'[i].sample
                 /\ logged'[i].alone =>
                       /\ logged'[i].generation = logged'[i].gen
                       /\ logged'[i].retrieval = IF rag THEN logged'[i].gen ELSE None
        <3>1. CASE i = Len(logged) + 1
            BY <1>5, <2>1, <3>1
        <3>2. CASE i \in 1 .. Len(logged)
            BY <1>5, <3>2 DEF ScoringInv, LogIsMeasured, MeasuredOnItsOwn
        <3> QED
            BY <1>11, <3>1, <3>2
    <2> QED
        BY <1>1, <2>2 DEF LogIsMeasured, MeasuredOnItsOwn
<1>13. LogIsAssessed'
    <2>1. ASSUME NEW scorer \in Scorers,
                 row.gen.pass = "evaluation", scores[next][scorer].at = "scored",
                 Key(next, row.text) \notin contested'
          PROVE  scores[next][scorer].verdict = verdict
        <3>1. judge
            BY <2>1 DEF ScoringInv, NoJudgeNoScores
        <3>2. cache'[Key(next, row.text)] = verdict
            BY <1>2, <2>1, <3>1
        <3>3. scores[next][scorer].text = row.text
            BY <2>1 DEF ScoredOnIts
        <3>4. KeyOf(next, scorer) = Key(next, row.text)
            BY <3>3 DEF KeyOf
        <3>5. \A s \in Samples, other \in Scorers : KeyOf(s, other)' = KeyOf(s, other)
            BY <1>1 DEF KeyOf
        <3>6. \A s \in Samples, other \in Scorers :
                  scores[s][other].at = "scored" /\ KeyOf(s, other) \notin contested' =>
                      cache'[KeyOf(s, other)] = scores[s][other].verdict
            <4>1. VerdictsAreKept' /\ scores' = scores
                BY <1>1, <1>2
            <4> QED
                BY <3>5, <4>1 DEF VerdictsAreKept
        <3> QED
            BY <2>1, <3>2, <3>4, <3>6
    <2>2. ASSUME NEW i \in 1 .. Len(logged'), NEW scorer \in Scorers,
                 NEW r, r = logged'[i],
                 r.gen.pass = "evaluation", scores[r.sample][scorer].at = "scored",
                 Key(r.sample, r.text) \notin contested'
          PROVE  scores[r.sample][scorer].verdict = r.verdict
        <3>1. CASE i = Len(logged) + 1
            <4>1. r = y
                BY <1>5, <2>2, <3>1
            <4> QED
                BY <1>3, <2>1, <2>2, <4>1
        <3>2. CASE i \in 1 .. Len(logged)
            <4>1. r = logged[i] /\ Key(r.sample, r.text) \notin contested
                BY <1>2, <1>5, <2>2, <3>2
            <4> QED
                BY <2>2, <3>2, <4>1 DEF ScoringInv, LogIsAssessed
        <3> QED
            BY <1>11, <3>1, <3>2
    <2>3. \A i \in 1 .. Len(logged'), scorer \in Scorers :
              /\ logged'[i].gen.pass = "evaluation"
              /\ scores[logged'[i].sample][scorer].at = "scored"
              /\ Key(logged'[i].sample, logged'[i].text) \notin contested'
              => scores[logged'[i].sample][scorer].verdict = logged'[i].verdict
        BY <2>2
    <2> QED
        BY <1>1, <2>3 DEF LogIsAssessed, Key
<1> QED
    BY <1>1, <1>2, <1>7, <1>8, <1>9, <1>10, <1>12, <1>13, RowsStand DEF ScoringInv

LEMMA LogSampleInv == ScoringInv /\ LogSample => ScoringInv'
<1> SUFFICES ASSUME ScoringInv, LogSample PROVE ScoringInv'
    OBVIOUS
<1>1. /\ Typed /\ phase = "logging" /\ next \in Samples /\ RowsOf(next) # {}
      /\ next' = next + 1 /\ UNCHANGED <<setup, phase, harness, scores, answer>>
    BY DEF ScoringInv, LogSample
<1>2. PICK verdict \in Outcomes :
          Judged(next, BySample(next).text, verdict) /\ Log(BySample(next), verdict)
    BY DEF LogSample
<1>3. PICK i \in 1 .. Len(sideChannel) :
          sideChannel[i].gen.sample = next /\ BySample(next) = sideChannel[i]
    BY <1>1, RowOfItsSample
<1> DEFINE row == BySample(next)
<1>4. row \in Rows /\ row.gen.sample = next
    BY <1>1, <1>3, RowTypes
<1>5. MeasuredRow(row)
    BY <1>3 DEF ScoringInv, RowsAreMeasured, MeasuredRow
<1>6. ScoredOnIts(row)
    BY <1>3 DEF ScoringInv, AnsweredOnce, ScoredOnIts
<1>7. Judged(next, row.text, verdict) /\ Log(row, verdict)
    BY <1>2
<1>8. answer' = None
    BY <1>1 DEF ScoringInv, FallbackIsMeasured
<1>9. NobodyWorks
    BY <1>1, OutsideNobodyWorks DEF Guarded
<1> HIDE DEF row
<1> QED
    BY <1>1, <1>4, <1>5, <1>6, <1>7, <1>8, <1>9, LogInv

\* What is remembered when the fallback logs is of the generation it has scored.
LEMMA FallbackScoresInv == ScoringInv /\ FallbackScores => ScoringInv'
<1> SUFFICES ASSUME ScoringInv, FallbackScores PROVE ScoringInv'
    OBVIOUS
<1> DEFINE gen == [sample |-> next, pass |-> "fallback"]
           row == [gen |-> gen, text |-> answer, alone |-> TRUE, generation |-> lastGeneration',
                   retrieval |-> IF rag THEN lastRetrieval' ELSE None]
<1>1. /\ Typed /\ phase = "fallback" /\ answer # None /\ answer' = None
      /\ next' = next + 1 /\ UNCHANGED <<setup, phase, harness, scores>>
    BY DEF ScoringInv, FallbackScores
<1>2. PICK verdict \in Outcomes : Judged(next, answer, verdict) /\ Log(row, verdict)
    BY DEF FallbackScores
<1>3. /\ next \in Samples /\ lastGeneration = gen /\ (rag => lastRetrieval = gen)
      /\ answer \in Texts
    BY <1>1, LoopIsTyped DEF ScoringInv, FallbackIsMeasured
<1>4. NobodyWorks
    BY <1>1, OutsideNobodyWorks DEF Guarded
<1>5. lastGeneration' = lastGeneration /\ lastRetrieval' = lastRetrieval
    BY <1>1, <1>2, <1>3, <1>4, JudgedFacts DEF meta
<1>6. gen \in Generations /\ gen.sample = next /\ gen.pass = "fallback"
    BY <1>3, GenerationShapes DEF Passes
<1> HIDE DEF gen
<1>7. /\ row \in Rows
      /\ row.gen = gen /\ row.text = answer
      /\ row.generation = gen /\ row.retrieval = IF rag THEN gen ELSE None
    <2> DEFINE retrieval == IF rag THEN lastRetrieval' ELSE None
    <2>1. retrieval = IF rag THEN gen ELSE None
        BY <1>3, <1>5
    <2>2. lastGeneration' = gen /\ gen \in Measures /\ retrieval \in Measures
        BY <1>3, <1>5, <1>6, <2>1 DEF Measures
    <2> HIDE DEF retrieval
    <2>3. row \in Rows /\ row.retrieval = retrieval
        BY <1>3, <1>6, <2>2 DEF Rows, retrieval
    <2> QED
        BY <2>1, <2>2, <2>3
<1> HIDE DEF row
<1>8. Judged(next, row.text, verdict) /\ Log(row, verdict)
    BY <1>2, <1>7
<1>9. MeasuredRow(row) /\ ScoredOnIts(row)
    BY <1>6, <1>7 DEF MeasuredRow, ScoredOnIts
<1> QED
    BY <1>1, <1>3, <1>4, <1>6, <1>7, <1>8, <1>9, LogInv
-----------------------------------------------------------------------------
(***************************************************************************)
(* Every step keeps the invariant.                                         *)
(***************************************************************************)

LEMMA InitScoringInv == ScoringInit => ScoringInv
<1> SUFFICES ASSUME ScoringInit PROVE ScoringInv
    OBVIOUS
<1>1. /\ phase \in {"validating", "evaluating"} /\ todo = Samples /\ next = 1
      /\ lastGeneration = None /\ lastRetrieval = None /\ answer = None
      /\ sideChannel = <<>> /\ logged = <<>> /\ contested = {} /\ DOMAIN cache = {}
    BY DEF ScoringInit
<1>2. {rag, judge} \subseteq BOOLEAN
    BY DEF ScoringInit
<1>3. /\ worker \in [Workers -> WorkerStates]
      /\ \A w \in Workers : worker[w].at = "idle"
    <2>1. Idle \in WorkerStates /\ Idle.at = "idle"
        BY DEF Idle, WorkerStates
    <2>2. worker = [w \in Workers |-> Idle]
        BY DEF ScoringInit
    <2> HIDE DEF Idle
    <2> QED
        BY <2>1, <2>2
<1>4. /\ scores \in [Samples -> [Scorers -> ScoreStates]]
      /\ \A s \in Samples, scorer \in Scorers : scores[s][scorer].at = "not due"
    BY UnscoredShapes DEF ScoringInit
<1>5. /\ sideChannel \in Seq(Rows) /\ \A i \in 1 .. Len(sideChannel) : FALSE
      /\ logged \in Seq(LoggedRows) /\ \A i \in 1 .. Len(logged) : FALSE
      /\ Len(logged) < next
    BY <1>1
<1>6. next \in 1 .. Len(Prompts) + 1
    BY <1>1, SamplesAreNumbers
<1>7. Typed
    <2>1. \A i \in 1 .. Len(sideChannel) : sideChannel[i].gen \in Generations
        BY <1>5
    <2>2. ScoringTypeOK
        BY <1>1, <1>2, <1>3, <1>4, <1>5, <1>6, <2>1 DEF ScoringTypeOK
    <2> QED
        BY <1>3, <1>4, <1>5, <2>2 DEF Typed
<1>8. HarnessIsGuarded /\ AloneIsMeasured /\ FallbackIsMeasured
    BY <1>1, <1>3, <1>4 DEF HarnessIsGuarded, AloneIsMeasured, FallbackIsMeasured
<1>9. RowsAreMeasured /\ LogIsMeasured /\ LogIsAssessed
    BY <1>5 DEF RowsAreMeasured, LogIsMeasured, LogIsAssessed
<1>10. AnsweredOnce
    <2>1. \A v \in Workers, r \in Samples : ~ Evaluates(v, r)
        BY <1>3 DEF Evaluates
    <2> QED
        BY <1>1, <1>4, <1>5, <2>1 DEF AnsweredOnce
<1>11. NoJudgeNoScores /\ VerdictsAreKept
    BY <1>4 DEF NoJudgeNoScores, VerdictsAreKept
<1> QED
    BY <1>7, <1>8, <1>9, <1>10, <1>11 DEF ScoringInv

LEMMA NextScoringInv == ScoringInv /\ [ScoringNext]_scoringVars => ScoringInv'
<1> SUFFICES ASSUME ScoringInv, [ScoringNext]_scoringVars PROVE ScoringInv'
    OBVIOUS
<1>1. CASE Validate
    BY <1>1, ValidateInv
<1>2. ASSUME NEW w \in Workers, Predict(w) PROVE ScoringInv'
    BY <1>2, PredictInv
<1>3. ASSUME NEW w \in Workers, Retrieve(w) PROVE ScoringInv'
    BY <1>3, RetrieveInv
<1>4. ASSUME NEW w \in Workers, Generate(w) PROVE ScoringInv'
    BY <1>4, GenerateInv
<1>5. ASSUME NEW w \in Workers, RecordRow(w) PROVE ScoringInv'
    BY <1>5, RecordInv
<1>6. ASSUME NEW w \in Workers, PredictFails(w) PROVE ScoringInv'
    BY <1>6, PredictFailsInv
<1>7. ASSUME NEW s \in Samples, NEW scorer \in Scorers, LookUp(s, scorer) PROVE ScoringInv'
    BY <1>7, LookUpInv
<1>8. ASSUME NEW s \in Samples, NEW scorer \in Scorers, Ask(s, scorer) PROVE ScoringInv'
    BY <1>8, AskInv
<1>9. CASE EvaluateReturns \/ EvaluateRaises
    BY <1>9, EvaluateReturnsInv, EvaluateRaisesInv
<1>10. CASE LogSample \/ SkipSample
    BY <1>10, LogSampleInv, SkipSampleInv
<1>11. CASE FallbackAnswers \/ FallbackScores \/ FallbackFails
    BY <1>11, FallbackAnswersInv, FallbackScoresInv, FallbackFailsInv
<1>12. CASE End
    BY <1>12, EndInv
<1>13. CASE UNCHANGED scoringVars
    <2>1. UNCHANGED <<setup, phase, harness, meta, judging, loop>>
        BY <1>13 DEF scoringVars
    <2>2. UNCHANGED <<rag, judge, phase, todo, worker, sideChannel, lastGeneration, lastRetrieval>>
        BY <2>1 DEF setup, harness, meta
    <2>3. UNCHANGED <<scores, cache, contested, next, answer, logged>>
        BY <2>1 DEF judging, loop
    <2>4. Typed' /\ HarnessIsGuarded' /\ AloneIsMeasured' /\ FallbackIsMeasured'
        BY <2>2, <2>3 DEF ScoringInv, Typed, ScoringTypeOK, HarnessIsGuarded, AloneIsMeasured,
                          FallbackIsMeasured
    <2>5. AnsweredOnce'
        <3>1. \A v \in Workers, r \in Samples : Evaluates(v, r)' => Evaluates(v, r)
            BY <2>2 DEF Evaluates
        <3> QED
            BY <2>2, <2>3, <3>1, AnsweredStands
    <2> QED
        BY <2>1, <2>2, <2>3, <2>4, <2>5, JudgingStands, RowsStand, LogStands DEF ScoringInv
<1> QED
    BY <1>1, <1>2, <1>3, <1>4, <1>5, <1>6, <1>7, <1>8, <1>9, <1>10, <1>11, <1>12, <1>13
       DEF ScoringNext

LEMMA ScoringInvariant == ScoringSpec => []ScoringInv
BY InitScoringInv, NextScoringInv, PTL DEF ScoringSpec

\* Every variable of the scoring keeps its type, and no more rows are logged than the
\* loop has passed prompts.
THEOREM ScoringTypeCorrect == ScoringSpec => []ScoringTypeOK
<1>1. ScoringInv => ScoringTypeOK
    BY DEF ScoringInv, Typed
<1> QED
    BY <1>1, ScoringInvariant, PTL
-----------------------------------------------------------------------------
(***************************************************************************)
(* hit@k.                                                                  *)
(***************************************************************************)

LEMMA HitsAgree ==
    ASSUME TopK <= DefaultK, NEW q \in Questions,
           \A i \in 1 .. Len(Contexts[q]) : Contexts[q][i].chunk = i
    PROVE  RowHit(q) = BlendedHit(q) /\ RowHit(q) = AssessedHit(q)
<1> DEFINE n == Len(Contexts[q])
           hit(i) == Contexts[q][i].truth
<1>1. Contexts[q] \in Paragraphs /\ TopK \in Nat /\ DefaultK \in Nat
    BY ScoringAssumption
<1>2. n \in Nat
    BY <1>1 DEF Paragraphs
<1>3. \A i \in 1 .. n : Contexts[q][i].chunk \in 1 .. TopK
    <2> DEFINE Paragraph == [chunk : 1 .. TopK, truth : BOOLEAN]
    <2>1. Contexts[q] \in Seq(Paragraph)
        BY <1>1 DEF Paragraphs
    <2>2. \A p \in Paragraph : p.chunk \in 1 .. TopK
        OBVIOUS
    <2> HIDE DEF Paragraph
    <2> QED
        BY <2>1, <2>2
<1>4. \A i \in 1 .. n : i \in 1 .. TopK
    BY <1>3
<1>5. /\ RowHit(q) = (\E i \in 1 .. n : i <= TopK /\ hit(i))
      /\ BlendedHit(q) = (\E i \in 1 .. n : i <= DefaultK /\ hit(i))
      /\ AssessedHit(q) = (\E i \in 1 .. n : i <= n /\ hit(i))
    BY DEF RowHit, BlendedHit, AssessedHit, HitAtK
<1> HIDE DEF hit, n
<1>6. \A i \in 1 .. n : i <= TopK /\ i <= DefaultK /\ i <= n
    BY <1>1, <1>2, <1>4
<1> QED
    BY <1>5, <1>6

\* Is the truth in a chunk that was retrieved?
ChunkHit(q) ==
    \E i \in 1 .. Len(Contexts[q]) : Contexts[q][i].chunk <= TopK /\ Contexts[q][i].truth

\* The hit a row is about is never invented: the truth is in a chunk that was retrieved.  It
\* may be missed, but only where a chunk contains a blank line.
THEOREM HitIsNeverInvented ==
    \A q \in Questions :
        /\ RowHit(q) => ChunkHit(q)
        /\ (\A i \in 1 .. Len(Contexts[q]) : Contexts[q][i].chunk = i) => (RowHit(q) <=> ChunkHit(q))
<1> SUFFICES ASSUME NEW q \in Questions
             PROVE  /\ RowHit(q) => ChunkHit(q)
                    /\ (\A i \in 1 .. Len(Contexts[q]) : Contexts[q][i].chunk = i)
                           => (ChunkHit(q) => RowHit(q))
    OBVIOUS
<1> DEFINE n == Len(Contexts[q])
           chunk(i) == Contexts[q][i].chunk
           hit(i) == Contexts[q][i].truth
<1>1. TopK \in Nat /\ n \in Nat /\ \A i \in 1 .. n : chunk(i) <= i
    BY ScoringAssumption DEF Paragraphs
<1>2. \A i \in 1 .. n : chunk(i) \in 1 .. TopK
    <2> DEFINE Paragraph == [chunk : 1 .. TopK, truth : BOOLEAN]
    <2>1. Contexts[q] \in Seq(Paragraph)
        BY ScoringAssumption DEF Paragraphs
    <2>2. \A p \in Paragraph : p.chunk \in 1 .. TopK
        OBVIOUS
    <2> HIDE DEF Paragraph
    <2> QED
        BY <2>1, <2>2
<1>3. /\ RowHit(q) <=> \E i \in 1 .. n : i <= TopK /\ hit(i)
      /\ ChunkHit(q) <=> \E i \in 1 .. n : chunk(i) <= TopK /\ hit(i)
    BY DEF RowHit, ChunkHit, HitAtK
<1> HIDE DEF n, chunk, hit
<1>4. \A i \in 1 .. n : i <= TopK => chunk(i) <= TopK
    BY <1>1, <1>2
<1>5. (\A i \in 1 .. n : chunk(i) = i) => \A i \in 1 .. n : chunk(i) <= TopK => i <= TopK
    BY <1>1, <1>2
<1> QED
    BY <1>3, <1>4, <1>5 DEF n, chunk

\* As long as a row is measured with no more chunks than evaluate_response's own k, every
\* row that is logged is about its own prompt, measured by the calls of its answer when
\* nothing else was generated beside it, and says what its assessments say.
THEOREM EvidenceIsOne ==
    ASSUME TopK <= DefaultK
    PROVE  ScoringSpec => []EvidenceIsOfOneAnswer
<1>1. ASSUME ScoringInv PROVE EvidenceIsOfOneAnswer
    <2> SUFFICES ASSUME NEW i \in 1 .. Len(logged)
                 PROVE  MeasuredOnItsOwn(logged[i]) /\ AssessedAsLogged(logged[i])
        BY DEF EvidenceIsOfOneAnswer
    <2>1. MeasuredOnItsOwn(logged[i])
        BY <1>1 DEF ScoringInv, LogIsMeasured
    <2>2. logged[i] \in LoggedRows
        BY <1>1 DEF ScoringInv, Typed
    <2>3. Prompts[logged[i].sample] \in Questions
        BY <2>2, SamplesAreNumbers DEF LoggedRows
    <2>4. \A scorer \in Scorers :
              /\ logged[i].gen.pass = "evaluation"
              /\ scores[logged[i].sample][scorer].at = "scored"
              /\ Key(logged[i].sample, logged[i].text) \notin contested
              => scores[logged[i].sample][scorer].verdict = logged[i].verdict
        BY <1>1 DEF ScoringInv, LogIsAssessed
    <2>5. AssessedAsLogged(logged[i])
        BY <2>3, <2>4, HitsAgree DEF AssessedAsLogged
    <2> QED
        BY <2>1, <2>5
<1> QED
    BY <1>1, ScoringInvariant, PTL

\* Whatever is configured and retrieved: every row that is logged is about its own prompt
\* and, if nothing else was generated beside its answer, measured by its answer's own
\* calls; and an answer the harness has scored is logged with the verdict both scorers
\* got for it, unless the judge was asked twice.
THEOREM RowsAreEvidence == ScoringSpec => [](LogIsMeasured /\ LogIsAssessed)
<1>1. ScoringInv => LogIsMeasured /\ LogIsAssessed
    BY DEF ScoringInv
<1> QED
    BY <1>1, ScoringInvariant, PTL
-----------------------------------------------------------------------------
(***************************************************************************)
(* AnswerScoring implements AnswerLog: a prompt that is logged makes an    *)
(* entry, the end of the loop and a generation that raises in the fallback *)
(* settle the stage, and everything else is invisible.                     *)
(***************************************************************************)

\* The rows are of rising samples, and leave no more prompts between them than the loop
\* has passed over.
LogIsInOrder ==
    \A i \in 1 .. Len(logged) :
        i <= logged[i].sample /\ logged[i].sample + (Len(logged) - i) < next

Entries == [i \in 1 .. Len(logged) |-> logged[i].sample]
Outcome == IF phase \in {"done", "failed"} THEN phase ELSE "open"

LEMMA PromiseDefs ==
    /\ Promise!vars = <<Entries, Outcome>>
    /\ Promise!Everything = [s \in 1 .. Len(Prompts) |-> s]
BY DEF Promise!vars, Promise!Everything, Entries, Outcome

LEMMA OrderStands ==
    ASSUME Typed, LogIsInOrder, UNCHANGED logged, next' \in Nat, next <= next'
    PROVE  LogIsInOrder'
<1>1. next \in Nat /\ Len(logged) \in Nat
    BY LoopIsTyped
<1>2. \A i \in 1 .. Len(logged) : logged[i].sample \in Nat
    <2>1. \A i \in 1 .. Len(logged) : logged[i] \in LoggedRows
        BY DEF Typed
    <2>2. \A x \in LoggedRows : x.sample \in Samples
        BY DEF LoggedRows
    <2> QED
        BY <2>1, <2>2, SamplesAreNumbers
<1> SUFFICES ASSUME NEW i \in 1 .. Len(logged)
             PROVE  i <= logged[i].sample /\ logged[i].sample + (Len(logged) - i) < next'
    BY DEF LogIsInOrder
<1> DEFINE s == logged[i].sample
<1>3. s \in Nat /\ i <= s /\ s + (Len(logged) - i) < next
    BY <1>2 DEF LogIsInOrder
<1> HIDE DEF s
<1>4. i <= s /\ s + (Len(logged) - i) < next'
    BY <1>1, <1>3
<1> QED
    BY <1>4 DEF s

LEMMA EntryIsAdded ==
    ASSUME Typed, LogIsInOrder, next \in Samples, next' = next + 1,
           NEW y, y.sample = next, logged' = Append(logged, y), y \in LoggedRows,
           phase \in {"logging", "fallback"}, UNCHANGED phase
    PROVE  LogIsInOrder' /\ Promise!LogEntry(next)
<1>1. next \in Nat /\ Len(logged) \in Nat /\ Len(logged) < next
    BY LoopIsTyped
<1>2. \A i \in 1 .. Len(logged) :
          logged[i].sample \in Nat /\ i <= logged[i].sample
          /\ logged[i].sample + (Len(logged) - i) < next
    <2>1. \A i \in 1 .. Len(logged) : logged[i] \in LoggedRows
        BY DEF Typed
    <2>2. \A x \in LoggedRows : x.sample \in Samples
        BY DEF LoggedRows
    <2> QED
        BY <2>1, <2>2, SamplesAreNumbers DEF LogIsInOrder
<1>3. /\ Len(logged') = Len(logged) + 1
      /\ logged'[Len(logged) + 1] = y
      /\ \A i \in 1 .. Len(logged) : logged'[i] = logged[i]
    <2>1. logged \in Seq(LoggedRows)
        BY DEF Typed
    <2> QED
        BY <2>1, Appended
<1>4. LogIsInOrder'
    <2> SUFFICES ASSUME NEW i \in 1 .. Len(logged')
                 PROVE  /\ i <= logged'[i].sample
                        /\ logged'[i].sample + (Len(logged') - i) < next'
        BY DEF LogIsInOrder
    <2>1. CASE i = Len(logged) + 1
        <3>1. logged'[i].sample = next
            BY <1>3, <2>1
        <3> QED
            BY <1>1, <1>3, <2>1, <3>1
    <2>2. CASE i \in 1 .. Len(logged)
        <3>1. logged'[i].sample = logged[i].sample
            BY <1>3, <2>2
        <3> DEFINE s == logged[i].sample
        <3>2. s \in Nat /\ i <= s /\ s + (Len(logged) - i) < next
            BY <1>2, <2>2
        <3> HIDE DEF s
        <3>3. i <= s /\ s + (Len(logged) + 1 - i) < next + 1
            BY <1>1, <2>2, <3>2
        <3> QED
            BY <1>3, <3>1, <3>3 DEF s
    <2> QED
        BY <1>1, <1>3, <2>1, <2>2
<1>5. \A i \in 1 .. Len(logged) : logged[i].sample < next
    BY <1>1, <1>2
<1>6. Entries' = Append(Entries, next)
    <2>1. Entries' = [i \in 1 .. Len(logged) + 1 |-> logged'[i].sample]
        BY <1>3 DEF Entries
    <2>2. Entries' = [i \in 1 .. Len(logged) + 1 |->
                          IF i <= Len(logged) THEN logged[i].sample ELSE next]
        BY <1>1, <1>3, <2>1
    <2>3. Entries \in Seq(Nat) /\ Len(Entries) = Len(logged)
        BY <1>1, <1>2 DEF Entries
    <2> QED
        BY <1>1, <2>2, <2>3 DEF Entries
<1>7. Len(Entries) = Len(logged) /\ \A i \in 1 .. Len(logged) : Entries[i] = logged[i].sample
    BY <1>1, <1>2 DEF Entries
<1>8. Outcome = "open" /\ Outcome' = "open"
    BY DEF Outcome
<1>9. Promise!LogEntry(next)
    BY <1>5, <1>6, <1>7, <1>8 DEF Promise!LogEntry, Entries, Outcome
<1> QED
    BY <1>4, <1>9

\* What logs nothing and does not end the stage is invisible.
LEMMA Invisible ==
    ASSUME Typed, LogIsInOrder, UNCHANGED logged, next' \in Nat, next <= next',
           Outcome' = Outcome
    PROVE  LogIsInOrder' /\ UNCHANGED Promise!vars
<1>1. Entries' = Entries
    BY DEF Entries
<1>2. UNCHANGED Promise!vars
    BY <1>1 DEF Promise!vars, Entries, Outcome
<1> QED
    BY <1>2, OrderStands

\* After the last prompt, as many rows as prompts are one row of each.
LEMMA EntriesAreEverything ==
    ASSUME Typed, LogIsInOrder
    PROVE  /\ Len(logged) # Len(Prompts) => Entries # Promise!Everything
           /\ Len(logged) = Len(Prompts) /\ next > Len(Prompts) => Entries = Promise!Everything
<1>1. /\ next \in Nat /\ next \in 1 .. Len(Prompts) + 1
      /\ Len(logged) \in Nat /\ Len(Prompts) \in Nat
    BY LoopIsTyped
<1>2. Promise!Everything = [s \in 1 .. Len(Prompts) |-> s]
    BY PromiseDefs
<1>3. ASSUME Entries = Promise!Everything PROVE Len(logged) = Len(Prompts)
    <2>1. 1 .. Len(logged) = 1 .. Len(Prompts)
        BY <1>2, <1>3 DEF Entries
    <2>2. Len(logged) \in 1 .. Len(logged) \/ Len(logged) = 0
        BY <1>1
    <2>3. Len(Prompts) \in 1 .. Len(Prompts) \/ Len(Prompts) = 0
        BY <1>1
    <2>4. Len(logged) <= Len(Prompts) /\ Len(Prompts) <= Len(logged)
        BY <1>1, <2>1, <2>2, <2>3
    <2> QED
        BY <1>1, <2>4
<1>4. ASSUME Len(logged) = Len(Prompts), next > Len(Prompts)
      PROVE  Entries = Promise!Everything
    <2>1. next = Len(logged) + 1
        BY <1>1, <1>4
    <2>2. ASSUME NEW i \in 1 .. Len(logged) PROVE logged[i].sample = i
        <3>1. logged[i] \in LoggedRows
            BY DEF Typed
        <3>2. logged[i].sample \in Nat
            BY <3>1, SamplesAreNumbers DEF LoggedRows
        <3>3. i <= logged[i].sample /\ logged[i].sample + (Len(logged) - i) < next
            BY DEF LogIsInOrder
        <3> DEFINE s == logged[i].sample
        <3>4. s \in Nat /\ i <= s /\ s + (Len(logged) - i) < Len(logged) + 1
            BY <2>1, <3>2, <3>3
        <3> HIDE DEF s
        <3>5. s = i
            BY <1>1, <3>4
        <3> QED
            BY <3>5 DEF s
    <2>3. Entries = [i \in 1 .. Len(logged) |-> i]
        BY <2>2 DEF Entries
    <2> QED
        BY <1>2, <1>4, <2>3
<1> QED
    BY <1>3, <1>4

LEMMA AppendedIsOf ==
    ASSUME NEW S, NEW q \in Seq(S), NEW e, Append(q, e) \in Seq(S)
    PROVE  e \in S
<1>1. Append(q, e)[Len(q) + 1] = e /\ Len(q) + 1 \in 1 .. Len(Append(q, e))
    OBVIOUS
<1> QED
    BY <1>1

\* The steps that log.
LEMMA LoggingMakesAnEntry ==
    ASSUME ScoringInv, LogIsInOrder, ScoringInv',
           next \in Samples, next' = next + 1, phase \in {"logging", "fallback"}, UNCHANGED phase,
           NEW row, NEW verdict, Log(row, verdict)
    PROVE  LogIsInOrder' /\ Promise!LogEntry(next)
<1> DEFINE y == [sample |-> next, gen |-> row.gen, text |-> row.text,
                 generation |-> row.generation, retrieval |-> row.retrieval,
                 alone |-> row.alone, verdict |-> verdict]
<1>1. logged' = Append(logged, y) /\ y.sample = next
    BY DEF Log
<1>2. Typed /\ logged \in Seq(LoggedRows) /\ logged' \in Seq(LoggedRows)
    BY DEF ScoringInv, Typed
<1> HIDE DEF y
<1>3. y \in LoggedRows
    BY <1>1, <1>2, AppendedIsOf
<1> QED
    BY <1>1, <1>2, <1>3, EntryIsAdded

LEMMA EntryIsAStep ==
    ASSUME next \in Samples, Promise!LogEntry(next)
    PROVE  Promise!Next
<1>1. next \in 1 .. Len(Prompts)
    BY DEF Samples
<1>2. \E s \in 1 .. Len(Prompts) : Promise!LogEntry(s)
    BY <1>1 DEF Promise!LogEntry
<1> QED
    BY <1>2 DEF Promise!Next

LEMMA NextPromised ==
    ASSUME ScoringInv, LogIsInOrder, ScoringInv', ScoringNext
    PROVE  LogIsInOrder' /\ [Promise!Next]_(Promise!vars)
<1>1. Typed /\ next \in Nat /\ next <= next
    BY LoopIsTyped DEF ScoringInv
<1>2. ASSUME Validate \/ (\E w \in Workers : Predict(w) \/ Retrieve(w) \/ Generate(w))
             \/ (\E s \in Samples, scorer \in Scorers : LookUp(s, scorer) \/ Ask(s, scorer))
      PROVE  LogIsInOrder' /\ UNCHANGED Promise!vars
    <2>1. UNCHANGED <<phase, loop>>
        BY <1>2 DEF Validate, Predict, Retrieve, Generate, LookUp, Ask
    <2> QED
        BY <1>1, <2>1, Invisible DEF loop, Outcome
<1>3. ASSUME NEW w \in Workers, RecordRow(w) \/ PredictFails(w)
      PROVE  LogIsInOrder' /\ UNCHANGED Promise!vars
    <2>1. UNCHANGED loop /\ worker[w].at # "idle" /\ phase' = "evaluating"
        BY <1>3 DEF RecordRow, PredictFails, AfterPrediction
    <2>2. phase \in Guarded
        BY <2>1 DEF ScoringInv, HarnessIsGuarded
    <2>3. Outcome' = Outcome
        BY <2>1, <2>2 DEF Outcome, Guarded
    <2> QED
        BY <1>1, <2>1, <2>3, Invisible DEF loop
<1>4. ASSUME EvaluateReturns PROVE LogIsInOrder' /\ UNCHANGED Promise!vars
    <2>1. UNCHANGED loop /\ Outcome' = Outcome
        BY <1>4 DEF EvaluateReturns, Outcome
    <2> QED
        BY <1>1, <2>1, Invisible DEF loop
<1>5. ASSUME EvaluateRaises PROVE LogIsInOrder' /\ UNCHANGED Promise!vars
    <2>1. phase \in Guarded /\ phase' = "fallback" /\ UNCHANGED logged
        BY <1>5 DEF EvaluateRaises
    <2>2. logged = <<>>
        BY <2>1, GuardedHasNoLog
    <2>3. Entries' = Entries /\ Outcome' = Outcome
        BY <2>1 DEF Entries, Outcome, Guarded
    <2>4. UNCHANGED Promise!vars
        BY <2>3 DEF Promise!vars, Entries, Outcome
    <2>5. LogIsInOrder'
        BY <2>1, <2>2 DEF LogIsInOrder
    <2> QED
        BY <2>4, <2>5
<1>6. ASSUME SkipSample PROVE LogIsInOrder' /\ UNCHANGED Promise!vars
    <2>1. next' = next + 1 /\ UNCHANGED <<phase, logged>>
        BY <1>6 DEF SkipSample
    <2>2. Outcome' = Outcome /\ next' \in Nat /\ next <= next'
        BY <1>1, <2>1 DEF Outcome
    <2> QED
        BY <1>1, <2>1, <2>2, Invisible
<1>7. ASSUME FallbackAnswers PROVE LogIsInOrder' /\ UNCHANGED Promise!vars
    <2>1. UNCHANGED <<phase, next, logged>>
        BY <1>7 DEF FallbackAnswers
    <2> QED
        BY <1>1, <2>1, Invisible DEF Outcome
<1>8. ASSUME LogSample PROVE LogIsInOrder' /\ Promise!Next
    <2>1. /\ phase = "logging" /\ next \in Samples /\ next' = next + 1 /\ UNCHANGED phase
          /\ \E verdict \in Outcomes : Log(BySample(next), verdict)
        BY <1>8 DEF LogSample
    <2>2. LogIsInOrder' /\ Promise!LogEntry(next)
        BY <2>1, LoggingMakesAnEntry
    <2> QED
        BY <2>1, <2>2, EntryIsAStep
<1>9. ASSUME FallbackScores PROVE LogIsInOrder' /\ Promise!Next
    <2>1. next \in Samples
        BY <1>9 DEF FallbackScores, ScoringInv, FallbackIsMeasured
    <2>2. /\ phase = "fallback" /\ next' = next + 1 /\ UNCHANGED phase
          /\ \E row, verdict : Log(row, verdict)
        BY <1>9 DEF FallbackScores
    <2>3. LogIsInOrder' /\ Promise!LogEntry(next)
        BY <2>1, <2>2, LoggingMakesAnEntry
    <2> QED
        BY <2>1, <2>3, EntryIsAStep
<1>10. ASSUME FallbackFails \/ End PROVE LogIsInOrder' /\ Promise!Settle
    <2>1. /\ UNCHANGED loop /\ phase \in {"logging", "fallback"}
          /\ phase' = IF Len(logged) = Len(Prompts) /\ next > Len(Prompts) THEN "done" ELSE "failed"
        <3>1. CASE FallbackFails
            <4>1. Len(logged) # Len(Prompts)
                BY <1>1, <3>1, LoopIsTyped DEF FallbackFails, Samples
            <4> QED
                BY <3>1, <4>1 DEF FallbackFails
        <3>2. CASE End
            BY <3>2 DEF End
        <3> QED
            BY <1>10, <3>1, <3>2
    <2>2. LogIsInOrder' /\ Entries' = Entries
        BY <1>1, <2>1, OrderStands DEF loop, Entries
    <2>3. Outcome = "open" /\ Outcome' = phase'
        BY <2>1 DEF Outcome
    <2>4. phase' = IF Entries = Promise!Everything THEN "done" ELSE "failed"
        <3>1. phase \in {"logging", "fallback"} /\ (End => next > Len(Prompts))
            BY <2>1 DEF End
        <3>2. FallbackFails => Len(logged) # Len(Prompts)
            BY <1>1, LoopIsTyped DEF FallbackFails, Samples
        <3> QED
            BY <1>1, <1>10, <2>1, <3>1, <3>2, EntriesAreEverything
    <2> QED
        BY <2>2, <2>3, <2>4 DEF Promise!Settle, Entries, Outcome
<1> QED
    BY <1>2, <1>3, <1>4, <1>5, <1>6, <1>7, <1>8, <1>9, <1>10 DEF ScoringNext, Promise!Next

\* A stage logs the answers of its prompts in order, none twice, and ends well exactly when
\* none is missing, whichever predictions fail, whoever answers, and wherever the harness
\* gives up.
THEOREM ScoringImplementsLog == ScoringSpec => ImplementsAnswerLog
<1>1. ScoringInit => LogIsInOrder /\ Promise!Init
    <2> SUFFICES ASSUME ScoringInit PROVE LogIsInOrder /\ Promise!Init
        OBVIOUS
    <2>1. logged = <<>> /\ Len(logged) = 0 /\ phase \in {"validating", "evaluating"}
        BY DEF ScoringInit
    <2>2. \A i \in 1 .. Len(logged) : FALSE
        BY <2>1
    <2>3. [i \in 1 .. Len(logged) |-> logged[i].sample] = <<>>
        BY <2>1
    <2> QED
        BY <2>1, <2>2, <2>3 DEF LogIsInOrder, Promise!Init
<1>2. ScoringInv /\ LogIsInOrder /\ ScoringInv' /\ [ScoringNext]_scoringVars
          => LogIsInOrder' /\ [Promise!Next]_(Promise!vars)
    <2> SUFFICES ASSUME ScoringInv, LogIsInOrder, ScoringInv', [ScoringNext]_scoringVars
                 PROVE  LogIsInOrder' /\ [Promise!Next]_(Promise!vars)
        OBVIOUS
    <2>1. CASE UNCHANGED scoringVars
        <3>1. UNCHANGED <<phase, loop>>
            BY <2>1 DEF scoringVars
        <3>2. Typed /\ next \in Nat /\ next <= next
            BY LoopIsTyped DEF ScoringInv
        <3> QED
            BY <3>1, <3>2, Invisible DEF loop, Outcome
    <2> QED
        BY <2>1, NextPromised
<1> QED
    BY <1>1, <1>2, ScoringInvariant, PTL DEF ScoringSpec, ImplementsAnswerLog, Promise!Spec
=============================================================================
