---------------------------- MODULE CorpusProofs ----------------------------
(***************************************************************************)
(* Proofs about Corpus, for any papers, any number of invocations and any  *)
(* faults.                                                                 *)
(***************************************************************************)
EXTENDS Corpus, TLAPS

(***************************************************************************)
(* The inductive invariant.  Every step has written what the next one      *)
(* reads, in this invocation: whatever was left of an earlier one, nothing *)
(* of it is read.                                                          *)
(***************************************************************************)

\* The pairs are of the metadata and of the directory there is, and each is in one
\* of the splits.
SplitIsOfTheCorpus ==
    step \in {"prompts", "index", "train"} =>
        /\ qa.train \cap qa.test = {}
        /\ \A pair \in qa.train \cup qa.test :
              pair[1] # "summary" /\ pair[2] \in metadata \cup OnDisk

PromptsAreOfTheSplit == step \in {"index", "train"} => prompts = qa.test

\* What download_pdf did not discard was cut short by a kill.
OnlyCutIsPartial == \A p \in Papers : pdf[p] = "partial" => p \in cut

\* Until step 5 the adapter, if there is one, is an earlier invocation's.
TrainedBefore == step \notin {"idle", "evaluate"} => trainedBy < invocation

IInv == TypeOK /\ SplitIsOfTheCorpus /\ PromptsAreOfTheSplit /\ OnlyCutIsPartial
            /\ TrainedBefore /\ IndexedPapersAreWhole /\ PromptsAreHeldOut /\ OneCorpus
-----------------------------------------------------------------------------
(***************************************************************************)
(* Step 1b and step 5: what is made of a corpus.                           *)
(***************************************************************************)

\* A file that is there and can be parsed.
LEMMA ParsedFiles ==
    /\ \A papers \in SUBSET Papers : papers \notin {Missing, Torn}
    /\ \A split \in [train : SUBSET Pairs, test : SUBSET Pairs] : split \notin {Missing, Torn}
BY ConstantsAssumption

LEMMA GeneratedPairs ==
    ASSUME metadata \in SUBSET Papers
    PROVE  /\ Generated \subseteq Pairs
           /\ \A pair \in Generated : pair[1] # "summary" /\ pair[2] \in metadata \cup OnDisk
<1>1. OnDisk \subseteq Papers
    BY DEF OnDisk
<1> QED
    BY <1>1 DEF Generated, Pairs

\* The train and the test split of generate_qa_pairs are disjoint, and together
\* they are the pairs of the corpus.
LEMMA SplitsOfTheCorpus ==
    ASSUME metadata \in SUBSET Papers, NEW k, NEW tests \in kSubset(k, Generated),
           NEW split, split = [train |-> Generated \ tests, test |-> tests]
    PROVE  /\ split \in [train : SUBSET Pairs, test : SUBSET Pairs]
           /\ split.train \cap split.test = {}
           /\ split.train \cup split.test = Generated
<1>1. tests \subseteq Generated
    BY DEF kSubset
<1>2. Generated \subseteq Pairs
    BY GeneratedPairs
<1> QED
    BY <1>1, <1>2

\* Whatever step 5 trains on is none of the test pairs, and about the corpus.
LEMMA TrainSplitOfTheCorpus ==
    ASSUME IInv, step = "train"
    PROVE  /\ TrainSplit \subseteq Pairs
           /\ TrainSplit \cap qa.test = {}
           /\ \A pair \in TrainSplit : pair[2] \in metadata \cup OnDisk
<1>1. metadata \in SUBSET Papers /\ qa \in [train : SUBSET Pairs, test : SUBSET Pairs]
    BY DEF IInv, TypeOK
<1>2. /\ qa.train \cap qa.test = {}
      /\ \A pair \in qa.train \cup qa.test :
            pair[1] # "summary" /\ pair[2] \in metadata \cup OnDisk
    BY DEF IInv, SplitIsOfTheCorpus
<1>3. CASE qa.train # {}
    BY <1>1, <1>2, <1>3 DEF TrainSplit
<1>4. CASE qa.train = {}
    <2>1. TrainSplit = {"summary"} \X metadata
        BY <1>4 DEF TrainSplit
    <2> QED
        BY <1>1, <1>2, <2>1 DEF Pairs
<1> QED
    BY <1>3, <1>4
-----------------------------------------------------------------------------
(***************************************************************************)
(* Every step.                                                             *)
(***************************************************************************)

LEMMA InitIInv == Init => IInv
<1> SUFFICES ASSUME Init PROVE IInv
    OBVIOUS
<1>1. TypeOK
    BY ConstantsAssumption DEF Init, TypeOK, None
<1> QED
    BY <1>1 DEF Init, IInv, None, SplitIsOfTheCorpus, PromptsAreOfTheSplit, OnlyCutIsPartial,
       TrainedBefore, IndexedPapersAreWhole, PromptsAreHeldOut, OneCorpus

LEMMA LaunchIInv == IInv /\ Launch => IInv'
<1> SUFFICES ASSUME IInv, Launch PROVE IInv'
    OBVIOUS
<1>1. TypeOK'
    BY ConstantsAssumption DEF IInv, TypeOK, Launch, corpus, pairs, adapter
<1>2. trainedBy' < invocation' /\ step' = "search" /\ UNCHANGED <<pdf, cut>>
    BY ConstantsAssumption DEF IInv, TypeOK, Launch, corpus, adapter
<1> QED
    BY <1>1, <1>2 DEF IInv, SplitIsOfTheCorpus, PromptsAreOfTheSplit, OnlyCutIsPartial,
       TrainedBefore, IndexedPapersAreWhole, PromptsAreHeldOut, OneCorpus

LEMMA LoseVolumeIInv == IInv /\ LoseVolume => IInv'
<1> SUFFICES ASSUME IInv, LoseVolume PROVE IInv'
    OBVIOUS
<1>1. TypeOK'
    BY DEF IInv, TypeOK, LoseVolume, corpus, pairs, adapter, None
<1>2. step' = "idle" /\ OnlyCutIsPartial'
    BY DEF IInv, OnlyCutIsPartial, LoseVolume, corpus, None
<1> QED
    BY <1>1, <1>2 DEF IInv, SplitIsOfTheCorpus, PromptsAreOfTheSplit,
       TrainedBefore, IndexedPapersAreWhole, PromptsAreHeldOut, OneCorpus

LEMMA SearchIInv == IInv /\ Search => IInv'
<1> SUFFICES ASSUME IInv, Search PROVE IInv'
    OBVIOUS
<1>1. /\ step = "search" /\ step' \in {"fetch", "idle"}
      /\ UNCHANGED <<pdf, cut, trainedBy, invocation>>
    BY DEF Search, adapter
<1>2. TypeOK'
    <2>1. metadata' \in (SUBSET Papers) \cup {Missing, Torn} /\ todo' \subseteq Papers
        BY DEF IInv, TypeOK, Search, Answers, Cached, OnDisk
    <2>2. step' = "fetch" => metadata' \notin {Missing, Torn}
        BY ParsedFiles DEF Search, Answers, Cached
    <2> QED
        BY <1>1, <2>1, <2>2 DEF IInv, TypeOK, Search, pairs, adapter
<1> QED
    BY <1>1, <1>2 DEF IInv, SplitIsOfTheCorpus, PromptsAreOfTheSplit, OnlyCutIsPartial,
       TrainedBefore, IndexedPapersAreWhole, PromptsAreHeldOut, OneCorpus

LEMMA FetchIInv == IInv /\ Fetch => IInv'
<1> SUFFICES ASSUME IInv, Fetch PROVE IInv'
    OBVIOUS
<1>1. step = "fetch" /\ UNCHANGED <<step, cut, trainedBy, invocation>>
    BY DEF Fetch, adapter
<1>2. \/ UNCHANGED pdf
      \/ \E p \in Papers, state \in {"whole", "absent"} : pdf' = [pdf EXCEPT ![p] = state]
    BY DEF IInv, TypeOK, Fetch, Discarded
<1>3. TypeOK'
    <2>1. todo' \subseteq Papers
        BY DEF IInv, TypeOK, Fetch
    <2> QED
        BY <1>1, <1>2, <2>1 DEF IInv, TypeOK, Fetch, pairs, adapter
<1>4. OnlyCutIsPartial'
    BY <1>1, <1>2 DEF IInv, TypeOK, OnlyCutIsPartial
<1> QED
    BY <1>1, <1>3, <1>4 DEF IInv, SplitIsOfTheCorpus, PromptsAreOfTheSplit,
       TrainedBefore, IndexedPapersAreWhole, PromptsAreHeldOut, OneCorpus

LEMMA FetchedAllIInv == IInv /\ FetchedAll => IInv'
<1> SUFFICES ASSUME IInv, FetchedAll PROVE IInv'
    OBVIOUS
<1>1. /\ step = "fetch" /\ step' = "pairs"
      /\ UNCHANGED <<metadata, pdf, todo, qa, prompts, index, trained, trainedBy, cut, invocation>>
    BY DEF FetchedAll, corpus, pairs, adapter
<1>2. TypeOK'
    BY <1>1 DEF IInv, TypeOK
<1> QED
    BY <1>1, <1>2 DEF IInv, SplitIsOfTheCorpus, PromptsAreOfTheSplit, OnlyCutIsPartial,
       TrainedBefore, IndexedPapersAreWhole, PromptsAreHeldOut, OneCorpus

LEMMA SplitPairsIInv == IInv /\ SplitPairs => IInv'
<1> SUFFICES ASSUME IInv, SplitPairs PROVE IInv'
    OBVIOUS
<1>1. /\ step = "pairs" /\ step' \in {"prompts", "idle"}
      /\ UNCHANGED <<metadata, pdf, todo, prompts, index, trained, trainedBy, cut, invocation>>
    BY DEF SplitPairs, corpus, adapter
<1>2. metadata \in SUBSET Papers
    BY <1>1 DEF IInv, TypeOK
<1>3. CASE step' = "prompts"
    <2>0. PICK k : \E tests \in kSubset(k, Generated) :
              qa' = [train |-> Generated \ tests, test |-> tests]
        BY <1>3 DEF SplitPairs, Written
    <2>1. PICK tests \in kSubset(k, Generated) :
              qa' = [train |-> Generated \ tests, test |-> tests]
        BY <2>0
    <2>2. /\ qa' \in [train : SUBSET Pairs, test : SUBSET Pairs]
          /\ qa'.train \cap qa'.test = {}
          /\ qa'.train \cup qa'.test = Generated
        BY <1>2, <2>1, SplitsOfTheCorpus
    <2>3. qa' \notin {Missing, Torn}
        BY <2>2, ParsedFiles
    <2>4. TypeOK'
        BY <1>1, <1>3, <2>2, <2>3 DEF IInv, TypeOK
    <2>5. SplitIsOfTheCorpus'
        <3>1. \A pair \in qa'.train \cup qa'.test :
                  pair[1] # "summary" /\ pair[2] \in metadata \cup OnDisk
            BY <1>2, <2>2, GeneratedPairs
        <3>2. OnDisk' = OnDisk
            BY <1>1 DEF OnDisk
        <3> QED
            BY <1>1, <2>2, <3>1, <3>2 DEF SplitIsOfTheCorpus
    <2> QED
        BY <1>1, <1>3, <2>4, <2>5 DEF IInv, PromptsAreOfTheSplit, OnlyCutIsPartial,
           TrainedBefore, IndexedPapersAreWhole, PromptsAreHeldOut, OneCorpus
<1>4. CASE step' = "idle"
    <2>1. UNCHANGED qa
        BY <1>4 DEF SplitPairs
    <2>2. TypeOK'
        BY <1>1, <1>4, <2>1 DEF IInv, TypeOK
    <2> QED
        BY <1>1, <1>4, <2>2 DEF IInv, SplitIsOfTheCorpus, PromptsAreOfTheSplit, OnlyCutIsPartial,
           TrainedBefore, IndexedPapersAreWhole, PromptsAreHeldOut, OneCorpus
<1> QED
    BY <1>1, <1>3, <1>4

LEMMA WritePromptsIInv == IInv /\ WritePrompts => IInv'
<1> SUFFICES ASSUME IInv, WritePrompts PROVE IInv'
    OBVIOUS
<1>1. /\ step = "prompts" /\ step' = "index" /\ prompts' = qa.test
      /\ UNCHANGED <<metadata, pdf, todo, qa, index, trained, trainedBy, cut, invocation>>
    BY DEF WritePrompts, corpus, adapter
<1>2. qa \in [train : SUBSET Pairs, test : SUBSET Pairs]
    BY <1>1 DEF IInv, TypeOK
<1>3. TypeOK'
    BY <1>1, <1>2 DEF IInv, TypeOK
<1> QED
    BY <1>1, <1>3 DEF IInv, OnDisk, SplitIsOfTheCorpus, PromptsAreOfTheSplit, OnlyCutIsPartial,
       TrainedBefore, IndexedPapersAreWhole, PromptsAreHeldOut, OneCorpus

LEMMA BuildIndexIInv == IInv /\ BuildIndex => IInv'
<1> SUFFICES ASSUME IInv, BuildIndex PROVE IInv'
    OBVIOUS
<1>1. /\ step = "index" /\ step' \in {"train", "idle"}
      /\ index' \in {index, pdf} /\ (step' = "train" => index' = pdf)
      /\ UNCHANGED <<metadata, pdf, todo, qa, prompts, trained, trainedBy, cut, invocation>>
    BY DEF BuildIndex, corpus, pairs, adapter
<1>2. TypeOK'
    BY <1>1 DEF IInv, TypeOK
<1> QED
    BY <1>1, <1>2 DEF IInv, OnDisk, SplitIsOfTheCorpus, PromptsAreOfTheSplit, OnlyCutIsPartial,
       TrainedBefore, IndexedPapersAreWhole, PromptsAreHeldOut, OneCorpus

LEMMA TrainIInv == IInv /\ (Train \/ SkipTraining) => IInv'
<1> SUFFICES ASSUME IInv, Train \/ SkipTraining PROVE IInv'
    OBVIOUS
<1>1. /\ step = "train" /\ step' \in {"evaluate", "idle"}
      /\ UNCHANGED <<metadata, pdf, todo, qa, prompts, index, cut, invocation>>
    BY DEF Train, SkipTraining, corpus, pairs, adapter
<1>2. \/ UNCHANGED <<trained, trainedBy>>
      \/ trained' = TrainSplit /\ trainedBy' = invocation
    BY DEF Train, SkipTraining, adapter
<1>3. /\ TrainSplit \subseteq Pairs /\ TrainSplit \cap qa.test = {}
      /\ \A pair \in TrainSplit : pair[2] \in metadata \cup OnDisk
      /\ prompts = qa.test /\ trainedBy < invocation
    BY <1>1, TrainSplitOfTheCorpus DEF IInv, PromptsAreOfTheSplit, TrainedBefore
<1>4. /\ invocation \in Nat /\ trainedBy \in Nat
      /\ invocation \in 0 .. invocation /\ trainedBy \in 0 .. invocation
    BY ConstantsAssumption DEF IInv, TypeOK
<1>5. TypeOK'
    BY <1>1, <1>2, <1>3, <1>4 DEF IInv, TypeOK
<1>6. PromptsAreHeldOut'
    <2>1. trainedBy' = invocation' => trained' = TrainSplit
        BY <1>1, <1>2, <1>3, <1>4
    <2> QED
        BY <1>1, <1>3, <2>1 DEF PromptsAreHeldOut
<1>7. OneCorpus'
    <2>1. trainedBy' = invocation' => trained' = TrainSplit
        BY <1>1, <1>2, <1>3, <1>4
    <2>2. \A pair \in prompts : pair[2] \in metadata \cup OnDisk
        BY <1>1, <1>3 DEF IInv, SplitIsOfTheCorpus
    <2>3. OnDisk' = OnDisk
        BY <1>1 DEF OnDisk
    <2> QED
        BY <1>1, <1>3, <2>1, <2>2, <2>3 DEF OneCorpus
<1> QED
    BY <1>1, <1>5, <1>6, <1>7 DEF IInv, SplitIsOfTheCorpus, PromptsAreOfTheSplit,
       OnlyCutIsPartial, TrainedBefore, IndexedPapersAreWhole

LEMMA EvaluateIInv == IInv /\ Evaluate => IInv'
<1> SUFFICES ASSUME IInv, Evaluate PROVE IInv'
    OBVIOUS
<1>1. /\ step' = "idle"
      /\ UNCHANGED <<metadata, pdf, todo, qa, prompts, index, trained, trainedBy, cut, invocation>>
    BY DEF Evaluate, corpus, pairs, adapter
<1>2. TypeOK'
    BY <1>1 DEF IInv, TypeOK
<1> QED
    BY <1>1, <1>2 DEF IInv, SplitIsOfTheCorpus, PromptsAreOfTheSplit, OnlyCutIsPartial,
       TrainedBefore, IndexedPapersAreWhole, PromptsAreHeldOut, OneCorpus

LEMMA KillIInv == IInv /\ Kill => IInv'
<1> SUFFICES ASSUME IInv, Kill PROVE IInv'
    OBVIOUS
<1>1. /\ step' = "idle" /\ todo' = {}
      /\ UNCHANGED <<index, trained, trainedBy, invocation>>
    BY DEF Kill, adapter
<1>2. metadata' \in {metadata, Torn} /\ qa' \in {qa, Torn} /\ prompts' \in {prompts, Torn}
    BY DEF Kill, corpus, pairs
<1>3. \/ UNCHANGED <<pdf, cut>>
      \/ \E p \in Papers : pdf' = [pdf EXCEPT ![p] = "partial"] /\ cut' = cut \cup {p}
    BY DEF IInv, TypeOK, Kill, corpus
<1>4. TypeOK'
    BY <1>1, <1>2, <1>3 DEF IInv, TypeOK
<1>5. OnlyCutIsPartial'
    BY <1>3 DEF IInv, TypeOK, OnlyCutIsPartial
<1> QED
    BY <1>1, <1>4, <1>5 DEF IInv, SplitIsOfTheCorpus, PromptsAreOfTheSplit,
       TrainedBefore, IndexedPapersAreWhole, PromptsAreHeldOut, OneCorpus

LEMMA NextIInv == IInv /\ [Next]_vars => IInv'
<1> SUFFICES ASSUME IInv, [Next]_vars PROVE IInv'
    OBVIOUS
<1>1. CASE UNCHANGED vars
    <2>1. UNCHANGED <<metadata, pdf, todo, qa, prompts, index, trained, trainedBy, cut, step,
                      invocation>>
        BY <1>1 DEF vars, corpus, pairs, adapter
    <2> QED
        BY <2>1 DEF IInv, TypeOK, OnDisk, SplitIsOfTheCorpus, PromptsAreOfTheSplit,
           OnlyCutIsPartial, TrainedBefore, IndexedPapersAreWhole, PromptsAreHeldOut, OneCorpus
<1> QED
    BY <1>1, LaunchIInv, LoseVolumeIInv, SearchIInv, FetchIInv, FetchedAllIInv, SplitPairsIInv,
       WritePromptsIInv, BuildIndexIInv, TrainIInv, EvaluateIInv, KillIInv DEF Next

LEMMA CorpusInvariant == Spec => []IInv
BY InitIInv, NextIInv, PTL DEF Spec
-----------------------------------------------------------------------------
\* Every variable keeps its type, and no step of an invocation reads a file that is
\* missing or torn.
THEOREM TypeCorrect == Spec => []TypeOK
<1>1. IInv => TypeOK
    BY DEF IInv
<1> QED
    BY <1>1, CorpusInvariant, PTL

\* download_pdf: the indexer finds no partial paper, unless a kill left it there.
THEOREM OnlyWholePapers == Spec => []IndexedPapersAreWhole
<1>1. IInv => IndexedPapersAreWhole
    BY DEF IInv
<1> QED
    BY <1>1, CorpusInvariant, PTL

\* generate_qa_pairs and 05_fine_tune.py: no prompt of the evaluation is a record of
\* the training, also when the training falls back on the metadata.
THEOREM HeldOut == Spec => []PromptsAreHeldOut
<1>1. IInv => PromptsAreHeldOut
    BY DEF IInv
<1> QED
    BY <1>1, CorpusInvariant, PTL

\* run_pipeline.sh, steps 1 to 6: what is asked and what was trained on is about the
\* papers of this invocation.
THEOREM OneCorpusIsUsed == Spec => []OneCorpus
<1>1. IInv => OneCorpus
    BY DEF IInv
<1> QED
    BY <1>1, CorpusInvariant, PTL
=============================================================================
