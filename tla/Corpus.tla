------------------------------- MODULE Corpus -------------------------------
(***************************************************************************)
(* What run_pipeline.sh evaluates with: the papers of step 1, the question *)
(* and answer pairs of step 1b, the index of step 3 and the training data  *)
(* of step 5, each read by the next from a directory that outlives the     *)
(* invocation.                                                             *)
(*                                                                         *)
(* A download that fails is counted and the step succeeds; the metadata of *)
(* the search is kept all the same, and step 1b reads it.                  *)
(***************************************************************************)
EXTENDS Integers, FiniteSetsExt

CONSTANTS
    Papers,         \* what arXiv may answer a search with
    Abstracts,      \* those whose abstract is long enough for a pair
    MaxInvocations, \* bound: the number of invocations of a behaviour
    Missing,        \* no file
    Torn,           \* a file that cannot be parsed
    Faults          \* what may go wrong in this instance

\* A question is about an abstract (two of them) or about a chunk of a PDF;
\* "summary" is what step 05 makes of the metadata when it has nothing else.
Pairs == ({"about", "contribution"} \X Abstracts) \cup ({"chunk", "summary"} \X Papers)

ASSUME ConstantsAssumption ==
    /\ Abstracts \subseteq Papers
    /\ MaxInvocations \in Nat
    /\ \A file \in (SUBSET Papers) \cup (SUBSET Pairs)
                    \cup [train : SUBSET Pairs, test : SUBSET Pairs] :
           file \notin {Missing, Torn}
    /\ Faults \subseteq {"arxiv", "download", "volumes", "kill"}

VARIABLES
    metadata,  \* papers_metadata.json
    pdf,       \* data/papers
    todo,      \* the papers step 01 still has to fetch
    qa,        \* qa_pairs.jsonl, by split
    prompts,   \* evaluation_prompts.txt
    index,     \* the PDFs in the vector store
    trained,   \* the pairs the adapter was trained on
    trainedBy, \* the invocation that trained it, 0 when there is none
    cut,       \* ghost: the papers whose download was cut short by a kill
    step,      \* where the pipeline is
    invocation \* the number of invocations so far

corpus == <<metadata, pdf>>
pairs == <<qa, prompts>>
adapter == <<trained, trainedBy>>
vars == <<corpus, todo, pairs, index, adapter, cut, step, invocation>>

None == [p \in Papers |-> "absent"]
OnDisk == {p \in Papers : pdf[p] # "absent"}

\* A clone has the papers_metadata.json of the commit and no PDF.
Init ==
    /\ metadata \in SUBSET Papers
    /\ pdf = None
    /\ todo = {}
    /\ qa = Missing
    /\ prompts = Missing
    /\ index = None
    /\ trained = {}
    /\ trainedBy = 0
    /\ cut = {}
    /\ step = "idle"
    /\ invocation = 0

Launch ==
    /\ step = "idle"
    /\ invocation < MaxInvocations
    /\ invocation' = invocation + 1
    /\ step' = "search"
    /\ UNCHANGED <<corpus, todo, pairs, index, adapter, cut>>

\* Between two invocations data/papers or data/processed is cleared.
LoseVolume ==
    /\ "volumes" \in Faults
    /\ step = "idle"
    /\ \/ metadata' = Missing /\ pdf' = None /\ cut' = {} /\ UNCHANGED pairs
       \/ qa' = Missing /\ prompts' = Missing /\ UNCHANGED <<corpus, cut>>
    /\ UNCHANGED <<todo, index, adapter, step, invocation>>

\* search_arxiv_papers: the feed, or an error after the fourth attempt.
Answers == SUBSET Papers
Unreachable == "arxiv" \in Faults

\* Seeded fault: the directory is read instead of the metadata.
CachedByDirectory == OnDisk

\* load_cached_papers: no papers when the metadata is of no use.
Cached == IF metadata \in {Missing, Torn} THEN {} ELSE metadata \cap OnDisk

\* The feed replaces the metadata before anything is fetched; without a feed the
\* papers of the last search that are still there are used.
Search ==
    /\ step = "search"
    /\ \/ /\ metadata' \in Answers
          /\ todo' = metadata'
          /\ step' = "fetch"
       \/ /\ Unreachable
          /\ todo' = Cached
          /\ step' = IF Cached = {} THEN "idle" ELSE "fetch"
          /\ UNCHANGED metadata
    /\ UNCHANGED <<pdf, pairs, index, adapter, cut, invocation>>

\* Seeded fault: what was written before the error is left.
DiscardedForgotten == "partial"

\* download_pdf removes a rejected, oversized or interrupted file.
Discarded == "absent"

\* A file of that name is taken for the paper.  A failed download is only counted.
Fetch ==
    /\ step = "fetch"
    /\ \E p \in todo :
          /\ todo' = todo \ {p}
          /\ IF p \in OnDisk
               THEN UNCHANGED pdf
               ELSE \/ pdf' = [pdf EXCEPT ![p] = "whole"]
                    \/ /\ "download" \in Faults
                       /\ pdf' = [pdf EXCEPT ![p] = Discarded]
    /\ UNCHANGED <<metadata, pairs, index, adapter, cut, step, invocation>>

FetchedAll ==
    /\ step = "fetch"
    /\ todo = {}
    /\ step' = "pairs"
    /\ UNCHANGED <<corpus, todo, pairs, index, adapter, cut, invocation>>

\* Reading a PDF that was cut short raises, or yields the text it has.
Readable == {TRUE} \cup {\A p \in OnDisk : pdf[p] = "whole"}

\* Seeded fault: pairs that are there are not made again.
WrittenOnce(new) == IF qa \in {Missing, Torn} THEN new ELSE qa

Written(new) == new

\* Every abstract of the metadata and every PDF of the directory.
Generated ==
    ({"about", "contribution"} \X (metadata \cap Abstracts)) \cup ({"chunk"} \X OnDisk)

\* Step 1b shuffles the pairs; three in ten, and at least one, are for the test.
SplitPairs ==
    /\ step = "pairs"
    /\ \/ /\ OnDisk # {}
          /\ \E tests \in kSubset(Max({1, (3 * Cardinality(Generated)) \div 10}),
                                  Generated) :
                qa' = Written([train |-> Generated \ tests, test |-> tests])
          /\ step' = "prompts"
       \/ /\ OnDisk = {} \/ FALSE \in Readable
          /\ step' = "idle"
          /\ UNCHANGED qa
    /\ UNCHANGED <<corpus, todo, prompts, index, adapter, cut, invocation>>

\* write_prompts_file, of up to 20 pairs.
WritePrompts ==
    /\ step = "prompts"
    /\ prompts' = qa.test
    /\ step' = "index"
    /\ UNCHANGED <<corpus, todo, qa, index, adapter, cut, invocation>>

\* Step 03 indexes the directory.
BuildIndex ==
    /\ step = "index"
    /\ \/ index' = pdf /\ step' = "train"
       \/ FALSE \in Readable /\ step' = "idle" /\ UNCHANGED index
    /\ UNCHANGED <<corpus, todo, pairs, adapter, cut, invocation>>

\* Seeded fault: the split of a row is not looked at.
TrainSplitIgnored == qa.train \cup qa.test

\* load_qa_pairs, or else fallback_from_metadata.
TrainSplit == IF qa.train # {} THEN qa.train ELSE {"summary"} \X metadata

\* Step 05; without any record it raises.
Train ==
    /\ step = "train"
    /\ IF TrainSplit = {}
         THEN step' = "idle" /\ UNCHANGED adapter
         ELSE step' = "evaluate" /\ trained' = TrainSplit /\ trainedBy' = invocation
    /\ UNCHANGED <<corpus, todo, pairs, index, cut, invocation>>

\* Without CUDA, and by default, nothing is trained: step 06 finds the adapter of an
\* earlier invocation, or none.
SkipTraining ==
    /\ step = "train"
    /\ step' = "evaluate"
    /\ UNCHANGED <<corpus, todo, pairs, index, adapter, cut, invocation>>

\* Step 06 asks the prompts, with and without the index.
Evaluate ==
    /\ step = "evaluate"
    /\ step' = "idle"
    /\ UNCHANGED <<corpus, todo, pairs, index, adapter, cut, invocation>>

\* A kill or Ctrl-C, neither of which `except Exception` sees: the file that was
\* being written stays as it is.
Kill ==
    /\ "kill" \in Faults
    /\ step # "idle"
    /\ \/ UNCHANGED <<corpus, pairs, cut>>
       \/ step = "search" /\ metadata' = Torn /\ UNCHANGED <<pdf, pairs, cut>>
       \/ /\ step = "fetch"
          /\ \E p \in todo \ OnDisk :
                /\ pdf' = [pdf EXCEPT ![p] = "partial"]
                /\ cut' = cut \cup {p}
          /\ UNCHANGED <<metadata, pairs>>
       \/ step = "pairs" /\ qa' = Torn /\ UNCHANGED <<corpus, prompts, cut>>
       \/ step = "prompts" /\ prompts' = Torn /\ UNCHANGED <<corpus, qa, cut>>
    /\ todo' = {}
    /\ step' = "idle"
    /\ UNCHANGED <<index, adapter, invocation>>

Next == \/ Launch \/ LoseVolume \/ Search \/ Fetch \/ FetchedAll \/ SplitPairs
        \/ WritePrompts \/ BuildIndex \/ Train \/ SkipTraining \/ Evaluate \/ Kill

Spec == Init /\ [][Next]_vars
-----------------------------------------------------------------------------
\* Every variable keeps its type: a step only reads files it can parse.
TypeOK ==
    /\ metadata \in (SUBSET Papers) \cup {Missing, Torn}
    /\ {pdf, index} \subseteq [Papers -> {"absent", "partial", "whole"}]
    /\ todo \subseteq Papers
    /\ qa \in {Missing, Torn} \cup [train : SUBSET Pairs, test : SUBSET Pairs]
    /\ prompts \in (SUBSET Pairs) \cup {Missing, Torn}
    /\ trained \subseteq Pairs
    /\ trainedBy \in 0 .. invocation
    /\ cut \subseteq Papers
    /\ step \in {"idle", "search", "fetch", "pairs", "prompts", "index", "train",
                 "evaluate"}
    /\ step \in {"fetch", "pairs", "prompts", "index", "train"} =>
           metadata \notin {Missing, Torn}
    /\ step \in {"prompts", "index", "train"} => qa \notin {Missing, Torn}
    /\ invocation \in 0 .. MaxInvocations

\* "Never leave a partial or rejected file where the RAG indexer will find it":
\* unless a download was killed, only whole papers are ever indexed, although a
\* later invocation takes any file it finds for the paper.
IndexedPapersAreWhole ==
    step = "train" => \A p \in Papers : index[p] = "partial" => p \in cut

\* The model an invocation has fine-tuned is not asked what it was trained on, however
\* the earlier invocations ended that the files are from.
PromptsAreHeldOut ==
    step = "evaluate" /\ trainedBy = invocation => prompts \cap trained = {}

\* What is asked, and what an invocation has trained on, is about a paper of its
\* corpus: nothing of an earlier one is used.
OneCorpus ==
    step = "evaluate" =>
        \A pair \in prompts \cup (IF trainedBy = invocation THEN trained ELSE {}) :
            pair[2] \in metadata \cup OnDisk
=============================================================================
