---------------------------- MODULE VectorIndex ----------------------------
(***************************************************************************)
(* The pgvector collection and the fingerprint file beside it:             *)
(* RAGPipeline.create_vector_store and ensure_vector_store, driven by step *)
(* 03 (rebuild) and by steps 04, 06 and 00_query.py (ensure).              *)
(*                                                                         *)
(* The collection lives in the Postgres volume and the fingerprint in      *)
(* data/processed: neither the volumes nor the writes are one transaction. *)
(* config.yaml may be edited between two processes.                        *)
(***************************************************************************)
EXTENDS Naturals, Sequences

CONSTANTS
    Configs,      \* the embedding and chunking settings of a config.yaml
    Dimension,    \* the length of the vectors each of them produces
    MaxProcesses, \* bound: the number of processes of a behaviour
    NoConfig,     \* no fingerprint file
    Faults        \* what may go wrong in this instance

ASSUME ConstantsAssumption ==
    /\ Dimension \in [Configs -> Nat]
    /\ MaxProcesses \in Nat
    /\ NoConfig \notin Configs
    /\ Faults \subseteq {"postgres", "lost_ack", "embedding", "read_only",
                         "volumes", "kill"}

VARIABLES
    index,       \* the settings of each build whose vectors are in the collection
    fingerprint, \* the content of .index_fingerprint_<collection>
    settings,    \* config.yaml
    unrecorded,  \* ghost: no fingerprint was written for these vectors, or it is gone
    pc,          \* where the process is
    config,      \* the settings it read at its start
    stored,      \* ensure_vector_store's local of that name
    processes    \* the number of processes so far

process == <<config, stored, processes>>
vars == <<index, fingerprint, settings, unrecorded, pc, process>>

Empty == <<>>

Init ==
    /\ index = Empty
    /\ fingerprint = NoConfig
    /\ settings \in Configs
    /\ unrecorded = FALSE
    /\ pc = "idle"
    /\ config = settings
    /\ stored = NoConfig
    /\ processes = 0

\* The user edits config.yaml between two processes.
EditConfig ==
    /\ pc = "idle"
    /\ settings' \in Configs
    /\ UNCHANGED <<index, fingerprint, unrecorded, pc, process>>

\* data/processed is cleared, or the Postgres volume is dropped.
LoseVolume ==
    /\ pc = "idle"
    /\ "volumes" \in Faults
    /\ \/ /\ fingerprint' = NoConfig
          /\ unrecorded' = (unrecorded \/ index # Empty)
          /\ UNCHANGED index
       \/ /\ index' = Empty
          /\ unrecorded' = FALSE
          /\ UNCHANGED fingerprint
    /\ UNCHANGED <<settings, pc, process>>

\* A script loads config.yaml; step 03 rebuilds, the others ensure.
Start ==
    /\ pc = "idle"
    /\ processes < MaxProcesses
    /\ processes' = processes + 1
    /\ config' = settings
    /\ stored' = NoConfig
    /\ pc' \in {"read", "check"}
    /\ UNCHANGED <<index, fingerprint, settings, unrecorded>>

\* Seeded fault: a fingerprint of other settings is not looked at.
StaleIgnored == FALSE

Stale == fingerprint # NoConfig /\ fingerprint # config

\* ensure_vector_store: a recorded fingerprint of other settings forces a rebuild.
CheckFingerprint ==
    /\ pc = "check"
    /\ stored' = fingerprint
    /\ pc' = IF Stale THEN "read" ELSE "probe"
    /\ UNCHANGED <<index, fingerprint, settings, unrecorded, config, processes>>

PostgresFails == IF "postgres" \in Faults THEN BOOLEAN ELSE {FALSE}

\* pgvector refuses to compare vectors of different lengths.
Comparable == \A i \in 1 .. Len(index) :
                  Dimension[index[i]] = Dimension[config]

\* Seeded fault: an existing fingerprint is not overwritten.
WrittenOnce == fingerprint' = IF fingerprint = NoConfig THEN config ELSE fingerprint

\* _write_fingerprint.  It swallows an OSError: with "read_only" its callers may
\* find the file as it was.
Written == fingerprint' = config

\* Seeded fault: an empty collection is taken for a loaded one.
UsableEvenEmpty == Comparable

Usable == Comparable /\ index # Empty

\* load_vector_store and the similarity_search probe: an error or an empty answer
\* leads to a rebuild, an index without a fingerprint is adopted.
Probe ==
    /\ pc = "probe"
    /\ \E fails \in PostgresFails :
          IF fails \/ ~ Usable
            THEN pc' = "read" /\ UNCHANGED fingerprint
            ELSE /\ pc' = "use"
                 /\ \/ stored = NoConfig /\ Written
                    \/ /\ stored # NoConfig \/ "read_only" \in Faults
                       /\ UNCHANGED fingerprint
    /\ UNCHANGED <<index, settings, unrecorded, process>>

\* create_vector_store reads every PDF before it touches the collection; a PDF
\* that cannot be parsed, or no chunk at all, raises.
ReadDocuments ==
    /\ pc = "read"
    /\ \/ pc' = "drop"
       \/ "embedding" \in Faults /\ pc' = "idle"
    /\ UNCHANGED <<index, fingerprint, settings, unrecorded, process>>

\* _delete_collection_if_exists: an error is logged and the rebuild goes on.
DropCollection ==
    /\ pc = "drop"
    /\ \E fails \in PostgresFails : index' = IF fails THEN index ELSE Empty
    /\ pc' = "embed"
    /\ UNCHANGED <<fingerprint, settings, unrecorded, process>>

\* Seeded fault: pre_delete_collection is not passed on.
RecreatedAppending == index

Recreated == Empty

\* PGVector.from_documents embeds every chunk, then opens the collection with
\* pre_delete_collection; Postgres may fail before or after that deletion.
Embed ==
    /\ pc = "embed"
    /\ \/ /\ "embedding" \in Faults \/ "postgres" \in Faults
          /\ pc' = "idle"
          /\ UNCHANGED index
       \/ /\ "postgres" \in Faults
          /\ pc' = "idle"
          /\ index' = Recreated
       \/ /\ index' = Recreated
          /\ pc' = "insert"
    /\ UNCHANGED <<fingerprint, settings, unrecorded, process>>

\* add_embeddings, one transaction.  Its failure leaves the collection empty,
\* unless only the acknowledgement was lost.
InsertVectors ==
    /\ pc = "insert"
    /\ \/ index' = Append(index, config) /\ pc' = "record"
       \/ "postgres" \in Faults /\ UNCHANGED index /\ pc' = "idle"
       \/ "lost_ack" \in Faults /\ index' = Append(index, config) /\ pc' = "idle"
    /\ unrecorded' = (index' # Empty /\ fingerprint # config)
    /\ UNCHANGED <<fingerprint, settings, process>>

\* The last step of create_vector_store.
Record ==
    /\ pc = "record"
    /\ \/ Written /\ unrecorded' = FALSE
       \/ "read_only" \in Faults /\ UNCHANGED <<fingerprint, unrecorded>>
    /\ pc' = "use"
    /\ UNCHANGED <<index, settings, process>>

\* The process retrieves from the collection and ends.
Use ==
    /\ pc = "use"
    /\ pc' = "idle"
    /\ UNCHANGED <<index, fingerprint, settings, unrecorded, process>>

\* The process is killed; what it committed stays.
Kill ==
    /\ "kill" \in Faults
    /\ pc # "idle"
    /\ pc' = "idle"
    /\ UNCHANGED <<index, fingerprint, settings, unrecorded, process>>

Step == \/ CheckFingerprint \/ Probe \/ ReadDocuments \/ DropCollection \/ Embed
        \/ InsertVectors \/ Record \/ Use

Next == EditConfig \/ LoseVolume \/ Start \/ Step \/ Kill

Spec == Init /\ [][Next]_vars

-----------------------------------------------------------------------------
\* Every variable keeps its type: the collection never holds two builds.
TypeOK ==
    /\ index \in {Empty} \cup {<<built>> : built \in Configs}
    /\ fingerprint \in Configs \cup {NoConfig}
    /\ settings \in Configs
    /\ unrecorded \in BOOLEAN
    /\ pc \in {"idle", "check", "probe", "read", "drop", "embed", "insert",
               "record", "use"}
    /\ config \in Configs
    /\ stored \in Configs \cup {NoConfig}
    /\ processes \in 0 .. MaxProcesses

\* "a later config change is detected": whatever was edited, lost or interrupted
\* in between, a process retrieves from one complete build, not from what an
\* interrupted or failed rebuild has left empty; and if the build has a
\* fingerprint, it embeds its queries with the settings the vectors were built with.
RetrievesFromMatchingBuild ==
    pc = "use" =>
        /\ Len(index) = 1
        /\ ~ unrecorded => index[1] = config

\* Between two processes the fingerprint is about the vectors that are there.
FingerprintIsOfTheIndex ==
    pc = "idle" /\ ~ unrecorded =>
        \A i \in 1 .. Len(index) : index[i] = fingerprint
=============================================================================
