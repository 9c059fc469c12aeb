-------------------------- MODULE ResultsPipeline --------------------------
(***************************************************************************)
(* scripts/run_pipeline.sh from step 2 to step 9, and what its steps do to *)
(* the files that carry an evaluation from one step to the next:           *)
(* data/processed, the LoRA adapters, results/runs/<run id>/ and           *)
(* results/latest/ (run_results.export_run, snapshot.refresh_latest,       *)
(* question_view.build_question_view, scripts 07, 08 and 09).              *)
(*                                                                         *)
(* An invocation is a plan of steps fixed by its environment variables and *)
(* by whether CUDA is visible.  The shell runs under set -e: whatever      *)
(* fails, or kills the process, ends the plan where it is.  What a step    *)
(* does inside the evaluation is EvaluationStage; here it succeeds or      *)
(* leaves its files as they were.                                          *)
(***************************************************************************)
EXTENDS Naturals, Sequences, FiniteSetsExt

CONSTANTS
    Settings,       \* the environments a user starts the pipeline with
    MaxInvocations, \* bound: the number of pipeline invocations
    Manual,         \* the run ids step 07 may be started with by hand
    Aborts,         \* may a step fail or be killed?
    None            \* no file, no adapter

Devices == {"cpu", "cuda"}
Names == {"baseline", "baseline_gguf", "rag", "rag_gguf", "comparison"}
Tags == Devices \cup {"none"}
Invocations == 1 .. MaxInvocations
RunIds == [inv : Invocations, leg : Devices]
Folders == [inv : Invocations, leg : Devices \cup {"both", "runtimes"}]
Content == [run : RunIds, adapter : RunIds \cup {None}]

\* The folder of `07_export_results.py` without --run-id: a fresh UTC stamp,
\* which names no device.
Stamped == [inv |-> 0, leg |-> "none"]

ASSUME ConstantsAssumption ==
    /\ Settings \subseteq [skipCpuEval : BOOLEAN, skipCpuFinetune : BOOLEAN,
                           skipGguf : BOOLEAN, cuda : BOOLEAN]
    /\ MaxInvocations \in Nat
    /\ Manual \subseteq RunIds \cup {Stamped}
    /\ Aborts \in BOOLEAN
    /\ \A c \in Content \cup RunIds : c # None

VARIABLES
    settings,   \* the environment of the invocation
    invocation, \* TIMESTAMP, as a number
    todo,       \* the steps the invocation still has to run
    finished,   \* the last invocation that printed DONE
    processed,  \* data/processed/<name>[_<device>].json, "none" for no suffix
    stored,     \* evaluation_metrics: the <<name, run id>> that have rows
    adapters,   \* models/fine_tuned/adapter ("none") and adapter_<device>
    folders,    \* results/runs/*
    latest      \* results/latest/: <<"artifact" or "readme", source folder>>

vars == <<settings, invocation, todo, finished, processed, stored, adapters,
          folders, latest>>

NoFiles == [n \in Names |-> None]
NoCells == [cell \in Names \X Devices |-> None]
Absent == [state |-> "absent", files |-> NoFiles, cells |-> NoCells]

Init ==
    /\ settings \in Settings
    /\ invocation = 0
    /\ todo = <<>>
    /\ finished = 0
    /\ processed = [file \in Names \X Tags |-> None]
    /\ stored = {}
    /\ adapters = [tag \in Tags |-> None]
    /\ folders = [f \in Folders \cup {Stamped} |-> Absent]
    /\ latest = {}

-----------------------------------------------------------------------------
(***************************************************************************)
(* The plan of an invocation                                               *)
(***************************************************************************)
When(condition, steps) == IF condition THEN steps ELSE <<>>

\* Seeded fault: the catch-all of run_id_for_device stamps every step.
RunIdOfNoDevice(inv, device) == [inv |-> inv, leg |-> "shared"]

\* Seeded fault: the run id is the device, without the TIMESTAMP.
RunIdWithoutStamp(inv, device) == [inv |-> 1, leg |-> device]

\* run_id_for_device: <TIMESTAMP>_<device>.
RunId(inv, device) == [inv |-> inv, leg |-> device]

\* Seeded fault: SKIP_CPU_EVAL is not reset on a machine without CUDA.
OnCpuUnlessSkipped(s) == ~ s.skipCpuEval

\* Without CUDA, SKIP_CPU_EVAL is reset to 0.
OnCpu(s) == s.cuda => ~ s.skipCpuEval

\* run_app, then snapshot.
Evaluation(name, run) == <<[op |-> "evaluate", name |-> name, run |-> run],
                           [op |-> "snapshot", name |-> name, run |-> run]>>

\* Steps 2 and 4 on one device: Transformers, then llama.cpp.
Stage(s, name, gguf, run) ==
    Evaluation(name, run) \o When(~ s.skipGguf, Evaluation(gguf, run))

\* Step 5 on one device.
Train(run) == <<[op |-> "train", run |-> run], [op |-> "adopt", run |-> run]>>

\* The steps of `ops`, in order, on one folder of results/runs.
OnFolder(ops, folder) ==
    [i \in DOMAIN ops |-> [op |-> ops[i], folder |-> folder]]

\* refresh_latest.
Refresh == <<"clear", "fill", "readme">>

\* Seeded fault: results/latest is refreshed before the rows are checked.
ExportRefreshedEarly ==
    <<"recreate", "copy">> \o Refresh \o <<"query", "view", "manifest">>

\* export_run.
Export == <<"recreate", "copy", "query", "manifest", "view">> \o Refresh

\* Steps 6 and 7 on one device.
CompareAndExport(run) ==
    Evaluation("comparison", run) \o OnFolder(<<"stage">> \o Export, run)

\* Steps 8 and 9.
Combine(folder) == OnFolder(<<"combine">> \o Refresh, folder)

Plan(s, inv) ==
    LET cpu == RunId(inv, "cpu")
        cuda == RunId(inv, "cuda")
        Each(name, gguf) == When(OnCpu(s), Stage(s, name, gguf, cpu))
                            \o When(s.cuda, Stage(s, name, gguf, cuda))
    IN  Each("baseline", "baseline_gguf") \o Each("rag", "rag_gguf")
        \o When(OnCpu(s) /\ ~ s.skipCpuFinetune, Train(cpu))
        \o When(s.cuda, Train(cuda))
        \o When(OnCpu(s), CompareAndExport(cpu))
        \o When(s.cuda, CompareAndExport(cuda))
        \o When(s.cuda /\ OnCpu(s), Combine([inv |-> inv, leg |-> "both"]))
        \o When(~ s.skipGguf, Combine([inv |-> inv, leg |-> "runtimes"]))
        \o <<[op |-> "done"]>>

Launch ==
    /\ todo = <<>>
    /\ invocation < MaxInvocations
    /\ invocation' = invocation + 1
    /\ settings' \in Settings
    /\ todo' = Plan(settings', invocation')
    /\ UNCHANGED <<finished, processed, stored, adapters, folders, latest>>

\* A user starts step 07 between two invocations.
ManualExport ==
    /\ todo = <<>>
    /\ \E id \in Manual : id.inv <= invocation /\ todo' = OnFolder(Export, id)
    /\ UNCHANGED <<settings, invocation, finished, processed, stored, adapters,
                   folders, latest>>

-----------------------------------------------------------------------------
(***************************************************************************)
(* The steps                                                               *)
(***************************************************************************)
\* The next step is `op`; a step that returns leaves the rest of the plan.
At(op) == todo # <<>> /\ Head(todo).op = op
Return == todo' = Tail(todo)

step == Head(todo)
folder == step.folder

\* Seeded fault: step 6 looks for the default adapter first.
AdapterDefaultFirst(device) ==
    IF adapters["none"] # None THEN adapters["none"] ELSE adapters[device]

\* Step 6 evaluates adapter_<device>, or else the adapter trained last.
Adapter(device) ==
    IF adapters[device] # None THEN adapters[device] ELSE adapters["none"]

\* Scripts 02, 04 and 06: rows in Postgres and an untagged file.  Step 6 is
\* skipped when there is no adapter at all.
Evaluate ==
    /\ At("evaluate")
    /\ LET adapter == IF step.name = "comparison" THEN Adapter(step.run.leg)
                                                  ELSE None
       IN  IF step.name = "comparison" /\ adapter = None
             THEN UNCHANGED <<processed, stored>>
             ELSE /\ processed' = [processed EXCEPT ![<<step.name, "none">>] =
                                      [run |-> step.run, adapter |-> adapter]]
                  /\ stored' = stored \cup {<<step.name, step.run>>}
    /\ Return
    /\ UNCHANGED <<settings, invocation, finished, adapters, folders, latest>>

\* Seeded fault: an existing device-tagged file is not overwritten.
TaggedOnce(name, device) ==
    IF processed[<<name, device>>] # None THEN processed[<<name, device>>]
                                          ELSE processed[<<name, "none">>]

\* test -f untagged && cp untagged tagged || true
Tagged(name, device) ==
    IF processed[<<name, "none">>] # None THEN processed[<<name, "none">>]
                                          ELSE processed[<<name, device>>]

Snapshot ==
    /\ At("snapshot")
    /\ processed' = [processed EXCEPT ![<<step.name, step.run.leg>>] =
                        Tagged(step.name, step.run.leg)]
    /\ Return
    /\ UNCHANGED <<settings, invocation, finished, stored, adapters, folders,
                   latest>>

\* Script 05 replaces models/fine_tuned/adapter.
TrainAdapter ==
    /\ At("train")
    /\ adapters' = [adapters EXCEPT !["none"] = step.run]
    /\ Return
    /\ UNCHANGED <<settings, invocation, finished, processed, stored, folders,
                   latest>>

\* cp -a adapter/. adapter_<device>/
AdoptAdapter ==
    /\ At("adopt")
    /\ adapters' = [adapters EXCEPT ![step.run.leg] = adapters["none"]]
    /\ Return
    /\ UNCHANGED <<settings, invocation, finished, processed, stored, folders,
                   latest>>

\* stage_for_export: the device-tagged files go back to their canonical names.
StageForExport ==
    /\ At("stage")
    /\ processed' = [file \in DOMAIN processed |->
          IF file[2] = "none" /\ processed[<<file[1], folder.leg>>] # None
            THEN processed[<<file[1], folder.leg>>]
            ELSE processed[file]]
    /\ Return
    /\ UNCHANGED <<settings, invocation, finished, stored, adapters, folders,
                   latest>>

\* export_run starts over: rmtree, mkdir.
Recreate ==
    /\ At("recreate")
    /\ folders' = [folders EXCEPT ![folder] = [Absent EXCEPT !.state = "partial"]]
    /\ Return
    /\ UNCHANGED <<settings, invocation, finished, processed, stored, adapters,
                   latest>>

\* The file export_run copies as `name`: the device-tagged one, if there is one.
Source(name) ==
    IF folder.leg \in Devices /\ processed[<<name, folder.leg>>] # None
      THEN processed[<<name, folder.leg>>]
      ELSE processed[<<name, "none">>]

CopyArtifacts ==
    /\ At("copy")
    /\ folders' = [folders EXCEPT ![folder].files =
                      [name \in Names |-> Source(name)]]
    /\ Return
    /\ UNCHANGED <<settings, invocation, finished, processed, stored, adapters,
                   latest>>

\* export_metrics_csv: no row of exactly this run id, although config.yaml at
\* least was copied, raises.
QueryRows ==
    /\ At("query")
    /\ IF \E name \in Names : <<name, folder>> \in stored THEN Return
                                                          ELSE todo' = <<>>
    /\ UNCHANGED <<settings, invocation, finished, processed, stored, adapters,
                   folders, latest>>

\* manifest.json and summary.md.
WriteManifest ==
    /\ At("manifest")
    /\ folders' = [folders EXCEPT ![folder].state = "exported"]
    /\ Return
    /\ UNCHANGED <<settings, invocation, finished, processed, stored, adapters,
                   latest>>

There(files) == {i \in DOMAIN files : files[i] # None}

\* The one of `files` that is there, the earliest one when several are.
FirstOf(files) ==
    IF There(files) = {} THEN None ELSE files[Min(There(files))]

LastOf(files) ==
    IF There(files) = {} THEN None ELSE files[Max(There(files))]

\* cells_from_stage_json(processed_dir, device): the untagged file, whatever
\* device it is from, then the tagged one.
ProcessedFiles(name, device) ==
    <<processed[<<name, "none">>], processed[<<name, device>>]>>

\* build_question_view of an export: rows of the invocation, and for a cell
\* without rows merge_cells keeps the first file.
ViewOfRun ==
    /\ At("view")
    /\ folders' = [folders EXCEPT ![folder].cells =
          [cell \in Names \X Devices |->
              LET run == [inv |-> folder.inv, leg |-> cell[2]]
              IN  IF <<cell[1], run>> \in stored
                    THEN [run |-> run, adapter |-> None]
                    ELSE FirstOf(ProcessedFiles(cell[1], cell[2]))]]
    /\ Return
    /\ UNCHANGED <<settings, invocation, finished, processed, stored, adapters,
                   latest>>

\* Seeded fault: the first file of a cell wins, as in merge_cells.
CombinedCellFirst(name, device, exported) ==
    FirstOf(Append(ProcessedFiles(name, device), exported))

\* pivot_by_question without Postgres: the last file of a cell wins.
CombinedCell(name, device, exported) ==
    LastOf(Append(ProcessedFiles(name, device), exported))

\* write_report reads the aggregates of an export's Transformers and llama.cpp files.
RuntimeCell(name, exported) == IF name = "comparison" THEN None ELSE exported

\* Script 08 makes by_question and cpu_vs_cuda of both exports, script 09 the report
\* on the runtimes.
CombineRuns ==
    /\ At("combine")
    /\ LET Exported(cell) == folders[RunId(folder.inv, cell[2])].files[cell[1]]
           cells == [cell \in Names \X Devices |->
                        IF folder.leg = "both"
                        THEN CombinedCell(cell[1], cell[2], Exported(cell))
                        ELSE RuntimeCell(cell[1], Exported(cell))]
       IN  folders' = [folders EXCEPT ![folder] =
                          [Absent EXCEPT !.state = "exported", !.cells = cells]]
    /\ Return
    /\ UNCHANGED <<settings, invocation, finished, processed, stored, adapters,
                   latest>>

\* Seeded fault: only the README of the earlier export is removed.
StaleReadme(entry) == entry[1] = "readme"

\* What refresh_latest unlinks: every regular file of an artifact suffix.
StaleEntry(entry) == entry[1] \in {"artifact", "readme"}

\* refresh_latest unlinks the files that are there one after the other.
ClearLatest ==
    /\ At("clear")
    /\ LET stale == {entry \in latest : StaleEntry(entry)}
       IN  IF stale = {} THEN Return /\ UNCHANGED latest
           ELSE /\ \E entry \in stale : latest' = latest \ {entry}
                /\ UNCHANGED todo
    /\ UNCHANGED <<settings, invocation, finished, processed, stored, adapters,
                   folders>>

\* _replace_artifact for every artifact of the folder.
FillLatest ==
    /\ At("fill")
    /\ latest' = latest \cup {<<"artifact", folder>>}
    /\ Return
    /\ UNCHANGED <<settings, invocation, finished, processed, stored, adapters,
                   folders>>

\* _write_snapshot_text: one os.replace over whatever README was there.
WriteReadme ==
    /\ At("readme")
    /\ latest' = {entry \in latest : entry[1] # "readme"} \cup {<<"readme", folder>>}
    /\ Return
    /\ UNCHANGED <<settings, invocation, finished, processed, stored, adapters,
                   folders>>

\* The banner at the end of run_pipeline.sh.
Finish ==
    /\ At("done")
    /\ finished' = invocation
    /\ Return
    /\ UNCHANGED <<settings, invocation, processed, stored, adapters, folders,
                   latest>>

\* A step exits non-zero under set -e, or is killed.
Abort ==
    /\ Aborts
    /\ todo # <<>>
    /\ todo' = <<>>
    /\ UNCHANGED <<settings, invocation, finished, processed, stored, adapters,
                   folders, latest>>

Next ==
    \/ Launch \/ ManualExport \/ Evaluate \/ Snapshot \/ TrainAdapter
    \/ AdoptAdapter \/ StageForExport \/ Recreate \/ CopyArtifacts \/ QueryRows
    \/ WriteManifest \/ ViewOfRun \/ CombineRuns \/ ClearLatest \/ FillLatest
    \/ WriteReadme \/ Finish \/ Abort

Spec == Init /\ [][Next]_vars
-----------------------------------------------------------------------------
\* Every variable keeps its type: a run id always names a device, and the folder
\* of a step 07 without --run-id never gets as far as results/latest.
TypeOK ==
    /\ settings \in Settings
    /\ invocation \in 0 .. MaxInvocations
    /\ finished \in 0 .. invocation
    /\ processed \in [Names \X Tags -> Content \cup {None}]
    /\ stored \subseteq Names \X RunIds
    /\ adapters \in [Tags -> RunIds \cup {None}]
    /\ folders \in [Folders \cup {Stamped} ->
          [state : {"absent", "partial", "exported"},
           files : [Names -> Content \cup {None}],
           cells : [Names \X Devices -> Content \cup {None}]]]
    /\ latest \subseteq {"artifact", "readme"} \X Folders

\* What the invocation does not evaluate, and may copy from the one before.
Skipped == IF settings.skipGguf THEN {"baseline_gguf", "rag_gguf"} ELSE {}

\* "Exporting a CPU run from the untagged copy silently fills the folder with the
\* GPU's answers": every answer file of an exported run folder that the invocation
\* evaluates was produced by that run, whatever an earlier invocation with other
\* settings, or the other device, left behind.
RunFolderIsOfItsRun ==
    \A run \in RunIds : run.inv = invocation /\ folders[run].state = "exported" =>
        \A n \in Names \ Skipped : folders[run].files[n] # None =>
            folders[run].files[n].run = run

\* A run that trained an adapter on its own device is compared with that one: not
\* with the other device's, and not with one an earlier invocation left.
ComparisonUsesItsOwnAdapter ==
    \A run \in RunIds : LET report == folders[run].files["comparison"] IN
        /\ run.inv = invocation
        /\ folders[run].state = "exported"
        /\ run.leg = "cuda" \/ ~ settings.skipCpuFinetune
        => report # None /\ report.adapter = run

\* Steps 8 and 9 compare what they name: each CPU cell comes from the CPU leg of
\* the invocation and each CUDA cell from its CUDA leg, again of what it evaluates.
CombinedCellsAreOfTheirLeg ==
    \A f \in Folders \ RunIds : \A cell \in (Names \ Skipped) \X Devices :
        f.inv = invocation /\ folders[f].cells[cell] # None =>
            folders[f].cells[cell].run = RunId(f.inv, cell[2])

\* "Always the most recent export's summary": results/latest never mixes two exports,
\* at any point of a refresh and after any number of interrupted ones, and the one
\* it shows was exported to the end, rows checked and manifest written.
LatestIsOneFinishedExport ==
    \A entry, other \in latest :
        entry[2] = other[2] /\ folders[entry[2]].state = "exported"

\* DONE is only printed when every device the pipeline ran on has its folder, and
\* results/latest leads with a README of this invocation.
DoneMeansPublished ==
    finished # 0 /\ finished = invocation =>
        /\ \E device \in Devices :
              folders[RunId(finished, device)].state = "exported"
        /\ settings.cuda => folders[RunId(finished, "cuda")].state = "exported"
        /\ \E f \in Folders : f.inv = finished /\ <<"readme", f>> \in latest

\* The record of a finished export is never touched by a later invocation.
ExportsAreKept ==
    [][\A f \in Folders :
          folders[f].state = "exported" /\ folders'[f] # folders[f] =>
              f.inv = invocation]_vars

\* "Columns for baseline/CPU, baseline/GPU, RAG/CPU": a cell of an export's
\* question view holds an answer of that device, from this invocation.
ViewCellsAreOfTheirDevice ==
    \A run \in RunIds : \A cell \in Names \X Devices :
        folders[run].cells[cell] # None =>
            folders[run].cells[cell].run = RunId(run.inv, cell[2])
=============================================================================
