--------------------------- MODULE ModelRegistry ---------------------------
(***************************************************************************)
(* The adapters of step 05 and what the MLflow model registry says about   *)
(* them: scripts/05_fine_tune.py from the end of the training on,          *)
(* model_registry.register_lora_adapter and ensure_base_model_registered,  *)
(* the copy run_pipeline.sh keeps for each device, and                     *)
(* resolve_model_lineage, which tags an evaluation with a version.         *)
(*                                                                         *)
(* A registration is several calls to MLflow, none of them undone when a   *)
(* later one fails; step 05 logs the failure and succeeds.                 *)
(***************************************************************************)
EXTENDS Naturals, Sequences

CONSTANTS
    MaxTrainings, \* bound: the number of trainings of a behaviour
    Faults        \* what may go wrong in this instance

ASSUME ConstantsAssumption ==
    /\ MaxTrainings \in Nat
    /\ Faults \subseteq {"mlflow", "kill"}

Devices == {"cpu", "cuda"}
Dirs == Devices \cup {"adapter"}

VARIABLES
    versions, \* the versions of the registered model, in order
    aliases,  \* its aliases, 0 when not set
    dirs,     \* models/fine_tuned/adapter and adapter_<device>: the training the
              \* weights are from (0: no directory), and the registered_version of
              \* train_info.json (0: no such key)
    torn,     \* ghost: the devices whose copy was begun and not finished
    trained,  \* the number of trainings so far
    pc,       \* where step 05 is
    device,   \* the device it runs on
    version,  \* the mv.version it has
    lineage   \* what the last fine-tuned evaluation was tagged with

registry == <<versions, aliases>>
vars == <<registry, dirs, torn, trained, pc, device, version, lineage>>

Base == [role |-> "base", training |-> 0, tagged |-> FALSE]
Adapter(n) == [role |-> "lora_adapter", training |-> n, tagged |-> FALSE]

Init ==
    /\ versions = <<>>
    /\ aliases = [a \in {"base", "champion", "latest-lora"} |-> 0]
    /\ dirs = [d \in Dirs |-> [weights |-> 0, info |-> 0]]
    /\ torn = {}
    /\ trained = 0
    /\ pc = "idle"
    /\ device = "cpu"
    /\ version = 0
    /\ lineage = [weights |-> 0, version |-> 0, alias |-> "none"]

\* A call to MLflow raises; for "lost_ack" it was applied nevertheless.
MlflowOutcomes ==
    IF "mlflow" \in Faults THEN {"ack", "lost_ack", "error"} ELSE {"ack"}

\* The training, on one device.
Train ==
    /\ pc = "idle"
    /\ trained < MaxTrainings
    /\ trained' = trained + 1
    /\ device' \in Devices
    /\ version' = 0
    /\ pc' = "save"
    /\ UNCHANGED <<registry, dirs, torn, lineage>>

\* trainer.save_model: the weights in the directory, not its train_info.json.
SaveModel ==
    /\ pc = "save"
    /\ dirs' = [dirs EXCEPT !["adapter"].weights = trained]
    /\ pc' = "sidecar"
    /\ UNCHANGED <<registry, torn, trained, device, version, lineage>>

\* Seeded fault: train_info.json is only written after the registration.
SidecarLater == dirs

Sidecar == [dirs EXCEPT !["adapter"].info = 0]

\* A train_info.json without a version.  log_metrics before it and the end of the
\* MLflow run after it end step 05 when they raise.
WriteSidecar ==
    /\ pc = "sidecar"
    /\ \/ /\ dirs' = Sidecar
          /\ pc' = "ensure"
       \/ /\ "mlflow" \in Faults
          /\ dirs' \in {dirs, Sidecar}
          /\ pc' = "idle"
    /\ UNCHANGED <<registry, torn, trained, device, version, lineage>>

\* search_model_versions; an error counts as an empty registry.
EnsureBase ==
    /\ pc = "ensure"
    /\ \E outcome \in MlflowOutcomes :
          pc' = IF outcome = "ack" /\ versions # <<>> THEN "create" ELSE "create_base"
    /\ UNCHANGED <<registry, dirs, torn, trained, device, version, lineage>>

\* Seeded fault: an error of create_model_version is logged.
AfterSwallowed(outcome, done) == done

\* An error ends register_lora_adapter; step 05 logs it and succeeds.
After(outcome, done) == IF outcome = "ack" THEN done ELSE "adopt"

\* Seeded fault: an error of ensure_base_model_registered is logged.
AfterBaseSwallowed(outcome) == IF outcome = "ack" THEN "tag_base" ELSE "create"

AfterBase(outcome) == After(outcome, "tag_base")

\* create_model_version, with the run and the artifacts it refers to.
Created(model, outcome) ==
    /\ versions' = IF outcome = "error" THEN versions ELSE Append(versions, model)
    /\ version' = IF outcome = "ack" THEN Len(versions') ELSE version
    /\ UNCHANGED <<aliases, dirs, torn, trained, device, lineage>>

CreateBase ==
    /\ pc = "create_base"
    /\ \E outcome \in MlflowOutcomes :
          Created(Base, outcome) /\ pc' = AfterBase(outcome)

CreateLora ==
    /\ pc = "create"
    /\ \E outcome \in MlflowOutcomes :
          Created(Adapter(trained), outcome) /\ pc' = After(outcome, "tag")

\* Seeded fault: an error of set_model_version_tag is logged.
AfterTagSwallowed(outcome, done) == done

AfterTag(outcome, done) == After(outcome, done)

\* The set_model_version_tag calls: tagged once the last one was applied.
Tag(label, done) ==
    /\ pc = label
    /\ \E outcome \in MlflowOutcomes :
          /\ versions' = IF outcome = "error" THEN versions
                         ELSE [versions EXCEPT ![version].tagged = TRUE]
          /\ pc' = AfterTag(outcome, done)
    /\ UNCHANGED <<aliases, dirs, torn, trained, device, version, lineage>>

TagBase == Tag("tag_base", "alias_base")
TagLora == Tag("tag", "champion")

\* Seeded fault: each alias has a try statement of its own.
AfterChampionOwnTry(outcome) == "latest"

\* Both aliases of an adapter are in one try statement.
AfterChampion(outcome) == IF outcome = "ack" THEN "latest" ELSE "record"

\* set_registered_model_alias; its error is logged.
SetAlias(alias, outcome) ==
    /\ aliases' = IF outcome = "error" THEN aliases
                                       ELSE [aliases EXCEPT ![alias] = version]
    /\ UNCHANGED <<versions, dirs, torn, trained, device, version, lineage>>

AliasBase ==
    /\ pc = "alias_base"
    /\ \E outcome \in MlflowOutcomes : SetAlias("base", outcome)
    /\ pc' = "create"

AliasChampion ==
    /\ pc = "champion"
    /\ \E outcome \in MlflowOutcomes :
          SetAlias("champion", outcome) /\ pc' = AfterChampion(outcome)

AliasLatest ==
    /\ pc = "latest"
    /\ \E outcome \in MlflowOutcomes : SetAlias("latest-lora", outcome)
    /\ pc' = "record"

\* train_info.json again, with the version, unless the end of the MLflow run raises.
RecordVersion ==
    /\ pc = "record"
    /\ \/ dirs' = [dirs EXCEPT !["adapter"].info = version]
       \/ "mlflow" \in Faults /\ UNCHANGED dirs
    /\ pc' = "adopt"
    /\ UNCHANGED <<registry, torn, trained, device, version, lineage>>

\* run_pipeline.sh copies the directory file by file, in no order one could rely
\* on; step 05 by hand does not.
Adopt ==
    /\ pc = "adopt"
    /\ \/ /\ dirs' \in {[dirs EXCEPT ![device].weights = dirs["adapter"].weights],
                      [dirs EXCEPT ![device].info = dirs["adapter"].info]}
          /\ torn' = torn \cup {device}
          /\ pc' = "copy"
       \/ /\ pc' = "idle"
          /\ UNCHANGED <<dirs, torn>>
    /\ UNCHANGED <<registry, trained, device, version, lineage>>

FinishCopy ==
    /\ pc = "copy"
    /\ dirs' = [dirs EXCEPT ![device] = dirs["adapter"]]
    /\ torn' = torn \ {device}
    /\ pc' = "idle"
    /\ UNCHANGED <<registry, trained, device, version, lineage>>

\* The aliases of a fine-tuned approach, an error counting as a missing one.
Named(unreachable) == {a \in {"champion", "latest-lora"} \ unreachable : aliases[a] # 0}

\* The train_info.json files in which a version is looked for otherwise.
Recorded(dir) == {d \in {dir, "adapter"} : dirs[d].info # 0}

\* "champion" is asked for before "latest-lora", the directory before "adapter".
Lineage(dir, unreachable) ==
    LET alias == IF "champion" \in Named(unreachable) THEN "champion" ELSE "latest-lora"
        file == IF dir \in Recorded(dir) THEN dir ELSE "adapter"
    IN  CASE Named(unreachable) # {} ->
               [weights |-> dirs[dir].weights, alias |-> alias, version |-> aliases[alias]]
          [] Named(unreachable) = {} /\ Recorded(dir) # {} ->
               [weights |-> dirs[dir].weights, alias |-> "local-train-info",
                version |-> dirs[file].info]
          [] OTHER -> [weights |-> dirs[dir].weights, version |-> 0, alias |-> "hf-id"]

\* Step 06 on a device: its own adapter, or else the one trained last.
Evaluate ==
    /\ pc = "idle"
    /\ \E d \in Devices :
          LET dir == IF dirs[d].weights + dirs[d].info # 0 THEN d ELSE "adapter" IN
          /\ dirs[dir].weights # 0
          /\ \E unreachable \in SUBSET {"champion", "latest-lora"} :
                /\ unreachable # {} => "mlflow" \in Faults
                /\ lineage' = Lineage(dir, unreachable)
    /\ UNCHANGED <<registry, dirs, torn, trained, pc, device, version>>

\* The process is killed, and run_pipeline.sh ends with it.
Kill ==
    /\ "kill" \in Faults
    /\ pc # "idle"
    /\ pc' = "idle"
    /\ UNCHANGED <<registry, dirs, torn, trained, device, version, lineage>>

Next ==
    \/ Train \/ SaveModel \/ WriteSidecar \/ EnsureBase \/ CreateBase \/ TagBase
    \/ AliasBase \/ CreateLora \/ TagLora \/ AliasChampion \/ AliasLatest
    \/ RecordVersion \/ Adopt \/ FinishCopy \/ Evaluate \/ Kill

Spec == Init /\ [][Next]_vars
-----------------------------------------------------------------------------
Versions == 0 .. Len(versions)

\* Every variable keeps its type: a version number is of a version that is there.
TypeOK ==
    /\ versions \in Seq([role : {"base", "lora_adapter"}, training : 0 .. trained,
                         tagged : BOOLEAN])
    /\ aliases \in [{"base", "champion", "latest-lora"} -> Versions]
    /\ dirs \in [Dirs -> [weights : 0 .. trained, info : Versions]]
    /\ torn \subseteq Devices
    /\ trained \in 0 .. MaxTrainings
    /\ pc \in {"idle", "save", "sidecar", "ensure", "create_base", "tag_base",
               "alias_base", "create", "tag", "champion", "latest", "record", "adopt",
               "copy"}
    /\ device \in Devices
    /\ version \in Versions
    /\ pc \in {"tag_base", "alias_base", "tag", "champion", "latest", "record"} =>
           version # 0
    /\ lineage \in [weights : 0 .. trained, version : Versions,
                   alias : {"none", "champion", "latest-lora", "local-train-info", "hf-id"}]

\* "Version 1 -> base": whatever fails, and however often step 05 is run again, no
\* adapter is registered under a model that does not begin with its base.
FirstVersionIsTheBase ==
    versions # <<>> => versions[1].role = "base"

\* A version an alias points to says what it is: the registry page of champion
\* shows its role, base model and device, also after a registration that failed.
\* And resolve_model_lineage asks for champion and then for latest-lora: the second
\* is never a newer adapter than the first.
AliasesAreInOrder ==
    /\ \A a \in DOMAIN aliases : aliases[a] # 0 =>
          /\ versions[aliases[a]].tagged
          /\ versions[aliases[a]].role = IF a = "base" THEN "base" ELSE "lora_adapter"
    /\ aliases["latest-lora"] <= aliases["champion"]

\* The adapter kept for a device, unless its copy was cut short, says which version
\* it is, or nothing: never the version of the training before it.
KeptInfoIsOfItsAdapter ==
    \A d \in Devices \ torn : dirs[d].info # 0 =>
        versions[dirs[d].info].training = dirs[d].weights

\* "Resolve registry name/version for tagging runs": a fine-tuned evaluation that
\* names a version evaluated the adapter registered as that version.
LineageIsOfTheEvaluatedAdapter ==
    lineage.version # 0 => versions[lineage.version].training = lineage.weights
=============================================================================
