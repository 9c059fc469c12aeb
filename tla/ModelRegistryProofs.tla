------------------------ MODULE ModelRegistryProofs ------------------------
(***************************************************************************)
(* Proofs about ModelRegistry, for any number of trainings and any faults. *)
(***************************************************************************)
EXTENDS ModelRegistry, TLAPS

(***************************************************************************)
(* The inductive invariant.  A registration only adds to the registry, and *)
(* whatever it gets wrong it stops at: as long as it goes on, the version  *)
(* it has is the last one and is what it takes it for, and the adapter     *)
(* directory holds the weights it registered.                              *)
(***************************************************************************)

Models(n) == [role : {"base", "lora_adapter"}, training : 0 .. n, tagged : BOOLEAN]

\* An adapter is registered after the base.
BaseComesFirst ==
    /\ FirstVersionIsTheBase
    /\ pc = "create" => versions # <<>>

\* The version a registration has.
VersionIsTheLast ==
    /\ pc \in {"tag_base", "alias_base", "tag", "champion", "latest", "record"} =>
          version = Len(versions)
    /\ pc \in {"tag_base", "alias_base"} => versions[version].role = "base"
    /\ pc \in {"tag", "champion", "latest", "record"} =>
          /\ versions[version].role = "lora_adapter"
          /\ versions[version].training = trained
    /\ pc \in {"alias_base", "champion", "latest"} => versions[version].tagged
    /\ pc = "latest" => aliases["champion"] = version

\* The train_info.json of a directory is of its weights.
InfoIsOf(d) == dirs[d].info # 0 => versions[dirs[d].info].training = dirs[d].weights

\* The adapter directory, from the save of a training on.
AdapterIsOfTheTraining ==
    /\ pc \notin {"idle", "save"} => dirs["adapter"].weights = trained
    /\ pc \notin {"idle", "save", "sidecar"} => InfoIsOf("adapter")
    /\ pc = "copy" => device \in torn

IInv == TypeOK /\ BaseComesFirst /\ VersionIsTheLast /\ AdapterIsOfTheTraining
            /\ AliasesAreInOrder /\ KeptInfoIsOfItsAdapter

\* What never changes about a version that is there.
Keeps(later) ==
    /\ Len(later) \in Nat /\ Len(later) >= Len(versions)
    /\ \A v \in 1 .. Len(versions) :
          /\ later[v].role = versions[v].role
          /\ later[v].training = versions[v].training
          /\ versions[v].tagged => later[v].tagged
-----------------------------------------------------------------------------
(***************************************************************************)
(* The registered model.                                                   *)
(***************************************************************************)

LEMMA VersionsType ==
    ASSUME TypeOK
    PROVE  /\ versions \in Seq(Models(trained)) /\ trained \in Nat
           /\ Len(versions) \in Nat
           /\ \A v \in 1 .. Len(versions) : versions[v] \in Models(trained)
           /\ versions # <<>> <=> Len(versions) > 0
<1>1. versions \in Seq(Models(trained)) /\ trained \in Nat
    BY ConstantsAssumption DEF TypeOK, Models
<1> QED
    BY <1>1

\* A training leaves the versions what they are.
LEMMA ModelsOfLaterTrainings ==
    ASSUME NEW n \in Nat, NEW s \in Seq(Models(n))
    PROVE  s \in Seq(Models(n + 1))
<1>1. Models(n) \subseteq Models(n + 1)
    <2>1. 0 .. n \subseteq 0 .. n + 1
        OBVIOUS
    <2> QED
        BY <2>1 DEF Models
<1>2. s \in [1 .. Len(s) -> Models(n)] /\ Len(s) \in Nat
    OBVIOUS
<1>3. s \in [1 .. Len(s) -> Models(n + 1)]
    BY <1>1, <1>2
<1> QED
    BY <1>2, <1>3

LEMMA RegisteredModels ==
    ASSUME NEW n \in Nat
    PROVE  Base \in Models(n) /\ Adapter(n) \in Models(n)
<1>1. 0 \in 0 .. n /\ n \in 0 .. n
    OBVIOUS
<1>2. Base \in Models(n)
    BY <1>1 DEF Base, Models
<1>3. Adapter(n) \in Models(n)
    BY <1>1 DEF Adapter, Models
<1> QED
    BY <1>2, <1>3

\* create_model_version adds a version.
LEMMA CreatedKeeps ==
    ASSUME NEW n \in Nat, NEW m \in Models(n), versions \in Seq(Models(n))
    PROVE  /\ Append(versions, m) \in Seq(Models(n))
           /\ Len(Append(versions, m)) = Len(versions) + 1
           /\ Append(versions, m)[Len(versions) + 1] = m
           /\ Keeps(Append(versions, m))
<1>1. /\ Append(versions, m) \in Seq(Models(n))
      /\ Len(versions) \in Nat
      /\ Len(Append(versions, m)) = Len(versions) + 1
    OBVIOUS
<1>2. Append(versions, m)[Len(versions) + 1] = m
    BY <1>1
<1>3. \A v \in 1 .. Len(versions) : Append(versions, m)[v] = versions[v]
    BY <1>1
<1> QED
    BY <1>1, <1>2, <1>3 DEF Keeps

\* set_model_version_tag changes nothing but the tags.
LEMMA TaggedKeeps ==
    ASSUME NEW n \in Nat, NEW v \in 1 .. Len(versions), versions \in Seq(Models(n)),
           NEW later, later = [versions EXCEPT ![v].tagged = TRUE]
    PROVE  /\ later \in Seq(Models(n))
           /\ Len(later) = Len(versions)
           /\ later[v].tagged
           /\ Keeps(later)
<1>1. Len(versions) \in Nat /\ versions \in [1 .. Len(versions) -> Models(n)]
    OBVIOUS
<1>2. versions[v] \in Models(n)
    BY <1>1
<1>3. /\ [versions[v] EXCEPT !.tagged = TRUE] \in Models(n)
      /\ [versions[v] EXCEPT !.tagged = TRUE].role = versions[v].role
      /\ [versions[v] EXCEPT !.tagged = TRUE].training = versions[v].training
      /\ [versions[v] EXCEPT !.tagged = TRUE].tagged
    BY <1>2 DEF Models
<1>4. /\ later \in [1 .. Len(versions) -> Models(n)]
      /\ later[v] = [versions[v] EXCEPT !.tagged = TRUE]
      /\ \A w \in 1 .. Len(versions) : w # v => later[w] = versions[w]
    BY <1>1, <1>3
<1>5. later \in Seq(Models(n)) /\ Len(later) = Len(versions)
    BY <1>1, <1>4
<1> QED
    BY <1>1, <1>3, <1>4, <1>5 DEF Keeps

\* Nothing in this system takes a version back.
LEMMA RegistryGrows ==
    ASSUME TypeOK, [Next]_vars
    PROVE  /\ trained' \in Nat /\ trained' >= trained
           /\ versions' \in Seq(Models(trained'))
           /\ Keeps(versions')
<1>0. /\ versions \in Seq(Models(trained)) /\ trained \in Nat /\ Len(versions) \in Nat
      /\ version \in 0 .. Len(versions)
      /\ pc \in {"tag_base", "tag"} => version # 0
    BY VersionsType DEF TypeOK, Versions
<1>1. Keeps(versions)
    BY <1>0 DEF Keeps
<1>2. CASE UNCHANGED versions /\ (UNCHANGED trained \/ trained' = trained + 1)
    <2>1. versions \in Seq(Models(trained + 1))
        BY <1>0, ModelsOfLaterTrainings
    <2> QED
        BY <1>0, <1>1, <1>2, <2>1
<1>3. CASE CreateBase \/ CreateLora
    <2>1. PICK m \in {Base, Adapter(trained)} : versions' \in {versions, Append(versions, m)}
        BY <1>3 DEF CreateBase, CreateLora, Created
    <2>2. m \in Models(trained)
        <3>1. Base \in Models(trained) /\ Adapter(trained) \in Models(trained)
            BY <1>0, RegisteredModels
        <3> QED
            BY <2>1, <3>1
    <2>3. UNCHANGED trained
        BY <1>3 DEF CreateBase, CreateLora, Created
    <2>4. Append(versions, m) \in Seq(Models(trained)) /\ Keeps(Append(versions, m))
        BY <1>0, <2>2, CreatedKeeps
    <2>5. versions' \in Seq(Models(trained)) /\ Keeps(versions')
        BY <1>0, <1>1, <2>1, <2>4
    <2> QED
        BY <1>0, <2>3, <2>5
<1>4. CASE TagBase \/ TagLora
    <2>1. /\ versions' \in {versions, [versions EXCEPT ![version].tagged = TRUE]}
          /\ UNCHANGED trained /\ pc \in {"tag_base", "tag"}
        BY <1>4 DEF TagBase, TagLora, Tag
    <2>2. version \in 1 .. Len(versions)
        BY <1>0, <2>1
    <2>3. versions' \in Seq(Models(trained)) /\ Keeps(versions')
        BY <1>0, <1>1, <2>1, <2>2, TaggedKeeps
    <2> QED
        BY <1>0, <2>1, <2>3
<1> QED
    BY <1>2, <1>3, <1>4
       DEF Next, vars, registry, Train, SaveModel, WriteSidecar, EnsureBase, AliasBase,
           AliasChampion, AliasLatest, SetAlias, RecordVersion, Adopt, FinishCopy, Evaluate, Kill
-----------------------------------------------------------------------------
(***************************************************************************)
(* Every step: the types.                                                  *)
(***************************************************************************)

LEMMA VersionNumbersStay ==
    ASSUME TypeOK, [Next]_vars
    PROVE  /\ Versions \subseteq Versions' /\ 0 \in Versions'
           /\ 0 .. trained \subseteq 0 .. trained' /\ trained \in 0 .. trained'
<1>1. /\ trained \in Nat /\ trained' \in Nat /\ trained' >= trained
      /\ Len(versions) \in Nat /\ Len(versions') \in Nat /\ Len(versions') >= Len(versions)
    BY VersionsType, RegistryGrows DEF Keeps
<1> QED
    BY <1>1 DEF Versions

LEMMA AliasesType ==
    ASSUME TypeOK, [Next]_vars
    PROVE  aliases' \in [{"base", "champion", "latest-lora"} -> Versions']
<1>0. /\ aliases \in [{"base", "champion", "latest-lora"} -> Versions] /\ version \in Versions
      /\ Versions \subseteq Versions'
    BY VersionNumbersStay DEF TypeOK
<1>1. \/ UNCHANGED aliases
      \/ \E a \in {"base", "champion", "latest-lora"} :
            aliases' = [aliases EXCEPT ![a] = version]
    BY DEF Next, vars, registry, Train, SaveModel, WriteSidecar, EnsureBase, CreateBase, CreateLora,
           Created, TagBase, TagLora, Tag, AliasBase, AliasChampion, AliasLatest, SetAlias,
           RecordVersion, Adopt, FinishCopy, Evaluate, Kill
<1> QED
    BY <1>0, <1>1

LEMMA DirsType ==
    ASSUME TypeOK, [Next]_vars
    PROVE  dirs' \in [Dirs -> [weights : 0 .. trained', info : Versions']]
<1>0. /\ dirs \in [Dirs -> [weights : 0 .. trained, info : Versions]]
      /\ version \in Versions /\ device \in Devices
      /\ trained \in 0 .. trained
    BY VersionsType DEF TypeOK
<1>1. /\ Versions \subseteq Versions' /\ 0 \in Versions
      /\ 0 .. trained \subseteq 0 .. trained'
    BY VersionNumbersStay, VersionsType DEF Versions
<1>2. "adapter" \in Dirs /\ device \in Dirs
    BY <1>0 DEF Dirs
<1>3. dirs' \in {dirs, Sidecar, [dirs EXCEPT !["adapter"].weights = trained],
                [dirs EXCEPT !["adapter"].info = version],
                [dirs EXCEPT ![device].weights = dirs["adapter"].weights],
                [dirs EXCEPT ![device].info = dirs["adapter"].info],
                [dirs EXCEPT ![device] = dirs["adapter"]]}
    BY DEF Next, vars, registry, Train, SaveModel, WriteSidecar, EnsureBase, CreateBase, CreateLora,
           Created, TagBase, TagLora, Tag, AliasBase, AliasChampion, AliasLatest, SetAlias,
           RecordVersion, Adopt, FinishCopy, Evaluate, Kill
<1>4. dirs' \in [Dirs -> [weights : 0 .. trained, info : Versions]]
    BY <1>0, <1>1, <1>2, <1>3 DEF Sidecar
<1>5. [weights : 0 .. trained, info : Versions] \subseteq [weights : 0 .. trained', info : Versions']
    BY <1>1
<1> QED
    BY <1>4, <1>5

LEMMA LineageType ==
    ASSUME TypeOK, [Next]_vars
    PROVE  lineage' \in [weights : 0 .. trained', version : Versions',
                         alias : {"none", "champion", "latest-lora", "local-train-info", "hf-id"}]
<1>1. /\ Versions \subseteq Versions' /\ 0 \in Versions
      /\ 0 .. trained \subseteq 0 .. trained'
    BY VersionNumbersStay, VersionsType DEF Versions
<1> DEFINE Lineages ==
        [weights : 0 .. trained, version : Versions,
         alias : {"none", "champion", "latest-lora", "local-train-info", "hf-id"}]
<1>2. /\ lineage \in Lineages
      /\ dirs \in [Dirs -> [weights : 0 .. trained, info : Versions]]
      /\ aliases \in [{"base", "champion", "latest-lora"} -> Versions]
    BY DEF TypeOK
<1>3. CASE Evaluate
    <2>1. PICK dir \in Dirs, unreachable \in SUBSET {"champion", "latest-lora"} :
              lineage' = Lineage(dir, unreachable)
        BY <1>3 DEF Evaluate, Dirs
    <2>2. dirs[dir].weights \in 0 .. trained /\ dirs[dir].info \in Versions
          /\ dirs["adapter"].info \in Versions
        BY <1>2 DEF Dirs
    <2>3. aliases["champion"] \in Versions /\ aliases["latest-lora"] \in Versions
        BY <1>2
    <2>4. lineage' \in Lineages
        BY <1>1, <2>1, <2>2, <2>3 DEF Lineage
    <2> QED
        BY <1>1, <2>4
<1>4. CASE UNCHANGED lineage
    BY <1>1, <1>2, <1>4
<1> QED
    BY <1>3, <1>4
       DEF Next, vars, Train, SaveModel, WriteSidecar, EnsureBase, CreateBase, CreateLora,
           Created, TagBase, TagLora, Tag, AliasBase, AliasChampion, AliasLatest, SetAlias,
           RecordVersion, Adopt, FinishCopy, Kill

LEMMA TypeStep ==
    ASSUME TypeOK, [Next]_vars
    PROVE  TypeOK'
<1>0. /\ Versions \subseteq Versions' /\ 0 \in Versions'
      /\ trained \in Nat /\ trained' \in Nat
    BY VersionNumbersStay, RegistryGrows, VersionsType
<1>1. trained' \in 0 .. MaxTrainings
    <2>1. trained \in 0 .. MaxTrainings /\ MaxTrainings \in Nat
        BY ConstantsAssumption DEF TypeOK
    <2>2. UNCHANGED trained \/ (trained < MaxTrainings /\ trained' = trained + 1)
        BY DEF Next, vars, registry, Train, SaveModel, WriteSidecar, EnsureBase, CreateBase,
               CreateLora, Created, TagBase, TagLora, Tag, AliasBase, AliasChampion, AliasLatest,
               SetAlias, RecordVersion, Adopt, FinishCopy, Evaluate, Kill
    <2> QED
        BY <2>1, <2>2
<1>2. torn' \subseteq Devices /\ device' \in Devices
    BY DEF TypeOK, Next, vars, registry, Train, SaveModel, WriteSidecar, EnsureBase, CreateBase,
           CreateLora, Created, TagBase, TagLora, Tag, AliasBase, AliasChampion, AliasLatest,
           SetAlias, RecordVersion, Adopt, FinishCopy, Evaluate, Kill
<1>3. pc' \in {"idle", "save", "sidecar", "ensure", "create_base", "tag_base", "alias_base",
              "create", "tag", "champion", "latest", "record", "adopt", "copy"}
    BY DEF TypeOK, Next, vars, registry, Train, SaveModel, WriteSidecar, EnsureBase, CreateBase,
           CreateLora, Created, After, AfterBase, TagBase, TagLora, Tag, AfterTag, AliasBase,
           AliasChampion, AfterChampion, AliasLatest, SetAlias, RecordVersion, Adopt, FinishCopy,
           Evaluate, Kill
<1>4. /\ version' \in Versions'
      /\ pc' \in {"tag_base", "alias_base", "tag", "champion", "latest", "record"} => version' # 0
    <2>1. CASE CreateBase \/ CreateLora
        <3>1. PICK outcome \in MlflowOutcomes :
                  /\ version' = IF outcome = "ack" THEN Len(versions') ELSE version
                  /\ pc' = IF outcome = "ack" THEN IF CreateBase THEN "tag_base" ELSE "tag" ELSE "adopt"
                  /\ outcome = "ack" => \E m \in {Base, Adapter(trained)} :
                                           versions' = Append(versions, m)
            BY <2>1 DEF CreateBase, CreateLora, Created, After, AfterBase
        <3>2. outcome = "ack" => Len(versions') = Len(versions) + 1
            <4>1. Base \in Models(trained) /\ Adapter(trained) \in Models(trained)
                BY <1>0, RegisteredModels
            <4> QED
                BY <1>0, <3>1, <4>1, VersionsType, CreatedKeeps
        <3>3. Len(versions) \in Nat
            BY VersionsType
        <3>4. CASE outcome = "ack"
            <4>1. version' = Len(versions') /\ Len(versions') \in Nat \ {0}
                BY <3>1, <3>2, <3>3, <3>4
            <4> QED
                BY <4>1 DEF Versions
        <3>5. CASE outcome # "ack"
            BY <1>0, <3>1, <3>5 DEF TypeOK
        <3> QED
            BY <3>4, <3>5
    <2>2. CASE ~ (CreateBase \/ CreateLora)
        <3>1. version' \in {version, 0}
            BY <2>2 DEF TypeOK, Next, vars, registry, Train, SaveModel, WriteSidecar, EnsureBase,
               TagBase, TagLora, Tag, AliasBase, AliasChampion, AliasLatest, SetAlias,
               RecordVersion, Adopt, FinishCopy, Evaluate, Kill
        <3>2. pc' \in {"tag_base", "alias_base", "tag", "champion", "latest", "record"} =>
                  /\ pc \in {"tag_base", "alias_base", "tag", "champion", "latest", "record"}
                  /\ UNCHANGED version
            BY <2>2 DEF Next, vars, registry, Train, SaveModel, WriteSidecar, EnsureBase, After,
               TagBase, TagLora, Tag, AfterTag, AliasBase, AliasChampion, AfterChampion, AliasLatest,
               SetAlias, RecordVersion, Adopt, FinishCopy, Evaluate, Kill
        <3> QED
            BY <1>0, <3>1, <3>2 DEF TypeOK
    <2> QED
        BY <2>1, <2>2
<1> QED
    BY <1>1, <1>2, <1>3, <1>4, RegistryGrows, AliasesType, DirsType, LineageType
       DEF TypeOK, Models
-----------------------------------------------------------------------------
(***************************************************************************)
(* Every step: what the versions, the aliases and the directories say.     *)
(***************************************************************************)

LEMMA BaseStep ==
    ASSUME TypeOK, BaseComesFirst, [Next]_vars
    PROVE  BaseComesFirst'
<1>0. /\ Len(versions) \in Nat /\ Len(versions') \in Nat /\ Len(versions') >= Len(versions)
      /\ versions # <<>> <=> Len(versions) > 0
      /\ versions' # <<>> <=> Len(versions') > 0
      /\ Keeps(versions')
    BY VersionsType, RegistryGrows DEF Keeps
<1>1. CASE versions # <<>>
    <2>1. versions'[1].role = versions[1].role /\ versions' # <<>>
        BY <1>0, <1>1 DEF Keeps
    <2> QED
        BY <1>1, <2>1 DEF BaseComesFirst, FirstVersionIsTheBase
<1>2. CASE versions = <<>>
    <2>1. CASE CreateBase
        <3>1. versions' \in {versions, Append(versions, Base)} /\ pc' \in {"tag_base", "adopt"}
            BY <2>1 DEF CreateBase, Created, After, AfterBase
        <3>2. Append(versions, Base)[1] = Base
            BY <1>2
        <3> QED
            BY <1>2, <3>1, <3>2 DEF BaseComesFirst, FirstVersionIsTheBase, Base
    <2>2. CASE UNCHANGED versions
        <3>1. pc' # "create"
            BY <1>2, <2>2, <1>0
               DEF BaseComesFirst, TypeOK, Versions, Next, vars, Train, SaveModel, WriteSidecar,
                   EnsureBase, CreateBase, CreateLora, Created, After, AfterBase, TagBase, TagLora,
                   Tag, AfterTag, AliasBase, AliasChampion, AfterChampion, AliasLatest, SetAlias,
                   RecordVersion, Adopt, FinishCopy, Evaluate, Kill
        <3> QED
            BY <1>2, <2>2, <3>1 DEF BaseComesFirst, FirstVersionIsTheBase
    <2>3. pc # "create" /\ ~ CreateLora
        BY <1>2 DEF BaseComesFirst, CreateLora
    <2>4. ~ (TagBase \/ TagLora)
        BY <1>0, <1>2 DEF TypeOK, Versions, TagBase, TagLora, Tag
    <2> QED
        BY <2>1, <2>2, <2>3, <2>4
           DEF Next, vars, registry, Train, SaveModel, WriteSidecar, EnsureBase, AliasBase,
               AliasChampion, AliasLatest, SetAlias, RecordVersion, Adopt, FinishCopy, Evaluate, Kill
<1> QED
    BY <1>1, <1>2

\* A registration that goes on does so with the version it created.
LEMMA CreateStep ==
    ASSUME TypeOK, CreateBase \/ CreateLora
    PROVE  VersionIsTheLast'
<1>1. PICK outcome \in MlflowOutcomes, m \in {Base, Adapter(trained)} :
          /\ CreateBase => m = Base
          /\ CreateLora => m = Adapter(trained)
          /\ outcome = "ack" => versions' = Append(versions, m)
          /\ version' = IF outcome = "ack" THEN Len(versions') ELSE version
          /\ pc' \in IF outcome = "ack" THEN {"tag_base", "tag"} ELSE {"adopt"}
          /\ pc' = "tag_base" => CreateBase
          /\ pc' = "tag" => CreateLora
    BY DEF CreateBase, CreateLora, Created, After, AfterBase
<1>2. UNCHANGED trained
    BY DEF CreateBase, CreateLora, Created
<1>3. trained \in Nat /\ versions \in Seq(Models(trained)) /\ m \in Models(trained)
    BY <1>1, VersionsType, RegisteredModels
<1>4. CASE outcome = "ack"
    <2>1. versions'[version'] = m /\ version' = Len(versions')
        BY <1>1, <1>3, <1>4, CreatedKeeps
    <2>2. pc' = "tag_base" => m = Base
        BY <1>1
    <2>3. pc' = "tag" => m = Adapter(trained)
        BY <1>1
    <2>4. pc' \in {"tag_base", "tag"}
        BY <1>1, <1>4
    <2> QED
        BY <1>2, <2>1, <2>2, <2>3, <2>4 DEF VersionIsTheLast, Base, Adapter
<1>5. CASE outcome # "ack"
    BY <1>1, <1>5 DEF VersionIsTheLast
<1> QED
    BY <1>4, <1>5

LEMMA TagStep ==
    ASSUME TypeOK, VersionIsTheLast, TagBase \/ TagLora
    PROVE  VersionIsTheLast'
<1>1. /\ versions' \in {versions, [versions EXCEPT ![version].tagged = TRUE]}
      /\ pc \in {"tag_base", "tag"}
      /\ pc' \in {"adopt"} \cup (IF pc = "tag_base" THEN {"alias_base"} ELSE {"champion"})
      /\ pc' # "adopt" => versions' = [versions EXCEPT ![version].tagged = TRUE]
      /\ UNCHANGED <<trained, version>>
    BY DEF TagBase, TagLora, Tag, AfterTag, After
<1>2. CASE pc' = "adopt"
    BY <1>2 DEF VersionIsTheLast
<1>3. CASE pc' # "adopt"
    <2>1. version \in 1 .. Len(versions) /\ versions \in Seq(Models(trained)) /\ trained \in Nat
        BY <1>1, VersionsType DEF TypeOK, Versions
    <2>2. /\ Len(versions') = Len(versions) /\ versions'[version].tagged
          /\ versions'[version].role = versions[version].role
          /\ versions'[version].training = versions[version].training
        BY <1>1, <1>3, <2>1, TaggedKeeps DEF Keeps
    <2>3. pc' = IF pc = "tag_base" THEN "alias_base" ELSE "champion"
        BY <1>1, <1>3
    <2> QED
        BY <1>1, <2>2, <2>3 DEF VersionIsTheLast
<1> QED
    BY <1>2, <1>3

LEMMA VersionStep ==
    ASSUME TypeOK, VersionIsTheLast, [Next]_vars
    PROVE  VersionIsTheLast'
<1>1. CASE CreateBase \/ CreateLora
    BY <1>1, CreateStep
<1>2. CASE TagBase \/ TagLora
    BY <1>2, TagStep
<1>3. CASE AliasBase \/ AliasChampion \/ AliasLatest
    <2>1. /\ UNCHANGED <<versions, version, trained>>
          /\ pc' \in {"create", "latest", "record"}
          /\ pc' \in {"latest", "record"} => pc \in {"champion", "latest"}
          /\ pc' = "latest" => pc = "champion" /\ aliases' = [aliases EXCEPT !["champion"] = version]
        BY <1>3 DEF AliasBase, AliasChampion, AfterChampion, AliasLatest, SetAlias
    <2>2. pc' = "latest" => aliases'["champion"] = version
        BY <2>1 DEF TypeOK
    <2> QED
        BY <2>1, <2>2 DEF VersionIsTheLast
<1>4. CASE ~ (CreateBase \/ CreateLora \/ TagBase \/ TagLora
                 \/ AliasBase \/ AliasChampion \/ AliasLatest)
    <2>1. \/ UNCHANGED <<versions, aliases, pc, version, trained>>
          \/ pc' \in {"idle", "save", "sidecar", "ensure", "create", "create_base", "adopt", "copy"}
        BY <1>4 DEF Next, vars, registry, Train, SaveModel, WriteSidecar, EnsureBase,
           RecordVersion, Adopt, FinishCopy, Evaluate, Kill
    <2> QED
        BY <2>1 DEF VersionIsTheLast
<1> QED
    BY <1>1, <1>2, <1>3, <1>4

LEMMA AliasesStep ==
    ASSUME TypeOK, VersionIsTheLast, AliasesAreInOrder, [Next]_vars
    PROVE  AliasesAreInOrder'
<1>0. /\ Keeps(versions') /\ Len(versions) \in Nat
      /\ aliases \in [{"base", "champion", "latest-lora"} -> 0 .. Len(versions)]
      /\ version \in 0 .. Len(versions)
    BY VersionsType, RegistryGrows DEF TypeOK, Versions
<1>1. CASE UNCHANGED aliases
    <2>1. \A a \in DOMAIN aliases : aliases[a] # 0 => aliases[a] \in 1 .. Len(versions)
        BY <1>0
    <2> QED
        BY <1>0, <1>1, <2>1 DEF AliasesAreInOrder, Keeps
<1>2. ASSUME UNCHANGED versions,
             NEW a \in {"base", "champion", "latest-lora"}, aliases' = [aliases EXCEPT ![a] = version],
             versions[version].tagged,
             versions[version].role = IF a = "base" THEN "base" ELSE "lora_adapter",
             a = "champion" => version = Len(versions),
             a = "latest-lora" => aliases["champion"] = version
      PROVE  AliasesAreInOrder'
    <2>1. \A b \in {"base", "champion", "latest-lora"} :
              aliases'[b] = IF b = a THEN version ELSE aliases[b]
        BY <1>0, <1>2
    <2>2. aliases'["latest-lora"] <= aliases'["champion"]
        BY <1>0, <1>2, <2>1 DEF AliasesAreInOrder
    <2>3. DOMAIN aliases' = {"base", "champion", "latest-lora"}
        BY <1>0, <1>2
    <2> QED
        BY <1>0, <1>2, <2>1, <2>2, <2>3 DEF AliasesAreInOrder
<1>3. CASE AliasBase
    <2>1. /\ pc = "alias_base" /\ UNCHANGED versions
          /\ UNCHANGED aliases \/ aliases' = [aliases EXCEPT !["base"] = version]
        BY <1>3 DEF AliasBase, SetAlias
    <2>2. versions[version].tagged /\ versions[version].role = "base"
        BY <2>1 DEF VersionIsTheLast
    <2> QED
        BY <1>1, <1>2, <2>1, <2>2
<1>4. CASE AliasChampion
    <2>1. /\ pc = "champion" /\ UNCHANGED versions
          /\ UNCHANGED aliases \/ aliases' = [aliases EXCEPT !["champion"] = version]
        BY <1>4 DEF AliasChampion, SetAlias
    <2>2. /\ versions[version].tagged /\ versions[version].role = "lora_adapter"
          /\ version = Len(versions)
        BY <2>1 DEF VersionIsTheLast
    <2> QED
        BY <1>1, <1>2, <2>1, <2>2
<1>5. CASE AliasLatest
    <2>1. /\ pc = "latest" /\ UNCHANGED versions
          /\ UNCHANGED aliases \/ aliases' = [aliases EXCEPT !["latest-lora"] = version]
        BY <1>5 DEF AliasLatest, SetAlias
    <2>2. /\ versions[version].tagged /\ versions[version].role = "lora_adapter"
          /\ aliases["champion"] = version
        BY <2>1 DEF VersionIsTheLast
    <2> QED
        BY <1>1, <1>2, <2>1, <2>2
<1> QED
    BY <1>1, <1>3, <1>4, <1>5
       DEF Next, vars, registry, Train, SaveModel, WriteSidecar, EnsureBase, CreateBase, CreateLora,
           Created, TagBase, TagLora, Tag, RecordVersion, Adopt, FinishCopy, Evaluate, Kill

\* A train_info.json that nobody writes stays true: its version stays what it is.
LEMMA InfoStays ==
    ASSUME TypeOK, [Next]_vars, NEW d \in Dirs, InfoIsOf(d), dirs'[d] = dirs[d]
    PROVE  dirs'[d].info # 0 => versions'[dirs'[d].info].training = dirs'[d].weights
<1>1. dirs[d].info \in 0 .. Len(versions) /\ Len(versions) \in Nat /\ Keeps(versions')
    BY VersionsType, RegistryGrows DEF TypeOK, Versions
<1> QED
    BY <1>1 DEF InfoIsOf, Keeps

LEMMA AdapterStep ==
    ASSUME TypeOK, VersionIsTheLast, AdapterIsOfTheTraining, [Next]_vars
    PROVE  AdapterIsOfTheTraining'
<1>0. "adapter" \in Dirs /\ dirs \in [Dirs -> [weights : 0 .. trained, info : Versions]]
      /\ device \in Devices /\ "adapter" \notin Devices /\ Devices \subseteq Dirs
    BY DEF TypeOK, Dirs, Devices
<1>1. CASE SaveModel
    <2>1. dirs'["adapter"].weights = trained /\ UNCHANGED trained /\ pc' = "sidecar"
        BY <1>0, <1>1 DEF SaveModel
    <2> QED
        BY <2>1 DEF AdapterIsOfTheTraining
<1>2. CASE WriteSidecar
    <2>1. /\ pc = "sidecar" /\ pc' \in {"ensure", "idle"}
          /\ pc' = "ensure" => dirs' = [dirs EXCEPT !["adapter"].info = 0]
          /\ UNCHANGED trained
        BY <1>2 DEF WriteSidecar, Sidecar
    <2>2. pc' = "ensure" => /\ dirs'["adapter"].info = 0
                            /\ dirs'["adapter"].weights = dirs["adapter"].weights
        BY <1>0, <2>1
    <2> QED
        BY <2>1, <2>2 DEF AdapterIsOfTheTraining, InfoIsOf
<1>3. CASE RecordVersion
    <2>1. /\ pc = "record" /\ pc' = "adopt" /\ UNCHANGED <<versions, trained>>
          /\ UNCHANGED dirs \/ dirs' = [dirs EXCEPT !["adapter"].info = version]
        BY <1>3 DEF RecordVersion, registry
    <2>2. versions[version].training = trained /\ dirs["adapter"].weights = trained
        BY <2>1 DEF VersionIsTheLast, AdapterIsOfTheTraining
    <2>3. CASE UNCHANGED dirs
        BY <2>1, <2>3 DEF AdapterIsOfTheTraining, InfoIsOf
    <2>4. CASE dirs' = [dirs EXCEPT !["adapter"].info = version]
        <3>1. dirs'["adapter"].info = version /\ dirs'["adapter"].weights = trained
            BY <1>0, <2>2, <2>4
        <3> QED
            BY <2>1, <2>2, <3>1 DEF AdapterIsOfTheTraining, InfoIsOf
    <2> QED
        BY <2>1, <2>3, <2>4
<1>4. CASE Adopt \/ FinishCopy
    <2>1. /\ pc \in {"adopt", "copy"} /\ UNCHANGED <<versions, trained, device>>
          /\ pc' = "copy" => device \in torn'
          /\ dirs' \in {dirs, [dirs EXCEPT ![device].weights = dirs["adapter"].weights],
                       [dirs EXCEPT ![device].info = dirs["adapter"].info],
                       [dirs EXCEPT ![device] = dirs["adapter"]]}
        BY <1>4 DEF Adopt, FinishCopy, registry
    <2>2. dirs'["adapter"] = dirs["adapter"]
        BY <1>0, <2>1
    <2> QED
        BY <2>1, <2>2 DEF AdapterIsOfTheTraining, InfoIsOf
<1>5. CASE ~ (SaveModel \/ WriteSidecar \/ RecordVersion \/ Adopt \/ FinishCopy)
    <2>1. /\ UNCHANGED <<dirs, torn>>
          /\ UNCHANGED pc \/ pc' \notin {"sidecar", "copy"}
          /\ UNCHANGED <<trained, device>> \/ pc' = "save"
          /\ pc' \in {"idle", "save"} \/ UNCHANGED pc \/ pc \notin {"idle", "save", "sidecar"}
        BY <1>5 DEF Next, vars, Train, EnsureBase, CreateBase, CreateLora, Created, After, AfterBase,
           TagBase, TagLora, Tag, AfterTag, AliasBase, AliasChampion, AfterChampion, AliasLatest,
           SetAlias, Evaluate, Kill
    <2>2. InfoIsOf("adapter") => InfoIsOf("adapter")'
        BY <1>0, <2>1, InfoStays DEF InfoIsOf
    <2> QED
        BY <2>1, <2>2 DEF AdapterIsOfTheTraining
<1> QED
    BY <1>1, <1>2, <1>3, <1>4, <1>5

LEMMA KeptStep ==
    ASSUME TypeOK, AdapterIsOfTheTraining, KeptInfoIsOfItsAdapter, [Next]_vars
    PROVE  KeptInfoIsOfItsAdapter'
<1>0. /\ dirs \in [Dirs -> [weights : 0 .. trained, info : Versions]]
      /\ device \in Devices /\ "adapter" \notin Devices /\ Devices \subseteq Dirs
    BY DEF TypeOK, Dirs, Devices
<1>1. CASE FinishCopy
    <2>1. /\ pc = "copy" /\ dirs' = [dirs EXCEPT ![device] = dirs["adapter"]]
          /\ torn' = torn \ {device} /\ UNCHANGED versions
        BY <1>1 DEF FinishCopy, registry
    <2>2. InfoIsOf("adapter")
        BY <2>1 DEF AdapterIsOfTheTraining
    <2>3. dirs'[device] = dirs["adapter"] /\ \A d \in Devices \ {device} : dirs'[d] = dirs[d]
        BY <1>0, <2>1
    <2> QED
        BY <2>1, <2>2, <2>3 DEF KeptInfoIsOfItsAdapter, InfoIsOf
<1>2. CASE ~ FinishCopy
    <2>1. \A d \in Devices \ torn' : d \notin torn /\ dirs'[d] = dirs[d]
        <3>1. CASE Adopt
            BY <1>0, <3>1 DEF Adopt
        <3>2. CASE UNCHANGED torn /\ dirs' \in {dirs, Sidecar,
                      [dirs EXCEPT !["adapter"].weights = trained], [dirs EXCEPT !["adapter"].info = version]}
            BY <1>0, <3>2 DEF Sidecar
        <3> QED
            BY <1>2, <3>1, <3>2
               DEF Next, vars, registry, Train, SaveModel, WriteSidecar, EnsureBase, CreateBase,
                   CreateLora, Created, TagBase, TagLora, Tag, AliasBase, AliasChampion, AliasLatest,
                   SetAlias, RecordVersion, Evaluate, Kill
    <2>2. \A d \in Devices \ torn : InfoIsOf(d)
        BY DEF KeptInfoIsOfItsAdapter, InfoIsOf
    <2> QED
        BY <1>0, <2>1, <2>2, InfoStays DEF KeptInfoIsOfItsAdapter
<1> QED
    BY <1>1, <1>2
-----------------------------------------------------------------------------
LEMMA InitIInv == Init => IInv
<1> SUFFICES ASSUME Init PROVE IInv
    OBVIOUS
<1>1. /\ versions = <<>> /\ Len(versions) = 0 /\ Versions = {0} /\ trained = 0
      /\ versions \in Seq(Models(0))
    BY DEF Init, Versions
<1>2. TypeOK
    BY <1>1, ConstantsAssumption DEF Init, TypeOK, Models, Devices
<1>3. BaseComesFirst /\ VersionIsTheLast /\ AdapterIsOfTheTraining
    BY <1>1 DEF Init, BaseComesFirst, FirstVersionIsTheBase, VersionIsTheLast, AdapterIsOfTheTraining
<1>4. AliasesAreInOrder /\ KeptInfoIsOfItsAdapter
    BY DEF Init, AliasesAreInOrder, KeptInfoIsOfItsAdapter, Dirs
<1> QED
    BY <1>2, <1>3, <1>4 DEF IInv

LEMMA RegistryInvariant == Spec => []IInv
<1>1. IInv /\ [Next]_vars => IInv'
    BY TypeStep, BaseStep, VersionStep, AdapterStep, AliasesStep, KeptStep DEF IInv
<1> QED
    BY <1>1, InitIInv, PTL DEF Spec
-----------------------------------------------------------------------------
\* Every variable keeps its type: a version number, wherever it is kept, is of a
\* version that is there.
THEOREM TypeCorrect == Spec => []TypeOK
<1>1. IInv => TypeOK
    BY DEF IInv
<1> QED
    BY <1>1, RegistryInvariant, PTL

\* ensure_base_model_registered: whichever of its calls to MLflow fails, no adapter
\* is registered under a model that does not begin with its base.
THEOREM BaseIsFirst == Spec => []FirstVersionIsTheBase
<1>1. IInv => FirstVersionIsTheBase
    BY DEF IInv, BaseComesFirst
<1> QED
    BY <1>1, RegistryInvariant, PTL

\* register_lora_adapter: an alias points to a version that says what it is, and
\* latest-lora never to a newer one than champion.
THEOREM AliasesInOrder == Spec => []AliasesAreInOrder
<1>1. IInv => AliasesAreInOrder
    BY DEF IInv
<1> QED
    BY <1>1, RegistryInvariant, PTL

\* scripts/05_fine_tune.py and run_pipeline.sh: the train_info.json kept with the
\* adapter of a device never names the version of another training.
THEOREM KeptInfoIsTrue == Spec => []KeptInfoIsOfItsAdapter
<1>1. IInv => KeptInfoIsOfItsAdapter
    BY DEF IInv
<1> QED
    BY <1>1, RegistryInvariant, PTL
=============================================================================
