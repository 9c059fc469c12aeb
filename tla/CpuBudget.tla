----------------------------- MODULE CpuBudget -----------------------------
(***************************************************************************)
(* The size of the thread pools: cpu_runtime.cpu_budget with its memo per  *)
(* process and its cache file per machine, and the order in which the      *)
(* processes of the demo ask for it (hardware.detect_hardware,             *)
(* RAGPipeline.setup_components, GgufEngine.load, python -m                *)
(* src.cpu_runtime).                                                       *)
(*                                                                         *)
(* A process asks several times and with different permissions to measure; *)
(* whatever the first call answered is the answer for its life.            *)
(***************************************************************************)
EXTENDS Integers, Sequences, FiniteSetsExt

CONSTANTS
    Grants,    \* what a container may be granted: its cpuset, its quota in
               \* tenths of a CPU (0: none), the physical cores (0: unknown)
    Overrides, \* the values of APP_CPUS; 0 when it is empty or no number
    Faults     \* what may go wrong in this instance

ASSUME ConstantsAssumption ==
    /\ Grants \subseteq [allowed : Nat \ {0}, quota : Nat, cores : Nat]
    /\ Overrides \subseteq Nat
    /\ Faults \subseteq {"probe", "read_only", "volumes"}

VARIABLES
    grant,     \* what the container is granted
    override,  \* APP_CPUS
    calibrate, \* CPU_CALIBRATE
    cache,     \* data/processed/cpu_budget.json by signature, 0 for no entry
    kind,      \* what the process is, or was
    cuda,      \* whether it sees CUDA
    todo,      \* the calls of cpu_budget it still makes
    memo,      \* _budget_cache, 0 for None
    source,    \* _budget_source
    recorded,  \* HardwareInfo.cpu_threads
    pool,      \* the threads the engine was given
    ran        \* ghost: the pool of the last step, 0 once something changed

container == <<grant, override, calibrate>>
vars == <<container, cache, kind, cuda, todo, memo, source, recorded, pool, ran>>

MinCoresToCalibrate == 8

\* Seeded fault: less than one CPU is no CPU.
CeilingWithoutMinimum(g) ==
    IF g.quota = 0 THEN g.allowed ELSE Min({g.allowed, g.quota \div 10})

\* Seeded fault: a fractional quota is rounded up.
CeilingRoundedUp(g) ==
    IF g.quota = 0 THEN g.allowed ELSE Min({g.allowed, (g.quota + 9) \div 10})

\* cpu_ceiling: a quota counts in whole CPUs, and at least one.
Ceiling(g) ==
    IF g.quota = 0 THEN g.allowed
                   ELSE Min({g.allowed, Max({1, g.quota \div 10})})

\* heuristic_budget folds hyperthread siblings, under the ceiling.
Heuristic(g) == IF g.cores = 0 THEN Ceiling(g) ELSE Min({Ceiling(g), g.cores})

\* thread_candidates.  calibrate returns the smallest one that is within a few
\* percent of the fastest, which may be any of them.
Candidates(ceiling) ==
    IF ceiling < MinCoresToCalibrate THEN {ceiling}
    ELSE {ceiling, ceiling - 2, ceiling - 4, (ceiling * 3) \div 4, ceiling \div 2}

\* _signature, of one machine: the grant without its topology.
Signature(g) == <<g.allowed, g.quota>>
Signatures == {Signature(g) : g \in Grants}

\* The calls of cpu_budget of each kind of process, in their order.  Every script
\* begins with detect_hardware.
Calls == [step   |-> <<"detect", "configure">>,
          gguf   |-> <<"detect", "configure", "llama">>,
          report |-> <<"detect">>,
          module |-> <<"main">>]

Init ==
    /\ grant \in Grants
    /\ override \in Overrides
    /\ calibrate \in BOOLEAN
    /\ cache = [sig \in Signatures |-> 0]
    /\ kind = "none"
    /\ cuda = FALSE
    /\ todo = <<>>
    /\ memo = 0
    /\ source = "unmeasured"
    /\ recorded = 0
    /\ pool = 0
    /\ ran = 0

\* A process keeps nothing from the one before it.
NewProcess ==
    /\ memo' = 0
    /\ source' = "unmeasured"
    /\ recorded' = 0
    /\ pool' = 0

\* The app container is created again, with another environment.
Reconfigure ==
    /\ todo = <<>>
    /\ grant' \in Grants
    /\ override' \in Overrides
    /\ calibrate' \in BOOLEAN
    /\ NewProcess
    /\ kind' = "none"
    /\ ran' = 0
    /\ UNCHANGED <<cache, cuda, todo>>

\* data/processed is cleared.
LoseCache ==
    /\ "volumes" \in Faults
    /\ todo = <<>>
    /\ cache' = [sig \in Signatures |-> 0]
    /\ ran' = 0
    /\ UNCHANGED <<container, kind, cuda, todo, memo, source, recorded, pool>>

Start ==
    /\ todo = <<>>
    /\ kind' \in DOMAIN Calls
    /\ cuda' \in BOOLEAN
    /\ todo' = Calls[kind']
    /\ NewProcess
    /\ UNCHANGED <<container, cache, ran>>

\* May this call measure?  configure_threads skips the probe with a GPU in play.
Allowed ==
    CASE Head(todo) = "configure" -> calibrate /\ ~ cuda
      [] Head(todo) = "main" -> calibrate
      [] OTHER -> FALSE

\* cpu_budget returns `budget`, and its caller does with it what it does.
Answer(budget, from) ==
    /\ memo' = budget
    /\ source' = from
    /\ recorded' = IF Head(todo) = "detect" THEN budget ELSE recorded
    /\ pool' = IF Head(todo) \in {"configure", "llama"} THEN budget ELSE pool
    /\ todo' = Tail(todo)
    /\ ran' = CASE kind \in {"step", "gguf"} /\ todo' = <<>> -> pool'
                [] kind = "module" -> 0
                [] OTHER -> ran
    /\ UNCHANGED <<container, kind, cuda>>

\* Seeded fault: a heuristic answer is not remembered.
MemoOfMeasuredOnly == memo # 0 /\ source # "heuristic"

Remembered == memo # 0

AskedFirst == todo # <<>> /\ ~ Remembered

Remember ==
    /\ todo # <<>>
    /\ Remembered
    /\ Answer(memo, source)
    /\ UNCHANGED cache

TakeOverride ==
    /\ AskedFirst
    /\ override # 0
    /\ Answer(override, "override")
    /\ UNCHANGED cache

Measurable == override = 0 /\ Ceiling(grant) >= MinCoresToCalibrate

\* Seeded fault: a call that may measure does not look into the cache.
CachedUnlessAllowed == IF Allowed THEN 0 ELSE cache[Signature(grant)]

\* _load_cached.
Cached == cache[Signature(grant)]

\* "Reading the cache is not calibrating": also for a call that may not measure.
TakeCached ==
    /\ AskedFirst
    /\ Measurable
    /\ Cached # 0
    /\ Answer(Min({Cached, Ceiling(grant)}), "cached")
    /\ UNCHANGED cache

\* calibrate, then _store_cached, which swallows an OSError.
Measure ==
    /\ AskedFirst
    /\ Measurable
    /\ Cached = 0
    /\ Allowed
    /\ \E best \in Candidates(Ceiling(grant)) :
          /\ Answer(best, "measured")
          /\ \/ cache' = [cache EXCEPT ![Signature(grant)] = best]
             \/ "read_only" \in Faults /\ UNCHANGED cache

\* A small grant, no permission to measure, or a probe that raised.
TakeHeuristic ==
    /\ AskedFirst
    /\ override = 0
    /\ \/ ~ Measurable
       \/ Cached = 0 /\ ~ Allowed
       \/ Cached = 0 /\ "probe" \in Faults
    /\ Answer(Heuristic(grant), "heuristic")
    /\ UNCHANGED cache

Next == \/ Reconfigure \/ LoseCache \/ Start
        \/ Remember \/ TakeOverride \/ TakeCached \/ Measure \/ TakeHeuristic

Spec == Init /\ [][Next]_vars
-----------------------------------------------------------------------------
Threads == {n \in Nat : n \in Overrides \cup {0} \/ \E g \in Grants : n <= g.allowed}

\* Every variable keeps its type: a process that has an answer has a thread.
TypeOK ==
    /\ grant \in Grants
    /\ override \in Overrides
    /\ calibrate \in BOOLEAN
    /\ cache \in [Signatures -> Threads]
    /\ kind \in DOMAIN Calls \cup {"none"}
    /\ cuda \in BOOLEAN
    /\ todo \in Seq({"detect", "configure", "llama", "main"})
    /\ {memo, recorded, pool, ran} \subseteq Threads
    /\ source \in {"unmeasured", "override", "cached", "measured", "heuristic"}
    /\ memo = 0 <=> source = "unmeasured"

\* "Measured budgets must still respect the grant": no pool is larger than what
\* the container the process runs in was granted, whatever an earlier container
\* has left in the cache, unless APP_CPUS says so.
PoolWithinTheGrant ==
    source # "override" =>
        /\ memo <= grant.allowed
        /\ memo > 1 /\ grant.quota # 0 => memo * 10 <= grant.quota

\* The thread count a process records with its measurements (cpu_threads of every
\* row and manifest) is the one its engine ran with; and "export and reporting
\* processes ask for no measurement but must still report the budget a run used",
\* as long as nothing was changed in between.
RecordedThreadsAreUsed ==
    /\ pool # 0 => recorded = pool
    /\ kind = "report" /\ todo = <<>> /\ ran # 0 => recorded = ran

\* "It costs about 10 seconds once": what was measured for a grant stays, until
\* the directory it is in is cleared.
MeasuredOnce ==
    [][\A sig \in Signatures :
          cache[sig] # 0 /\ cache'[sig] # cache[sig] => cache'[sig] = 0]_vars
=============================================================================
