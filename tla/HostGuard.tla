----------------------------- MODULE HostGuard -----------------------------
(***************************************************************************)
(* scripts/host_guard.sh: the loop that samples the machine's memory,      *)
(* reports containers the kernel has killed, and stops the app container   *)
(* when it enters the critical state.  Percentages are abstracted to which *)
(* of the two thresholds they are beyond.  The line per state change is    *)
(* `state`; the heartbeat line says nothing new.                           *)
(***************************************************************************)
CONSTANTS
    Actions,  \* the values of --action in this instance
    Pressures \* how full memory and swap may be

Levels == {"ok", "warn", "critical"}

ASSUME GuardAssumption ==
    /\ Actions \subseteq {"stop", "report"}
    /\ Pressures \subseteq [memory : Levels, swap : Levels]

VARIABLES
    action,   \* --action
    source,   \* SOURCE: /proc/meminfo, or docker stats
    guard,    \* where the loop is
    seen,     \* the sample that is being judged
    state,    \* state
    reported, \* is the app in reported_ooms?
    told      \* the last line about the stop, in the present critical state

guardVars == <<action, source, guard, seen, state, reported, told>>

GuardInit ==
    /\ action \in Actions
    /\ source \in {"proc", "docker"}
    /\ guard = "sampling"
    /\ seen = "ok"
    /\ state = "ok"
    /\ reported = FALSE
    /\ told = "nothing"

\* The thresholds: either value beyond the critical one is critical.
Level(p) == CASE "critical" \in {p.memory, p.swap} -> "critical"
              [] "warn" \in {p.memory, p.swap} -> "warn"
              [] OTHER -> "ok"

\* Seeded fault: swap is sampled and not looked at.
SampledMemory(p, answered) ==
    IF source = "docker" /\ ~ answered THEN "ok" ELSE p.memory

\* sample: the swap of Docker's machine cannot be seen from here, and a docker
\* stats that failed sums up to no memory used.
Sampled(p, answered) ==
    CASE source = "proc" -> Level(p)
      [] ~ answered -> "ok"
      [] OTHER -> p.memory

Sample(p, answered) ==
    /\ guard = "sampling"
    /\ seen' = Sampled(p, answered)
    /\ guard' = "reporting"
    /\ UNCHANGED <<action, source, state, reported, told>>

\* oom_report, once per container name.
ReportOoms(killed) ==
    /\ guard = "reporting"
    /\ reported' = (reported \/ killed)
    /\ guard' = "judging"
    /\ UNCHANGED <<action, source, seen, state, told>>

EntersCritical == state # "critical"

Judge ==
    /\ guard = "judging"
    /\ state' = seen
    /\ IF seen = "critical" /\ EntersCritical
          THEN /\ told' = "nothing"
               /\ guard' = IF action = "stop" THEN "stopping" ELSE "sleeping"
          ELSE /\ told' = IF seen = "critical" THEN told ELSE "nothing"
               /\ guard' = "sleeping"
    /\ UNCHANGED <<action, source, seen, reported>>

\* docker stop has returned, or its 60 seconds are over.
StopReturned(line) ==
    /\ told' = line
    /\ guard' = "sleeping"
    /\ UNCHANGED <<action, source, seen, state, reported>>

Sleep ==
    /\ guard = "sleeping"
    /\ guard' = "sampling"
    /\ UNCHANGED <<action, source, seen, state, reported, told>>
=============================================================================
