---------------------------- MODULE AppContainer ----------------------------
(***************************************************************************)
(* The app container of docker-compose.yml under its watchdog: HostGuard   *)
(* and MetricsServer with what is between them, the Docker daemon.         *)
(*                                                                         *)
(* `docker stop` sends SIGTERM to process 1, waits ten seconds, and sends  *)
(* SIGKILL.  When process 1 ends, so does every step that was started in   *)
(* the container: the Kill of EvaluationStage.  The service has no restart *)
(* policy: somebody starts it again.                                       *)
(***************************************************************************)
EXTENDS MetricsServer, HostGuard

CONSTANT Faults \* what may go wrong in this instance

ASSUME FaultsAssumption == Faults \subseteq {"docker", "hung", "stats"}

VARIABLES
    pressure,  \* the machine's memory and swap
    daemon,    \* whether Docker answers
    stopping,  \* SIGTERM was sent and the grace period runs
    delivered, \* the watchdog's docker stop has reached the daemon
    oomKilled, \* State.OOMKilled of the container
    restarted  \* ghost: started since the watchdog entered its critical state

docker == <<daemon, stopping, delivered, oomKilled, restarted>>
vars == <<server, guardVars, docker, pressure>>

Init ==
    /\ ServerInit
    /\ GuardInit
    /\ pressure \in Pressures
    /\ daemon = "ok"
    /\ stopping = FALSE
    /\ delivered = FALSE
    /\ oomKilled = FALSE
    /\ restarted = FALSE
-----------------------------------------------------------------------------
\* The machine and the users.

MemoryChanges ==
    /\ pressure' \in Pressures
    /\ pressure' # pressure
    /\ UNCHANGED <<server, guardVars, docker>>

\* The kernel kills a step that is over the container's memory limit.
OomKill ==
    /\ main # "absent"
    /\ ~ oomKilled
    /\ oomKilled' = TRUE
    /\ UNCHANGED <<server, guardVars, pressure, daemon, stopping, delivered, restarted>>

Hang ==
    /\ "hung" \in Faults
    /\ daemon = "ok"
    /\ daemon' = "hung"
    /\ UNCHANGED <<server, guardVars, pressure, stopping, delivered, oomKilled, restarted>>

Answers ==
    /\ daemon = "hung"
    /\ daemon' = "ok"
    /\ UNCHANGED <<server, guardVars, pressure, stopping, delivered, oomKilled, restarted>>

\* docker compose up.
UserStarts ==
    /\ daemon = "ok"
    /\ ~ stopping
    /\ ServerStarts
    /\ oomKilled' = FALSE
    /\ restarted' = TRUE
    /\ UNCHANGED <<guardVars, pressure, daemon, stopping, delivered>>

\* docker compose stop.
UserStops ==
    /\ daemon = "ok"
    /\ main # "absent"
    /\ Signal
    /\ stopping' = TRUE
    /\ UNCHANGED <<guardVars, pressure, daemon, delivered, oomKilled, restarted>>

Client == (Accept \/ Respond) /\ UNCHANGED <<guardVars, pressure, docker>>
-----------------------------------------------------------------------------
\* The container.

\* A grace period is over when the container is.
MainSteps ==
    /\ MainThread
    /\ stopping' = (stopping /\ main' # "absent")
    /\ UNCHANGED <<guardVars, pressure, daemon, delivered, oomKilled, restarted>>

HelperSteps == Request /\ UNCHANGED <<guardVars, pressure, docker>>

\* Ten seconds are enough for whatever the server does by itself, so they are
\* only over when it waits for somebody.
GraceExpires ==
    /\ stopping
    /\ daemon = "ok"
    /\ ~ ServerIsMoving
    /\ ServerGone
    /\ stopping' = FALSE
    /\ UNCHANGED <<guardVars, pressure, daemon, delivered, oomKilled, restarted>>
-----------------------------------------------------------------------------
\* The watchdog, and the daemon it talks to.

GuardSamples ==
    /\ \E answered \in {daemon = "ok"} \cup
                       (IF "stats" \in Faults THEN {FALSE} ELSE {}) :
          Sample(pressure, answered)
    /\ UNCHANGED <<server, docker, pressure>>

\* docker ps and docker inspect have no time limit.
GuardReports ==
    /\ daemon = "ok"
    /\ ReportOoms(oomKilled)
    /\ UNCHANGED <<server, docker, pressure>>

GuardJudges ==
    /\ Judge
    /\ delivered' = FALSE
    /\ restarted' = (restarted /\ ~ EntersCritical)
    /\ UNCHANGED <<server, pressure, daemon, stopping, oomKilled>>

\* The watchdog's docker stop reaches the daemon.
StopDelivered ==
    /\ guard = "stopping"
    /\ ~ delivered
    /\ daemon = "ok"
    /\ delivered' = TRUE
    /\ IF main = "absent" THEN UNCHANGED <<server, stopping>>
                          ELSE Signal /\ stopping' = TRUE
    /\ UNCHANGED <<guardVars, pressure, daemon, oomKilled, restarted>>

\* Seeded fault: the watchdog does not wait for docker stop.
StopReturnsAtOnce == delivered

\* docker stop returns when the container has stopped.
StopReturns == delivered /\ main = "absent" /\ daemon = "ok"

GuardStopped ==
    /\ guard = "stopping"
    /\ StopReturns
    /\ StopReturned("stopped")
    /\ UNCHANGED <<server, docker, pressure>>

\* It fails at once, or a daemon that does not answer lets the time run out.
GuardCouldNotStop ==
    /\ guard = "stopping"
    /\ \/ "docker" \in Faults /\ ~ delivered
       \/ daemon = "hung"
    /\ StopReturned("could not stop")
    /\ UNCHANGED <<server, docker, pressure>>

GuardSleeps == Sleep /\ UNCHANGED <<server, docker, pressure>>

GuardSteps ==
    \/ GuardSamples \/ GuardJudges \/ GuardStopped \/ GuardCouldNotStop \/ GuardSleeps

Next ==
    \/ MemoryChanges \/ OomKill \/ Hang \/ Answers
    \/ UserStarts \/ UserStops \/ Client
    \/ MainSteps \/ HelperSteps \/ GraceExpires
    \/ GuardSteps \/ GuardReports \/ StopDelivered

\* The server's threads and the watchdog run; the daemon carries out
\* what it was asked for, answers again after a time, and then also the calls
\* that were waiting.  Nothing is assumed of the users, their clients, or the
\* machine's memory.
Fairness ==
    /\ WF_vars(MainSteps)
    /\ WF_vars(HelperSteps)
    /\ WF_vars(GuardSteps)
    /\ SF_vars(GuardReports)
    /\ WF_vars(Answers)
    /\ SF_vars(StopDelivered)
    /\ SF_vars(GraceExpires)

Spec == Init /\ [][Next]_vars /\ Fairness
-----------------------------------------------------------------------------
\* Every variable keeps its type: there are no threads without a container.
TypeOK ==
    /\ main \in {"absent", "loading", "armed", "serving", "answering", "closing"}
    /\ request \in BOOLEAN
    /\ helpers \in 0 .. MaxHelpers
    /\ heard \in BOOLEAN
    /\ main \in {"absent", "loading"} => helpers = 0 /\ ~ request /\ ~ heard
    /\ action \in Actions
    /\ source \in {"proc", "docker"}
    /\ guard \in {"sampling", "reporting", "judging", "stopping", "sleeping"}
    /\ {seen, state} \subseteq Levels
    /\ reported \in BOOLEAN
    /\ told \in {"nothing", "stopped", "could not stop"}
    /\ pressure \in Pressures
    /\ daemon \in {"ok", "hung"}
    /\ {stopping, delivered, oomKilled, restarted} \subseteq BOOLEAN
    /\ stopping => main # "absent"

\* "The handler now only sets a flag ... so the serve loop is free to notice and
\* return": a server that has heard of a stop ends by itself.  Only one that is
\* told before its handlers are there, or that a client keeps waiting, is killed.
StopIsClean ==
    [][main # "absent" /\ main' = "absent" /\ main # "closing" =>
          ~ heard \/ main = "answering"]_vars

\* "Stops the app container before the kernel OOM killer picks an arbitrary
\* victim": while the watchdog is in its critical state, the app is down, or the
\* user was told to intervene, or has started it again in spite of it.
CriticalIsHandled ==
    state = "critical" /\ action = "stop" /\ guard # "stopping" =>
        main = "absent" \/ told = "could not stop" \/ restarted

\* With /proc, pressure that stays critical is acted on.
PressureIsActedOn ==
    source = "proc" /\ action = "stop" /\ Level(pressure) = "critical" ~>
        \/ Level(pressure) # "critical"
        \/ main = "absent"
        \/ told = "could not stop"
        \/ restarted /\ state = "critical"
=============================================================================
