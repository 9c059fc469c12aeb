------------------------- MODULE AppContainerProofs -------------------------
(***************************************************************************)
(* Machine-checked proofs about AppContainer, HostGuard and MetricsServer, *)
(* for every number of waiting helper threads, whatever memory does, and   *)
(* every set of actions and faults.                                        *)
(***************************************************************************)
EXTENDS AppContainer, TLAPS

\* The handler has nothing to do but to start a helper thread, which is what the
\* clean end hangs on: once a stop was heard there is a helper still to run, or
\* the request it made, until the serve loop has seen it.
HeardIsPassedOn ==
    main \in {"armed", "serving", "answering"} /\ heard => request \/ helpers > 0

\* TypeOK in two halves: what is true or false, and everything else.
FlagsOK ==
    {request, heard, reported, stopping, delivered, oomKilled, restarted} \subseteq BOOLEAN

PlacesOK ==
    /\ main \in {"absent", "loading", "armed", "serving", "answering", "closing"}
    /\ helpers \in 0 .. MaxHelpers
    /\ main \in {"absent", "loading"} => helpers = 0 /\ ~ request /\ ~ heard
    /\ action \in Actions
    /\ source \in {"proc", "docker"}
    /\ guard \in {"sampling", "reporting", "judging", "stopping", "sleeping"}
    /\ {seen, state} \subseteq Levels
    /\ told \in {"nothing", "stopped", "could not stop"}
    /\ pressure \in Pressures
    /\ daemon \in {"ok", "hung"}
    /\ stopping => main # "absent"

IInv == PlacesOK /\ HeardIsPassedOn /\ CriticalIsHandled

LEMMA TypeHalves == TypeOK <=> FlagsOK /\ PlacesOK
<1>1. TypeOK => FlagsOK
    BY DEF TypeOK, FlagsOK
<1>2. TypeOK => PlacesOK
    BY DEF TypeOK, PlacesOK
<1>3. ASSUME FlagsOK, PlacesOK PROVE TypeOK
    <2>1. /\ request \in BOOLEAN /\ heard \in BOOLEAN /\ reported \in BOOLEAN
          /\ {stopping, delivered, oomKilled, restarted} \subseteq BOOLEAN
        BY <1>3 DEF FlagsOK
    <2> QED
        BY <1>3, <2>1, Zenon DEF TypeOK, PlacesOK
<1> QED
    BY <1>1, <1>2, <1>3

LEMMA InitFlags == Init => FlagsOK
BY DEF Init, ServerInit, GuardInit, FlagsOK

LEMMA NextFlags == FlagsOK /\ [Next]_vars => FlagsOK'
<1> SUFFICES ASSUME FlagsOK, [Next]_vars PROVE FlagsOK'
    OBVIOUS
<1> USE DEF FlagsOK, vars, server, guardVars, docker, Next, MemoryChanges, OomKill, Hang, Answers,
            UserStarts, ServerStarts, UserStops, Signal, Stop, Client, Accept, Respond, MainSteps,
            MainThread, Arm, Serve, Return, Close, ServerGone, HelperSteps, Request, GraceExpires,
            GuardSteps, GuardSamples, Sample, GuardJudges, Judge, GuardStopped, GuardCouldNotStop,
            StopReturned, GuardSleeps, Sleep, GuardReports, ReportOoms, StopDelivered
<1>1. request' \in BOOLEAN
    OBVIOUS
<1>2. heard' \in BOOLEAN
    OBVIOUS
<1>3. reported' \in BOOLEAN
    OBVIOUS
<1>4. stopping' \in BOOLEAN
    OBVIOUS
<1>5. delivered' \in BOOLEAN
    OBVIOUS
<1>6. oomKilled' \in BOOLEAN
    OBVIOUS
<1>7. restarted' \in BOOLEAN
    OBVIOUS
<1> QED
    BY <1>1, <1>2, <1>3, <1>4, <1>5, <1>6, <1>7

LEMMA HelpersAreCounted ==
    ASSUME IInv
    PROVE  /\ helpers \in Nat /\ helpers <= MaxHelpers /\ MaxHelpers \in Nat
           /\ helpers > 0 => main \notin {"absent", "loading"}
<1>1. helpers \in 0 .. MaxHelpers
    BY DEF IInv, PlacesOK
<1>2. main \in {"absent", "loading"} => helpers = 0
    BY DEF IInv, PlacesOK
<1> QED
    BY <1>1, <1>2, MaxHelpersAssumption

LEMMA InitIInv == Init => IInv
<1> SUFFICES ASSUME Init PROVE IInv
    OBVIOUS
<1>1. /\ main = "absent" /\ ~ request /\ helpers = 0 /\ ~ heard
      /\ action \in Actions /\ source \in {"proc", "docker"}
      /\ guard = "sampling" /\ seen = "ok" /\ state = "ok" /\ told = "nothing"
      /\ pressure \in Pressures /\ daemon = "ok"
    BY DEF Init, ServerInit, GuardInit
<1>2. helpers \in 0 .. MaxHelpers
    BY <1>1, MaxHelpersAssumption
<1>5. ~ stopping
    BY DEF Init
<1>6. {seen, state} \subseteq Levels
    BY <1>1 DEF Levels
<1> QED
    BY <1>1, <1>2, <1>5, <1>6
       DEF IInv, PlacesOK, HeardIsPassedOn, CriticalIsHandled

(***************************************************************************)
(* The machine, the users and the daemon.                                  *)
(***************************************************************************)
LEMMA EnvironmentIInv == IInv /\ (MemoryChanges \/ OomKill \/ Hang \/ Answers) => IInv'
<1> SUFFICES ASSUME IInv, MemoryChanges \/ OomKill \/ Hang \/ Answers PROVE IInv'
    OBVIOUS
<1>1. /\ UNCHANGED <<main, request, helpers, heard, action, source, guard, seen, state, told,
                      stopping, restarted>>
      /\ pressure' \in Pressures /\ daemon' \in {"ok", "hung"}
    BY DEF MemoryChanges, OomKill, Hang, Answers, server, guardVars, docker, IInv, PlacesOK
<1> QED
    BY <1>1 DEF IInv, PlacesOK, HeardIsPassedOn, CriticalIsHandled

LEMMA UserStartsIInv == IInv /\ UserStarts => IInv'
<1> SUFFICES ASSUME IInv, UserStarts PROVE IInv'
    OBVIOUS
<1>1. /\ main' = "loading" /\ main = "absent"
      /\ UNCHANGED <<request, helpers, heard, action, source, guard, seen, state, told, pressure,
                      daemon, stopping>>
      /\ restarted'
    BY DEF UserStarts, ServerStarts, guardVars
<1> QED
    BY <1>1 DEF IInv, PlacesOK, HeardIsPassedOn, CriticalIsHandled

\* A signal reaches the handler or, before there is one, nobody.
LEMMA SignalIInv ==
    ASSUME IInv, main # "absent", Signal
    PROVE  /\ main' = main /\ helpers' \in 0 .. MaxHelpers /\ request' = request
           /\ main = "loading" => helpers' = 0 /\ ~ heard'
           /\ HeardIsPassedOn'
<1>1. helpers \in Nat /\ helpers <= MaxHelpers /\ MaxHelpers \in Nat
    BY HelpersAreCounted
<1>2. CASE main = "loading"
    <2>1. UNCHANGED <<main, request, helpers, heard>>
        BY <1>2 DEF Signal, server
    <2> QED
        BY <1>2, <2>1 DEF IInv, PlacesOK, HeardIsPassedOn
<1>3. CASE main # "loading"
    <2>1. main' = main /\ request' = request /\ helpers' = helpers + 1 /\ helpers < MaxHelpers
        BY <1>3 DEF Signal, Stop
    <2>3. helpers' > 0 /\ helpers' \in 0 .. MaxHelpers
        BY <1>1, <2>1
    <2> QED
        BY <1>3, <2>1, <2>3 DEF HeardIsPassedOn
<1> QED
    BY <1>2, <1>3

LEMMA UserStopsIInv == IInv /\ UserStops => IInv'
<1> SUFFICES ASSUME IInv, UserStops PROVE IInv'
    OBVIOUS
<1>1. /\ main # "absent"
      /\ main' = main /\ helpers' \in 0 .. MaxHelpers /\ request' = request
      /\ main = "loading" => helpers' = 0 /\ ~ heard'
      /\ HeardIsPassedOn'
    BY SignalIInv DEF UserStops
<1> QED
    BY <1>1 DEF IInv, PlacesOK, CriticalIsHandled, UserStops, guardVars

LEMMA ClientIInv == IInv /\ Client => IInv'
<1> SUFFICES ASSUME IInv, Client PROVE IInv'
    OBVIOUS
<1>1. /\ main \in {"serving", "answering"} /\ main' \in {"serving", "answering"}
      /\ UNCHANGED <<request, helpers, heard, action, source, guard, seen, state, told, pressure,
                      daemon, stopping, restarted>>
    BY DEF Client, Accept, Respond, guardVars, docker
<1> QED
    BY <1>1 DEF IInv, PlacesOK, HeardIsPassedOn, CriticalIsHandled

(***************************************************************************)
(* The container.                                                          *)
(***************************************************************************)
LEMMA ServerGoneType == ServerGone => helpers' \in 0 .. MaxHelpers
BY MaxHelpersAssumption DEF ServerGone

LEMMA MainStepsIInv == IInv /\ MainSteps => IInv'
<1> SUFFICES ASSUME IInv, MainSteps PROVE IInv'
    OBVIOUS
<1>1. UNCHANGED <<guardVars, pressure, daemon, delivered, oomKilled, restarted>>
    BY DEF MainSteps
<1>2. stopping' => main' # "absent"
    BY DEF MainSteps
<1>3. CASE Arm \/ Serve
    <2>1. /\ main \in {"loading", "armed"} /\ main' \in {"armed", "serving"}
          /\ main = "loading" => main' = "armed"
          /\ UNCHANGED <<request, helpers, heard>>
        BY <1>3 DEF Arm, Serve
    <2>2. HeardIsPassedOn'
        BY <2>1 DEF IInv, PlacesOK, HeardIsPassedOn
    <2>3. CriticalIsHandled'
        BY <1>1, <2>1 DEF IInv, CriticalIsHandled, guardVars
    <2>4. PlacesOK'
        BY <1>1, <1>2, <2>1 DEF IInv, PlacesOK, guardVars
    <2> QED
        BY <2>2, <2>3, <2>4 DEF IInv
<1>4. CASE Return
    BY <1>1, <1>2, <1>4
       DEF IInv, PlacesOK, HeardIsPassedOn, CriticalIsHandled, guardVars, Return
<1>5. CASE Close
    <2>1. main' = "absent" /\ helpers' = 0 /\ ~ request' /\ ~ heard'
        BY <1>5 DEF Close, ServerGone
    <2>2. helpers' \in 0 .. MaxHelpers
        BY <1>5, ServerGoneType DEF Close
    <2> QED
        BY <1>1, <1>2, <2>1, <2>2
           DEF IInv, PlacesOK, HeardIsPassedOn, CriticalIsHandled, guardVars
<1> QED
    BY <1>3, <1>4, <1>5 DEF MainSteps, MainThread

LEMMA HelperStepsIInv == IInv /\ HelperSteps => IInv'
<1> SUFFICES ASSUME IInv, HelperSteps PROVE IInv'
    OBVIOUS
<1>1. /\ helpers > 0 /\ helpers' = helpers - 1
      /\ UNCHANGED <<main, heard, guardVars, pressure, docker>>
    BY DEF HelperSteps, Request
<1>2. request' = TRUE
    BY DEF HelperSteps, Request
<1>4. helpers' \in 0 .. MaxHelpers
    BY <1>1, HelpersAreCounted
<1>5. main \notin {"absent", "loading"}
    BY <1>1, HelpersAreCounted
<1> QED
    BY <1>1, <1>2, <1>4, <1>5
       DEF IInv, PlacesOK, HeardIsPassedOn, CriticalIsHandled, guardVars, docker

LEMMA GraceExpiresIInv == IInv /\ GraceExpires => IInv'
<1> SUFFICES ASSUME IInv, GraceExpires PROVE IInv'
    OBVIOUS
<1>1. helpers' \in 0 .. MaxHelpers
    BY ServerGoneType DEF GraceExpires
<1> QED
    BY <1>1 DEF IInv, PlacesOK, HeardIsPassedOn, CriticalIsHandled, GraceExpires, ServerGone, guardVars

(***************************************************************************)
(* The watchdog.                                                           *)
(***************************************************************************)
LEMMA LevelType ==
    ASSUME NEW p \in Pressures, NEW answered \in BOOLEAN
    PROVE  Sampled(p, answered) \in Levels
<1>1. p.memory \in Levels
    BY GuardAssumption
<1> QED
    BY <1>1 DEF Sampled, Level, Levels

LEMMA GuardSamplesIInv == IInv /\ GuardSamples => IInv'
<1> SUFFICES ASSUME IInv, GuardSamples PROVE IInv'
    OBVIOUS
<1>1. PICK answered \in BOOLEAN : Sample(pressure, answered)
    BY DEF GuardSamples
<1>2. seen' \in Levels
    BY <1>1, LevelType DEF Sample, IInv, PlacesOK
<1> QED
    BY <1>1, <1>2
       DEF IInv, PlacesOK, HeardIsPassedOn, CriticalIsHandled, GuardSamples, Sample, server, docker

LEMMA GuardReportsIInv == IInv /\ GuardReports => IInv'
<1> SUFFICES ASSUME IInv, GuardReports PROVE IInv'
    OBVIOUS
<1> QED
    BY DEF IInv, PlacesOK, HeardIsPassedOn, CriticalIsHandled, GuardReports, ReportOoms, server, docker

\* A critical state that is entered is one the watchdog stops the app in; one
\* that goes on keeps what was said and started in it.
LEMMA GuardJudgesIInv == IInv /\ GuardJudges => IInv'
<1> SUFFICES ASSUME IInv, GuardJudges PROVE IInv'
    OBVIOUS
<1>1. /\ guard = "judging" /\ state' = seen /\ seen \in Levels
      /\ UNCHANGED <<server, pressure, daemon, action, source, seen>>
    BY DEF GuardJudges, Judge, IInv, PlacesOK
<1>3. stopping' = stopping
    BY DEF GuardJudges
<1>4. /\ guard' \in {"stopping", "sleeping"}
      /\ told' \in {told, "nothing"}
    BY DEF GuardJudges, Judge
<1>5. PlacesOK'
    BY <1>1, <1>3, <1>4 DEF IInv, PlacesOK, server
<1>6. CriticalIsHandled'
    <2>1. SUFFICES ASSUME state' = "critical", action = "stop", guard' # "stopping"
                   PROVE  main = "absent" \/ told' = "could not stop" \/ restarted'
        BY <1>1 DEF CriticalIsHandled, server
    <2>2. seen = "critical" /\ state = "critical"
        BY <1>1, <2>1 DEF GuardJudges, Judge, EntersCritical
    <2>3. told' = told /\ (restarted => restarted')
        BY <2>2 DEF GuardJudges, Judge, EntersCritical
    <2> QED
        BY <1>1, <2>1, <2>2, <2>3 DEF IInv, CriticalIsHandled
<1> QED
    BY <1>1, <1>5, <1>6 DEF IInv, HeardIsPassedOn, server

LEMMA StopDeliveredIInv == IInv /\ StopDelivered => IInv'
<1> SUFFICES ASSUME IInv, StopDelivered PROVE IInv'
    OBVIOUS
<1>2. UNCHANGED <<guardVars, pressure, daemon, oomKilled, restarted>> /\ guard = "stopping"
    BY DEF StopDelivered
<1>3. CASE main = "absent"
    BY <1>2, <1>3
       DEF IInv, PlacesOK, HeardIsPassedOn, CriticalIsHandled, StopDelivered, guardVars, server
<1>4. CASE main # "absent"
    <2>1. /\ main' = main /\ helpers' \in 0 .. MaxHelpers /\ request' = request
          /\ main = "loading" => helpers' = 0 /\ ~ heard'
          /\ HeardIsPassedOn'
        BY <1>4, SignalIInv DEF StopDelivered
    <2> QED
        BY <1>2, <1>4, <2>1 DEF IInv, PlacesOK, CriticalIsHandled, guardVars
<1> QED
    BY <1>3, <1>4

\* docker stop returns when the container is down, and is given up with a line
\* that says so.
LEMMA GuardStopsIInv == IInv /\ (GuardStopped \/ GuardCouldNotStop \/ GuardSleeps) => IInv'
<1> SUFFICES ASSUME IInv, GuardStopped \/ GuardCouldNotStop \/ GuardSleeps PROVE IInv'
    OBVIOUS
<1>1. /\ UNCHANGED <<server, docker, pressure, action, source, seen, state>>
      /\ guard' \in {"sleeping", "sampling"}
      /\ \/ guard # "stopping" /\ told' = told
         \/ main = "absent" /\ told' = "stopped"
         \/ told' = "could not stop"
    BY DEF GuardStopped, GuardCouldNotStop, GuardSleeps, StopReturns, StopReturned, Sleep
<1> QED
    BY <1>1 DEF IInv, PlacesOK, HeardIsPassedOn, CriticalIsHandled, server, docker

LEMMA NextIInv == IInv /\ [Next]_vars => IInv'
<1> SUFFICES ASSUME IInv, [Next]_vars PROVE IInv'
    OBVIOUS
<1>1. CASE UNCHANGED vars
    BY <1>1 DEF vars, server, guardVars, docker, IInv, PlacesOK, HeardIsPassedOn, CriticalIsHandled
<1> QED
    BY <1>1, EnvironmentIInv, UserStartsIInv, UserStopsIInv, ClientIInv, MainStepsIInv,
       HelperStepsIInv, GraceExpiresIInv, GuardSamplesIInv, GuardReportsIInv, GuardJudgesIInv,
       StopDeliveredIInv, GuardStopsIInv DEF Next, GuardSteps

LEMMA ContainerInvariant == Spec => []IInv
BY InitIInv, NextIInv, PTL DEF Spec

LEMMA FlagsInvariant == Spec => []FlagsOK
BY InitFlags, NextFlags, PTL DEF Spec

\* Every variable keeps its type, and there are no threads without a container.
THEOREM TypeCorrect == Spec => []TypeOK
<1>1. IInv /\ FlagsOK => TypeOK
    BY TypeHalves DEF IInv
<1> QED
    BY <1>1, ContainerInvariant, FlagsInvariant, PTL

\* host_guard.sh: as long as its state is critical, the app is down, or the user
\* was told to intervene, or has started it again in spite of it.
THEOREM CriticalHandled == Spec => []CriticalIsHandled
<1>1. IInv => CriticalIsHandled
    BY DEF IInv
<1> QED
    BY <1>1, ContainerInvariant, PTL

\* metrics_server.py: a server that has heard of a stop is not killed at the end of
\* the grace period, unless a client keeps it waiting.
THEOREM StopsCleanly == Spec => StopIsClean
<1>1. ASSUME IInv, [Next]_vars
      PROVE  [main # "absent" /\ main' = "absent" /\ main # "closing" =>
                 ~ heard \/ main = "answering"]_vars
    <2>1. SUFFICES ASSUME main # "absent", main' = "absent", main # "closing"
                   PROVE  ~ heard \/ main = "answering"
        OBVIOUS
    <2>2. GraceExpires
        BY <1>1, <2>1
           DEF Next, MemoryChanges, OomKill, Hang, Answers, UserStarts, ServerStarts, UserStops,
               Signal, Stop, Client, Accept, Respond, MainSteps, MainThread, Arm, Serve, Return,
               Close, HelperSteps, Request, GuardSteps, GuardSamples, GuardJudges, GuardStopped,
               GuardCouldNotStop, GuardSleeps, GuardReports, StopDelivered, vars, server
    <2>3. main \in {"serving", "answering"} /\ (main = "serving" => ~ request /\ ~ (helpers > 0))
        BY <1>1, <2>1, <2>2 DEF GraceExpires, ServerIsMoving, IInv, PlacesOK
    <2> QED
        BY <1>1, <2>3 DEF IInv, HeardIsPassedOn
<1> QED
    BY <1>1, ContainerInvariant, PTL DEF Spec, StopIsClean
=============================================================================
