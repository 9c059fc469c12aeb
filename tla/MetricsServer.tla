--------------------------- MODULE MetricsServer ---------------------------
(***************************************************************************)
(* scripts/metrics_server.py, process 1 of the app container: the thread   *)
(* that starts, serves and returns, and the helper threads its signal      *)
(* handler starts, which ask the serve loop to stop.                       *)
(*                                                                         *)
(* The kernel gives process 1 no default action for a signal: one that     *)
(* comes before main() has installed its handlers is simply gone.          *)
(***************************************************************************)
EXTENDS Naturals

CONSTANT MaxHelpers \* bound: helper threads that have not run yet

ASSUME MaxHelpersAssumption == MaxHelpers \in Nat \ {0}

VARIABLES
    main,    \* where the main thread is; "absent" when the container is down
    request, \* BaseServer.__shutdown_request
    helpers, \* helper threads that have not set the request yet
    heard    \* ghost: was the handler called?

server == <<main, request, helpers, heard>>

ServerInit ==
    /\ main = "absent"
    /\ request = FALSE
    /\ helpers = 0
    /\ heard = FALSE

\* The container is started: a process with nothing but its program.
ServerStarts ==
    /\ main = "absent"
    /\ main' = "loading"
    /\ UNCHANGED <<request, helpers, heard>>

\* main() up to signal.signal.
Arm ==
    /\ main = "loading"
    /\ main' = "armed"
    /\ UNCHANGED <<request, helpers, heard>>

\* serve_forever is entered.
Serve ==
    /\ main = "armed"
    /\ main' = "serving"
    /\ UNCHANGED <<request, helpers, heard>>

\* A client connects; the one thread reads its request and answers.
Accept ==
    /\ main = "serving"
    /\ ~ request
    /\ main' = "answering"
    /\ UNCHANGED <<request, helpers, heard>>

Respond ==
    /\ main = "answering"
    /\ main' = "serving"
    /\ UNCHANGED <<request, helpers, heard>>

\* Seeded fault, and what an earlier version did: the handler itself calls
\* httpd.shutdown(), on the thread that has to answer it.
StopOnTheLoop ==
    /\ request' = TRUE
    /\ main' = "waiting for itself"
    /\ heard' = TRUE
    /\ UNCHANGED helpers

\* _stop: a helper thread is started, the main thread goes on.
Stop ==
    /\ helpers' = helpers + 1
    /\ heard' = TRUE
    /\ UNCHANGED <<main, request>>

\* SIGTERM or SIGINT is delivered to process 1.
Signal ==
    IF main \in {"absent", "loading"} THEN UNCHANGED server
                                      ELSE helpers < MaxHelpers /\ Stop

\* httpd.shutdown in a helper thread.  It then waits for the loop to have ended,
\* which changes nothing.
Request ==
    /\ helpers > 0
    /\ request' = TRUE
    /\ helpers' = helpers - 1
    /\ UNCHANGED <<main, heard>>

\* The loop looks at the request before every client, the first one included.
Return ==
    /\ main = "serving"
    /\ request
    /\ main' = "closing"
    /\ request' = FALSE
    /\ UNCHANGED <<helpers, heard>>

\* Seeded fault: the helper threads outlive the server.
ServerGoneWithoutHelpers ==
    /\ main' = "absent"
    /\ request' = FALSE
    /\ heard' = FALSE
    /\ UNCHANGED helpers

\* The process is gone, with its threads: they are daemons.
ServerGone ==
    /\ main' = "absent"
    /\ request' = FALSE
    /\ helpers' = 0
    /\ heard' = FALSE

Close == main = "closing" /\ ServerGone

\* What the main thread does by itself.
MainThread == Arm \/ Serve \/ Return \/ Close

\* There is something the server does without anybody's help.
ServerIsMoving ==
    \/ main \in {"loading", "armed", "closing"}
    \/ main = "serving" /\ (request \/ helpers > 0)
=============================================================================
