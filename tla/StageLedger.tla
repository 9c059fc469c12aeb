---------------------------- MODULE StageLedger ----------------------------
(***************************************************************************)
(* What the `evaluation_runs` table promises about one pipeline run, with  *)
(* no mention of processes, retries or sinks: every approach has one       *)
(* lifecycle, evidence is only added while that lifecycle is running, and  *)
(* it is called completed only when every expected sample is evidence.     *)
(* EvaluationStage implements this specification.                          *)
(***************************************************************************)
EXTENDS Naturals

CONSTANTS
    Approaches,  \* the approaches evaluated under one RUN_ID
    MaxPrompts   \* the largest number of evaluation prompts of a stage

VARIABLES
    status,      \* evaluation_runs.status; "none" when there is no row
    expected,    \* evaluation_runs.expected_samples
    evidence     \* the samples the current lifecycle has stored answers for

vars == <<status, expected, evidence>>

Samples == 0 .. MaxPrompts - 1

Init ==
    /\ status = [a \in Approaches |-> "none"]
    /\ expected = [a \in Approaches |-> 0]
    /\ evidence = [a \in Approaches |-> {}]

\* A lifecycle is opened, or opened again: the earlier evidence stops counting.
Begin(a, n) ==
    /\ status' = [status EXCEPT ![a] = "running"]
    /\ expected' = [expected EXCEPT ![a] = n]
    /\ evidence' = [evidence EXCEPT ![a] = {}]

Store(a, s) ==
    /\ status[a] = "running"
    /\ s < expected[a]
    /\ evidence' = [evidence EXCEPT ![a] = @ \cup {s}]
    /\ UNCHANGED <<status, expected>>

Complete(a) ==
    /\ status[a] = "running"
    /\ evidence[a] = 0 .. expected[a] - 1
    /\ status' = [status EXCEPT ![a] = "completed"]
    /\ UNCHANGED <<expected, evidence>>

Fail(a) ==
    /\ status[a] = "running"
    /\ status' = [status EXCEPT ![a] = "failed"]
    /\ UNCHANGED <<expected, evidence>>

Next ==
    \E a \in Approaches :
        \/ \E n \in 1 .. MaxPrompts : Begin(a, n)
        \/ \E s \in Samples : Store(a, s)
        \/ Complete(a)
        \/ Fail(a)

Spec == Init /\ [][Next]_vars
=============================================================================
