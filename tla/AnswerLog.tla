----------------------------- MODULE AnswerLog -----------------------------
(***************************************************************************)
(* What run_stage_evaluation promises of its prompts, with no mention of   *)
(* the harness, its threads or the fallback: answers are logged in the     *)
(* order of the prompts, each prompt once at most, and the stage ends well *)
(* exactly when none is missing.  AnswerScoring implements it.             *)
(***************************************************************************)
EXTENDS Naturals, Sequences

CONSTANT NPrompts  \* len(test_prompts)

VARIABLES
    entries,  \* the samples logged so far
    outcome   \* "open" while the stage runs

vars == <<entries, outcome>>

Everything == [s \in 1 .. NPrompts |-> s]

Init == entries = <<>> /\ outcome = "open"

LogEntry(s) ==
    /\ outcome = "open"
    /\ \A i \in 1 .. Len(entries) : entries[i] < s
    /\ entries' = Append(entries, s)
    /\ UNCHANGED outcome

Settle ==
    /\ outcome = "open"
    /\ outcome' = IF entries = Everything THEN "done" ELSE "failed"
    /\ UNCHANGED entries

Next == Settle \/ \E s \in 1 .. NPrompts : LogEntry(s)

Spec == Init /\ [][Next]_vars
=============================================================================
