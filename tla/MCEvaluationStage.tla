------------------------- MODULE MCEvaluationStage -------------------------
(***************************************************************************)
(* Instances of EvaluationStage for TLC: step 02 evaluates the baseline    *)
(* alone, step 06 evaluates it again under the same RUN_ID before the      *)
(* fine-tuned approach.                                                    *)
(***************************************************************************)
EXTENDS EvaluationStage

MCScripts == {<<"baseline">>, <<"baseline", "fine_tuned">>}
MCApproaches == {"baseline", "fine_tuned"}
=============================================================================
