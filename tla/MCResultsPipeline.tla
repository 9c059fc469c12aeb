------------------------- MODULE MCResultsPipeline -------------------------
(***************************************************************************)
(* Instances of ResultsPipeline for TLC: the environments the README       *)
(* documents, on machines with and without CUDA.                           *)
(***************************************************************************)
EXTENDS ResultsPipeline

\* README.md: the default pipeline, the portable CPU image, SKIP_CPU_EVAL=1,
\* SKIP_CPU_FINETUNE=0 and SKIP_GGUF=1.
Environment(skipCpuEval, skipCpuFinetune, skipGguf, cuda) ==
    [skipCpuEval |-> skipCpuEval, skipCpuFinetune |-> skipCpuFinetune,
     skipGguf |-> skipGguf, cuda |-> cuda]

MCSettings == {Environment(FALSE, TRUE, FALSE, TRUE),
               Environment(FALSE, TRUE, FALSE, FALSE),
               Environment(TRUE, TRUE, TRUE, FALSE),
               Environment(TRUE, TRUE, FALSE, TRUE),
               Environment(FALSE, FALSE, FALSE, TRUE),
               Environment(FALSE, TRUE, TRUE, TRUE)}
MCCpuOnly == {Environment(FALSE, TRUE, TRUE, FALSE)}
MCStamped == {Stamped}
=============================================================================
