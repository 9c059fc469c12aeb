-------------------------- MODULE MCAnswerScoring --------------------------
(***************************************************************************)
(* An instance of AnswerScoring for TLC: two samples that ask the same and *)
(* one that does not, two workers, and room for one verdict.  The second   *)
(* question retrieves a chunk with a blank line in it.                     *)
(***************************************************************************)
EXTENDS AnswerScoring

Paragraph(c, t) == [chunk |-> c, truth |-> t]

MCPrompts == <<"q", "q", "r">>

MCContexts ==
    [q |-> <<Paragraph(1, FALSE), Paragraph(2, TRUE)>>,
     r |-> <<Paragraph(1, FALSE), Paragraph(1, FALSE), Paragraph(2, TRUE)>>]
=============================================================================
