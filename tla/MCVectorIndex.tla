--------------------------- MODULE MCVectorIndex ---------------------------
(***************************************************************************)
(* Instances of VectorIndex for TLC: two settings whose vectors have the   *)
(* same length (a changed chunk_size) and one whose vectors have another   *)
(* (a changed embedding model).                                            *)
(***************************************************************************)
EXTENDS VectorIndex

MCConfigs == {"small_chunks", "large_chunks", "other_model"}
MCDimension == [c \in MCConfigs |-> IF c = "other_model" THEN 768 ELSE 384]
=============================================================================
