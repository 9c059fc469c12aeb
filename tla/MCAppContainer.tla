--------------------------- MODULE MCAppContainer ---------------------------
(***************************************************************************)
(* An instance of AppContainer for TLC: memory may be short to either      *)
(* degree, and swap alone may be full.                                     *)
(***************************************************************************)
EXTENDS AppContainer

MCPressures ==
    {[memory |-> m, swap |-> "ok"] : m \in Levels}
        \cup {[memory |-> "ok", swap |-> "critical"]}
=============================================================================
