---------------------------- MODULE MCCpuBudget ----------------------------
(***************************************************************************)
(* Instances of CpuBudget for TLC: a bare machine with hyperthreads, the   *)
(* same machine under a quota that is no whole number of CPUs, and under   *)
(* one that is less than a CPU.                                            *)
(***************************************************************************)
EXTENDS CpuBudget

Grant(allowed, quota, cores) == [allowed |-> allowed, quota |-> quota, cores |-> cores]

MCGrants == {Grant(16, 0, 8), Grant(16, 96, 12), Grant(16, 5, 0)}
=============================================================================
