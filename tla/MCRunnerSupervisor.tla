------------------------- MODULE MCRunnerSupervisor -------------------------
(* Instances of RunnerSupervisor for TLC. *)
EXTENDS RunnerSupervisor, TLC

Interchangeable == Permutations(Agents)
=============================================================================
