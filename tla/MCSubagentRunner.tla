--------------------------- MODULE MCSubagentRunner ---------------------------
(* Instances of SubagentRunner for TLC. *)
EXTENDS SubagentRunnerProps, TLC

Symmetry == Permutations(Waiters) \union Permutations(Callers)
===============================================================================
