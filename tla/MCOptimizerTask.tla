-------------------------- MODULE MCOptimizerTask --------------------------
(* OptimizerTask for TLC: tasks and requests are interchangeable.          *)
EXTENDS OptimizerTask, TLC

Symmetric == Permutations(Tasks) \cup Permutations(Requests)
=============================================================================
