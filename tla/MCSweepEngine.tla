--------------------------- MODULE MCSweepEngine ---------------------------
(* SweepEngine for TLC: jobs, threads and requests are interchangeable.    *)
EXTENDS SweepEngine, TLC

Symmetric == Permutations(Jobs) \cup Permutations(Pipelines) \cup Permutations(Requests)
=============================================================================
