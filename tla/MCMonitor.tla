----------------------------- MODULE MCMonitor -----------------------------
(* The monitor on small instances.                                         *)
EXTENDS Monitor, TLC

(* Jobs, and requests, are interchangeable in the safety runs.           *)
Symmetric == Permutations(Jobs) \cup Permutations(Requests)
=============================================================================
