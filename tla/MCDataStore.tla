---------------------------- MODULE MCDataStore ----------------------------
(* DataStore for TLC: files and actors are interchangeable.                *)
EXTENDS DataStore, TLC

Symmetric == Permutations(Files) \cup Permutations(Actors)
=============================================================================
