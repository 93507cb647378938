--------------------------- MODULE MCTriageStore ----------------------------
(* Instances of TriageStore for TLC: clients are interchangeable.             *)
EXTENDS TriageStore, TLC

Symmetry == Permutations(Clients)
=============================================================================
