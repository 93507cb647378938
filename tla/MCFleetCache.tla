---------------------------- MODULE MCFleetCache ----------------------------
(* Instances of FleetCache for TLC: the readers are interchangeable, and so   *)
(* are the refreshers; no property of the runs that use Symmetry is temporal  *)
(* beyond one step.                                                           *)
EXTENDS FleetCache, TLC

Symmetry ==
    Permutations(Readers) \cup Permutations(Refreshers) \cup Permutations(Keys \ SlowKeys)
=============================================================================
