------------------------------ MODULE MCLogin -------------------------------
(* Two browsers behind one address for TLC: browsers, attempts and calls are  *)
(* interchangeable.                                                           *)
EXTENDS Login, TLC

MCAddressOf == [b \in Browsers |-> CHOOSE i \in Addresses : TRUE]

Symmetry == Permutations(Browsers) \cup Permutations(Attempts) \cup Permutations(Calls)
=============================================================================
