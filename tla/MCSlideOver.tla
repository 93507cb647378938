---------------------------- MODULE MCSlideOver -----------------------------
(* Instances of SlideOver for TLC: calls are interchangeable, and so are      *)
(* events.                                                                    *)
EXTENDS SlideOver, TLC

Symmetry == Permutations(Clients) \cup Permutations(Events)
=============================================================================
