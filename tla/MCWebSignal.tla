----------------------------- MODULE MCWebSignal ------------------------------
(***************************************************************************)
(* The web application for TLC: the polls of a page, the isolates and the  *)
(* other clients are interchangeable.                                      *)
(***************************************************************************)
EXTENDS WebSignal, TLC

Symmetry == Permutations(Overlaps) \cup Permutations(Isolates) \cup Permutations(Calls)
=============================================================================
