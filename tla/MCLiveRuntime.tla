--------------------------- MODULE MCLiveRuntime ----------------------------
(***************************************************************************)
(* Instances of LiveRuntime for TLC.                                       *)
(***************************************************************************)
EXTENDS LiveRuntime, TLC

CONSTANTS p1, p2, q1, q2

MCIntents == Intent

\* Three pairs that share one currency; two of them also share a second one.
MCLegs == [s \in Symbols |->
             CASE s = "EURUSD" -> {"EUR", "USD"}
               [] s = "GBPUSD" -> {"GBP", "USD"}
               [] s = "EURGBP" -> {"EUR", "GBP"}
               [] OTHER        -> {"USD", "JPY"}]

Symmetry == Permutations(Procs) \cup Permutations(Quotes)

=============================================================================
