---------------------------- MODULE MCLiveGates -----------------------------
(***************************************************************************)
(* The gates of the live runtime for TLC, with the sizing of the orders    *)
(* its cycles send: operators and processes are interchangeable.           *)
(***************************************************************************)
EXTENDS LiveSizing, TLC

Symmetry == Permutations(Operators) \cup Permutations(Procs)

Contract(legs, value, size, min, max, step) ==
  [legs |-> legs, tickValue |-> value, tickSize |-> size, min |-> min, max |-> max, step |-> step]

EURUSD == <<"EUR", "USD">>

MCContracts == {Contract(EURUSD, 1000, 1, 1, 50, 1), Contract(EURUSD, 700, 10, 10, 25, 10),
                Contract(<<"GOLD", "">>, 130, 3, 2, 7, 2)}

(* No position, one of another pair, one of the candidate, two in dollars,  *)
(* three positions.                                                         *)
MCActives == {<<>>, <<<<"GBP", "JPY">>>>, <<EURUSD>>, <<<<"GBP", "USD">>, <<"USD", "JPY">>>>,
              <<<<"GBP", "JPY">>, <<"AUD", "CHF">>, <<"GOLD", "">>>>}

MCSizes == {2, 10, 43, 203, 655}
MCBalances == {e * size : e \in Equities, size \in MCSizes}
MCDistances == 1 .. 40
=============================================================================
