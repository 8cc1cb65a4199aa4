------------------------------ MODULE LiveSizing ------------------------------
(***************************************************************************)
(* The gates of the live runtime with the sizing of the orders its cycles  *)
(* send (live/live_runtime.py, strategy/forex_risk.py).                    *)
(***************************************************************************)
EXTENDS LiveGates, ForexRisk

CONSTANT Sizes    \* the equity of a snapshot stands for accounts of several sizes

ASSUME SizesAssumption ==
  /\ Sizes \subseteq Nat \ {0}
  /\ \A e \in Equities, size \in Sizes : e * size \in Balances

Fitting == [balance \in Balances |-> LotIsWhatFits(balance)]

(* A cycle that trades sizes its order from the equity of its snapshot, the *)
(* one the breaker judged, so that the order fits its budget and the limits *)
(* (live_runtime.py:275, forex_risk.py:143).                                *)
OrderIsWhatFits ==
  \A p \in Procs : pc[p] = "trading" => \A size \in Sizes : Fitting[snapshot[p].equity * size]
=============================================================================
