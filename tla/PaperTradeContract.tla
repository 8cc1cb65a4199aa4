------------------------- MODULE PaperTradeContract -------------------------
(***************************************************************************)
(* What the paper trading runtime promises about its account at the        *)
(* broker: it holds at most one trade, each bar opens at most one, later   *)
(* trades belong to later bars, and a trade is only ever closed, never     *)
(* reversed or enlarged.                                                   *)
(***************************************************************************)
EXTENDS Naturals

CONSTANT MaxBar  \* bound: completed bars

VARIABLES
  trade,  \* the bar of the trade that is open at the broker, or 0
  last    \* the latest bar that opened a trade, or 0

TradeInit == trade = 0 /\ last = 0

Open(b) ==
  /\ trade = 0
  /\ b > last
  /\ trade' = b
  /\ last' = b

(* By an exit order, or by the broker that loses it. *)
Close ==
  /\ trade # 0
  /\ trade' = 0
  /\ UNCHANGED last

TradeNext == Close \/ \E b \in 1 .. MaxBar : Open(b)

TradeSpec == TradeInit /\ [][TradeNext]_<<trade, last>>

=============================================================================
