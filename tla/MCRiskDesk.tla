----------------------------- MODULE MCRiskDesk ------------------------------
EXTENDS RiskDesk

PriceBar(l, h, c) == [low |-> l, high |-> h, close |-> c]

(* Around the entry 100: quiet, through the lower exits, through the upper  *)
(* ones, through both.                                                      *)
MCPriceBars == {PriceBar(98, 102, 101), PriceBar(75, 101, 88),
                PriceBar(99, 125, 112), PriceBar(75, 125, 118)}

MCSignals == {[action |-> "WAIT", entry |-> 0, stop |-> 0],
              [action |-> "LONG", entry |-> 100, stop |-> 90],
              [action |-> "SHORT", entry |-> 100, stop |-> 107],
              [action |-> "LONG", entry |-> 100, stop |-> 100]}

ASSUME MCSmallRisk == SmallRisk

(* The third time is written with more digits: it sorts before the others.  *)
MCTextRank == [t \in Times |-> IF t = 3 THEN 0 ELSE t]
=============================================================================
