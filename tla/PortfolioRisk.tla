---------------------------- MODULE PortfolioRisk ----------------------------
(***************************************************************************)
(* The risk limits around a paper account, as operators: the kill switch   *)
(* of PortfolioRiskController (strategy/portfolio_risk.py) and the sizing  *)
(* of one trade (strategy/risk_engine.py, trade_plan.py, trade_guard.py).  *)
(* Money and prices are integers, fractions are percents.                  *)
(***************************************************************************)
EXTENDS Integers

CONSTANTS
  MaxDailyLoss,     \* PortfolioRiskLimits.max_daily_loss_fraction
  MaxDrawdown,      \* max_drawdown_fraction
  MaxWeekly,        \* max_weekly_drawdown_fraction
  MaxLosses,        \* max_consecutive_losses
  RiskPerTrade,     \* RiskLimits.risk_per_trade
  MaxTradeDaily,    \* RiskLimits.max_daily_loss
  MaxOpenRisk,      \* RiskLimits.max_open_risk
  MaxPositions,     \* RiskLimits.max_positions
  MinQuantity,      \* RiskLimits.min_quantity
  MaxQuantity       \* RiskLimits.max_quantity

(* PortfolioRiskLimits and RiskLimits refuse anything else. *)
ValidLimits ==
  /\ {MaxDailyLoss, MaxDrawdown, MaxWeekly, RiskPerTrade, MaxTradeDaily, MaxOpenRisk} \subseteq 1 .. 100
  /\ MaxLosses \in Nat \ {0} /\ MaxPositions \in Nat \ {0}
  /\ MinQuantity \in Nat /\ MaxQuantity \in Nat \ {0} /\ MinQuantity <= MaxQuantity

ASSUME LimitsAssumption == ValidLimits

Larger(a, b)  == IF a > b THEN a ELSE b
Smaller(a, b) == IF a < b THEN a ELSE b

-----------------------------------------------------------------------------
(* The kill switch.                                                        *)

(* A loss reaches a fraction of its base. *)
Reaches(loss, pct, base) == 100 * loss >= pct * base

(* __init__ and reset_session. *)
NewSession(equity, week) ==
  [start |-> equity, peak |-> equity, equity |-> equity, lost |-> 0, losses |-> 0,
   halted |-> FALSE, weekPeak |-> equity, week |-> week, weekLost |-> 0]

(* Fault: a halt is not kept, and only the loss of the day is looked at. *)
UpdateEquityUnlatched(s, equity, week) ==
  [s EXCEPT !.equity = equity, !.peak = Larger(s.peak, equity),
            !.halted = Reaches(Larger(s.start - equity, s.lost), MaxDailyLoss, s.start),
            !.weekPeak = Larger(s.weekPeak, equity), !.week = week]

(* update_equity: another week starts at this equity. *)
UpdateEquity(s, equity, week) ==
  LET same     == s.week = week
      weekPeak == IF same THEN Larger(s.weekPeak, equity) ELSE equity
      weekLost == IF same THEN s.weekLost ELSE 0
      peak     == Larger(s.peak, equity)
      breached == \/ Reaches(Larger(s.start - equity, s.lost), MaxDailyLoss, s.start)
                  \/ Reaches(peak - equity, MaxDrawdown, peak)
                  \/ Reaches(Larger(weekPeak - equity, weekLost), MaxWeekly, weekPeak)
  IN  [s EXCEPT !.peak = peak, !.equity = equity, !.halted = s.halted \/ breached,
                !.weekPeak = weekPeak, !.week = week, !.weekLost = weekLost]

(* record_closed_trade: another week starts at the last equity reported,    *)
(* with no streak.                                                          *)
RecordClosedTrade(s, pnl, week) ==
  LET same     == s.week = week
      loss     == Larger(0, -pnl)
      weekPeak == IF same THEN s.weekPeak ELSE s.equity
      weekLost == (IF same THEN s.weekLost ELSE 0) + loss
      before   == IF same THEN s.losses ELSE 0
      losses   == IF pnl < 0 THEN before + 1 ELSE IF pnl > 0 THEN 0 ELSE before
      breached == \/ losses >= MaxLosses
                  \/ Reaches(s.lost + loss, MaxDailyLoss, s.start)
                  \/ Reaches(Larger(weekPeak - s.equity, weekLost), MaxWeekly, weekPeak)
  IN  [s EXCEPT !.lost = s.lost + loss, !.losses = losses, !.halted = s.halted \/ breached,
                !.weekPeak = weekPeak, !.week = week, !.weekLost = weekLost]

(* evaluate: the fractions of the decision as losses and their bases. *)
Evaluate(s) ==
  [allowed |-> ~s.halted,
   daily   |-> [loss |-> Larger(Larger(0, s.start - s.equity), s.lost), base |-> s.start],
   total   |-> [loss |-> Larger(0, s.peak - s.equity), base |-> s.peak],
   weekly  |-> [loss |-> Larger(Larger(0, s.weekPeak - s.equity), s.weekLost), base |-> s.weekPeak]]

-----------------------------------------------------------------------------
(* The size of one trade.                                                  *)

Distance(entry, stop) == IF entry > stop THEN entry - stop ELSE stop - entry

(* Fault: the number of steps is rounded up. *)
PositionSizeUp(budget, entry, stop, step) ==
  ((budget + step * Distance(entry, stop) - 1) \div (step * Distance(entry, stop))) * step

(* position_size: whole steps within the budget. *)
PositionSize(budget, entry, stop, step) == (budget \div (step * Distance(entry, stop))) * step

Denied == [allowed |-> FALSE, quantity |-> 0, risk |-> 0]

(* evaluate_risk. *)
EvaluateRisk(equity, entry, stop, dailyLoss, openRisk, positions, step) ==
  LET remaining == (equity * MaxOpenRisk) \div 100 - openRisk
      requested == Smaller((equity * RiskPerTrade) \div 100, remaining)
      sized     == PositionSize(requested, entry, stop, step)
      capped    == IF sized > MaxQuantity THEN (MaxQuantity \div step) * step ELSE sized
      amount    == Distance(entry, stop) * capped
  IN  IF \/ Reaches(dailyLoss, MaxTradeDaily, equity)
         \/ positions >= MaxPositions
         \/ remaining <= 0
         \/ capped <= 0
         \/ capped < MinQuantity
         \/ amount > requested
      THEN Denied
      ELSE [allowed |-> TRUE, quantity |-> capped, risk |-> amount]

(* build_trade_plan refuses a signal without a stop on its losing side. *)
PlanIsSound(signal) ==
  /\ signal.action \in {"LONG", "SHORT"}
  /\ IF signal.action = "LONG" THEN signal.stop < signal.entry ELSE signal.stop > signal.entry

(* evaluate_trade_guard of a signal on sound data. *)
TradeGuard(signal, portfolio, risk, positionOpen) ==
  /\ signal.action \in {"LONG", "SHORT"}
  /\ portfolio.allowed
  /\ ~positionOpen
  /\ risk.allowed
  /\ risk.quantity > 0
=============================================================================
