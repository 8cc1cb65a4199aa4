--------------------------- MODULE TradeSimulation ---------------------------
(***************************************************************************)
(* What a trade is worth on given candles: the risk plan (strategy/risk.py)*)
(* its exit without and with execution costs (risk.py, execution.py), the  *)
(* outcome label of a signal (outcomes.py) and the sequential backtest     *)
(* (backtest.py).  Prices are integers.  A candle is its open, high, low   *)
(* and close; a bar is a candle with what is decided at its close: live by *)
(* the monitor (action, entry, edge, stop) and tested by run_backtest.     *)
(***************************************************************************)
EXTENDS Integers, Sequences

CONSTANTS
  RewardRisk,     \* reward_risk: the target's distance in units of risk
  Cost,           \* half the spread plus the slippage of the paper session
  Costs,          \* those of the execution models of the simulations
  LatencyBars,    \* latency_bars of the execution model
  MaxHold         \* max_hold_bars of the backtest, max_bars of the label

ASSUME SimulationAssumption == /\ RewardRisk \in Nat \ {0}
                               /\ Cost \in Nat /\ Costs \subseteq Nat
                               /\ LatencyBars \in Nat
                               /\ MaxHold \in Nat \ {0}

First(S) == CHOOSE i \in S : \A j \in S : i <= j

-----------------------------------------------------------------------------

(* build_risk_plan, for a stop already moved by the buffer. *)
BuildRiskPlan(dir, entry, stop) ==
  LET risk == IF dir = "LONG" THEN entry - stop ELSE stop - entry
  IN  [dir |-> dir, entry |-> entry, stop |-> stop, risk |-> risk,
       target |-> IF dir = "LONG" THEN entry + risk * RewardRisk
                                  ELSE entry - risk * RewardRisk]

(* It raises when the entry is not beyond the stop. *)
Refused(plan) == plan.risk <= 0

EntryPrice(price, dir, cost) == IF dir = "LONG" THEN price + cost ELSE price - cost

ExitPrice(price, dir, cost) == IF dir = "LONG" THEN price - cost ELSE price + cost

(* A candle, seen at shift from its prices, touches a level of the plan. *)
HitStop(plan, c, shift) == IF plan.dir = "LONG" THEN c.low - shift <= plan.stop
                                                ELSE c.high + shift >= plan.stop

HitTarget(plan, c, shift) == IF plan.dir = "LONG" THEN c.high - shift >= plan.target
                                                  ELSE c.low + shift <= plan.target

(* The exit on the first touching candle after a delay; stop before target. *)
ExitAfter(plan, candles, delay, shift) ==
  LET hits == {i \in delay + 1 .. Len(candles) :
                 HitStop(plan, candles[i], shift) \/ HitTarget(plan, candles[i], shift)}
  IN  IF hits = {} THEN [outcome |-> "OPEN", held |-> Len(candles)]
      ELSE [outcome |-> IF HitStop(plan, candles[First(hits)], shift) THEN "LOSS" ELSE "WIN",
            held |-> First(hits)]

UpTo(candles, n) == SubSeq(candles, 1, IF n < Len(candles) THEN n ELSE Len(candles))

SimulateExit(plan, candles) == ExitAfter(plan, candles, 0, 0)

(* simulate_realistic_exit of a plan whose entry is the fill price: bars of *)
(* the latency are skipped, levels are touched by the side of the spread    *)
(* that trades, and gain is what the trade earns.                           *)
SimulateRealisticExit(plan, candles, cost) ==
  LET exit == ExitAfter(plan, candles, LatencyBars, cost)
      paid == ExitPrice(IF exit.outcome = "WIN" THEN plan.target ELSE plan.stop, plan.dir, cost)
  IN  [outcome |-> exit.outcome, held |-> exit.held,
       gain |-> IF exit.outcome = "OPEN" THEN 0
                ELSE IF plan.dir = "LONG" THEN paid - plan.entry ELSE plan.entry - paid]

(* label_signal_outcome: like the exit, but a candle that touches both      *)
(* levels decides nothing.                                                  *)
LabelOutcome(plan, candles) ==
  LET exit == ExitAfter(plan, UpTo(candles, MaxHold), 0, 0)
  IN  IF exit.outcome = "OPEN" THEN "TIMEOUT"
      ELSE IF exit.outcome = "LOSS" /\ HitTarget(plan, candles[exit.held], 0) THEN "AMBIGUOUS"
      ELSE exit.outcome

-----------------------------------------------------------------------------

(* How run_backtest trades: it enters at the open of the next bar, or at    *)
(* the reference of the signal, and has an execution model, of a cost, or   *)
(* none.                                                                   *)
NoModel == -1
Hows == [next : BOOLEAN, model : Costs \cup {NoModel}]

(* What run_backtest decides on bar i: the strategy's own signal, which no  *)
(* supervisor has filtered, from all the candles before, with the stop of   *)
(* its plan: the edge of the zone less the adaptive buffer.                *)
Tested(bars, i) == bars[i].decision.tested

(* The trade of the signal of bar i, with what the bars up to the end of    *)
(* the run make of it, and the bar the run goes on with after a close.      *)
BacktestTrade(bars, i, end, how) ==
  LET d     == Tested(bars, i)
      fill  == IF how.next THEN i + 1 ELSE i
      price == IF how.next THEN bars[fill].open ELSE d.entry
      plan  == BuildRiskPlan(d.action, IF how.model = NoModel THEN price
                                       ELSE EntryPrice(price, d.action, how.model), d.stop)
      ahead == SubSeq(bars, fill + 1, IF fill + MaxHold < end THEN fill + MaxHold ELSE end)
      exit  == IF how.model = NoModel THEN SimulateExit(plan, ahead)
               ELSE SimulateRealisticExit(plan, ahead, how.model)
  IN  [signal |-> i, dir |-> plan.dir, entry |-> plan.entry, refused |-> Refused(plan),
       outcome |-> exit.outcome, held |-> exit.held, resume |-> fill + 1 + exit.held]

NoTrade == [signal |-> 0]

(* run_backtest trades the signal of bar i, if its filter lets it through.  *)
Trades(bars, i, end, how, approved) ==
  Tested(bars, i).action # "WAIT" /\ i \in approved /\ ~(how.next /\ i = end)

(* Fault: the run goes on with the bar after the signal. *)
TurnOverlapping(bars, i, end, how, approved) ==
  [bar |-> i, then |-> i + 1,
   trade |-> IF Trades(bars, i, end, how, approved) THEN BacktestTrade(bars, i, end, how) ELSE NoTrade]

(* The turn of run_backtest at bar i: its trade, if any, and the bar of the *)
(* next turn.  A refused plan raises.                                       *)
Turn(bars, i, end, how, approved) ==
  LET trade == BacktestTrade(bars, i, end, how)
  IN  IF Trades(bars, i, end, how, approved)
      THEN [bar |-> i, trade |-> trade,
            then |-> IF trade.refused THEN end + 1
                     ELSE IF trade.outcome = "OPEN" THEN i + 1 ELSE trade.resume]
      ELSE [bar |-> i, trade |-> NoTrade, then |-> i + 1]

(* The turns that are taken, from the first. *)
TurnsTaken(turns, start, end) ==
  LET from[i \in start .. end + 1] == IF i > end THEN <<>> ELSE <<turns[i]>> \o from[turns[i].then]
  IN  from[start]

(* run_backtest on the bars from start to end, which begin after the        *)
(* warm-up; approved are the bars whose signal the filter lets through.     *)
RunBacktest(bars, start, end, how, approved) ==
  TurnsTaken([i \in start .. end |-> Turn(bars, i, end, how, approved)], start, end)

TradesOf(turns) ==
  LET upTo[k \in 0 .. Len(turns)] ==
        IF k = 0 THEN <<>>
        ELSE IF turns[k].trade = NoTrade THEN upTo[k - 1] ELSE Append(upTo[k - 1], turns[k].trade)
  IN  upTo[Len(turns)]

Raised(turns) == \E k \in DOMAIN turns : turns[k].trade # NoTrade /\ turns[k].trade.refused
=============================================================================
