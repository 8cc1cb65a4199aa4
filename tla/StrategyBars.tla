---------------------------- MODULE StrategyBars -----------------------------
(***************************************************************************)
(* The strategy while candles close: the same signal is computed by the    *)
(* realtime monitor, the sequential backtest (backtest.py, mtf.py), the    *)
(* two-setup orchestration (two_setups.py) and the web programs, each time *)
(* from the candles there are.                                             *)
(***************************************************************************)
EXTENDS WebStrategy

CONSTANTS
  Candles,       \* candles the market can make
  Openings,      \* histories a behaviour starts from
  MaxGrowth,     \* bound: candles that close after the opening
  MinTwoSetups,  \* candles evaluate_two_setups asks for
  Spans,         \* candles of a bar of each higher timeframe, from the lowest up
  Readings,      \* indicator readings a run tries
  Forecasts      \* forecasts a run tries: direction and confident

ASSUME StrategyBarsAssumption ==
  /\ \A c \in Candles : IsCandle(c)
  /\ \A o \in Openings : o \in Seq(Candle) /\ \A k \in DOMAIN o : IsCandle(o[k])
  /\ MaxGrowth \in Nat
  /\ MinTwoSetups \in Nat /\ MinTwoSetups >= 2 * Strength + 3
  /\ Spans \in Seq(Nat \ {0})
  /\ Readings \subseteq Seq({"BULLISH", "BEARISH", "NEUTRAL", "UNAVAILABLE"})

VARIABLE candles   \* the closed candles

vars == <<candles>>

Init == candles \in Openings

CloseCandle(c) ==
  /\ \E o \in Openings : IsPrefix(o, candles) /\ Len(candles) < Len(o) + MaxGrowth
  /\ candles' = Append(candles, c)

Next == \E c \in Candles : CloseCandle(c)

Spec == Init /\ [][Next]_vars

-----------------------------------------------------------------------------

(* Fault: a zone that was ever broken stays inactive. *)
ActiveZonesForever(zones, history) ==
  {z \in zones : \A k \in DOMAIN history : Touches(history[k], z) =>
     Breakout(history[k], z, AdaptiveConfirmationBuffer(history)) # "TRUE_BREAKOUT"}

(* evaluate_two_setups.  A zone whose latest touch in the history broke it  *)
(* is inactive.                                                             *)
ActiveZones(zones, history) ==
  LET touching(z) == {k \in DOMAIN history : Touches(history[k], z)}
      buffer      == AdaptiveConfirmationBuffer(history)
  IN  {z \in zones : touching(z) = {} \/
         Breakout(history[Greatest(touching(z))], z, buffer) # "TRUE_BREAKOUT"}

ZoneDistance(z, price) ==
  IF price < z.low THEN z.low - price ELSE IF price > z.high THEN price - z.high ELSE 0

(* The first zone, by distance, touches and centre, that gives a signal. *)
FirstSetup(history, bars, zones, bias, readings) ==
  LET price    == Last(bars).close
      setups   == {EvaluateZone(bars, z, bias, readings, "UNAVAILABLE") :
                     z \in ActiveZones(zones, history)} \ {NoSetup}
      before(s, t) == LET d == ZoneDistance(s.zone, price)
                          e == ZoneDistance(t.zone, price)
                      IN  \/ d < e
                          \/ d = e /\ s.zone.touches > t.zone.touches
                          \/ d = e /\ s.zone.touches = t.zone.touches /\ s.zone.low <= t.zone.low
  IN  IF setups = {} THEN NoSetup ELSE CHOOSE s \in setups : \A t \in setups : before(s, t)

EvaluateTwoSetups(bars, readings) ==
  LET history == Front(bars)
      bias    == StructureBias(history)
      price   == Last(bars).close
      long    == FirstSetup(history, bars, FindSupportZones(history), bias, readings)
      short   == FirstSetup(history, bars, FindResistanceZones(history), bias, readings)
  IN  IF Len(bars) < MinTwoSetups THEN NoSetup
      ELSE IF long = NoSetup THEN short
      ELSE IF short = NoSetup THEN long
      ELSE IF ZoneDistance(long.zone, price) <= ZoneDistance(short.zone, price) THEN long ELSE short

-----------------------------------------------------------------------------

(* The bars of a higher timeframe the backtest is given: those of the whole *)
(* data, the last of them perhaps incomplete.                               *)
HigherBars(all, span) ==
  [g \in 1 .. (Len(all) + span - 1) \div span |->
     LET group == {k \in DOMAIN all : (g - 1) * span < k /\ k <= g * span}
     IN  [open |-> all[Least(group)].open, close |-> all[Greatest(group)].close,
          high |-> Greatest({all[k].high : k \in group}),
          low  |-> Least({all[k].low : k \in group})]]

(* Fault: a bar that has opened counts as closed. *)
OpenedCandlesAt(bars, span, n) == SubSeq(bars, 1, (n + span - 1) \div span)

(* closed_candles_at: the bars whose interval is over at candle n. *)
ClosedCandlesAt(bars, span, n) == SubSeq(bars, 1, n \div span)

(* build_mtf_context of the biases from the entry timeframe up: the lowest  *)
(* and the highest of the higher timeframes and the entry itself.           *)
Alignment(biases) ==
  LET three == <<biases[Len(biases)], biases[2], biases[1]>>
      told  == {i \in 1 .. 3 : three[i] \in {"BULLISH", "BEARISH"}}
  IN  IF told = {} THEN "UNKNOWN"
      ELSE IF Cardinality(told) < 2 THEN "RANGE"
      ELSE IF \A i \in told : three[i] = "BULLISH" THEN "BULLISH"
      ELSE IF \A i \in told : three[i] = "BEARISH" THEN "BEARISH"
      ELSE "RANGE"

(* build_timestamp_aligned_mtf_context at the close of candle n. *)
MtfAlignment(all, n) ==
  Alignment(<<StructureBias(ClosedCandlesAt(all, 1, n))>> \o
            [i \in DOMAIN Spans |->
               StructureBias(ClosedCandlesAt(HigherBars(all, Spans[i]), Spans[i], n))])

(* The signal run_backtest computes at bar n of the data. *)
BacktestSignal(all, n) ==
  StrategySignal(SubSeq(all, 1, n), <<"UNAVAILABLE">>, MtfAlignment(all, n))

-----------------------------------------------------------------------------

NoReadings == <<"UNAVAILABLE">>

(* A swing is confirmed once: no later candle takes it away or moves it, so *)
(* zones and structure never repaint the past.                              *)
SwingsNeverRepaint ==
  [][/\ ConfirmedSwingLows(candles) \subseteq ConfirmedSwingLows(candles')
     /\ ConfirmedSwingHighs(candles) \subseteq ConfirmedSwingHighs(candles')]_vars

(* The signal the backtest computes at a bar does not depend on the candles *)
(* after it, those of the higher timeframes included.                       *)
BacktestIsCausal ==
  [][\A n \in 1 .. Len(candles) : BacktestSignal(candles', n) = BacktestSignal(candles, n)]_vars

(* The swings whose price lies within a zone, its margins left out. *)
ReactionsOf(z, swings, price) ==
  LET t == AdaptiveZoneTolerance(candles)
  IN  {i \in swings : z.low + t <= price[i] /\ price[i] <= z.high - t}

(* Zones are repeated reactions: a zone spreads over no more than one       *)
(* tolerance besides its margins, all its swings are separated by the gap,  *)
(* none of the swings inside its cluster is lost to the gap, and two zones  *)
(* of a kind share no swing.                                                *)
ZonesAreRepeatedReactions ==
  LET sound(zones, swings, price) ==
        \A z \in zones :
          LET reactions == ReactionsOf(z, swings, price)
          IN  /\ z.high - z.low <= 3 * AdaptiveZoneTolerance(candles)
              /\ z.touches = Cardinality(reactions)
              /\ \A i, j \in reactions : i < j => j - i >= MinGap
              /\ \A y \in zones : y # z => ReactionsOf(y, swings, price) \cap reactions = {}
  IN  /\ sound(FindSupportZones(candles), ConfirmedSwingLows(candles), [i \in DOMAIN candles |-> candles[i].low])
      /\ sound(FindResistanceZones(candles), ConfirmedSwingHighs(candles), [i \in DOMAIN candles |-> candles[i].high])

(* Every signal, of the strategy, the backtest, the worker or the Pages     *)
(* function, has its stop beyond the zone and the zone behind its entry: a  *)
(* trade at the entry reference always has a positive risk.                 *)
SignalHasRisk ==
  candles # <<>> =>
    \A s \in {StrategySignal(candles, NoReadings, "UNAVAILABLE"), PageSignal(candles)} \ {NoSetup} :
      IF s.action = "LONG"
      THEN s.stop <= s.zone.low /\ s.zone.low <= s.zone.high /\ s.zone.high < s.entry
      ELSE s.stop >= s.zone.high /\ s.zone.high >= s.zone.low /\ s.zone.low > s.entry

(* The setups hang together: zones are repeated reactions, and the stop of  *)
(* a signal lies behind its zone.                                           *)
SetupsAreSound == ZonesAreRepeatedReactions /\ SignalHasRisk

(* With the candles it asks for, the two-setup orchestration, which drops   *)
(* broken zones and ranks by distance, decides the direction the strategy   *)
(* of the monitor and the backtest decides.                                 *)
TwoSetupsDecideTheSame(cs) ==
  Len(cs) >= MinTwoSetups =>
    EvaluateTwoSetups(cs, NoReadings).action = StrategySignal(cs, NoReadings, "UNAVAILABLE").action

(* The worker's port decides what the realtime monitor decides on the same  *)
(* candles, readings and forecast, unless it vetoes a direction that a      *)
(* neutral reading leaves without support.                                  *)
NeutralVeto(readings, s) ==
  /\ s # NoSetup
  /\ IndicatorsAllow(readings, s.action)
  /\ ~WorkerIndicatorsAllow(readings, s.action)
  /\ \E i \in DOMAIN readings : readings[i] = "NEUTRAL"

WorkerFollowsMonitor(cs) ==
  \A r \in Readings, f \in Forecasts :
    LET monitor == MonitorSignal(cs, r, f)
    IN  WorkerSignal(cs, r, f) = (IF NeutralVeto(r, monitor) THEN NoSetup ELSE monitor)

(* The implementations of the strategy decide the same at the close of      *)
(* every candle: the orchestration of two setups and the port of the worker *)
(* follow the monitor.                                                      *)
ImplementationsAgree ==
  [][TwoSetupsDecideTheSame(candles') /\ WorkerFollowsMonitor(candles')]_vars
=============================================================================
