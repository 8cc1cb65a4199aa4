----------------------------- MODULE PriceAction -----------------------------
(***************************************************************************)
(* The two price-action setups, as functions of the closed candles:        *)
(* candles.py, timeframe.py, levels_v2.py, market_structure.py,            *)
(* fake_breakout.py, sequence.py, scoring.py, indicator_filter.py,         *)
(* engine.py and the selection of realtime.py.  Prices are integers, a     *)
(* distance that the code computes with floats is rounded down, and a zone *)
(* is known by its kind, its two edges and its touches.  The first candle  *)
(* has index 1.                                                            *)
(***************************************************************************)
EXTENDS Integers, Sequences, FiniteSets, SequencesExt

CONSTANTS
  Strength,      \* strength: candles on each side that confirm a swing
  MinTouches,    \* min_touches of a zone
  MinGap,        \* min_reaction_gap between two touches
  MaxTestAge,    \* max_test_age of a test
  Lookback,      \* lookback of the average range
  RangePct,      \* range_multiplier, in percent
  ConfirmPct,    \* confirmation_multiplier, in percent
  MinZone,       \* min_zone_distance
  MaxZone        \* max_zone_distance

ASSUME PriceActionAssumption ==
  /\ {Strength, MinTouches, MinGap, MaxTestAge, Lookback} \subseteq Nat \ {0}
  /\ {RangePct, ConfirmPct} \subseteq Nat
  /\ MinZone \in Nat /\ MinZone > 1 /\ MaxZone \in Nat /\ MaxZone >= MinZone

Candle == [open : Int, high : Int, low : Int, close : Int]

IsCandle(c) == /\ c \in Candle
               /\ \A p \in {c.open, c.close} : c.low <= p /\ p <= c.high

Least(S)    == CHOOSE x \in S : \A y \in S : x <= y
Greatest(S) == CHOOSE x \in S : \A y \in S : y <= x

-----------------------------------------------------------------------------

(* candle_pressure: the close in the outer 30% of a candle of its colour. *)
CandlePressure(c) ==
  IF c.close > c.open /\ 10 * (c.close - c.low) >= 7 * (c.high - c.low) THEN "BUYING"
  ELSE IF c.close < c.open /\ 10 * (c.close - c.low) <= 3 * (c.high - c.low) THEN "SELLING"
  ELSE "NEUTRAL"

UpperWick(c) == c.high - (IF c.open > c.close THEN c.open ELSE c.close)
LowerWick(c) == (IF c.open < c.close THEN c.open ELSE c.close) - c.low

(* The pressure a direction needs. *)
Pressure(dir) == IF dir = "LONG" THEN "BUYING" ELSE "SELLING"

RejectionPressure(c, dir) ==
  /\ CandlePressure(c) = Pressure(dir)
  /\ IF dir = "LONG" THEN LowerWick(c) >= UpperWick(c) ELSE UpperWick(c) >= LowerWick(c)

(* average_range over the last candles, times a multiplier. *)
ScaledRange(candles, pct) ==
  LET from == IF Len(candles) > Lookback THEN Len(candles) - Lookback + 1 ELSE 1
      sum[k \in from - 1 .. Len(candles)] ==
        IF k < from THEN 0 ELSE sum[k - 1] + candles[k].high - candles[k].low
  IN  IF candles = <<>> THEN 0 ELSE (sum[Len(candles)] * pct) \div (100 * (Len(candles) - from + 1))

AdaptiveZoneTolerance(candles) ==
  Least({MaxZone, Greatest({MinZone, ScaledRange(candles, RangePct)})})

AdaptiveConfirmationBuffer(candles) ==
  Greatest({MinZone \div 2, ScaledRange(candles, ConfirmPct)})

-----------------------------------------------------------------------------

(* A confirmed swing is the only extreme of its window; its window has to   *)
(* be complete.                                                             *)
SwingWindow(i) == i - Strength .. i + Strength

(* Fault: the candles after the swing need not have closed. *)
ConfirmedSwingLowsEarly(candles) ==
  {i \in Strength + 1 .. Len(candles) :
     \A j \in SwingWindow(i) \ {i} : j \in DOMAIN candles => candles[i].low < candles[j].low}

ConfirmedSwingLows(candles) ==
  {i \in Strength + 1 .. Len(candles) - Strength :
     \A j \in SwingWindow(i) \ {i} : candles[i].low < candles[j].low}

ConfirmedSwingHighs(candles) ==
  {i \in Strength + 1 .. Len(candles) - Strength :
     \A j \in SwingWindow(i) \ {i} : candles[i].high > candles[j].high}

(* Fault: a cluster grows from its last price. *)
ClusterAnchorsChained(prices, tolerance) ==
  LET first == {p \in prices : \A q \in prices : q < p => p - q > tolerance}
  IN  [p \in prices |-> Greatest({a \in first : a <= p})]

(* _cluster: a price that is not within the tolerance of the first price of *)
(* a lower cluster is the first of a cluster of its own.  The result maps a *)
(* price to the first price of its cluster.                                 *)
ClusterAnchors(prices, tolerance) ==
  LET first == CHOOSE f \in SUBSET prices :
                 \A p \in prices : p \in f <=> \A a \in f : a < p => p - a > tolerance
  IN  [p \in prices |-> Greatest({a \in first : a <= p})]

(* The swings of a cluster that keep the gap from those kept before. *)
SeparatedReactions(swings) ==
  CHOOSE kept \in SUBSET swings :
    \A i \in swings : i \in kept <=> \A k \in kept : k < i => i - k >= MinGap

(* _build_swing_zones: price gives the reaction price of a swing. *)
BuildSwingZones(swings, price, kind, tolerance) ==
  LET anchors   == ClusterAnchors({price[i] : i \in swings}, tolerance)
      reactions == {SeparatedReactions({i \in swings : anchors[price[i]] = a}) :
                      a \in {anchors[price[i]] : i \in swings}}
  IN  {[kind |-> kind, low |-> Least({price[i] : i \in r}) - tolerance,
        high |-> Greatest({price[i] : i \in r}) + tolerance, touches |-> Cardinality(r)] :
         r \in {r \in reactions : Cardinality(r) >= MinTouches}}

FindSupportZones(candles) ==
  BuildSwingZones(ConfirmedSwingLows(candles), [i \in DOMAIN candles |-> candles[i].low], "SUPPORT",
                  AdaptiveZoneTolerance(candles))

FindResistanceZones(candles) ==
  BuildSwingZones(ConfirmedSwingHighs(candles), [i \in DOMAIN candles |-> candles[i].high], "RESISTANCE",
                  AdaptiveZoneTolerance(candles))

(* analyze_market_structure: the last swings against the ones before. *)
Rises(swings, price) ==
  price[Greatest(swings)] > price[Greatest(swings \ {Greatest(swings)})]

StructureBias(candles) ==
  LET highs == ConfirmedSwingHighs(candles)
      lows  == ConfirmedSwingLows(candles)
      hh    == Rises(highs, [i \in DOMAIN candles |-> candles[i].high])
      hl    == Rises(lows, [i \in DOMAIN candles |-> candles[i].low])
  IN  IF Cardinality(highs) < 2 \/ Cardinality(lows) < 2 THEN "UNKNOWN"
      ELSE IF hh /\ hl THEN "BULLISH"
      ELSE IF ~hh /\ ~hl THEN "BEARISH"
      ELSE "RANGE"

-----------------------------------------------------------------------------

Touches(c, zone) == c.low <= zone.high /\ c.high >= zone.low

(* classify_support_breakout and classify_resistance_breakout. *)
Breakout(c, zone, buffer) ==
  IF zone.kind = "SUPPORT"
  THEN IF c.low >= zone.low THEN "NO_BREAKOUT"
       ELSE IF c.close >= zone.low THEN "FAKE_BREAKOUT"
       ELSE IF c.close <= zone.low - buffer THEN "TRUE_BREAKOUT" ELSE "WAIT"
  ELSE IF c.high <= zone.high THEN "NO_BREAKOUT"
       ELSE IF c.close <= zone.high THEN "FAKE_BREAKOUT"
       ELSE IF c.close >= zone.high + buffer THEN "TRUE_BREAKOUT" ELSE "WAIT"

Direction(zone) == IF zone.kind = "SUPPORT" THEN "LONG" ELSE "SHORT"

ClosesBeyond(c, zone) == IF zone.kind = "SUPPORT" THEN c.close > zone.high ELSE c.close < zone.low

(* A test the zone held: price came back, or was clearly rejected. *)
Held(c, zone, buffer) ==
  \/ Breakout(c, zone, buffer) = "FAKE_BREAKOUT"
  \/ /\ Breakout(c, zone, buffer) = "NO_BREAKOUT"
     /\ ClosesBeyond(c, zone)
     /\ RejectionPressure(c, Direction(zone))

(* The last candle confirms: pressure and a close beyond the zone. *)
Confirms(c, zone) == CandlePressure(c) = Pressure(Direction(zone)) /\ ClosesBeyond(c, zone)

NoSequence == [action |-> "WAIT", state |-> "APPROACH", breakout |-> "NO_BREAKOUT", test |-> 0]

(* evaluate_sequence: the latest candle that tested the zone and either     *)
(* broke it or was held by it decides; others are passed over.              *)
EvaluateSequence(candles, zone) ==
  LET n        == Len(candles)
      buffer   == AdaptiveConfirmationBuffer(Front(candles))
      tests    == {k \in n - MaxTestAge .. n - 1 : k >= 1 /\ Touches(candles[k], zone)}
      deciding == {k \in tests : \/ Breakout(candles[k], zone, buffer) = "TRUE_BREAKOUT"
                                 \/ Held(candles[k], zone, buffer)}
      test     == Greatest(deciding)
      state    == Breakout(candles[test], zone, buffer)
  IN  IF n < 2 \/ deciding = {} THEN NoSequence
      ELSE IF state = "TRUE_BREAKOUT"
      THEN [action |-> "WAIT", state |-> "BROKEN", breakout |-> state, test |-> test]
      ELSE [action |-> IF Confirms(candles[n], zone) THEN Direction(zone) ELSE "WAIT",
            state |-> "CONFIRM", breakout |-> state, test |-> test]

-----------------------------------------------------------------------------

Favourable(dir) == IF dir = "LONG" THEN "BULLISH" ELSE "BEARISH"
Opposite(dir)   == IF dir = "LONG" THEN "BEARISH" ELSE "BULLISH"

(* evaluate_indicator_filter: readings are what the trend, the momentum and *)
(* the MACD say; only three opposing ones veto.                             *)
IndicatorsAllow(readings, dir) == \E i \in DOMAIN readings : readings[i] # Opposite(dir)

(* score_setup. *)
ScoreSetup(dir, touches, bias, breakout, alignment) ==
  Least({25, 5 * touches}) + (IF bias = Favourable(dir) THEN 20 ELSE 0)
  + (IF breakout = "FAKE_BREAKOUT" THEN 25 ELSE 20) + 20
  + (IF alignment = Favourable(dir) THEN 10 ELSE 0)

NoSetup == [action |-> "WAIT"]

ProtectiveStop(zone, history) ==
  LET buffer == AdaptiveConfirmationBuffer(history)
  IN  IF zone.kind = "SUPPORT" THEN zone.low - buffer ELSE zone.high + buffer

(* engine._evaluate of one zone. *)
EvaluateZone(candles, zone, bias, readings, alignment) ==
  LET result == EvaluateSequence(candles, zone)
  IN  IF result.action = "WAIT" \/ ~IndicatorsAllow(readings, result.action) THEN NoSetup
      ELSE [action |-> result.action, zone |-> zone, breakout |-> result.breakout,
            entry |-> Last(candles).close, stop |-> ProtectiveStop(zone, Front(candles)),
            score |-> ScoreSetup(result.action, zone.touches, bias, result.breakout, alignment)]

(* _best_signal: the first of the best scores; zones are in price order. *)
BestSignal(signals) ==
  LET directional == signals \ {NoSetup}
      best        == {s \in directional : \A t \in directional : t.score <= s.score}
  IN  IF directional = {} THEN NoSetup ELSE CHOOSE s \in best : \A t \in best : s.zone.low <= t.zone.low

SelectSignal(long, short) ==
  IF short = NoSetup THEN long
  ELSE IF long = NoSetup THEN short
  ELSE IF long.score > short.score THEN long ELSE short

(* What the strategy says of the last candle: zones and structure come from *)
(* the candles before it.                                                   *)
StrategySignal(candles, readings, alignment) ==
  LET history == Front(candles)
      bias    == StructureBias(history)
      of(zones) == BestSignal({EvaluateZone(candles, z, bias, readings, alignment) : z \in zones})
  IN  SelectSignal(of(FindSupportZones(history)), of(FindResistanceZones(history)))

(* supervise: a signal that is not WAIT passes when it is a clean rejection *)
(* and the forecast is confident and does not point the other way.          *)
SupervisorAllows(signal, forecast) ==
  /\ signal.breakout = "NO_BREAKOUT"
  /\ forecast.confident
  /\ forecast.direction # (IF signal.action = "LONG" THEN "DOWN" ELSE "UP")

(* evaluate_once: what the monitor decides at the close of the last candle. *)
MonitorSignal(candles, readings, forecast) ==
  LET signal == StrategySignal(candles, readings, "UNAVAILABLE")
  IN  IF signal # NoSetup /\ SupervisorAllows(signal, forecast) THEN signal ELSE NoSetup
=============================================================================
