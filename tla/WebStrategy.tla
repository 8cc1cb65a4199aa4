----------------------------- MODULE WebStrategy -----------------------------
(***************************************************************************)
(* The strategy as the web programs compute it: the worker's port          *)
(* (worker/signal_parity.js, signal_parity_v2.js, indicators.js) and the   *)
(* Pages function (Webaria/functions/api/signal.js).  Where a port walks   *)
(* a list, so does its operator here.                                      *)
(***************************************************************************)
EXTENDS PriceAction

CONSTANT
  MinPageCandles   \* candles evaluatePriceAction asks for

ASSUME WebStrategyAssumption == MinPageCandles \in Nat \ {0}

-----------------------------------------------------------------------------

(* confirmedSwingLows, confirmedSwingHighs: a candle of the window as far   *)
(* out as the middle one ends the check.                                    *)
WorkerSwingLows(candles) ==
  {i \in Strength + 1 .. Len(candles) - Strength :
     ~\E j \in SwingWindow(i) \ {i} : candles[j].low <= candles[i].low}

WorkerSwingHighs(candles) ==
  {i \in Strength + 1 .. Len(candles) - Strength :
     ~\E j \in SwingWindow(i) \ {i} : candles[j].high >= candles[i].high}

(* A walk up the numbers of S: the one that was opened last when it comes   *)
(* to x, which opens itself when it is the first or gap above that one.     *)
OpenedLast(S, gap) ==
  LET below(x) == {y \in S : y < x}
      opened[x \in S] ==
        IF below(x) = {} \/ x - opened[Greatest(below(x))] >= gap THEN x
        ELSE opened[Greatest(below(x))]
  IN  opened

(* cluster: a price more than the tolerance above the first of the last     *)
(* cluster begins a new one.  The result maps a price to that first one.    *)
WorkerCluster(prices, tolerance) == OpenedLast(prices, tolerance + 1)

(* buildSwingZones: of a cluster the swings a gap after the last selected.  *)
WorkerZones(swings, price, kind, tolerance) ==
  LET cluster == WorkerCluster({price[i] : i \in swings}, tolerance)
      selected(listed) == {i \in listed : OpenedLast(listed, MinGap)[i] = i}
      selections == {selected({i \in swings : cluster[price[i]] = a}) :
                       a \in {cluster[price[i]] : i \in swings}}
  IN  {[kind |-> kind, low |-> Least({price[i] : i \in r}) - tolerance,
        high |-> Greatest({price[i] : i \in r}) + tolerance, touches |-> Cardinality(r)] :
         r \in {r \in selections : Cardinality(r) >= MinTouches}}

(* analyzeMarketStructure: a swing is HH or HL when it is the first or      *)
(* above the one before it, and the last swings tell the bias.              *)
WorkerStructure(candles) ==
  LET highs == WorkerSwingHighs(candles)
      lows  == WorkerSwingLows(candles)
      before(swings, i) == {j \in swings : j < i}
      hh(i) == before(highs, i) = {} \/ candles[i].high > candles[Greatest(before(highs, i))].high
      hl(i) == before(lows, i) = {} \/ candles[i].low > candles[Greatest(before(lows, i))].low
  IN  IF Cardinality(highs) < 2 \/ Cardinality(lows) < 2 THEN "UNKNOWN"
      ELSE IF hh(Greatest(highs)) /\ hl(Greatest(lows)) THEN "BULLISH"
      ELSE IF ~hh(Greatest(highs)) /\ ~hl(Greatest(lows)) THEN "BEARISH"
      ELSE "RANGE"

(* evaluateSequence: the candles are tried from the last but one back. *)
WorkerSequence(candles, zone) ==
  LET n      == Len(candles)
      buffer == AdaptiveConfirmationBuffer(Front(candles))
      first  == IF n - MaxTestAge > 1 THEN n - MaxTestAge ELSE 1
      found(state, action, breakout, k) ==
        [action |-> action, state |-> state, breakout |-> breakout, test |-> k]
      from[k \in 0 .. n - 1] ==
        IF k < first THEN NoSequence
        ELSE LET breakout  == Breakout(candles[k], zone, buffer)
                 reclaim   == breakout = "FAKE_BREAKOUT"
                 rejection == /\ breakout = "NO_BREAKOUT"
                              /\ ClosesBeyond(candles[k], zone)
                              /\ RejectionPressure(candles[k], Direction(zone))
             IN  IF ~Touches(candles[k], zone) THEN from[k - 1]
                 ELSE IF breakout = "TRUE_BREAKOUT" THEN found("BROKEN", "WAIT", breakout, k)
                 ELSE IF breakout = "WAIT" \/ ~(reclaim \/ rejection) THEN from[k - 1]
                 ELSE IF CandlePressure(candles[n]) # Pressure(Direction(zone))
                      THEN found("CONFIRM", "WAIT", breakout, k)
                 ELSE IF ~ClosesBeyond(candles[n], zone)
                      THEN found("CONFIRM", "WAIT", breakout, k)
                 ELSE found("CONFIRM", Direction(zone), breakout, k)
  IN  IF n < 2 THEN NoSequence ELSE from[n - 1]

(* bestSignal: the candidate that comes first when those in price order are *)
(* sorted by score.                                                         *)
WorkerBest(candidates) ==
  LET before(a, b) == a.score > b.score \/ (a.score = b.score /\ a.zone.low < b.zone.low)
  IN  IF candidates = {} THEN NoSetup
      ELSE CHOOSE a \in candidates : \A b \in candidates \ {a} : before(a, b)

WorkerCandidates(candles, zones, bias) ==
  {[action |-> Direction(z), zone |-> z, breakout |-> WorkerSequence(candles, z).breakout,
    entry |-> Last(candles).close, stop |-> ProtectiveStop(z, Front(candles)),
    score |-> ScoreSetup(Direction(z), z.touches, bias, WorkerSequence(candles, z).breakout,
                         "UNAVAILABLE")] :
     z \in {z \in zones : WorkerSequence(candles, z).action # "WAIT"}}

(* indicatorContext: with all readings there, a direction none of them      *)
(* supports is opposed.                                                     *)
WorkerIndicatorsAllow(readings, dir) ==
  \/ \E i \in DOMAIN readings : readings[i] = "UNAVAILABLE"
  \/ \E i \in DOMAIN readings : readings[i] = Favourable(dir)

(* evaluateRealtimeSignalParity: the supervisor, then the indicators. *)
WorkerSignal(candles, readings, forecast) ==
  LET history   == Front(candles)
      tolerance == AdaptiveZoneTolerance(history)
      bias      == WorkerStructure(history)
      supports    == WorkerZones(WorkerSwingLows(history), [i \in DOMAIN history |-> history[i].low],
                                 "SUPPORT", tolerance)
      resistances == WorkerZones(WorkerSwingHighs(history), [i \in DOMAIN history |-> history[i].high],
                                 "RESISTANCE", tolerance)
      long   == WorkerBest(WorkerCandidates(candles, supports, bias))
      short  == WorkerBest(WorkerCandidates(candles, resistances, bias))
      signal == SelectSignal(long, short)
  IN  IF /\ signal # NoSetup
         /\ SupervisorAllows(signal, forecast)
         /\ WorkerIndicatorsAllow(readings, signal.action)
      THEN signal ELSE NoSetup

-----------------------------------------------------------------------------

(* buildZones of the Pages function: no gap between the touches. *)
PageZones(swings, price, kind, tolerance) ==
  LET anchors == ClusterAnchors({price[i] : i \in swings}, tolerance)
      clusters == {{i \in swings : anchors[price[i]] = a} : a \in {anchors[price[i]] : i \in swings}}
  IN  {[kind |-> kind, low |-> Least({price[i] : i \in c}) - tolerance,
        high |-> Greatest({price[i] : i \in c}) + tolerance, touches |-> Cardinality(c)] :
         c \in {c \in clusters : Cardinality(c) >= MinTouches}}

(* marketStructure: an equal swing is neither higher nor lower. *)
PageStructure(candles) ==
  LET highs == ConfirmedSwingHighs(candles)
      lows  == ConfirmedSwingLows(candles)
      step(swings, price) == price[Greatest(swings)]
                                - price[Greatest(swings \ {Greatest(swings)})]
      high  == step(highs, [i \in DOMAIN candles |-> candles[i].high])
      low   == step(lows, [i \in DOMAIN candles |-> candles[i].low])
  IN  IF Cardinality(highs) < 2 \/ Cardinality(lows) < 2 THEN "UNKNOWN"
      ELSE IF high > 0 /\ low > 0 THEN "BULLISH"
      ELSE IF high < 0 /\ low < 0 THEN "BEARISH"
      ELSE "RANGE"

(* nearestZone: among the zones whose centre is on the right side. *)
PageNearest(zones, price) ==
  LET centre(z) == (z.low + z.high) \div 2
      distance(z) == IF centre(z) < price THEN price - centre(z) ELSE centre(z) - price
      near == {z \in zones : IF z.kind = "SUPPORT" THEN centre(z) <= price ELSE centre(z) >= price}
  IN  {z \in near : \A y \in near : \/ distance(z) < distance(y)
                                    \/ distance(z) = distance(y) /\ z.low <= y.low}

(* evaluateDirection: a break ends the search, a pierce needs a close       *)
(* beyond the zone to count as fake.                                        *)
PageSequence(candles, zone, buffer) ==
  LET n        == Len(candles)
      long     == zone.kind = "SUPPORT"
      pierced(c) == IF long THEN c.low < zone.low ELSE c.high > zone.high
      broken(c)  == IF long THEN c.close < zone.low - buffer ELSE c.close > zone.high + buffer
      held(c)    == ClosesBeyond(c, zone) /\ (pierced(c) \/ RejectionPressure(c, Direction(zone)))
      deciding == {k \in n - MaxTestAge .. n - 1 :
                     k >= 1 /\ Touches(candles[k], zone) /\ (broken(candles[k]) \/ held(candles[k]))}
      test     == candles[Greatest(deciding)]
  IN  [action   |-> IF deciding # {} /\ ~broken(test) /\ Confirms(candles[n], zone)
                    THEN Direction(zone) ELSE "WAIT",
       breakout |-> IF deciding = {} \/ ~pierced(test) THEN "NO_BREAKOUT" ELSE "FAKE_BREAKOUT"]

(* evaluatePriceAction: the nearest zone of the side the structure favours. *)
PageSignal(candles) ==
  LET range     == ScaledRange(candles, 100)
      tolerance == Greatest({range \div 2, 1})
      buffer    == Greatest({range \div 5, tolerance \div 5})
      bias      == PageStructure(candles)
      supports    == PageZones(ConfirmedSwingLows(candles), [i \in DOMAIN candles |-> candles[i].low],
                               "SUPPORT", tolerance)
      resistances == PageZones(ConfirmedSwingHighs(candles), [i \in DOMAIN candles |-> candles[i].high],
                               "RESISTANCE", tolerance)
      zones  == PageNearest(IF bias = "BULLISH" THEN supports
                            ELSE IF bias = "BEARISH" THEN resistances ELSE {}, Last(candles).close)
      signals == {[action |-> PageSequence(candles, z, buffer).action, zone |-> z,
                   breakout |-> PageSequence(candles, z, buffer).breakout,
                   entry |-> Last(candles).close,
                   stop |-> IF z.kind = "SUPPORT" THEN z.low - buffer ELSE z.high + buffer,
                   score |-> ScoreSetup(Direction(z), z.touches, bias,
                               PageSequence(candles, z, buffer).breakout, "UNAVAILABLE")] : z \in zones}
      passed == {s \in signals : s.action # "WAIT" /\ s.score >= 60}
  IN  IF Len(candles) < MinPageCandles \/ passed = {} THEN NoSetup ELSE CHOOSE s \in passed : TRUE
=============================================================================
