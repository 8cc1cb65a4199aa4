--------------------------- MODULE MCStrategyBars ----------------------------
EXTENDS StrategyBars

Bar(o, h, l, c) == [open |-> o, high |-> h, low |-> l, close |-> c]

(* Around the prices 0 and 12: a rejection of the lower one, a rise from    *)
(* it, a spring below it, a break of it; the mirror images at the upper.    *)
Reject  == Bar(6, 10, 0, 9)
Rise    == Bar(6, 15, 5, 14)
Spring  == Bar(2, 4, -8, 3)
Break   == Bar(3, 4, -10, -9)
RejectM == Bar(6, 12, 2, 3)
RiseM   == Bar(6, 7, -3, -2)
SpringM == Bar(10, 20, 8, 9)
BreakM  == Bar(9, 22, 8, 21)

MCCandles == {Reject, Rise, Spring, Break, RejectM, RiseM, SpringM, BreakM}

Higher(c, d) == Bar(c.open + d, c.high + d, c.low + d, c.close + d)
Mirrored(h)  == [k \in DOMAIN h |-> Bar(12 - h[k].open, 12 - h[k].low, 12 - h[k].high, 12 - h[k].close)]

(* Two touches of one support; then in an up trend; three touches that      *)
(* climb; two supports next to each other; an up trend that the bars of two *)
(* candles show too.                                                        *)
TwoTouches == <<Rise, Reject, Rise, Reject, Rise>>
UpTrend    == <<Rise, Reject, Rise, Higher(Reject, 3), Higher(Rise, 3)>>
Climb      == <<Rise, Reject, Rise, Higher(Reject, 3), Higher(Rise, 4), Higher(Reject, 6), Higher(Rise, 6)>>
TwoZones   == <<Rise, Reject, Higher(Rise, 3), Higher(Reject, 5), Higher(Rise, 3), Reject,
                Higher(Rise, 3), Higher(Reject, 5), Higher(Rise, 3)>>
LongTrend  == <<Rise, Rise, Reject, Higher(Reject, 1), Rise, Rise, Higher(Reject, 3),
                Higher(Reject, 4), Higher(Rise, 3), Higher(Rise, 3)>>

MCHistories == {TwoTouches, UpTrend, Climb, TwoZones, LongTrend}
MCOpenings  == MCHistories \cup {Mirrored(h) : h \in MCHistories}

(* The filters only count readings: one order of each combination. *)
Told == <<"BULLISH", "BEARISH", "NEUTRAL", "UNAVAILABLE">>
MCReadings == {<<Told[a], Told[b], Told[c]>> : <<a, b, c>> \in
                 {t \in (1 .. 4) \X (1 .. 4) \X (1 .. 4) : t[1] <= t[2] /\ t[2] <= t[3]}}
MCForecasts == [direction : {"UP", "FLAT", "DOWN"}, confident : BOOLEAN]
MCSpans == <<2>>
=============================================================================
