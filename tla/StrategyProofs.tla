--------------------------- MODULE StrategyProofs ---------------------------
(***************************************************************************)
(* Proofs about StrategyBars for every history, every market and every     *)
(* parameter of the strategy: what is known of the past stays as it was,   *)
(* zones are repeated reactions, every signal has its stop behind its      *)
(* zone, and the implementations of the strategy decide the same.          *)
(***************************************************************************)
EXTENDS StrategyBars, SequenceTheorems, FiniteSetTheorems, WellFoundedInduction, TLAPS

CandlesOK == candles \in Seq(Candle)

(* A step adds one candle to those there are, or none. *)
LEMMA OneMoreCandle ==
  ASSUME CandlesOK, [Next]_vars
  PROVE  candles' = candles \/ \E c \in Candle : candles' = Append(candles, c)
  <1>1. CASE UNCHANGED vars
    BY <1>1 DEF vars
  <1>2. ASSUME NEW c \in Candles, CloseCandle(c)
        PROVE  c \in Candle /\ candles' = Append(candles, c)
    BY <1>2, StrategyBarsAssumption DEF CloseCandle, IsCandle
  <1>3. QED BY <1>1, <1>2 DEF Next

(* Histories and candles are what they are assumed to be. *)
LEMMA CandlesInvariant == Spec => []CandlesOK
  <1>1. Init => CandlesOK
    BY StrategyBarsAssumption DEF Init, CandlesOK
  <1>2. CandlesOK /\ [Next]_vars => CandlesOK'
    <2> SUFFICES ASSUME CandlesOK, [Next]_vars
                 PROVE  CandlesOK'
      OBVIOUS
    <2>1. QED BY OneMoreCandle DEF CandlesOK
  <1>3. QED BY <1>1, <1>2, PTL DEF Spec

(* It leaves the old ones where they are. *)
LEMMA OldCandlesStay ==
  ASSUME CandlesOK, [Next]_vars
  PROVE  /\ candles' \in Seq(Candle)
         /\ Len(candles) \in Nat /\ Len(candles') \in Nat
         /\ Len(candles) <= Len(candles')
         /\ \A k \in 1 .. Len(candles) : candles'[k] = candles[k]
  BY OneMoreCandle DEF CandlesOK

(* A swing is confirmed once and for all: no later candle takes it away,   *)
(* for any number of candles on each side that confirm it.                 *)
THEOREM ConfirmedSwingsStay == Spec => SwingsNeverRepaint
  <1>1. ASSUME CandlesOK, [Next]_vars
        PROVE  /\ ConfirmedSwingLows(candles) \subseteq ConfirmedSwingLows(candles')
               /\ ConfirmedSwingHighs(candles) \subseteq ConfirmedSwingHighs(candles')
    <2>1. Strength \in Nat
      BY PriceActionAssumption
    <2>2. ASSUME NEW i \in Strength + 1 .. Len(candles) - Strength
          PROVE  /\ i \in Strength + 1 .. Len(candles') - Strength
                 /\ candles'[i] = candles[i]
                 /\ \A j \in SwingWindow(i) : candles'[j] = candles[j]
      BY <1>1, <2>1, OldCandlesStay DEF SwingWindow
    <2>3. QED BY <2>2 DEF ConfirmedSwingLows, ConfirmedSwingHighs
  <1>2. CandlesOK /\ [Next]_vars =>
          [/\ ConfirmedSwingLows(candles) \subseteq ConfirmedSwingLows(candles')
           /\ ConfirmedSwingHighs(candles) \subseteq ConfirmedSwingHighs(candles')]_vars
    BY <1>1
  <1>3. QED BY <1>2, CandlesInvariant, PTL DEF Spec, SwingsNeverRepaint

-----------------------------------------------------------------------------

(* Two histories that agree on their first n candles have the same prefix. *)
LEMMA SamePrefix ==
  ASSUME NEW s, NEW t, NEW n \in Nat, \A i \in 1 .. n : s[i] = t[i]
  PROVE  SubSeq(s, 1, n) = SubSeq(t, 1, n)
  <1> DEFINE S == {s[i] : i \in 1 .. n}
  <1> HIDE DEF S
  <1>1. \A i \in 1 .. n : s[i] \in S /\ t[i] \in S
    BY DEF S
  <1>2. /\ SubSeq(s, 1, n) \in Seq(S) /\ SubSeq(t, 1, n) \in Seq(S)
        /\ Len(SubSeq(s, 1, n)) = Len(SubSeq(t, 1, n))
        /\ Len(SubSeq(s, 1, n)) = n
        /\ \A i \in 1 .. n : SubSeq(s, 1, n)[i] = s[i] /\ SubSeq(t, 1, n)[i] = t[i]
    BY <1>1, SubSeqProperties
  <1>3. QED BY <1>2, SeqEqual

(* The bars of s candles that are over at candle n end there or before. *)
LEMMA GroupsEnd ==
  ASSUME NEW n \in Nat, NEW s \in Nat \ {0}, NEW g \in 1 .. n \div s
  PROVE  /\ (g - 1) * s \in Nat
         /\ g * s = (g - 1) * s + s
         /\ g * s <= n
  OBVIOUS

(* There are at least as many bars as are over. *)
LEMMA ClosedBarsExist ==
  ASSUME NEW n \in Nat, NEW m \in Nat, NEW s \in Nat \ {0}, n <= m
  PROVE  n \div s \in Nat /\ n \div s <= (m + s - 1) \div s
  OBVIOUS

(* The extremes of a range of numbers. *)
LEMMA ExtremesOfRange ==
  ASSUME NEW lo \in Int, NEW hi \in Int, lo <= hi
  PROVE  Least(lo .. hi) = lo /\ Greatest(lo .. hi) = hi
  BY DEF Least, Greatest

(* What a bar of a higher timeframe is made of. *)
Group(all, span, g) == {k \in DOMAIN all : (g - 1) * span < k /\ k <= g * span}

GroupBar(all, G) ==
  [open |-> all[Least(G)].open, close |-> all[Greatest(G)].close,
   high |-> Greatest({all[k].high : k \in G}),
   low  |-> Least({all[k].low : k \in G})]

(* Longer a by any candles: the higher bars that are over at candle n do   *)
(* not change, the ones that are not are not used.                         *)
LEMMA HigherBarsStay ==
  ASSUME NEW a \in Seq(Candle), NEW b \in Seq(Candle), Len(a) <= Len(b),
         \A k \in 1 .. Len(a) : b[k] = a[k],
         NEW n \in 0 .. Len(a), NEW s \in Nat \ {0}
  PROVE  ClosedCandlesAt(HigherBars(b, s), s, n) = ClosedCandlesAt(HigherBars(a, s), s, n)
  <1>1. n \in Nat /\ Len(a) \in Nat /\ Len(b) \in Nat /\ n <= Len(a) /\ n <= Len(b)
    OBVIOUS
  <1>2. n \div s \in Nat
    BY <1>1, ClosedBarsExist
  <1>3. ASSUME NEW g \in 1 .. n \div s
        PROVE  HigherBars(b, s)[g] = HigherBars(a, s)[g]
    <2> DEFINE lo == (g - 1) * s
               hi == g * s
    <2> HIDE DEF lo, hi
    <2>1. lo \in Nat /\ hi = lo + s /\ hi <= n /\ g \in Nat
      <3>1. (g - 1) * s \in Nat /\ g * s = (g - 1) * s + s /\ g * s <= n
        BY <1>1, <1>3, GroupsEnd
      <3>2. lo \in Nat /\ hi = lo + s /\ hi <= n
        BY <3>1, Zenon DEF lo, hi
      <3>3. g \in Nat
        BY <1>2
      <3>4. QED BY <3>2, <3>3
    <2>2. g \in 1 .. (Len(a) + s - 1) \div s /\ g \in 1 .. (Len(b) + s - 1) \div s
      BY <1>1, <1>2, <2>1, ClosedBarsExist
    <2>3. HigherBars(a, s)[g] = GroupBar(a, Group(a, s, g))
      BY <2>2 DEF HigherBars, GroupBar, Group
    <2>4. HigherBars(b, s)[g] = GroupBar(b, Group(b, s, g))
      BY <2>2 DEF HigherBars, GroupBar, Group
    <2>5. Group(a, s, g) = lo + 1 .. hi /\ Group(b, s, g) = lo + 1 .. hi
      BY <1>1, <2>1 DEF Group, lo, hi
    <2>6. \A k \in lo + 1 .. hi : b[k] = a[k]
      BY <1>1, <2>1
    <2>7. Least(lo + 1 .. hi) = lo + 1 /\ Greatest(lo + 1 .. hi) = hi
      BY <2>1, ExtremesOfRange
    <2>8. b[lo + 1] = a[lo + 1] /\ b[hi] = a[hi]
      <3>1. lo + 1 \in lo + 1 .. hi /\ hi \in lo + 1 .. hi
        BY <2>1
      <3>2. QED BY <2>6, <3>1, Zenon
    <2>9. /\ {b[k].high : k \in lo + 1 .. hi} = {a[k].high : k \in lo + 1 .. hi}
          /\ {b[k].low : k \in lo + 1 .. hi} = {a[k].low : k \in lo + 1 .. hi}
      BY <2>6
    <2>10. QED BY <2>3, <2>4, <2>5, <2>7, <2>8, <2>9 DEF GroupBar
  <1>4. QED BY <1>2, <1>3, SamePrefix DEF ClosedCandlesAt

(* The signal of the backtest at a candle is a function of the candles up  *)
(* to it: no candle that closes later changes it, whatever the spans of    *)
(* the higher timeframes are.                                              *)
THEOREM BacktestLooksNotAhead == Spec => BacktestIsCausal
  <1>1. ASSUME CandlesOK, [Next]_vars, NEW n \in 1 .. Len(candles)
        PROVE  BacktestSignal(candles', n) = BacktestSignal(candles, n)
    <2>1. /\ n \in Nat
          /\ \A i \in 1 .. n : candles'[i] = candles[i]
      BY <1>1, OldCandlesStay
    <2>2. SubSeq(candles', 1, n) = SubSeq(candles, 1, n)
      BY <2>1, SamePrefix
    <2>3. ClosedCandlesAt(candles', 1, n) = ClosedCandlesAt(candles, 1, n)
      <3>1. n \div 1 = n
        BY <2>1
      <3>2. QED BY <2>2, <3>1 DEF ClosedCandlesAt
    <2>4. ASSUME NEW i \in DOMAIN Spans
          PROVE  ClosedCandlesAt(HigherBars(candles', Spans[i]), Spans[i], n)
                   = ClosedCandlesAt(HigherBars(candles, Spans[i]), Spans[i], n)
      <3>1. Spans[i] \in Nat \ {0}
        BY StrategyBarsAssumption
      <3>2. candles \in Seq(Candle)
        BY <1>1 DEF CandlesOK
      <3>3. n \in 0 .. Len(candles)
        BY <1>1, OldCandlesStay
      <3>4. QED BY <1>1, <3>1, <3>2, <3>3, OldCandlesStay, HigherBarsStay
    <2>5. MtfAlignment(candles', n) = MtfAlignment(candles, n)
      BY <2>3, <2>4 DEF MtfAlignment
    <2>6. QED BY <2>2, <2>5 DEF BacktestSignal
  <1>2. CandlesOK /\ [Next]_vars =>
          [\A n \in 1 .. Len(candles) :
             BacktestSignal(candles', n) = BacktestSignal(candles, n)]_vars
    BY <1>1
  <1>3. QED BY <1>2, CandlesInvariant, PTL DEF Spec, BacktestIsCausal

-----------------------------------------------------------------------------
(* Sets of numbers within bounds have a least and a greatest one.           *)

LEMMA Induction ==
  ASSUME NEW S, 0 \in S, \A n \in Nat : n \in S => n + 1 \in S
  PROVE  Nat \subseteq S
  <1> DEFINE T == Nat \ S
  <1> SUFFICES ASSUME T # {} PROVE FALSE
    OBVIOUS
  <1>1. PICK x \in T : \A y \in T : ~ (<<y, x>> \in OpToRel(<, Nat))
    BY WFMin, NatLessThanWellFounded
  <1>2. x \in Nat /\ x # 0 /\ x - 1 \in Nat
    OBVIOUS
  <1>3. <<x - 1, x>> \in OpToRel(<, Nat)
    BY <1>2 DEF OpToRel
  <1>4. x - 1 \in S
    BY <1>1, <1>2, <1>3
  <1>5. QED BY <1>2, <1>4

LEMMA LeastNumber ==
  ASSUME NEW T \in SUBSET Nat, T # {}
  PROVE  \E i \in T : \A j \in T : i <= j
  <1>1. PICK i \in T : \A j \in T : ~(<<j, i>> \in OpToRel(<, Nat))
    BY NatLessThanWellFounded, WFMin
  <1>2. \A j \in T : ~(j < i)
    BY <1>1 DEF OpToRel
  <1>3. QED BY <1>2

LEMMA LeastIs ==
  ASSUME NEW S \in SUBSET Int, S # {}, NEW lo \in Int, \A x \in S : lo <= x
  PROVE  Least(S) \in S /\ \A y \in S : Least(S) <= y
  <1> DEFINE T == {x - lo : x \in S}
  <1>1. T \in SUBSET Nat /\ T # {}
    <2>1. \A x \in S : x - lo \in Nat
      OBVIOUS
    <2>2. QED BY <2>1
  <1>2. PICK i \in T : \A j \in T : i <= j
    <2> HIDE DEF T
    <2>1. QED BY <1>1, LeastNumber
  <1>3. PICK x \in S : i = x - lo
    OBVIOUS
  <1>4. \A y \in S : x <= y
    <2>1. SUFFICES ASSUME NEW y \in S PROVE x <= y
      OBVIOUS
    <2>2. y - lo \in T
      OBVIOUS
    <2>3. i <= y - lo
      BY <1>2, <2>2
    <2>4. QED BY <1>3, <2>3
  <1>5. QED BY <1>4, Zenon DEF Least

LEMMA GreatestIs ==
  ASSUME NEW S \in SUBSET Int, S # {}, NEW hi \in Int, \A x \in S : x <= hi
  PROVE  Greatest(S) \in S /\ \A y \in S : y <= Greatest(S)
  <1> DEFINE T == {hi - x : x \in S}
  <1>1. T \in SUBSET Nat /\ T # {}
    <2>1. \A x \in S : hi - x \in Nat
      OBVIOUS
    <2>2. QED BY <2>1
  <1>2. PICK i \in T : \A j \in T : i <= j
    <2> HIDE DEF T
    <2>1. QED BY <1>1, LeastNumber
  <1>3. PICK x \in S : i = hi - x
    OBVIOUS
  <1>4. \A y \in S : y <= x
    <2>1. SUFFICES ASSUME NEW y \in S PROVE y <= x
      OBVIOUS
    <2>2. hi - y \in T
      OBVIOUS
    <2>3. i <= hi - y
      BY <1>2, <2>2
    <2>4. QED BY <1>3, <2>3
  <1>5. QED BY <1>4, Zenon DEF Greatest

LEMMA LeastOfPair ==
  ASSUME NEW a \in Int, NEW b \in Int
  PROVE  Least({a, b}) \in {a, b} /\ Least({a, b}) <= a /\ Least({a, b}) <= b
  <1>1. {a, b} \in SUBSET Int /\ {a, b} # {}
    OBVIOUS
  <1>2. \E lo \in Int : \A x \in {a, b} : lo <= x
    OBVIOUS
  <1>3. Least({a, b}) \in {a, b} /\ \A y \in {a, b} : Least({a, b}) <= y
    BY <1>1, <1>2, LeastIs
  <1>4. QED BY <1>3

LEMMA GreatestOfPair ==
  ASSUME NEW a \in Int, NEW b \in Int
  PROVE  Greatest({a, b}) \in {a, b} /\ a <= Greatest({a, b}) /\ b <= Greatest({a, b})
  <1>1. {a, b} \in SUBSET Int /\ {a, b} # {}
    OBVIOUS
  <1>2. \E hi \in Int : \A x \in {a, b} : x <= hi
    OBVIOUS
  <1>3. Greatest({a, b}) \in {a, b} /\ \A y \in {a, b} : y <= Greatest({a, b})
    BY <1>1, <1>2, GreatestIs
  <1>4. QED BY <1>3

(* The numbers of a table have bounds. *)
Within(f, n, lo, hi) == \A i \in 1 .. n : lo <= f[i] /\ f[i] <= hi

LEMMA BoundsExist ==
  ASSUME NEW m \in Nat, NEW f, \A i \in 1 .. m : f[i] \in Int
  PROVE  \E lo \in Int, hi \in Int : Within(f, m, lo, hi)
  <1> DEFINE S == {n \in Nat : n <= m => \E lo \in Int, hi \in Int : Within(f, n, lo, hi)}
  <1>1. 0 \in S
    BY DEF Within
  <1>2. ASSUME NEW n \in Nat, n \in S
        PROVE  n + 1 \in S
    <2> SUFFICES ASSUME n + 1 <= m PROVE \E lo \in Int, hi \in Int : Within(f, n + 1, lo, hi)
      OBVIOUS
    <2>1. PICK lo \in Int, hi \in Int : Within(f, n, lo, hi)
      BY <1>2
    <2>2. f[n + 1] \in Int
      OBVIOUS
    <2> DEFINE l == IF f[n + 1] < lo THEN f[n + 1] ELSE lo
               h == IF f[n + 1] > hi THEN f[n + 1] ELSE hi
    <2>3. l \in Int /\ h \in Int
      BY <2>2
    <2>4. \A i \in 1 .. n + 1 : i \in 1 .. n \/ i = n + 1
      OBVIOUS
    <2>5. Within(f, n + 1, l, h)
      BY <2>1, <2>2, <2>4 DEF Within
    <2>6. QED BY <2>3, <2>5
  <1>3. Nat \subseteq S
    <2> HIDE DEF S
    <2>1. QED BY <1>1, <1>2, Induction
  <1>4. QED BY <1>3

-----------------------------------------------------------------------------
(* The average range.                                                       *)

RangeSums(g, s, from, n) ==
  /\ g \in [from - 1 .. n -> Int]
  /\ \A k \in from - 1 .. n :
       g[k] = IF k < from THEN 0 ELSE g[k - 1] + s[k].high - s[k].low

(* The function that sums exists because it does for every prefix. *)
LEMMA RangeSumsExist ==
  ASSUME NEW s \in Seq(Candle), NEW from \in Nat \ {0}, from <= Len(s) + 1
  PROVE  \E g : RangeSums(g, s, from, Len(s))
  <1> DEFINE S == {n \in Nat : from - 1 + n <= Len(s) => \E g : RangeSums(g, s, from, from - 1 + n)}
  <1>1. 0 \in S
    <2>1. RangeSums([k \in from - 1 .. from - 1 |-> 0], s, from, from - 1)
      BY DEF RangeSums
    <2>2. QED BY <2>1
  <1>2. ASSUME NEW n \in Nat, n \in S
        PROVE  n + 1 \in S
    <2> DEFINE m == from - 1 + n
    <2> SUFFICES ASSUME m + 1 <= Len(s) PROVE \E g : RangeSums(g, s, from, m + 1)
      OBVIOUS
    <2>1. PICK g : RangeSums(g, s, from, m)
      BY <1>2
    <2>2. s[m + 1].high \in Int /\ s[m + 1].low \in Int
      <3>1. m + 1 \in 1 .. Len(s)
        OBVIOUS
      <3>2. s[m + 1] \in Candle
        BY <3>1
      <3>3. QED BY <3>2 DEF Candle
    <2> DEFINE h == [k \in from - 1 .. m + 1 |->
                       IF k <= m THEN g[k] ELSE g[m] + s[m + 1].high - s[m + 1].low]
    <2>3. RangeSums(h, s, from, m + 1)
      BY <2>1, <2>2 DEF RangeSums
    <2>4. QED BY <2>3
  <1>3. Nat \subseteq S
    <2> HIDE DEF S
    <2>1. QED BY <1>1, <1>2, Induction
  <1> DEFINE n == Len(s) - from + 1
  <1>4. n \in Nat /\ from - 1 + n = Len(s) /\ from - 1 + n <= Len(s)
    OBVIOUS
  <1>5. n \in S
    <2> HIDE DEF S, n
    <2>1. QED BY <1>3, <1>4
  <1>6. \E g : RangeSums(g, s, from, from - 1 + n)
    BY <1>4, <1>5, Zenon
  <1>7. QED
    <2> HIDE DEF n
    <2>1. QED BY <1>4, <1>6, Zenon

(* A part of an average is an integer. *)
LEMMA QuotientType ==
  ASSUME NEW x \in Int, NEW y \in Nat \ {0}
  PROVE  x \div y \in Int
  OBVIOUS

LEMMA ProductIsInt ==
  ASSUME NEW x \in Int, NEW y \in Int
  PROVE  x * y \in Int
  OBVIOUS

LEMMA ScaledRangeType ==
  ASSUME NEW s \in Seq(Candle), NEW pct \in Nat
  PROVE  ScaledRange(s, pct) \in Int
  <1> DEFINE from == IF Len(s) > Lookback THEN Len(s) - Lookback + 1 ELSE 1
             step(g) == [k \in from - 1 .. Len(s) |->
                           IF k < from THEN 0 ELSE g[k - 1] + s[k].high - s[k].low]
             sum == CHOOSE g : g = step(g)
  <1>1. /\ Lookback \in Nat \ {0} /\ Len(s) \in Nat
        /\ from \in Nat \ {0} /\ from <= Len(s) + 1
        /\ s # <<>> => from <= Len(s)
    BY PriceActionAssumption
  <1>2. PICK g : RangeSums(g, s, from, Len(s))
    <2> HIDE DEF from
    <2>1. QED BY <1>1, RangeSumsExist
  <1>3. sum = step(sum)
    <2>1. g = step(g)
      <3> HIDE DEF from
      <3>1. QED BY <1>2 DEF RangeSums
    <2>2. QED BY <2>1
  <1>4. \A k \in from - 1 .. Len(s) : sum[k] = g[k]
    <2> HIDE DEF sum, from
    <2> DEFINE S == {n \in Nat : from - 1 + n <= Len(s) => sum[from - 1 + n] = g[from - 1 + n]}
    <2>1. 0 \in S
      BY <1>1, <1>2, <1>3 DEF RangeSums
    <2>2. ASSUME NEW n \in Nat, n \in S
          PROVE  n + 1 \in S
      <3> DEFINE m == from - 1 + n
      <3> SUFFICES ASSUME m + 1 <= Len(s) PROVE sum[m + 1] = g[m + 1]
        BY <1>1
      <3>1. /\ sum[m] = g[m] /\ m \in Nat /\ m + 1 \in from - 1 .. Len(s)
            /\ ~(m + 1 < from) /\ (m + 1) - 1 = m
        BY <1>1, <2>2
      <3> HIDE DEF m
      <3>2. sum[m + 1] = sum[m] + s[m + 1].high - s[m + 1].low
        BY <1>3, <3>1
      <3>3. g[m + 1] = g[m] + s[m + 1].high - s[m + 1].low
        BY <1>2, <3>1 DEF RangeSums
      <3>4. QED BY <3>1, <3>2, <3>3
    <2>3. Nat \subseteq S
      <3> HIDE DEF S
      <3>1. QED BY <2>1, <2>2, Induction
    <2>4. SUFFICES ASSUME NEW k \in from - 1 .. Len(s) PROVE sum[k] = g[k]
      OBVIOUS
    <2>5. k - (from - 1) \in S /\ from - 1 + (k - (from - 1)) = k
      <3> HIDE DEF S
      <3>1. QED BY <1>1, <2>3
    <2>6. QED BY <2>5, <1>1
  <1>5. sum[Len(s)] \in Int
    <2> HIDE DEF sum, from
    <2>1. QED BY <1>1, <1>2, <1>4 DEF RangeSums
  <1>6. ScaledRange(s, pct) =
          IF s = <<>> THEN 0 ELSE (sum[Len(s)] * pct) \div (100 * (Len(s) - from + 1))
    BY Zenon DEF ScaledRange
  <1>7. CASE s = <<>>
    BY <1>6, <1>7
  <1>8. CASE s # <<>>
    <2> HIDE DEF sum, from
    <2>1. 100 * (Len(s) - from + 1) \in Nat \ {0}
      BY <1>1, <1>8
    <2>2. sum[Len(s)] * pct \in Int
      BY <1>5, ProductIsInt
    <2>3. QED BY <1>6, <1>8, <2>1, <2>2, QuotientType
  <1>9. QED BY <1>7, <1>8

LEMMA ToleranceType ==
  ASSUME NEW s \in Seq(Candle)
  PROVE  AdaptiveZoneTolerance(s) \in Nat /\ AdaptiveConfirmationBuffer(s) \in Nat
  <1>1. /\ MinZone \in Nat /\ MaxZone \in Nat /\ MinZone \div 2 \in Nat
        /\ RangePct \in Nat /\ ConfirmPct \in Nat
    BY PriceActionAssumption
  <1>2. ScaledRange(s, RangePct) \in Int /\ ScaledRange(s, ConfirmPct) \in Int
    BY <1>1, ScaledRangeType
  <1> DEFINE r == ScaledRange(s, RangePct)
             c == ScaledRange(s, ConfirmPct)
             l == MinZone \div 2
             g == Greatest({MinZone, r})
  <1>3. g \in {MinZone, r} /\ MinZone <= g
    <2>1. MinZone \in Int /\ r \in Int
      BY <1>1, <1>2
    <2> HIDE DEF r
    <2>2. QED BY <2>1, GreatestOfPair
  <1>4. AdaptiveZoneTolerance(s) \in Nat
    <2>1. g \in Nat /\ MaxZone \in Int
      <3> HIDE DEF g, r
      <3>1. r \in Int
        BY <1>2 DEF r
      <3>2. QED BY <1>1, <1>3, <3>1
    <2>2. Least({MaxZone, g}) \in {MaxZone, g}
      <3> HIDE DEF g
      <3>1. g \in Int
        BY <2>1
      <3>2. QED BY <2>1, <3>1, LeastOfPair
    <2>3. AdaptiveZoneTolerance(s) = Least({MaxZone, g})
      BY Zenon DEF AdaptiveZoneTolerance
    <2> HIDE DEF g
    <2>4. QED BY <1>1, <2>1, <2>2, <2>3
  <1>5. AdaptiveConfirmationBuffer(s) \in Nat
    <2>1. l \in Int /\ c \in Int /\ 0 <= l
      BY <1>1, <1>2
    <2>2. AdaptiveConfirmationBuffer(s) = Greatest({l, c})
      BY Zenon DEF AdaptiveConfirmationBuffer
    <2> HIDE DEF l, c
    <2>3. Greatest({l, c}) \in {l, c} /\ l <= Greatest({l, c})
      BY <2>1, GreatestOfPair
    <2>4. QED BY <2>1, <2>2, <2>3
  <1>6. QED BY <1>4, <1>5

-----------------------------------------------------------------------------
(* Clusters.                                                                *)

(* first holds the numbers of S that no lower one of first is close to. *)
Firsts(first, S, t) ==
  /\ first \in SUBSET S
  /\ \A p \in S : p \in first <=> \A a \in first : a < p => p - a > t

LEMMA FirstsExist ==
  ASSUME NEW S \in SUBSET Int, NEW lo \in Int, NEW hi \in Int, NEW t \in Int,
         \A p \in S : lo <= p /\ p <= hi
  PROVE  \E first : Firsts(first, S, t)
  <1> DEFINE Part(n) == {p \in S : p < lo + n}
             T == {n \in Nat : \E first : Firsts(first, Part(n), t)}
  <1>1. 0 \in T
    <2>1. Part(0) = {}
      <3>1. \A p \in S : ~(p < lo + 0)
        OBVIOUS
      <3>2. QED BY <3>1
    <2>2. Firsts({}, Part(0), t)
      BY <2>1 DEF Firsts
    <2>3. QED BY <2>2
  <1>2. ASSUME NEW n \in Nat, n \in T
        PROVE  n + 1 \in T
    <2> SUFFICES \E first : Firsts(first, Part(n + 1), t)
      <3> HIDE DEF Part
      <3>1. n + 1 \in Nat
        OBVIOUS
      <3>2. QED BY <3>1, Zenon
    <2>1. PICK first : Firsts(first, Part(n), t)
      BY <1>2
    <2> DEFINE x == lo + n
    <2>2. /\ x \in Int
          /\ \A p \in Part(n) : p \in Int /\ p < x
          /\ Part(n + 1) = Part(n) \cup ({x} \cap S)
      <3>1. \A p \in S : p < lo + (n + 1) <=> p < lo + n \/ p = lo + n
        OBVIOUS
      <3>2. Part(n + 1) = Part(n) \cup ({x} \cap S)
        BY <3>1, Zenon
      <3>3. QED BY <3>2
    <2> HIDE DEF Part, x
    <2>3. CASE x \in S /\ \A a \in first : a < x => x - a > t
      <3>1. Firsts(first \cup {x}, Part(n + 1), t)
        BY <2>1, <2>2, <2>3 DEF Firsts
      <3>2. QED BY <3>1
    <2>4. CASE ~(x \in S /\ \A a \in first : a < x => x - a > t)
      <3>1. Firsts(first, Part(n + 1), t)
        BY <2>1, <2>2, <2>4 DEF Firsts
      <3>2. QED BY <3>1
    <2>5. QED BY <2>3, <2>4
  <1>3. Nat \subseteq T
    <2> HIDE DEF T
    <2>1. QED BY <1>1, <1>2, Induction
  <1>4. CASE S = {}
    <2>1. Firsts({}, S, t)
      BY <1>4 DEF Firsts
    <2>2. QED BY <2>1
  <1>5. CASE S # {}
    <2> DEFINE n == hi - lo + 1
    <2>1. n \in Nat /\ Part(n) = S
      <3>1. PICK x \in S : lo <= x /\ x <= hi
        BY <1>5
      <3>2. n \in Nat
        BY <3>1
      <3>3. \A p \in S : p < lo + n
        OBVIOUS
      <3>4. QED BY <3>2, <3>3, Zenon
    <2> HIDE DEF n, T
    <2>2. n \in T
      BY <1>3, <2>1
    <2>3. \E first : Firsts(first, Part(n), t)
      BY <2>2, Zenon DEF T
    <2> HIDE DEF Part
    <2>4. QED BY <2>1, <2>3, Zenon
  <1>6. QED BY <1>4, <1>5

(* The first price of a cluster is at most the tolerance below each of its  *)
(* prices, and clusters do not interleave.                                  *)
Anchoring(A, S, t) ==
  /\ \A p \in S : A[p] \in Int /\ A[p] <= p /\ p - A[p] <= t
  /\ \A p, q \in S : p <= q => A[p] <= A[q]

LEMMA AnchorsAre ==
  ASSUME NEW S \in SUBSET Int, NEW lo \in Int, NEW hi \in Int, NEW t \in Nat,
         \A p \in S : lo <= p /\ p <= hi
  PROVE  Anchoring(ClusterAnchors(S, t), S, t)
  <1> DEFINE first == CHOOSE f \in SUBSET S :
                        \A p \in S : p \in f <=> \A a \in f : a < p => p - a > t
             Below(p) == {a \in first : a <= p}
  <1>1. \E f \in SUBSET S : \A p \in S : p \in f <=> \A a \in f : a < p => p - a > t
    <2>1. PICK f : Firsts(f, S, t)
      <3> HIDE DEF first, Below
      <3>1. t \in Int
        OBVIOUS
      <3>2. QED BY <3>1, FirstsExist
    <2>2. QED BY <2>1, Zenon DEF Firsts
  <1>2. /\ first \in SUBSET S
        /\ \A p \in S : p \in first <=> \A a \in first : a < p => p - a > t
    BY <1>1, Zenon
  <1>3. ClusterAnchors(S, t) = [p \in S |-> Greatest(Below(p))]
    BY Zenon DEF ClusterAnchors
  <1> HIDE DEF first
  <1>4. ASSUME NEW p \in S
        PROVE  /\ Greatest(Below(p)) \in first
               /\ Greatest(Below(p)) <= p
               /\ \A a \in first : a <= p => a <= Greatest(Below(p))
               /\ p - Greatest(Below(p)) <= t
    <2>1. \E a \in first : a <= p /\ p - a <= t
      <3>1. CASE p \in first
        BY <3>1
      <3>2. CASE p \notin first
        BY <1>2, <3>2
      <3>3. QED BY <3>1, <3>2
    <2>2. Below(p) \in SUBSET Int /\ Below(p) # {} /\ p \in Int /\ \A x \in Below(p) : x <= p
      BY <1>2, <2>1
    <2> DEFINE B == Below(p)
    <2>3. Greatest(B) \in B /\ \A y \in B : y <= Greatest(B)
      <3> HIDE DEF B
      <3>1. B \in SUBSET Int /\ B # {} /\ p \in Int /\ \A x \in B : x <= p
        BY <2>2 DEF B
      <3>2. QED BY <3>1, GreatestIs
    <2>4. PICK b \in first : b <= p /\ p - b <= t
      BY <2>1
    <2> DEFINE g == Greatest(B)
    <2>5. /\ g \in first /\ g <= p /\ g \in Int
          /\ \A a \in first : a <= p => a <= g
      BY <1>2, <2>3
    <2>6. b <= g /\ b \in Int /\ p \in Int
      BY <1>2, <2>4, <2>5
    <2> HIDE DEF g
    <2>7. p - g <= t
      BY <2>4, <2>5, <2>6
    <2>8. QED BY <2>5, <2>7 DEF g
  <1> HIDE DEF Below
  <1>5. \A p \in S : Greatest(Below(p)) \in Int
    BY <1>2, <1>4
  <1>6. ASSUME NEW p \in S, NEW q \in S, p <= q
        PROVE  Greatest(Below(p)) <= Greatest(Below(q))
    <2>1. Greatest(Below(p)) \in first /\ Greatest(Below(p)) <= p /\ Greatest(Below(p)) \in Int
      BY <1>4, <1>5
    <2>2. Greatest(Below(p)) <= q
      <3> DEFINE x == Greatest(Below(p))
      <3> SUFFICES x <= q
        OBVIOUS
      <3> HIDE DEF x
      <3>1. x <= p /\ x \in Int
        BY <2>1 DEF x
      <3>2. QED BY <1>6, <3>1
    <2>3. QED BY <1>4, <2>1, <2>2
  <1>7. QED BY <1>3, <1>4, <1>5, <1>6 DEF Anchoring

(* Swings that all keep the gap are all kept. *)
LEMMA SeparatedAll ==
  ASSUME NEW C \in SUBSET Int, \A i, j \in C : i < j => j - i >= MinGap
  PROVE  SeparatedReactions(C) = C
  <1> DEFINE Keeps(kept) == \A i \in C : i \in kept <=> \A k \in kept : k < i => i - k >= MinGap
  <1>1. C \in SUBSET C /\ Keeps(C)
    OBVIOUS
  <1>2. SeparatedReactions(C) \in SUBSET C /\ Keeps(SeparatedReactions(C))
    <2>1. SeparatedReactions(C) = CHOOSE kept \in SUBSET C : Keeps(kept)
      BY Zenon DEF SeparatedReactions
    <2> HIDE DEF Keeps
    <2>2. QED BY <1>1, <2>1, Zenon
  <1>3. QED BY <1>2

(* Whatever the gap is, some of the swings are kept. *)
LEMMA SeparatedSome ==
  ASSUME NEW lo \in Int, NEW hi \in Int, NEW C \in SUBSET (lo .. hi)
  PROVE  SeparatedReactions(C) \in SUBSET C
  <1> DEFINE Keeps(kept) == \A i \in C : i \in kept <=> \A k \in kept : k < i => i - k >= MinGap
  <1>1. MinGap \in Int
    BY PriceActionAssumption
  <1>2. PICK first : Firsts(first, C, MinGap - 1)
    <2>1. C \in SUBSET Int /\ MinGap - 1 \in Int /\ \A p \in C : lo <= p /\ p <= hi
      BY <1>1
    <2>2. QED BY <2>1, FirstsExist
  <1>3. first \in SUBSET C /\ Keeps(first)
    <2>1. first \in SUBSET C
      BY <1>2 DEF Firsts
    <2>2. \A i \in C, k \in first : i - k > MinGap - 1 <=> i - k >= MinGap
      BY <1>1, <2>1
    <2>3. QED BY <1>2, <2>1, <2>2 DEF Firsts
  <1>4. SeparatedReactions(C) = CHOOSE kept \in SUBSET C : Keeps(kept)
    BY Zenon DEF SeparatedReactions
  <1> HIDE DEF Keeps
  <1>5. QED BY <1>3, <1>4, Zenon

-----------------------------------------------------------------------------
(* Zones.                                                                   *)

PricesOf(r, f) == {f[i] : i \in r}

(* The zone of some reactions. *)
ZoneOf(r, f, kind, t) ==
  [kind |-> kind, low |-> Least(PricesOf(r, f)) - t, high |-> Greatest(PricesOf(r, f)) + t,
   touches |-> Cardinality(r)]

LEMMA PriceExtremes ==
  ASSUME NEW m \in Nat, NEW f, \A i \in 1 .. m : f[i] \in Int,
         NEW r \in SUBSET (1 .. m), r # {}
  PROVE  /\ \E i \in r : Least(PricesOf(r, f)) = f[i]
         /\ \E i \in r : Greatest(PricesOf(r, f)) = f[i]
         /\ Least(PricesOf(r, f)) \in Int /\ Greatest(PricesOf(r, f)) \in Int
         /\ \A i \in r : Least(PricesOf(r, f)) <= f[i] /\ f[i] <= Greatest(PricesOf(r, f))
  <1> DEFINE A == PricesOf(r, f)
  <1>1. A \in SUBSET Int /\ A # {}
    BY DEF PricesOf
  <1>2. PICK lo \in Int, hi \in Int : Within(f, m, lo, hi)
    BY BoundsExist
  <1>3. \A x \in A : lo <= x /\ x <= hi
    BY <1>2 DEF Within, PricesOf
  <1>4. Least(A) \in A /\ \A y \in A : Least(A) <= y
    <2> HIDE DEF A
    <2>1. QED BY <1>1, <1>3, LeastIs
  <1>5. Greatest(A) \in A /\ \A y \in A : y <= Greatest(A)
    <2> HIDE DEF A
    <2>1. QED BY <1>1, <1>3, GreatestIs
  <1>6. \A i \in r : f[i] \in A
    BY DEF PricesOf
  <1>7. (\E i \in r : Least(A) = f[i]) /\ (\E i \in r : Greatest(A) = f[i])
    <2>1. \A x \in A : \E i \in r : x = f[i]
      BY Zenon DEF PricesOf
    <2> HIDE DEF A
    <2>2. QED BY <1>4, <1>5, <2>1
  <1> HIDE DEF A
  <1>8. Least(A) \in Int /\ Greatest(A) \in Int
    BY <1>1, <1>4, <1>5
  <1>9. \A i \in r : Least(A) <= f[i] /\ f[i] <= Greatest(A)
    BY <1>4, <1>5, <1>6
  <1>10. QED BY <1>7, <1>8, <1>9 DEF A

(* Enough reactions are some. *)
LEMMA TouchesType ==
  ASSUME NEW m \in Nat, NEW r \in SUBSET (1 .. m)
  PROVE  Cardinality(r) \in Nat /\ (Cardinality(r) >= MinTouches => r # {})
  <1>1. IsFiniteSet(1 .. m)
    BY FS_Interval
  <1>2. IsFiniteSet(r)
    BY <1>1, FS_Subset
  <1>3. Cardinality(r) \in Nat /\ Cardinality({}) = 0
    BY <1>2, FS_CardinalityType, FS_EmptySet
  <1>4. MinTouches \in Nat \ {0}
    BY PriceActionAssumption
  <1>5. QED BY <1>3, <1>4

(* What every zone of a kind is: a price range of some touches, not below a *)
(* bound.                                                                   *)
ZoneOK(z, kind, lo) ==
  /\ z.kind = kind
  /\ z.low \in Int /\ z.high \in Int /\ z.low <= z.high /\ lo <= z.low
  /\ z.touches \in Nat

LEMMA ZonesAreOK ==
  ASSUME NEW m \in Nat, NEW f, \A i \in 1 .. m : f[i] \in Int, NEW t \in Nat, NEW kind
  PROVE  \E lo \in Int : \A r \in SUBSET (1 .. m) :
           Cardinality(r) >= MinTouches => ZoneOK(ZoneOf(r, f, kind, t), kind, lo)
  <1>1. PICK l \in Int, h \in Int : Within(f, m, l, h)
    BY BoundsExist
  <1>2. ASSUME NEW r \in SUBSET (1 .. m), Cardinality(r) >= MinTouches
        PROVE  ZoneOK(ZoneOf(r, f, kind, t), kind, l - t)
    <2>1. Cardinality(r) \in Nat /\ r # {}
      BY <1>2, TouchesType
    <2> DEFINE a == Least(PricesOf(r, f))
               b == Greatest(PricesOf(r, f))
    <2>2. /\ \E i \in r : a = f[i]
          /\ a \in Int /\ b \in Int
          /\ \A i \in r : a <= f[i] /\ f[i] <= b
      BY <2>1, PriceExtremes
    <2> HIDE DEF a, b
    <2>3. a <= b /\ l <= a
      <3>1. PICK i \in r : a = f[i]
        BY <2>2
      <3>2. i \in 1 .. m
        BY <3>1
      <3>3. f[i] \in Int /\ l <= f[i] /\ f[i] <= b
        BY <1>1, <2>2, <3>1, <3>2 DEF Within
      <3>4. QED BY <2>2, <3>1, <3>3
    <2>4. ZoneOf(r, f, kind, t) =
            [kind |-> kind, low |-> a - t, high |-> b + t, touches |-> Cardinality(r)]
      BY Zenon DEF ZoneOf, a, b
    <2>5. QED BY <2>1, <2>2, <2>3, <2>4 DEF ZoneOK
  <1>3. l - t \in Int
    OBVIOUS
  <1>4. QED BY <1>2, <1>3

(* Both ways to build zones build them of some of the swings. *)
AreOf(zones, m, f, kind, t) ==
  \A z \in zones :
    \E r \in SUBSET (1 .. m) : Cardinality(r) >= MinTouches /\ z = ZoneOf(r, f, kind, t)

LEMMA SwingZones ==
  ASSUME NEW m \in Nat, NEW f, NEW swings \in SUBSET (1 .. m), NEW t, NEW kind
  PROVE  /\ AreOf(BuildSwingZones(swings, f, kind, t), m, f, kind, t)
         /\ AreOf(PageZones(swings, f, kind, t), m, f, kind, t)
  <1> DEFINE anchors == ClusterAnchors({f[i] : i \in swings}, t)
             C(a) == {i \in swings : anchors[f[i]] = a}
             As == {anchors[f[i]] : i \in swings}
             R == {SeparatedReactions(C(a)) : a \in As}
             D == {C(a) : a \in As}
  <1>1. BuildSwingZones(swings, f, kind, t) = {ZoneOf(r, f, kind, t) : r \in {r \in R : Cardinality(r) >= MinTouches}}
    BY Zenon DEF BuildSwingZones, ZoneOf, PricesOf
  <1>2. PageZones(swings, f, kind, t) = {ZoneOf(r, f, kind, t) : r \in {r \in D : Cardinality(r) >= MinTouches}}
    BY Zenon DEF PageZones, ZoneOf, PricesOf
  <1> HIDE DEF anchors, As
  <1>3. \A r \in R : r \in SUBSET (1 .. m)
    <2>1. \A a : C(a) \in SUBSET (1 .. m)
      OBVIOUS
    <2> HIDE DEF C
    <2>2. ASSUME NEW a
          PROVE  SeparatedReactions(C(a)) \in SUBSET C(a)
      <3> DEFINE Ca == C(a)
      <3>1. 1 \in Int /\ m \in Int /\ Ca \in SUBSET (1 .. m)
        BY <2>1
      <3> HIDE DEF Ca
      <3>2. SeparatedReactions(Ca) \in SUBSET Ca
        BY <3>1, SeparatedSome
      <3>3. QED BY <3>2 DEF Ca
    <2>3. QED BY <2>1, <2>2
  <1>4. \A r \in D : r \in SUBSET (1 .. m)
    OBVIOUS
  <1> HIDE DEF R, D
  <1>5. QED BY <1>1, <1>2, <1>3, <1>4, Zenon DEF AreOf

-----------------------------------------------------------------------------
(* Signals.                                                                 *)

(* The stop of a signal is beyond its zone, its zone behind its entry. *)
HasRisk(s) ==
  IF s.action = "LONG"
  THEN s.stop <= s.zone.low /\ s.zone.low <= s.zone.high /\ s.zone.high < s.entry
  ELSE s.stop >= s.zone.high /\ s.zone.high >= s.zone.low /\ s.zone.low > s.entry

LEMMA ScoreType ==
  ASSUME NEW dir, NEW touches \in Nat, NEW bias, NEW breakout, NEW alignment
  PROVE  /\ ScoreSetup(dir, touches, bias, breakout, alignment) \in Int
         /\ ScoreSetup(dir, touches, bias, breakout, alignment) <= 100
  <1> DEFINE x == Least({25, 5 * touches})
  <1>1. x \in Int /\ x <= 25
    <2>1. 25 \in Int /\ 5 * touches \in Int
      OBVIOUS
    <2>2. x \in {25, 5 * touches} /\ x <= 25
      BY <2>1, LeastOfPair
    <2>3. QED BY <2>1, <2>2
  <1> HIDE DEF x
  <1>2. ScoreSetup(dir, touches, bias, breakout, alignment) =
          x + (IF bias = Favourable(dir) THEN 20 ELSE 0)
            + (IF breakout = "FAKE_BREAKOUT" THEN 25 ELSE 20) + 20
            + (IF alignment = Favourable(dir) THEN 10 ELSE 0)
    BY Zenon DEF ScoreSetup, x
  <1>3. QED BY <1>1, <1>2

(* A candle that confirms closes on the far side of the zone. *)
LEMMA ConfirmedRisk ==
  ASSUME NEW c \in Candle, NEW kind, NEW lo, NEW z, ZoneOK(z, kind, lo), ClosesBeyond(c, z),
         NEW s, NEW buffer \in Nat,
         s.action = Direction(z), s.zone = z, s.entry = c.close,
         s.stop = IF z.kind = "SUPPORT" THEN z.low - buffer ELSE z.high + buffer
  PROVE  HasRisk(s)
  <1>1. z.low \in Int /\ z.high \in Int /\ z.low <= z.high /\ c.close \in Int
    BY DEF ZoneOK, Candle
  <1>2. CASE z.kind = "SUPPORT"
    <2>1. s.action = "LONG" /\ z.high < c.close /\ s.stop = z.low - buffer
      BY <1>1, <1>2 DEF Direction, ClosesBeyond
    <2>2. QED BY <1>1, <2>1 DEF HasRisk
  <1>3. CASE z.kind # "SUPPORT"
    <2>1. s.action # "LONG" /\ z.low > c.close /\ s.stop = z.high + buffer
      BY <1>1, <1>3 DEF Direction, ClosesBeyond
    <2>2. QED BY <1>1, <2>1 DEF HasRisk
  <1>4. QED BY <1>2, <1>3

(* What the choice of the best signal needs to know of a signal. *)
Ranked(s, lo) ==
  /\ s.score \in Int /\ s.score <= 100
  /\ s.zone.low \in Int /\ lo <= s.zone.low

LEMMA BestIsOne ==
  ASSUME NEW signals, NEW lo \in Int, \A s \in signals \ {NoSetup} : Ranked(s, lo)
  PROVE  BestSignal(signals) = NoSetup \/ BestSignal(signals) \in signals \ {NoSetup}
  <1> DEFINE directional == signals \ {NoSetup}
             best == {s \in directional : \A t \in directional : t.score <= s.score}
  <1>1. BestSignal(signals) =
          IF directional = {} THEN NoSetup
          ELSE CHOOSE s \in best : \A t \in best : s.zone.low <= t.zone.low
    BY Zenon DEF BestSignal
  <1>2. CASE directional = {}
    BY <1>1, <1>2
  <1>3. CASE directional # {}
    <2> DEFINE Scores == {s.score : s \in directional}
               Lows == {s.zone.low : s \in best}
    <2>1. \A s \in directional : s.score \in Int /\ s.score <= 100
      BY DEF Ranked
    <2> HIDE DEF directional
    <2>2. Scores \in SUBSET Int /\ Scores # {} /\ \A x \in Scores : x <= 100
      BY <1>3, <2>1
    <2>3. Greatest(Scores) \in Scores /\ \A y \in Scores : y <= Greatest(Scores)
      <3> DEFINE hundred == 100
      <3>1. /\ Scores \in SUBSET Int /\ Scores # {} /\ hundred \in Int
            /\ \A x \in Scores : x <= hundred
        BY <2>2
      <3> HIDE DEF Scores, hundred
      <3>2. QED BY <3>1, GreatestIs
    <2>4. best # {}
      <3> DEFINE g == Greatest(Scores)
      <3> HIDE DEF g
      <3>1. g \in Scores /\ \A y \in Scores : y <= g
        BY <2>3 DEF g
      <3>2. PICK s \in directional : g = s.score
        BY <3>1
      <3>3. \A t \in directional : t.score <= s.score
        BY <3>1, <3>2
      <3>4. QED BY <3>3
    <2>5. \A s \in best : s.zone.low \in Int /\ lo <= s.zone.low
      BY DEF Ranked, directional
    <2> HIDE DEF best
    <2>6. Lows \in SUBSET Int /\ Lows # {} /\ \A x \in Lows : lo <= x
      BY <2>4, <2>5
    <2>7. Least(Lows) \in Lows /\ \A y \in Lows : Least(Lows) <= y
      <3> HIDE DEF Lows
      <3>1. QED BY <2>6, LeastIs
    <2>8. \E s \in best : \A t \in best : s.zone.low <= t.zone.low
      <3> DEFINE g == Least(Lows)
      <3> HIDE DEF g
      <3>1. g \in Lows /\ \A y \in Lows : g <= y
        BY <2>7 DEF g
      <3>2. PICK s \in best : g = s.zone.low
        BY <3>1
      <3>3. \A t \in best : s.zone.low <= t.zone.low
        BY <3>1, <3>2
      <3>4. QED BY <3>3
    <2>9. BestSignal(signals) \in best
      BY <1>1, <1>3, <2>8, Zenon
    <2>10. QED BY <2>9 DEF best, directional
  <1>4. QED BY <1>2, <1>3

(* The candles before the last one. *)
LEMMA FrontType ==
  ASSUME NEW s \in Seq(Candle), s # <<>>
  PROVE  /\ Front(s) \in Seq(Candle)
         /\ Last(s) \in Candle
         /\ Last(s) = s[Len(s)]
  <1>1. /\ Len(s) \in Nat \ {0} /\ 1 \in Int /\ Len(s) - 1 \in Int
        /\ \A i \in 1 .. Len(s) - 1 : s[i] \in Candle
        /\ s[Len(s)] \in Candle
    OBVIOUS
  <1>2. SubSeq(s, 1, Len(s) - 1) \in Seq(Candle)
    BY <1>1, SubSeqProperties
  <1>3. QED BY <1>1, <1>2 DEF Front, Last

(* A sequence that acts ends with a candle that confirms. *)
LEMMA SequenceConfirms ==
  ASSUME NEW s, NEW z
  PROVE  \/ EvaluateSequence(s, z).action = "WAIT"
         \/ EvaluateSequence(s, z).action = Direction(z) /\ Confirms(s[Len(s)], z)
  <1> DEFINE n        == Len(s)
             buffer   == AdaptiveConfirmationBuffer(Front(s))
             tests    == {k \in n - MaxTestAge .. n - 1 : k >= 1 /\ Touches(s[k], z)}
             deciding == {k \in tests : \/ Breakout(s[k], z, buffer) = "TRUE_BREAKOUT"
                                        \/ Held(s[k], z, buffer)}
             test     == Greatest(deciding)
             state    == Breakout(s[test], z, buffer)
  <1>1. EvaluateSequence(s, z) =
          IF n < 2 \/ deciding = {} THEN NoSequence
          ELSE IF state = "TRUE_BREAKOUT"
          THEN [action |-> "WAIT", state |-> "BROKEN", breakout |-> state, test |-> test]
          ELSE [action |-> IF Confirms(s[n], z) THEN Direction(z) ELSE "WAIT",
                state |-> "CONFIRM", breakout |-> state, test |-> test]
    BY Zenon DEF EvaluateSequence
  <1> HIDE DEF deciding, test, state
  <1>2. QED BY <1>1 DEF NoSequence

LEMMA EvaluatedRisk ==
  ASSUME NEW s \in Seq(Candle), s # <<>>,
         NEW z, NEW kind, NEW lo, ZoneOK(z, kind, lo),
         NEW bias, NEW readings, NEW alignment,
         EvaluateZone(s, z, bias, readings, alignment) # NoSetup
  PROVE  /\ HasRisk(EvaluateZone(s, z, bias, readings, alignment))
         /\ Ranked(EvaluateZone(s, z, bias, readings, alignment), lo)
  <1> DEFINE result == EvaluateSequence(s, z)
             score  == ScoreSetup(result.action, z.touches, bias, result.breakout, alignment)
             stop   == ProtectiveStop(z, Front(s))
             buffer == AdaptiveConfirmationBuffer(Front(s))
             e      == [action |-> result.action, zone |-> z, breakout |-> result.breakout,
                        entry |-> Last(s).close, stop |-> stop, score |-> score]
             E      == EvaluateZone(s, z, bias, readings, alignment)
  <1>1. E = IF result.action = "WAIT" \/ ~IndicatorsAllow(readings, result.action) THEN NoSetup ELSE e
    BY Zenon DEF EvaluateZone
  <1> HIDE DEF result
  <1>2. E = e /\ result.action # "WAIT"
    BY <1>1, Zenon
  <1>3. result.action = Direction(z) /\ ClosesBeyond(Last(s), z)
    <2>1. result.action = Direction(z) /\ Confirms(s[Len(s)], z)
      BY <1>2, SequenceConfirms, Zenon DEF result
    <2>2. QED BY <2>1, FrontType, Zenon DEF Confirms
  <1>4. stop = IF z.kind = "SUPPORT" THEN z.low - buffer ELSE z.high + buffer
    BY Zenon DEF ProtectiveStop
  <1>5. buffer \in Nat /\ Last(s) \in Candle
    BY FrontType, ToleranceType
  <1>6. score \in Int /\ score <= 100
    BY ScoreType DEF ZoneOK
  <1> HIDE DEF score, stop, buffer
  <1>7. Ranked(e, lo)
    BY <1>6 DEF Ranked, ZoneOK
  <1>8. HasRisk(e)
    <2>1. e.action = Direction(z) /\ e.zone = z /\ e.entry = Last(s).close /\ e.stop = stop
      BY <1>3
    <2> HIDE DEF e
    <2>2. QED BY <1>3, <1>4, <1>5, <2>1, ConfirmedRisk
  <1> HIDE DEF e
  <1>9. QED BY <1>2, <1>7, <1>8

(* The best of the zones of a kind, if they can signal at all. *)
BestOf(s, zones, bias, readings, alignment) ==
  BestSignal({EvaluateZone(s, z, bias, readings, alignment) : z \in zones})

LEMMA BestRisk ==
  ASSUME NEW s \in Seq(Candle), s # <<>>,
         NEW zones, NEW kind, NEW lo \in Int, \A z \in zones : ZoneOK(z, kind, lo),
         NEW bias, NEW readings, NEW alignment,
         BestOf(s, zones, bias, readings, alignment) # NoSetup
  PROVE  HasRisk(BestOf(s, zones, bias, readings, alignment))
  <1> DEFINE signals == {EvaluateZone(s, z, bias, readings, alignment) : z \in zones}
             b == BestOf(s, zones, bias, readings, alignment)
  <1>1. \A x \in signals \ {NoSetup} : HasRisk(x) /\ Ranked(x, lo)
    BY EvaluatedRisk
  <1> HIDE DEF signals
  <1>2. BestSignal(signals) = NoSetup \/ BestSignal(signals) \in signals \ {NoSetup}
    BY <1>1, BestIsOne
  <1>3. b = BestSignal(signals)
    BY Zenon DEF BestOf, signals
  <1>4. b \in signals \ {NoSetup}
    BY <1>2, <1>3, Zenon
  <1> HIDE DEF b
  <1>5. HasRisk(b)
    BY <1>1, <1>4
  <1>6. QED BY <1>5 DEF b

(* The prices of the swings of candles. *)
LEMMA SwingPrices ==
  ASSUME NEW s \in Seq(Candle)
  PROVE  /\ Len(s) \in Nat
         /\ ConfirmedSwingLows(s) \in SUBSET (1 .. Len(s))
         /\ ConfirmedSwingHighs(s) \in SUBSET (1 .. Len(s))
         /\ \A i \in 1 .. Len(s) : [k \in DOMAIN s |-> s[k].low][i] \in Int
         /\ \A i \in 1 .. Len(s) : [k \in DOMAIN s |-> s[k].high][i] \in Int
  <1>1. Strength \in Nat
    BY PriceActionAssumption
  <1>2. \A i \in 1 .. Len(s) : s[i].low \in Int /\ s[i].high \in Int
    <2>1. \A i \in 1 .. Len(s) : s[i] \in Candle
      OBVIOUS
    <2>2. \A c \in Candle : c.low \in Int /\ c.high \in Int
      BY DEF Candle
    <2>3. QED BY <2>1, <2>2
  <1>3. QED BY <1>1, <1>2 DEF ConfirmedSwingLows, ConfirmedSwingHighs

(* The zones of any history. *)
LEMMA FoundZones ==
  ASSUME NEW s \in Seq(Candle)
  PROVE  /\ \E lo \in Int : \A z \in FindSupportZones(s) : ZoneOK(z, "SUPPORT", lo)
         /\ \E lo \in Int : \A z \in FindResistanceZones(s) : ZoneOK(z, "RESISTANCE", lo)
  <1> DEFINE t == AdaptiveZoneTolerance(s)
             f == [i \in DOMAIN s |-> s[i].low]
             g == [i \in DOMAIN s |-> s[i].high]
             lows == ConfirmedSwingLows(s)
             highs == ConfirmedSwingHighs(s)
             m == Len(s)
  <1>1. t \in Nat
    BY ToleranceType
  <1>2. /\ m \in Nat /\ lows \in SUBSET (1 .. m) /\ highs \in SUBSET (1 .. m)
        /\ \A i \in 1 .. m : f[i] \in Int
        /\ \A i \in 1 .. m : g[i] \in Int
    BY SwingPrices
  <1>3. FindSupportZones(s) = BuildSwingZones(lows, f, "SUPPORT", t)
    BY Zenon DEF FindSupportZones
  <1>4. FindResistanceZones(s) = BuildSwingZones(highs, g, "RESISTANCE", t)
    BY Zenon DEF FindResistanceZones
  <1> HIDE DEF t, f, g, lows, highs, m
  <1>5. PICK lo \in Int : \A r \in SUBSET (1 .. m) :
          Cardinality(r) >= MinTouches => ZoneOK(ZoneOf(r, f, "SUPPORT", t), "SUPPORT", lo)
    BY <1>1, <1>2, ZonesAreOK
  <1>6. PICK l \in Int : \A r \in SUBSET (1 .. m) :
          Cardinality(r) >= MinTouches => ZoneOK(ZoneOf(r, g, "RESISTANCE", t), "RESISTANCE", l)
    BY <1>1, <1>2, ZonesAreOK
  <1>7. \A z \in FindSupportZones(s) :
          \E r \in SUBSET (1 .. m) : Cardinality(r) >= MinTouches /\ z = ZoneOf(r, f, "SUPPORT", t)
    <2> DEFINE kind == "SUPPORT"
    <2> HIDE DEF kind
    <2>1. AreOf(BuildSwingZones(lows, f, kind, t), m, f, kind, t)
      BY <1>2, SwingZones
    <2>2. QED BY <1>3, <2>1, Zenon DEF kind, AreOf
  <1>8. \A z \in FindResistanceZones(s) :
          \E r \in SUBSET (1 .. m) : Cardinality(r) >= MinTouches /\ z = ZoneOf(r, g, "RESISTANCE", t)
    <2> DEFINE kind == "RESISTANCE"
    <2> HIDE DEF kind
    <2>1. AreOf(BuildSwingZones(highs, g, kind, t), m, g, kind, t)
      BY <1>2, SwingZones
    <2>2. QED BY <1>4, <2>1, Zenon DEF kind, AreOf
  <1>9. \A z \in FindSupportZones(s) : ZoneOK(z, "SUPPORT", lo)
    BY <1>5, <1>7, Zenon
  <1>10. \A z \in FindResistanceZones(s) : ZoneOK(z, "RESISTANCE", l)
    BY <1>6, <1>8, Zenon
  <1>11. QED BY <1>9, <1>10

LEMMA StrategyRisk ==
  ASSUME NEW s \in Seq(Candle), s # <<>>, NEW readings, NEW alignment,
         StrategySignal(s, readings, alignment) # NoSetup
  PROVE  HasRisk(StrategySignal(s, readings, alignment))
  <1> DEFINE history == Front(s)
             bias == StructureBias(history)
             lows == FindSupportZones(history)
             highs == FindResistanceZones(history)
             long == BestOf(s, lows, bias, readings, alignment)
             short == BestOf(s, highs, bias, readings, alignment)
             low == "SUPPORT"
             high == "RESISTANCE"
  <1>1. StrategySignal(s, readings, alignment) = SelectSignal(long, short)
    BY Zenon DEF StrategySignal, BestOf
  <1>2. Front(s) \in Seq(Candle)
    BY FrontType
  <1>3. PICK l \in Int : \A z \in lows : ZoneOK(z, low, l)
    BY <1>2, FoundZones
  <1>4. PICK h \in Int : \A z \in highs : ZoneOK(z, high, h)
    BY <1>2, FoundZones
  <1> HIDE DEF lows, highs, bias, low, high
  <1>5. long # NoSetup => HasRisk(long)
    BY <1>3, BestRisk
  <1>6. short # NoSetup => HasRisk(short)
    BY <1>4, BestRisk
  <1> HIDE DEF long, short
  <1>7. SelectSignal(long, short) \in {long, short}
    BY DEF SelectSignal
  <1>8. QED BY <1>1, <1>5, <1>6, <1>7

(* The Pages function: its tolerance and its buffer are never negative. *)
LEMMA PageTolerances ==
  ASSUME NEW range \in Int
  PROVE  /\ Greatest({range \div 2, 1}) \in Nat
         /\ Greatest({range \div 5, Greatest({range \div 2, 1}) \div 5}) \in Nat
  <1> DEFINE half == range \div 2
             fifth == range \div 5
             one == 1
             t == Greatest({half, one})
             part == t \div 5
             b == Greatest({fifth, part})
  <1>1. half \in Int /\ fifth \in Int /\ one \in Int /\ one = 1
    OBVIOUS
  <1>2. t \in {half, one} /\ one <= t
    <2> HIDE DEF half, one
    <2>1. QED BY <1>1, GreatestOfPair
  <1>3. t \in Nat
    <2> HIDE DEF half, t
    <2>1. QED BY <1>1, <1>2
  <1>4. part \in Nat
    <2> HIDE DEF t
    <2>1. QED BY <1>3
  <1>5. b \in {fifth, part} /\ part <= b
    <2>1. fifth \in Int /\ part \in Int
      BY <1>1, <1>4
    <2> HIDE DEF fifth, part
    <2>2. QED BY <2>1, GreatestOfPair
  <1>6. b \in Nat
    <2> HIDE DEF fifth, part, b
    <2>1. QED BY <1>1, <1>4, <1>5
  <1>7. QED BY <1>3, <1>6, Zenon

LEMMA PageRisk ==
  ASSUME NEW s \in Seq(Candle), s # <<>>, PageSignal(s) # NoSetup
  PROVE  HasRisk(PageSignal(s))
  <1> DEFINE range     == ScaledRange(s, 100)
             tolerance == Greatest({range \div 2, 1})
             buffer    == Greatest({range \div 5, tolerance \div 5})
             bias      == PageStructure(s)
             f == [i \in DOMAIN s |-> s[i].low]
             g == [i \in DOMAIN s |-> s[i].high]
             lows == ConfirmedSwingLows(s)
             highs == ConfirmedSwingHighs(s)
             low == "SUPPORT"
             high == "RESISTANCE"
             supports    == PageZones(lows, f, low, tolerance)
             resistances == PageZones(highs, g, high, tolerance)
             all == IF bias = "BULLISH" THEN supports ELSE IF bias = "BEARISH" THEN resistances ELSE {}
             zones == PageNearest(all, Last(s).close)
             of(z) == [action |-> PageSequence(s, z, buffer).action, zone |-> z,
                       breakout |-> PageSequence(s, z, buffer).breakout,
                       entry |-> Last(s).close,
                       stop |-> IF z.kind = "SUPPORT" THEN z.low - buffer ELSE z.high + buffer,
                       score |-> ScoreSetup(Direction(z), z.touches, bias,
                                   PageSequence(s, z, buffer).breakout, "UNAVAILABLE")]
             passed == {x \in {of(z) : z \in zones} : x.action # "WAIT" /\ x.score >= 60}
             m == Len(s)
  <1>1. PageSignal(s) = IF Len(s) < MinPageCandles \/ passed = {} THEN NoSetup ELSE CHOOSE x \in passed : TRUE
    BY Zenon DEF PageSignal
  <1>2. PageSignal(s) \in passed
    <2> HIDE DEF passed
    <2>1. QED BY <1>1, Zenon
  <1>3. PICK z \in zones : PageSignal(s) = of(z) /\ of(z).action # "WAIT"
    <2> HIDE DEF zones, of
    <2>1. QED BY <1>2
  <1>4. tolerance \in Nat /\ buffer \in Nat
    <2>1. 100 \in Nat
      OBVIOUS
    <2>2. range \in Int
      BY <2>1, ScaledRangeType
    <2> HIDE DEF range
    <2>3. QED BY <2>2, PageTolerances
  <1>5. z \in supports \/ z \in resistances
    <2> HIDE DEF supports, resistances, bias
    <2>1. z \in all
      <3> HIDE DEF all
      <3>1. QED BY Zenon DEF PageNearest
    <2>2. QED BY <2>1
  <1>6. \E kind, lo : ZoneOK(z, kind, lo)
    <2>1. /\ m \in Nat /\ lows \in SUBSET (1 .. m) /\ highs \in SUBSET (1 .. m)
          /\ \A i \in 1 .. m : f[i] \in Int
          /\ \A i \in 1 .. m : g[i] \in Int
      BY SwingPrices
    <2> HIDE DEF lows, highs, f, g, low, high, tolerance, m
    <2>2. PICK l \in Int : \A r \in SUBSET (1 .. m) :
            Cardinality(r) >= MinTouches => ZoneOK(ZoneOf(r, f, low, tolerance), low, l)
      BY <1>4, <2>1, ZonesAreOK
    <2>3. PICK h \in Int : \A r \in SUBSET (1 .. m) :
            Cardinality(r) >= MinTouches => ZoneOK(ZoneOf(r, g, high, tolerance), high, h)
      BY <1>4, <2>1, ZonesAreOK
    <2>4. AreOf(supports, m, f, low, tolerance)
      BY <2>1, SwingZones
    <2>5. AreOf(resistances, m, g, high, tolerance)
      BY <2>1, SwingZones
    <2> HIDE DEF supports, resistances
    <2>6. ZoneOK(z, low, l) \/ ZoneOK(z, high, h)
      BY <1>5, <2>2, <2>3, <2>4, <2>5, Zenon DEF AreOf
    <2>7. QED BY <2>6, Zenon
  <1>7. PICK kind, lo : ZoneOK(z, kind, lo)
    BY <1>6
  <1>8. PageSequence(s, z, buffer).action = Direction(z) /\ Confirms(s[Len(s)], z)
    <2>1. PageSequence(s, z, buffer).action \in {"WAIT", Direction(z)}
          /\ (PageSequence(s, z, buffer).action # "WAIT" => Confirms(s[Len(s)], z))
      BY DEF PageSequence
    <2>2. of(z).action = PageSequence(s, z, buffer).action
      OBVIOUS
    <2> HIDE DEF of, buffer
    <2>3. QED BY <1>3, <2>1, <2>2
  <1>9. Last(s) \in Candle /\ ClosesBeyond(Last(s), z)
    BY <1>8, FrontType, Zenon DEF Confirms
  <1>10. /\ of(z).action = Direction(z) /\ of(z).zone = z /\ of(z).entry = Last(s).close
         /\ of(z).stop = IF z.kind = "SUPPORT" THEN z.low - buffer ELSE z.high + buffer
    <2> HIDE DEF buffer, bias
    <2>1. QED BY <1>8
  <1> HIDE DEF of, buffer
  <1>11. HasRisk(of(z))
    BY <1>4, <1>7, <1>9, <1>10, ConfirmedRisk
  <1>12. QED BY <1>3, <1>11

(* A trade at the entry reference of any signal has a positive risk, for    *)
(* every history and all parameters.                                        *)
THEOREM EverySignalHasRisk == Spec => []SignalHasRisk
  <1>1. CandlesOK => SignalHasRisk
    <2> SUFFICES ASSUME CandlesOK, candles # <<>>,
                        NEW s \in {StrategySignal(candles, NoReadings, "UNAVAILABLE"), PageSignal(candles)} \ {NoSetup}
                 PROVE  HasRisk(s)
      BY Zenon DEF SignalHasRisk, HasRisk
    <2>1. candles \in Seq(Candle)
      BY DEF CandlesOK
    <2>2. CASE s = StrategySignal(candles, NoReadings, "UNAVAILABLE")
      <3> DEFINE u == "UNAVAILABLE"
      <3> HIDE DEF u
      <3>1. StrategySignal(candles, NoReadings, u) # NoSetup => HasRisk(StrategySignal(candles, NoReadings, u))
        BY <2>1, StrategyRisk
      <3>2. QED BY <2>2, <3>1, Zenon DEF u
    <2>3. CASE s = PageSignal(candles)
      BY <2>1, <2>3, PageRisk
    <2>4. QED BY <2>2, <2>3
  <1>2. QED BY <1>1, CandlesInvariant, PTL

-----------------------------------------------------------------------------
(* Repeated reactions.                                                      *)

(* The swings whose price lies within a zone, its margins left out. *)
Inside(z, swings, f, t) == {i \in swings : z.low + t <= f[i] /\ f[i] <= z.high - t}

(* What the zones of some swings are said to be. *)
Repeated(zones, swings, f, t) ==
  \A z \in zones :
    /\ z.high - z.low <= 3 * t
    /\ z.touches = Cardinality(Inside(z, swings, f, t))
    /\ \A i, j \in Inside(z, swings, f, t) : i < j => j - i >= MinGap
    /\ \A y \in zones : y # z => Inside(y, swings, f, t) \cap Inside(z, swings, f, t) = {}

(* C are the swings a zone counts. *)
ZoneCounts(z, C, swings, f, t) ==
  /\ Inside(z, swings, f, t) = C
  /\ z.high - z.low <= 3 * t
  /\ z.touches = Cardinality(C)

(* The swings whose price has the anchor a are those inside their zone. *)
LEMMA ClusterIsInside ==
  ASSUME NEW m \in Nat, NEW f, \A i \in 1 .. m : f[i] \in Int,
         NEW swings \in SUBSET (1 .. m), NEW t \in Nat, NEW kind,
         NEW A, Anchoring(A, PricesOf(swings, f), t),
         NEW a, NEW C \in SUBSET swings, \A i \in swings : i \in C <=> A[f[i]] = a, C # {}
  PROVE  ZoneCounts(ZoneOf(C, f, kind, t), C, swings, f, t)
  <1> DEFINE low == Least(PricesOf(C, f))
             high == Greatest(PricesOf(C, f))
             z == ZoneOf(C, f, kind, t)
  <1>1. C \in SUBSET (1 .. m)
    OBVIOUS
  <1>2. /\ \E i \in C : low = f[i]
        /\ \E i \in C : high = f[i]
        /\ low \in Int /\ high \in Int
        /\ \A i \in C : low <= f[i] /\ f[i] <= high
    BY <1>1, PriceExtremes
  <1>3. z.low = low - t /\ z.high = high + t /\ z.touches = Cardinality(C)
    BY DEF ZoneOf
  <1> HIDE DEF low, high, z
  <1>4. PICK i \in C : low = f[i]
    BY <1>2
  <1>5. PICK j \in C : high = f[j]
    BY <1>2
  <1>6. \A k \in swings : f[k] \in PricesOf(swings, f) /\ f[k] \in Int
    BY DEF PricesOf
  <1>7. A[low] = a /\ A[high] = a /\ i \in swings /\ j \in swings
    BY <1>4, <1>5
  <1>8. /\ a \in Int /\ a <= low /\ high - a <= t
        /\ \A k \in swings : /\ low <= f[k] => a <= A[f[k]]
                             /\ f[k] <= high => A[f[k]] <= a
                             /\ A[f[k]] \in Int
    BY <1>4, <1>5, <1>6, <1>7 DEF Anchoring
  <1>9. \A k \in swings : low <= f[k] /\ f[k] <= high <=> k \in C
    <2>1. ASSUME NEW k \in swings, low <= f[k], f[k] <= high
          PROVE  A[f[k]] = a
      <3> DEFINE x == A[f[k]]
      <3>1. x \in Int /\ a <= x /\ x <= a
        BY <1>8, <2>1
      <3> HIDE DEF x
      <3>2. x = a
        BY <1>8, <3>1
      <3>3. QED BY <3>2 DEF x
    <2>2. QED BY <1>2, <2>1
  <1>10. Inside(z, swings, f, t) = C
    <2>1. \A k \in swings : z.low + t <= f[k] /\ f[k] <= z.high - t <=> low <= f[k] /\ f[k] <= high
      BY <1>2, <1>3, <1>6
    <2>2. QED BY <1>9, <2>1 DEF Inside
  <1>11. z.high - z.low <= 3 * t
    BY <1>2, <1>3, <1>8
  <1>12. QED BY <1>3, <1>10, <1>11 DEF z, ZoneCounts

LEMMA BuiltZonesRepeat ==
  ASSUME NEW m \in Nat, NEW f, \A i \in 1 .. m : f[i] \in Int,
         NEW swings \in SUBSET (1 .. m), \A i, j \in swings : i < j => j - i >= MinGap,
         NEW t \in Nat, NEW kind
  PROVE  Repeated(BuildSwingZones(swings, f, kind, t), swings, f, t)
  <1> DEFINE prices == PricesOf(swings, f)
             anchors == ClusterAnchors(prices, t)
             C(a) == {i \in swings : anchors[f[i]] = a}
             As == {anchors[f[i]] : i \in swings}
             R == {SeparatedReactions(C(a)) : a \in As}
             zones == BuildSwingZones(swings, f, kind, t)
  <1>1. zones = {ZoneOf(r, f, kind, t) : r \in {r \in R : Cardinality(r) >= MinTouches}}
    BY Zenon DEF BuildSwingZones, ZoneOf, PricesOf
  <1>2. Anchoring(anchors, prices, t)
    <2>1. PICK lo \in Int, hi \in Int : Within(f, m, lo, hi)
      BY BoundsExist
    <2>2. prices \in SUBSET Int /\ \A p \in prices : lo <= p /\ p <= hi
      BY <2>1 DEF Within, PricesOf
    <2> HIDE DEF prices
    <2>3. QED BY <2>2, AnchorsAre
  <1> HIDE DEF anchors, As, zones
  <1>3. \A a : C(a) \in SUBSET (1 .. m) /\ C(a) \in SUBSET Int /\ C(a) \in SUBSET swings
    <2>1. \A i \in swings : i \in 1 .. m /\ i \in Int
      OBVIOUS
    <2>2. QED BY <2>1, Zenon
  <1>4. ASSUME NEW a
        PROVE  SeparatedReactions(C(a)) = C(a)
    <2> DEFINE D == C(a)
    <2>1. D \in SUBSET Int /\ D \in SUBSET swings
      BY <1>3
    <2> HIDE DEF D
    <2>2. SeparatedReactions(D) = D
      BY <2>1, SeparatedAll
    <2>3. QED BY <2>2 DEF D
  <1>5. \A z \in zones : \E a : z = ZoneOf(C(a), f, kind, t) /\ Cardinality(C(a)) >= MinTouches
    <2> HIDE DEF C
    <2>1. QED BY <1>1, <1>4, Zenon
  <1>6. ASSUME NEW a, Cardinality(C(a)) >= MinTouches
        PROVE  ZoneCounts(ZoneOf(C(a), f, kind, t), C(a), swings, f, t)
    <2> DEFINE D == C(a)
    <2>1. D \in SUBSET swings /\ \A i \in swings : i \in D <=> anchors[f[i]] = a
      OBVIOUS
    <2> HIDE DEF D
    <2>2. D # {}
      <3>1. Cardinality(D) >= MinTouches
        BY <1>6 DEF D
      <3>2. D \in SUBSET (1 .. m)
        BY <2>1
      <3>3. QED BY <3>1, <3>2, TouchesType
    <2>3. ZoneCounts(ZoneOf(D, f, kind, t), D, swings, f, t)
      BY <1>2, <2>1, <2>2, ClusterIsInside
    <2>4. QED BY <2>3 DEF D
  <1>7. ASSUME NEW z \in zones
        PROVE  /\ z.high - z.low <= 3 * t
               /\ z.touches = Cardinality(Inside(z, swings, f, t))
               /\ \A i, j \in Inside(z, swings, f, t) : i < j => j - i >= MinGap
    <2>1. PICK a : z = ZoneOf(C(a), f, kind, t) /\ Cardinality(C(a)) >= MinTouches
      BY <1>5
    <2> HIDE DEF C
    <2>2. Inside(z, swings, f, t) = C(a) /\ z.high - z.low <= 3 * t /\ z.touches = Cardinality(C(a))
      BY <1>6, <2>1, Zenon DEF ZoneCounts
    <2>3. \A i, j \in C(a) : i < j => j - i >= MinGap
      BY <1>3
    <2>4. QED BY <2>2, <2>3
  <1>8. ASSUME NEW z \in zones, NEW y \in zones, y # z
        PROVE  Inside(y, swings, f, t) \cap Inside(z, swings, f, t) = {}
    <2>1. PICK a : z = ZoneOf(C(a), f, kind, t) /\ Cardinality(C(a)) >= MinTouches
      BY <1>5
    <2>2. PICK b : y = ZoneOf(C(b), f, kind, t) /\ Cardinality(C(b)) >= MinTouches
      BY <1>5
    <2>3. a # b
      <3> HIDE DEF C
      <3>1. QED BY <1>8, <2>1, <2>2, Zenon
    <2>4. C(a) \cap C(b) = {}
      BY <2>3
    <2> HIDE DEF C
    <2>5. Inside(z, swings, f, t) = C(a) /\ Inside(y, swings, f, t) = C(b)
      BY <1>6, <2>1, <2>2, Zenon DEF ZoneCounts
    <2>6. QED BY <2>4, <2>5
  <1>9. QED BY <1>7, <1>8, Zenon DEF Repeated, zones

(* Confirmed swings of a kind are further apart than their windows reach. *)
LEMMA SwingsApart ==
  ASSUME MinGap <= Strength + 1, NEW s \in Seq(Candle)
  PROVE  /\ \A i, j \in ConfirmedSwingLows(s) : i < j => j - i >= MinGap
         /\ \A i, j \in ConfirmedSwingHighs(s) : i < j => j - i >= MinGap
  <1>1. Strength \in Nat /\ MinGap \in Nat /\ Len(s) \in Nat
    BY PriceActionAssumption
  <1>2. \A i \in 1 .. Len(s) : s[i].low \in Int /\ s[i].high \in Int
    <2>1. \A i \in 1 .. Len(s) : s[i] \in Candle
      OBVIOUS
    <2>2. \A c \in Candle : c.low \in Int /\ c.high \in Int
      BY DEF Candle
    <2>3. QED BY <2>1, <2>2
  <1>3. ASSUME NEW i \in Strength + 1 .. Len(s) - Strength, NEW j \in Strength + 1 .. Len(s) - Strength,
               i < j, ~(j - i >= MinGap)
        PROVE  /\ j \in SwingWindow(i) \ {i} /\ i \in SwingWindow(j) \ {j}
               /\ i \in 1 .. Len(s) /\ j \in 1 .. Len(s)
    BY <1>1, <1>3 DEF SwingWindow
  <1>4. ASSUME NEW i \in ConfirmedSwingLows(s), NEW j \in ConfirmedSwingLows(s), i < j, ~(j - i >= MinGap)
        PROVE  FALSE
    <2>1. s[i].low < s[j].low /\ s[j].low < s[i].low /\ i \in 1 .. Len(s) /\ j \in 1 .. Len(s)
      BY <1>3, <1>4 DEF ConfirmedSwingLows
    <2>2. QED BY <1>2, <2>1
  <1>5. ASSUME NEW i \in ConfirmedSwingHighs(s), NEW j \in ConfirmedSwingHighs(s), i < j, ~(j - i >= MinGap)
        PROVE  FALSE
    <2>1. s[i].high > s[j].high /\ s[j].high > s[i].high /\ i \in 1 .. Len(s) /\ j \in 1 .. Len(s)
      BY <1>3, <1>5 DEF ConfirmedSwingHighs
    <2>2. QED BY <1>2, <2>1
  <1>6. QED BY <1>4, <1>5

(* Zones are repeated reactions, and signals have their stop behind them,   *)
(* for every history, as long as the gap asked for between two touches is   *)
(* not wider than the candles that confirm a swing keep them apart anyway,  *)
(* as with the strength of 2 and the gap of 2 the code has.                 *)
THEOREM SetupsHangTogether ==
  ASSUME MinGap <= Strength + 1
  PROVE  Spec => []SetupsAreSound
  <1>1. ASSUME CandlesOK
        PROVE  ZonesAreRepeatedReactions
    <2> DEFINE t == AdaptiveZoneTolerance(candles)
               f == [i \in DOMAIN candles |-> candles[i].low]
               g == [i \in DOMAIN candles |-> candles[i].high]
               lows == ConfirmedSwingLows(candles)
               highs == ConfirmedSwingHighs(candles)
               low == "SUPPORT"
               high == "RESISTANCE"
               m == Len(candles)
    <2>1. candles \in Seq(Candle)
      BY <1>1 DEF CandlesOK
    <2>2. t \in Nat
      BY <2>1, ToleranceType
    <2>3. /\ m \in Nat /\ lows \in SUBSET (1 .. m) /\ highs \in SUBSET (1 .. m)
          /\ \A i \in 1 .. m : f[i] \in Int
          /\ \A i \in 1 .. m : g[i] \in Int
      BY <2>1, SwingPrices
    <2>4. /\ \A i, j \in lows : i < j => j - i >= MinGap
          /\ \A i, j \in highs : i < j => j - i >= MinGap
      BY <2>1, SwingsApart
    <2>5. FindSupportZones(candles) = BuildSwingZones(lows, f, low, t)
      BY Zenon DEF FindSupportZones
    <2>6. FindResistanceZones(candles) = BuildSwingZones(highs, g, high, t)
      BY Zenon DEF FindResistanceZones
    <2>7. \A z, swings, price : ReactionsOf(z, swings, price) = Inside(z, swings, price, t)
      BY Zenon DEF ReactionsOf, Inside
    <2> HIDE DEF t, f, g, lows, highs, low, high, m
    <2>8. Repeated(FindSupportZones(candles), lows, f, t)
      BY <2>2, <2>3, <2>4, <2>5, BuiltZonesRepeat
    <2>9. Repeated(FindResistanceZones(candles), highs, g, t)
      BY <2>2, <2>3, <2>4, <2>6, BuiltZonesRepeat
    <2> DEFINE sound(zones, swings, price) ==
          \A z \in zones :
            LET reactions == ReactionsOf(z, swings, price)
            IN  /\ z.high - z.low <= 3 * AdaptiveZoneTolerance(candles)
                /\ z.touches = Cardinality(reactions)
                /\ \A i, j \in reactions : i < j => j - i >= MinGap
                /\ \A y \in zones : y # z => ReactionsOf(y, swings, price) \cap reactions = {}
    <2>10. ASSUME NEW zones, NEW swings, NEW price, Repeated(zones, swings, price, t)
           PROVE  sound(zones, swings, price)
      BY <2>7, <2>10, Zenon DEF Repeated, t
    <2>11. sound(FindSupportZones(candles), lows, f) /\ sound(FindResistanceZones(candles), highs, g)
      <3> HIDE DEF sound
      <3>1. QED BY <2>8, <2>9, <2>10
    <2>12. QED BY <2>11, Zenon DEF ZonesAreRepeatedReactions, lows, highs, f, g
  <1>2. CandlesOK => ZonesAreRepeatedReactions
    BY <1>1
  <1>3. QED BY <1>2, CandlesInvariant, EverySignalHasRisk, PTL DEF SetupsAreSound

-----------------------------------------------------------------------------
(* Two setups.                                                              *)

(* A key of the elements of X has a least value. *)
LEMMA KeyMin ==
  ASSUME NEW X, X # {}, NEW k, NEW lo \in Int, \A x \in X : k[x] \in Int /\ lo <= k[x]
  PROVE  \E x \in X : \A y \in X : k[x] <= k[y]
  <1> DEFINE K == {k[x] : x \in X}
  <1>1. K \in SUBSET Int /\ K # {} /\ \A i \in K : lo <= i
    OBVIOUS
  <1>2. Least(K) \in K /\ \A i \in K : Least(K) <= i
    <2> HIDE DEF K
    <2> QED BY <1>1, LeastIs
  <1>3. PICK x \in X : Least(K) = k[x]
    BY <1>2
  <1>4. \A y \in X : k[y] \in K
    OBVIOUS
  <1> QED BY <1>2, <1>3, <1>4

(* The candles that decide about a zone. *)
Deciding(s, z) ==
  {k \in {k \in Len(s) - MaxTestAge .. Len(s) - 1 : k >= 1 /\ Touches(s[k], z)} :
     \/ Breakout(s[k], z, AdaptiveConfirmationBuffer(Front(s))) = "TRUE_BREAKOUT"
     \/ Held(s[k], z, AdaptiveConfirmationBuffer(Front(s)))}

Decision(s, z, test) ==
  LET state == Breakout(s[test], z, AdaptiveConfirmationBuffer(Front(s)))
  IN  IF state = "TRUE_BREAKOUT"
      THEN [action |-> "WAIT", state |-> "BROKEN", breakout |-> state, test |-> test]
      ELSE [action |-> IF Confirms(s[Len(s)], z) THEN Direction(z) ELSE "WAIT",
            state |-> "CONFIRM", breakout |-> state, test |-> test]

(* A sequence is the decision of the latest candle that decides.            *)
LEMMA SequenceIs ==
  ASSUME NEW s \in Seq(Candle), NEW z
  PROVE  /\ Deciding(s, z) = {} => EvaluateSequence(s, z) = NoSequence
         /\ Len(s) < 2 => EvaluateSequence(s, z) = NoSequence
         /\ Len(s) >= 2 /\ Deciding(s, z) # {} =>
              /\ EvaluateSequence(s, z) = Decision(s, z, Greatest(Deciding(s, z)))
              /\ Greatest(Deciding(s, z)) \in Deciding(s, z)
              /\ \A k \in Deciding(s, z) : k <= Greatest(Deciding(s, z))
  <1> DEFINE D == Deciding(s, z)
             n == Len(s)
  <1>1. EvaluateSequence(s, z) = IF n < 2 \/ D = {} THEN NoSequence ELSE Decision(s, z, Greatest(D))
    BY Zenon DEF EvaluateSequence, Deciding, Decision
  <1>2. n \in Nat /\ MaxTestAge \in Nat
    BY PriceActionAssumption
  <1>3. D \in SUBSET Int /\ \A k \in D : k <= n - 1
    BY <1>2 DEF Deciding
  <1> HIDE DEF D
  <1>4. D # {} => Greatest(D) \in D /\ \A k \in D : k <= Greatest(D)
    <2> DEFINE hi == n - 1
    <2>1. hi \in Int /\ \A k \in D : k <= hi
      BY <1>2, <1>3
    <2> HIDE DEF hi
    <2> QED BY <1>3, <2>1, GreatestIs
  <1>5. ~(n >= 2 /\ n < 2)
    BY <1>2
  <1> QED BY <1>1, <1>4, <1>5, Zenon DEF D

(* A zone that its latest touch broke does not signal. *)
LEMMA BrokenIsSilent ==
  ASSUME NEW s \in Seq(Candle), s # <<>>, NEW zones, NEW z \in zones, z \notin ActiveZones(zones, Front(s))
  PROVE  EvaluateSequence(s, z).action = "WAIT"
  <1> DEFINE h == Front(s)
             n == Len(s)
             touching == {k \in DOMAIN h : Touches(h[k], z)}
             g == Greatest(touching)
             D == Deciding(s, z)
  <1>1. /\ n \in Nat \ {0} /\ MaxTestAge \in Nat
        /\ DOMAIN h = 1 .. n - 1 /\ \A k \in 1 .. n - 1 : h[k] = s[k]
    BY PriceActionAssumption DEF Front
  <1>2. touching # {} /\ Breakout(h[g], z, AdaptiveConfirmationBuffer(h)) = "TRUE_BREAKOUT"
    BY Zenon DEF ActiveZones
  <1>3. g \in touching /\ \A k \in touching : k <= g
    <2> DEFINE hi == n - 1
    <2>1. hi \in Int /\ touching \in SUBSET Int /\ \A k \in touching : k <= hi
      BY <1>1
    <2> HIDE DEF hi, touching
    <2> QED BY <1>2, <2>1, GreatestIs
  <1>4. g \in 1 .. n - 1 /\ h[g] = s[g] /\ Touches(s[g], z)
    BY <1>1, <1>3
  <1>5. \A k \in D : k \in touching /\ k \in n - MaxTestAge .. n - 1
    <2>1. ASSUME NEW k \in D PROVE k \in touching /\ k \in n - MaxTestAge .. n - 1
      <3>1. k \in n - MaxTestAge .. n - 1 /\ k >= 1 /\ Touches(s[k], z)
        BY DEF Deciding
      <3>2. k \in 1 .. n - 1
        BY <1>1, <3>1
      <3> QED BY <1>1, <3>1, <3>2
    <2> QED BY <2>1
  <1>6. g \in n - MaxTestAge .. n - 1 => g \in D
    <2>1. g >= 1
      BY <1>1, <1>4
    <2> HIDE DEF g
    <2> QED BY <1>2, <1>4, <2>1 DEF Deciding
  <1>7. CASE D = {} \/ n < 2
    <2>1. EvaluateSequence(s, z) = NoSequence
      BY <1>7, SequenceIs
    <2> QED BY <2>1 DEF NoSequence
  <1>8. CASE D # {} /\ n >= 2
    <2> DEFINE e == Greatest(D)
    <2>1. EvaluateSequence(s, z) = Decision(s, z, e) /\ e \in D /\ \A k \in D : k <= e
      BY <1>8, SequenceIs
    <2> HIDE DEF e, D, g
    <2>2. e \in touching /\ e \in n - MaxTestAge .. n - 1 /\ e <= g
      BY <1>3, <1>5, <2>1
    <2> HIDE DEF touching
    <2>3. g \in n - MaxTestAge .. n - 1
      BY <1>1, <1>4, <2>2
    <2>4. e = g
      BY <1>1, <1>4, <1>6, <2>1, <2>2, <2>3
    <2>5. Breakout(s[e], z, AdaptiveConfirmationBuffer(h)) = "TRUE_BREAKOUT"
      BY <1>2, <1>4, <2>4, Zenon
    <2>6. Decision(s, z, e) = [action |-> "WAIT", state |-> "BROKEN", breakout |-> "TRUE_BREAKOUT", test |-> e]
      BY <2>5, Zenon DEF Decision
    <2> QED BY <2>1, <2>6
  <1>9. n >= 2 \/ n < 2
    BY <1>1
  <1> QED BY <1>7, <1>8, <1>9

(* What the zones of a kind signal. *)
Setups(s, zones, bias, readings, alignment) ==
  {EvaluateZone(s, z, bias, readings, alignment) : z \in zones} \ {NoSetup}

(* What a zone signals when its sequence acts and the readings allow it.    *)
LEMMA SetupIs ==
  ASSUME NEW s \in Seq(Candle), s # <<>>, NEW z, NEW kind \in {"SUPPORT", "RESISTANCE"}, NEW lo, ZoneOK(z, kind, lo),
         NEW bias, NEW readings, NEW alignment
  PROVE  LET r == EvaluateSequence(s, z)
             e == [action |-> Direction(z), zone |-> z, breakout |-> r.breakout,
                   entry |-> Last(s).close, stop |-> ProtectiveStop(z, Front(s)),
                   score |-> ScoreSetup(Direction(z), z.touches, bias, r.breakout, alignment)]
         IN  /\ r.action # "WAIT" /\ IndicatorsAllow(readings, Direction(z)) =>
                  /\ EvaluateZone(s, z, bias, readings, alignment) = e
                  /\ e # NoSetup /\ CandlePressure(Last(s)) = Pressure(Direction(z))
             /\ r.action = "WAIT" \/ ~IndicatorsAllow(readings, Direction(z)) =>
                  EvaluateZone(s, z, bias, readings, alignment) = NoSetup
             /\ r.action = "WAIT" \/ r.action = Direction(z)
  <1> DEFINE r == EvaluateSequence(s, z)
             e == [action |-> Direction(z), zone |-> z, breakout |-> r.breakout,
                   entry |-> Last(s).close, stop |-> ProtectiveStop(z, Front(s)),
                   score |-> ScoreSetup(Direction(z), z.touches, bias, r.breakout, alignment)]
             E == EvaluateZone(s, z, bias, readings, alignment)
  <1>1. r.action = "WAIT" \/ (r.action = Direction(z) /\ Confirms(s[Len(s)], z))
    BY SequenceConfirms
  <1>2. Direction(z) \in {"LONG", "SHORT"} /\ Direction(z) # "WAIT"
    BY DEF Direction
  <1>3. r.action = "WAIT" \/ ~IndicatorsAllow(readings, r.action) => E = NoSetup
    BY Zenon DEF EvaluateZone
  <1>4. r.action = Direction(z) /\ IndicatorsAllow(readings, Direction(z)) => E = e
    <2> SUFFICES ASSUME r.action = Direction(z), IndicatorsAllow(readings, Direction(z)) PROVE E = e
      OBVIOUS
    <2>1. r.action # "WAIT" /\ IndicatorsAllow(readings, r.action)
      BY <1>2
    <2>2. E = [action |-> r.action, zone |-> z, breakout |-> r.breakout,
               entry |-> Last(s).close, stop |-> ProtectiveStop(z, Front(s)),
               score |-> ScoreSetup(r.action, z.touches, bias, r.breakout, alignment)]
      BY <2>1, Zenon DEF EvaluateZone
    <2> QED BY <2>2
  <1>5. e.action = Direction(z) /\ NoSetup.action = "WAIT"
    BY DEF NoSetup
  <1> HIDE DEF e, E, r
  <1>6. e # NoSetup
    BY <1>2, <1>5
  <1>7. Confirms(s[Len(s)], z) => CandlePressure(Last(s)) = Pressure(Direction(z))
    BY DEF Confirms, Last
  <1>8. /\ r.action # "WAIT" /\ IndicatorsAllow(readings, Direction(z)) =>
             E = e /\ e # NoSetup /\ CandlePressure(Last(s)) = Pressure(Direction(z))
        /\ r.action = "WAIT" \/ ~IndicatorsAllow(readings, Direction(z)) => E = NoSetup
        /\ r.action = "WAIT" \/ r.action = Direction(z)
    BY <1>1, <1>3, <1>4, <1>6, <1>7
  <1> QED BY <1>8 DEF e, E, r

(* Zones of one kind, no two of them with the same lower edge. *)
OfKind(zones, kind, lo, m) ==
  /\ \A z \in zones : ZoneOK(z, kind, lo) /\ z.touches <= m
  /\ \A y, z \in zones : y.low = z.low => y = z

(* A setup of such zones, with the pressure its direction needs.            *)
SetupOK(x, s, zones, kind, lo) ==
  /\ x.action = (IF kind = "SUPPORT" THEN "LONG" ELSE "SHORT") /\ x.zone \in zones
  /\ Ranked(x, lo) /\ CandlePressure(Last(s)) = Pressure(x.action)

LEMMA SetupsOfKind ==
  ASSUME NEW s \in Seq(Candle), s # <<>>, NEW zones, NEW kind \in {"SUPPORT", "RESISTANCE"}, NEW lo, NEW m,
         OfKind(zones, kind, lo, m), NEW bias, NEW readings, NEW alignment
  PROVE  \A x \in Setups(s, zones, bias, readings, alignment) : SetupOK(x, s, zones, kind, lo)
  <1> SUFFICES ASSUME NEW z \in zones, EvaluateZone(s, z, bias, readings, alignment) # NoSetup
               PROVE  SetupOK(EvaluateZone(s, z, bias, readings, alignment), s, zones, kind, lo)
    BY DEF Setups
  <1> DEFINE x == EvaluateZone(s, z, bias, readings, alignment)
             r == EvaluateSequence(s, z)
  <1>1. ZoneOK(z, kind, lo)
    BY DEF OfKind
  <1>2. Ranked(x, lo)
    BY <1>1, EvaluatedRisk
  <1>3. r.action # "WAIT" /\ IndicatorsAllow(readings, Direction(z))
    BY <1>1, SetupIs
  <1>4. /\ x = [action |-> Direction(z), zone |-> z, breakout |-> r.breakout,
                entry |-> Last(s).close, stop |-> ProtectiveStop(z, Front(s)),
                score |-> ScoreSetup(Direction(z), z.touches, bias, r.breakout, alignment)]
        /\ CandlePressure(Last(s)) = Pressure(Direction(z))
    BY <1>1, <1>3, SetupIs
  <1> HIDE DEF x
  <1>5. x.action = Direction(z) /\ x.zone = z
    BY <1>4
  <1>6. Direction(z) = IF kind = "SUPPORT" THEN "LONG" ELSE "SHORT"
    BY <1>1, Zenon DEF ZoneOK, Direction
  <1>7. /\ x.action = (IF kind = "SUPPORT" THEN "LONG" ELSE "SHORT") /\ x.zone \in zones
        /\ Ranked(x, lo) /\ CandlePressure(Last(s)) = Pressure(x.action)
    BY <1>2, <1>4, <1>5, <1>6
  <1> QED BY <1>7 DEF x, SetupOK

(* The best signal is one of the setups, if there are any. *)
LEMMA BestIs ==
  ASSUME NEW signals, NEW lo \in Int, \A s \in signals \ {NoSetup} : Ranked(s, lo)
  PROVE  /\ signals \ {NoSetup} = {} => BestSignal(signals) = NoSetup
         /\ signals \ {NoSetup} # {} =>
              /\ BestSignal(signals) \in signals \ {NoSetup}
              /\ \A t \in signals \ {NoSetup} :
                   /\ t.score <= BestSignal(signals).score
                   /\ t.score = BestSignal(signals).score => BestSignal(signals).zone.low <= t.zone.low
  <1> DEFINE X == signals \ {NoSetup}
             best == {s \in X : \A t \in X : t.score <= s.score}
             b == BestSignal(signals)
  <1>1. b = IF X = {} THEN NoSetup ELSE CHOOSE s \in best : \A t \in best : s.zone.low <= t.zone.low
    BY Zenon DEF BestSignal
  <1>2. \A s \in X : s.score \in Int /\ s.score <= 100 /\ s.zone.low \in Int /\ lo <= s.zone.low
    BY DEF Ranked
  <1> HIDE DEF X
  <1>3. CASE X # {}
    <2>1. best # {}
      <3> DEFINE k == [s \in X |-> 100 - s.score]
                 zero == 0
      <3>1. zero \in Int /\ \A s \in X : k[s] \in Int /\ zero <= k[s]
        BY <1>2
      <3> HIDE DEF k, zero
      <3>2. PICK s \in X : \A t \in X : k[s] <= k[t]
        BY <1>3, <3>1, KeyMin
      <3>3. \A t \in X : t.score <= s.score
        BY <1>2, <3>2 DEF k
      <3> QED BY <3>3
    <2>2. \E s \in best : \A t \in best : s.zone.low <= t.zone.low
      <3> DEFINE k == [s \in best |-> s.zone.low]
      <3>1. \A s \in best : k[s] \in Int /\ lo <= k[s]
        BY <1>2
      <3>2. PICK s \in best : \A t \in best : k[s] <= k[t]
        <4> HIDE DEF k, best
        <4> QED BY <2>1, <3>1, KeyMin
      <3>3. \A t \in best : s.zone.low <= t.zone.low
        BY <3>2
      <3> QED BY <3>3
    <2>3. b \in best /\ \A t \in best : b.zone.low <= t.zone.low
      <3> HIDE DEF best, b
      <3> QED BY <1>1, <1>3, <2>2, Zenon
    <2> HIDE DEF b
    <2>4. b \in X /\ \A t \in X : t.score <= b.score
      BY <2>3
    <2>5. ASSUME NEW t \in X, t.score = b.score PROVE b.zone.low <= t.zone.low
      <3>1. t \in best
        BY <2>4, <2>5
      <3> QED BY <2>3, <3>1
    <2> QED BY <1>3, <2>4, <2>5 DEF b, X
  <1>4. CASE X = {}
    BY <1>1, <1>4 DEF X
  <1> QED BY <1>3, <1>4

(* So is the best of the setups of some zones.                              *)
LEMMA BestSetup ==
  ASSUME NEW s \in Seq(Candle), s # <<>>, NEW zones, NEW kind \in {"SUPPORT", "RESISTANCE"}, NEW lo \in Int, NEW m,
         OfKind(zones, kind, lo, m), NEW bias, NEW readings, NEW alignment
  PROVE  LET X == Setups(s, zones, bias, readings, alignment)
             b == BestOf(s, zones, bias, readings, alignment)
         IN  /\ X = {} => b = NoSetup
             /\ X # {} => /\ b \in X
                          /\ \A t \in X : t.score <= b.score /\ (t.score = b.score => b.zone.low <= t.zone.low)
  <1> DEFINE signals == {EvaluateZone(s, z, bias, readings, alignment) : z \in zones}
  <1>1. Setups(s, zones, bias, readings, alignment) = signals \ {NoSetup}
    BY Zenon DEF Setups
  <1>2. BestOf(s, zones, bias, readings, alignment) = BestSignal(signals)
    BY Zenon DEF BestOf
  <1>3. \A x \in signals \ {NoSetup} : Ranked(x, lo)
    <2>1. \A x \in Setups(s, zones, bias, readings, alignment) : SetupOK(x, s, zones, kind, lo)
      BY SetupsOfKind
    <2> HIDE DEF signals
    <2> QED BY <1>1, <2>1, Zenon DEF SetupOK
  <1> HIDE DEF signals
  <1>4. /\ signals \ {NoSetup} = {} => BestSignal(signals) = NoSetup
        /\ signals \ {NoSetup} # {} =>
             /\ BestSignal(signals) \in signals \ {NoSetup}
             /\ \A t \in signals \ {NoSetup} :
                  /\ t.score <= BestSignal(signals).score
                  /\ t.score = BestSignal(signals).score => BestSignal(signals).zone.low <= t.zone.low
    BY <1>3, BestIs
  <1> QED BY <1>1, <1>2, <1>4

(* The first setup by distance, touches and edge is one of the setups, and  *)
(* the zones that were dropped have none.                                   *)
LEMMA FirstSetupIs ==
  ASSUME NEW s \in Seq(Candle), s # <<>>, NEW zones, NEW kind \in {"SUPPORT", "RESISTANCE"}, NEW lo \in Int, NEW m \in Nat,
         OfKind(zones, kind, lo, m), NEW bias, NEW readings
  PROVE  LET X == Setups(s, zones, bias, readings, "UNAVAILABLE")
             f == FirstSetup(Front(s), s, zones, bias, readings)
         IN  (X = {} => f = NoSetup) /\ (X # {} => f \in X)
  <1> DEFINE na == "UNAVAILABLE"
             X == Setups(s, zones, bias, readings, na)
             f == FirstSetup(Front(s), s, zones, bias, readings)
             price == Last(s).close
             active == {EvaluateZone(s, z, bias, readings, na) : z \in ActiveZones(zones, Front(s))} \ {NoSetup}
             before(x, t) == LET d == ZoneDistance(x.zone, price)
                                 e == ZoneDistance(t.zone, price)
                             IN  \/ d < e
                                 \/ d = e /\ x.zone.touches > t.zone.touches
                                 \/ d = e /\ x.zone.touches = t.zone.touches /\ x.zone.low <= t.zone.low
  <1>1. active = X
    <2>1. \A z \in ActiveZones(zones, Front(s)) : z \in zones
      BY DEF ActiveZones
    <2>2. ASSUME NEW z \in zones, z \notin ActiveZones(zones, Front(s))
          PROVE  EvaluateZone(s, z, bias, readings, na) = NoSetup
      <3>1. EvaluateSequence(s, z).action = "WAIT"
        BY <2>2, BrokenIsSilent
      <3> QED BY <3>1, Zenon DEF EvaluateZone
    <2> HIDE DEF na
    <2> QED BY <2>1, <2>2 DEF Setups
  <1>2. f = IF active = {} THEN NoSetup ELSE CHOOSE x \in active : \A t \in active : before(x, t)
    BY Zenon DEF FirstSetup
  <1>3. \A x \in X : /\ ZoneDistance(x.zone, price) \in Int /\ 0 <= ZoneDistance(x.zone, price)
                     /\ x.zone.touches \in Int /\ x.zone.touches <= m /\ x.zone.low \in Int /\ lo <= x.zone.low
    <2>1. price \in Int
      BY FrontType DEF Candle
    <2> HIDE DEF price, na, X
    <2>2. ASSUME NEW z \in zones
          PROVE  /\ ZoneDistance(z, price) \in Int /\ 0 <= ZoneDistance(z, price)
                 /\ z.touches \in Int /\ z.touches <= m /\ z.low \in Int /\ lo <= z.low
      <3>1. z.low \in Int /\ z.high \in Int /\ lo <= z.low /\ z.touches \in Int /\ z.touches <= m
        BY DEF OfKind, ZoneOK
      <3> QED BY <2>1, <3>1 DEF ZoneDistance
    <2>3. \A x \in X : x.zone \in zones
      BY SetupsOfKind DEF X, SetupOK
    <2> QED BY <2>2, <2>3
  <1> HIDE DEF X, price, active, na
  <1>4. ASSUME X # {}
        PROVE  \E x \in X : \A t \in X : before(x, t)
    <2> DEFINE k1 == [x \in X |-> ZoneDistance(x.zone, price)]
               zero == 0
               top == -m
    <2>1. zero \in Int /\ top \in Int /\ \A x \in X : k1[x] \in Int /\ zero <= k1[x]
      BY <1>3
    <2>2. PICK x1 \in X : \A t \in X : k1[x1] <= k1[t]
      <3> HIDE DEF k1, zero, top
      <3> QED BY <1>4, <2>1, KeyMin
    <2> DEFINE X2 == {x \in X : k1[x] = k1[x1]}
               k2 == [x \in X2 |-> -x.zone.touches]
    <2>3. \A x \in X2 : k2[x] \in Int /\ top <= k2[x]
      BY <1>3
    <2>4. PICK x2 \in X2 : \A t \in X2 : k2[x2] <= k2[t]
      <3>1. X2 # {}
        OBVIOUS
      <3> HIDE DEF k2, X2, zero, top
      <3> QED BY <2>1, <2>3, <3>1, KeyMin
    <2> DEFINE X3 == {x \in X2 : k2[x] = k2[x2]}
               k3 == [x \in X3 |-> x.zone.low]
    <2>5. \A x \in X3 : k3[x] \in Int /\ lo <= k3[x]
      BY <1>3
    <2>6. PICK x3 \in X3 : \A t \in X3 : k3[x3] <= k3[t]
      <3>1. X3 # {}
        OBVIOUS
      <3> HIDE DEF k3, X3
      <3> QED BY <2>5, <3>1, KeyMin
    <2>7. x3 \in X /\ x3 \in X2 /\ k1[x3] = k1[x1] /\ k2[x3] = k2[x2]
      BY <2>6
    <2>8. ASSUME NEW t \in X PROVE before(x3, t)
      <3> DEFINE d(x) == ZoneDistance(x.zone, price)
      <3>1. /\ d(x3) \in Int /\ d(t) \in Int /\ x3.zone.touches \in Int /\ t.zone.touches \in Int
            /\ d(x3) <= d(t)
        BY <1>3, <2>2, <2>7
      <3>2. d(t) = d(x3) => t \in X2 /\ x3.zone.touches >= t.zone.touches
        <4> SUFFICES ASSUME d(t) = d(x3) PROVE t \in X2 /\ x3.zone.touches >= t.zone.touches
          OBVIOUS
        <4>1. t \in X2
          BY <2>7
        <4>2. k2[x3] <= k2[t] /\ k2[x3] = -x3.zone.touches /\ k2[t] = -t.zone.touches
          BY <2>4, <2>7, <4>1
        <4> QED BY <3>1, <4>1, <4>2
      <3>3. d(t) = d(x3) /\ t.zone.touches = x3.zone.touches => x3.zone.low <= t.zone.low
        <4> SUFFICES ASSUME d(t) = d(x3), t.zone.touches = x3.zone.touches PROVE x3.zone.low <= t.zone.low
          OBVIOUS
        <4>1. t \in X2 /\ k2[t] = k2[x3]
          BY <2>7, <3>2
        <4>2. t \in X3
          BY <2>7, <4>1
        <4>3. k3[x3] <= k3[t]
          BY <2>6, <4>2
        <4> QED BY <2>6, <4>2, <4>3
      <3> HIDE DEF d
      <3>4. \/ d(x3) < d(t)
            \/ d(x3) = d(t) /\ x3.zone.touches > t.zone.touches
            \/ d(x3) = d(t) /\ x3.zone.touches = t.zone.touches /\ x3.zone.low <= t.zone.low
        BY <3>1, <3>2, <3>3
      <3> QED BY <3>4 DEF d
    <2> QED BY <2>7, <2>8
  <1> HIDE DEF before, f
  <1>5. (X = {} => f = NoSetup) /\ (X # {} => f \in X)
    BY <1>1, <1>2, <1>4, Zenon
  <1> QED BY <1>5 DEF X, f, na

(* Built zones are of one kind and differ in their lower edges, since       *)
(* clusters share no price.                                                 *)
LEMMA BuiltOfKind ==
  ASSUME NEW m \in Nat, NEW f, \A i \in 1 .. m : f[i] \in Int, NEW swings \in SUBSET (1 .. m), NEW t \in Nat,
         NEW kind
  PROVE  \E lo \in Int : OfKind(BuildSwingZones(swings, f, kind, t), kind, lo, m)
  <1> DEFINE anchors == ClusterAnchors({f[i] : i \in swings}, t)
             C(a) == {i \in swings : anchors[f[i]] = a}
             As == {anchors[f[i]] : i \in swings}
             R == {SeparatedReactions(C(a)) : a \in As}
             zones == BuildSwingZones(swings, f, kind, t)
  <1>1. zones = {ZoneOf(r, f, kind, t) : r \in {r \in R : Cardinality(r) >= MinTouches}}
    BY Zenon DEF BuildSwingZones, ZoneOf, PricesOf
  <1> HIDE DEF anchors, As
  <1>0. \A a : C(a) \in SUBSET (1 .. m)
    OBVIOUS
  <1> HIDE DEF C
  <1>2. \A a : SeparatedReactions(C(a)) \in SUBSET C(a)
    <2>1. ASSUME NEW a PROVE SeparatedReactions(C(a)) \in SUBSET C(a)
      <3> DEFINE Ca == C(a)
      <3>1. 1 \in Int /\ m \in Int /\ Ca \in SUBSET (1 .. m)
        BY <1>0
      <3> HIDE DEF Ca
      <3>2. SeparatedReactions(Ca) \in SUBSET Ca
        BY <3>1, SeparatedSome
      <3> QED BY <3>2 DEF Ca
    <2> QED BY <2>1
  <1>3. \A r \in R : r \in SUBSET (1 .. m)
    BY <1>0, <1>2
  <1>4. PICK lo \in Int : \A r \in SUBSET (1 .. m) :
          Cardinality(r) >= MinTouches => ZoneOK(ZoneOf(r, f, kind, t), kind, lo)
    BY ZonesAreOK
  <1>5. ASSUME NEW r \in R, Cardinality(r) >= MinTouches
        PROVE  ZoneOK(ZoneOf(r, f, kind, t), kind, lo) /\ ZoneOf(r, f, kind, t).touches <= m
    <2>1. r \in SUBSET (1 .. m)
      BY <1>3
    <2> HIDE DEF R
    <2>2. Cardinality(r) <= m
      <3>1. IsFiniteSet(1 .. m) /\ Cardinality(1 .. m) = m
        BY FS_Interval
      <3> QED BY <2>1, <3>1, FS_Subset
    <2> QED BY <1>4, <1>5, <2>1, <2>2 DEF ZoneOf
  <1>6. ASSUME NEW r \in R, NEW q \in R, Cardinality(r) >= MinTouches, Cardinality(q) >= MinTouches,
               ZoneOf(r, f, kind, t).low = ZoneOf(q, f, kind, t).low
        PROVE  r = q
    <2>1. PICK a : r = SeparatedReactions(C(a))
      BY DEF R
    <2>2. PICK b : q = SeparatedReactions(C(b))
      BY DEF R
    <2>3. r \in SUBSET C(a) /\ q \in SUBSET C(b)
      BY <1>2, <2>1, <2>2
    <2>4. r \in SUBSET (1 .. m) /\ q \in SUBSET (1 .. m)
      BY <1>3
    <2> HIDE DEF R
    <2>5. r # {} /\ q # {}
      BY <1>6, <2>4, TouchesType
    <2> DEFINE x == Least(PricesOf(r, f))
               y == Least(PricesOf(q, f))
    <2>6. x \in Int /\ \E i \in r : x = f[i]
      BY <2>4, <2>5, PriceExtremes
    <2>7. y \in Int /\ \E i \in q : y = f[i]
      BY <2>4, <2>5, PriceExtremes
    <2>8. x - t = y - t
      BY <1>6 DEF ZoneOf
    <2> HIDE DEF x, y
    <2>9. x = y
      BY <2>6, <2>7, <2>8
    <2>10. PICK i \in r : x = f[i]
      BY <2>6
    <2>11. PICK j \in q : x = f[j]
      BY <2>7, <2>9
    <2>12. anchors[f[i]] = a /\ anchors[f[j]] = b
      BY <2>3 DEF C
    <2>13. a = b
      BY <2>10, <2>11, <2>12, Zenon
    <2> QED BY <2>1, <2>2, <2>13, Zenon
  <1> HIDE DEF R, zones
  <1>7. ASSUME NEW z \in zones
        PROVE  \E r \in R : Cardinality(r) >= MinTouches /\ z = ZoneOf(r, f, kind, t)
    BY <1>1, Zenon
  <1>8. OfKind(zones, kind, lo, m)
    <2>1. \A z \in zones : ZoneOK(z, kind, lo) /\ z.touches <= m
      BY <1>5, <1>7, Zenon
    <2>2. ASSUME NEW y \in zones, NEW z \in zones, y.low = z.low PROVE y = z
      <3>1. PICK r \in R : Cardinality(r) >= MinTouches /\ y = ZoneOf(r, f, kind, t)
        BY <1>7
      <3>2. PICK q \in R : Cardinality(q) >= MinTouches /\ z = ZoneOf(q, f, kind, t)
        BY <1>7
      <3>3. r = q
        BY <1>6, <2>2, <3>1, <3>2, Zenon
      <3> QED BY <3>1, <3>2, <3>3, Zenon
    <2> QED BY <2>1, <2>2 DEF OfKind
  <1> QED BY <1>8 DEF zones

LEMMA FoundOfKind ==
  ASSUME NEW s \in Seq(Candle)
  PROVE  /\ \E lo \in Int : OfKind(FindSupportZones(s), "SUPPORT", lo, Len(s))
         /\ \E lo \in Int : OfKind(FindResistanceZones(s), "RESISTANCE", lo, Len(s))
  <1> DEFINE t == AdaptiveZoneTolerance(s)
             f == [i \in DOMAIN s |-> s[i].low]
             g == [i \in DOMAIN s |-> s[i].high]
             lows == ConfirmedSwingLows(s)
             highs == ConfirmedSwingHighs(s)
             m == Len(s)
             low == "SUPPORT"
             high == "RESISTANCE"
  <1>1. /\ t \in Nat /\ m \in Nat /\ lows \in SUBSET (1 .. m) /\ highs \in SUBSET (1 .. m)
        /\ \A i \in 1 .. m : f[i] \in Int
        /\ \A i \in 1 .. m : g[i] \in Int
    BY SwingPrices, ToleranceType
  <1>2. FindSupportZones(s) = BuildSwingZones(lows, f, low, t)
    BY Zenon DEF FindSupportZones
  <1>3. FindResistanceZones(s) = BuildSwingZones(highs, g, high, t)
    BY Zenon DEF FindResistanceZones
  <1> HIDE DEF t, f, g, lows, highs, m, low, high
  <1>4. \E lo \in Int : OfKind(BuildSwingZones(lows, f, low, t), low, lo, m)
    BY <1>1, BuiltOfKind
  <1>5. \E lo \in Int : OfKind(BuildSwingZones(highs, g, high, t), high, lo, m)
    BY <1>1, BuiltOfKind
  <1>6. /\ \E lo \in Int : OfKind(FindSupportZones(s), low, lo, m)
        /\ \E lo \in Int : OfKind(FindResistanceZones(s), high, lo, m)
    BY <1>2, <1>3, <1>4, <1>5
  <1> QED BY <1>6 DEF low, high, m

(* A long and a short setup need opposite pressures of the same candle. *)
LEMMA OneDirection ==
  ASSUME NEW s \in Seq(Candle), s # <<>>, NEW bias, NEW readings, NEW alignment, NEW others
  PROVE  LET long == Setups(s, FindSupportZones(Front(s)), bias, readings, alignment)
             short == Setups(s, FindResistanceZones(Front(s)), bias, others, alignment)
         IN  /\ \A x \in long : x.action = "LONG"
             /\ \A x \in short : x.action = "SHORT"
             /\ long = {} \/ short = {}
  <1> DEFINE h == Front(s)
             low == "SUPPORT"
             high == "RESISTANCE"
             lows == FindSupportZones(h)
             highs == FindResistanceZones(h)
             long == Setups(s, lows, bias, readings, alignment)
             short == Setups(s, highs, bias, others, alignment)
             m == Len(h)
             buy == "LONG"
             sell == "SHORT"
  <1>1. h \in Seq(Candle)
    BY FrontType
  <1>2. PICK l1 \in Int : OfKind(lows, low, l1, m)
    BY <1>1, FoundOfKind
  <1>3. PICK l2 \in Int : OfKind(highs, high, l2, m)
    BY <1>1, FoundOfKind
  <1>0. low \in {"SUPPORT", "RESISTANCE"} /\ high \in {"SUPPORT", "RESISTANCE"}
    OBVIOUS
  <1>4. /\ (IF low = "SUPPORT" THEN "LONG" ELSE "SHORT") = buy
        /\ (IF high = "SUPPORT" THEN "LONG" ELSE "SHORT") = sell
    OBVIOUS
  <1>5. Pressure(buy) = "BUYING" /\ Pressure(sell) = "SELLING"
    BY DEF Pressure
  <1> HIDE DEF low, high, m, buy, sell, h, lows, highs
  <1>6. \A x \in long : x.action = buy /\ CandlePressure(Last(s)) = Pressure(x.action)
    <2>1. \A x \in Setups(s, lows, bias, readings, alignment) : SetupOK(x, s, lows, low, l1)
      BY <1>0, <1>2, SetupsOfKind
    <2> QED BY <1>4, <2>1 DEF long, SetupOK
  <1>7. \A x \in short : x.action = sell /\ CandlePressure(Last(s)) = Pressure(x.action)
    <2>1. \A x \in Setups(s, highs, bias, others, alignment) : SetupOK(x, s, highs, high, l2)
      BY <1>0, <1>3, SetupsOfKind
    <2> QED BY <1>4, <2>1 DEF short, SetupOK
  <1> HIDE DEF long, short
  <1>8. long = {} \/ short = {}
    <2> SUFFICES ASSUME NEW x \in long, NEW y \in short PROVE FALSE
      OBVIOUS
    <2>1. CandlePressure(Last(s)) = "BUYING" /\ CandlePressure(Last(s)) = "SELLING"
      BY <1>5, <1>6, <1>7
    <2> QED BY <2>1
  <1>9. (\A x \in long : x.action = buy) /\ (\A x \in short : x.action = sell) /\ (long = {} \/ short = {})
    BY <1>6, <1>7, <1>8
  <1> QED BY <1>9 DEF long, short, h, buy, sell, lows, highs

(* The orchestration of two setups (two_setups.py) decides the direction of *)
(* the strategy: the zones it drops do not signal, and no ranking turns a   *)
(* long setup into a short one.                                             *)
LEMMA TwoSetupsAgree ==
  ASSUME NEW s \in Seq(Candle)
  PROVE  TwoSetupsDecideTheSame(s)
  <1> SUFFICES ASSUME Len(s) >= MinTwoSetups
               PROVE  EvaluateTwoSetups(s, NoReadings).action = StrategySignal(s, NoReadings, "UNAVAILABLE").action
    BY DEF TwoSetupsDecideTheSame
  <1> DEFINE h == Front(s)
             na == "UNAVAILABLE"
             bias == StructureBias(h)
             lows == FindSupportZones(h)
             highs == FindResistanceZones(h)
             L == Setups(s, lows, bias, NoReadings, na)
             S == Setups(s, highs, bias, NoReadings, na)
             long == BestOf(s, lows, bias, NoReadings, na)
             short == BestOf(s, highs, bias, NoReadings, na)
             firstLong == FirstSetup(h, s, lows, bias, NoReadings)
             firstShort == FirstSetup(h, s, highs, bias, NoReadings)
             price == Last(s).close
             low == "SUPPORT"
             high == "RESISTANCE"
             m == Len(h)
  <1>1. s # <<>> /\ ~(Len(s) < MinTwoSetups)
    <2>1. MinTwoSetups \in Nat /\ Strength \in Nat /\ MinTwoSetups >= 2 * Strength + 3
      BY StrategyBarsAssumption, PriceActionAssumption
    <2> QED BY <2>1
  <1>2. h \in Seq(Candle) /\ m \in Nat
    <2>1. h \in Seq(Candle)
      BY <1>1, FrontType
    <2> HIDE DEF h
    <2> QED BY <2>1
  <1>3. PICK l1 \in Int : OfKind(lows, low, l1, m)
    BY <1>2, FoundOfKind
  <1>4. PICK l2 \in Int : OfKind(highs, high, l2, m)
    BY <1>2, FoundOfKind
  <1>5. (\A x \in L : x.action = "LONG") /\ (\A x \in S : x.action = "SHORT") /\ (L = {} \/ S = {})
    <2> HIDE DEF na, bias
    <2> QED BY <1>1, OneDirection
  <1>6. low \in {"SUPPORT", "RESISTANCE"} /\ high \in {"SUPPORT", "RESISTANCE"}
    OBVIOUS
  <1> HIDE DEF low, high, lows, highs, bias, m
  <1>7. (L = {} => firstLong = NoSetup) /\ (L # {} => firstLong \in L)
    BY <1>1, <1>2, <1>3, <1>6, FirstSetupIs
  <1>8. (S = {} => firstShort = NoSetup) /\ (S # {} => firstShort \in S)
    BY <1>1, <1>2, <1>4, <1>6, FirstSetupIs
  <1>9. (L = {} => long = NoSetup) /\ (L # {} => long \in L)
    BY <1>1, <1>3, <1>6, BestSetup
  <1>10. (S = {} => short = NoSetup) /\ (S # {} => short \in S)
    BY <1>1, <1>4, <1>6, BestSetup
  <1>11. \A x \in L \cup S : x # NoSetup
    BY DEF Setups
  <1>12. EvaluateTwoSetups(s, NoReadings) =
           IF firstLong = NoSetup THEN firstShort
           ELSE IF firstShort = NoSetup THEN firstLong
           ELSE IF ZoneDistance(firstLong.zone, price) <= ZoneDistance(firstShort.zone, price)
                THEN firstLong ELSE firstShort
    BY <1>1, Zenon DEF EvaluateTwoSetups, bias, lows, highs
  <1>13. StrategySignal(s, NoReadings, na) = SelectSignal(long, short)
    BY Zenon DEF StrategySignal, BestOf, bias, lows, highs
  <1> HIDE DEF L, S, long, short, firstLong, firstShort
  <1>14. SelectSignal(long, short) = IF short = NoSetup THEN long ELSE IF long = NoSetup THEN short
                                     ELSE IF long.score > short.score THEN long ELSE short
    BY Zenon DEF SelectSignal
  <1>15. CASE L = {} /\ S = {}
    BY <1>7, <1>8, <1>9, <1>10, <1>12, <1>13, <1>14, <1>15, Zenon
  <1>16. CASE L # {} /\ S = {}
    <2>1. EvaluateTwoSetups(s, NoReadings) = firstLong /\ StrategySignal(s, NoReadings, na) = long
      BY <1>7, <1>8, <1>9, <1>10, <1>11, <1>12, <1>13, <1>14, <1>16, Zenon
    <2> QED BY <1>5, <1>7, <1>9, <1>16, <2>1
  <1>17. CASE L = {} /\ S # {}
    <2>1. EvaluateTwoSetups(s, NoReadings) = firstShort /\ StrategySignal(s, NoReadings, na) = short
      BY <1>7, <1>8, <1>9, <1>10, <1>11, <1>12, <1>13, <1>14, <1>17, Zenon
    <2> QED BY <1>5, <1>8, <1>10, <1>17, <2>1
  <1> QED BY <1>5, <1>15, <1>16, <1>17

-----------------------------------------------------------------------------
(* The port of the worker: walks and sets.                                  *)

(* The walk finds the first ones: the one opened last at x is the greatest  *)
(* of those that are not above it.                                          *)
Walked(S, gap, first) ==
  /\ first \in SUBSET S
  /\ OpenedLast(S, gap) = [x \in S |-> Greatest({a \in first : a <= x})]
  /\ \A x \in S : OpenedLast(S, gap)[x] = x <=> x \in first

(* The greatest of those that are not above a number.                       *)
LEMMA GreatestBelow ==
  ASSUME NEW T \in SUBSET Int, NEW x \in Int, NEW y \in T, y <= x
  PROVE  LET g == Greatest({a \in T : a <= x})
         IN  g \in T /\ g <= x /\ y <= g /\ \A a \in T : a <= x => a <= g
  <1> DEFINE B == {a \in T : a <= x}
  <1>1. B \in SUBSET Int /\ B # {} /\ y \in B /\ \A a \in B : a <= x
    OBVIOUS
  <1>2. \A a \in T : a <= x => a \in B
    OBVIOUS
  <1>3. \A a \in B : a \in T /\ a <= x
    OBVIOUS
  <1> HIDE DEF B
  <1>4. Greatest(B) \in B /\ \A a \in B : a <= Greatest(B)
    BY <1>1, GreatestIs
  <1>5. /\ Greatest(B) \in T /\ Greatest(B) <= x /\ y <= Greatest(B)
        /\ \A a \in T : a <= x => a <= Greatest(B)
    BY <1>1, <1>2, <1>3, <1>4
  <1> QED BY <1>5 DEF B

(* The greatest of a set of integers is determined by what it is. *)
LEMMA GreatestUnique ==
  ASSUME NEW T \in SUBSET Int, NEW g \in T, \A a \in T : a <= g
  PROVE  Greatest(T) = g
  <1>1. Greatest(T) \in T /\ \A a \in T : a <= Greatest(T)
    <2>1. T # {}
      OBVIOUS
    <2> QED BY <2>1, GreatestIs
  <1> DEFINE h == Greatest(T)
  <1>2. h \in Int /\ g \in Int /\ h <= g /\ g <= h
    BY <1>1
  <1> HIDE DEF h
  <1>3. h = g
    BY <1>2
  <1> QED BY <1>3 DEF h

(* The recursion of the walk has one solution, and the greatest first ones  *)
(* solve it.                                                                *)
LEMMA WalkIs ==
  ASSUME NEW S \in SUBSET Int, NEW lo \in Int, NEW hi \in Int, \A p \in S : lo <= p /\ p <= hi,
         NEW t \in Nat, NEW gap, gap = t + 1, NEW first, Firsts(first, S, t)
  PROVE  Walked(S, gap, first)
  <1> DEFINE below(x) == {y \in S : y < x}
             step(o) == [x \in S |-> IF below(x) = {} \/ x - o[Greatest(below(x))] >= gap THEN x
                                     ELSE o[Greatest(below(x))]]
             At(x) == Greatest({a \in first : a <= x})
             anchors == [x \in S |-> At(x)]
             opened == CHOOSE o : o = step(o)
  <1>0. first \in SUBSET S /\ first \in SUBSET Int
    BY DEF Firsts
  <1>1. ASSUME NEW x \in S PROVE below(x) # {} => Greatest(below(x)) \in S /\ Greatest(below(x)) < x
                                     /\ \A y \in S : y < x => y <= Greatest(below(x))
    <2> DEFINE B == below(x)
    <2>1. B \in SUBSET Int /\ x \in Int /\ \A y \in B : y <= x
      <3>1. x \in Int /\ \A y \in S : y \in Int
        OBVIOUS
      <3>2. \A y \in B : y \in S /\ y < x
        OBVIOUS
      <3> HIDE DEF B
      <3>3. ASSUME NEW y \in B PROVE y \in Int /\ y <= x
        <4>1. y \in S /\ y < x
          BY <3>2
        <4>2. y \in Int
          BY <3>1, <4>1
        <4> QED BY <3>1, <4>1, <4>2
      <3> QED BY <3>1, <3>3
    <2>2. \A y \in S : y < x => y \in B
      OBVIOUS
    <2>3. \A y \in B : y \in S /\ y < x
      OBVIOUS
    <2> HIDE DEF B
    <2>4. B # {} => Greatest(B) \in B /\ \A y \in B : y <= Greatest(B)
      BY <2>1, GreatestIs
    <2>5. B # {} => Greatest(B) \in S /\ Greatest(B) < x /\ \A y \in S : y < x => y <= Greatest(B)
      BY <2>2, <2>3, <2>4
    <2> QED BY <2>5 DEF B
  <1>2. ASSUME NEW x \in S
        PROVE  At(x) \in first /\ At(x) <= x /\ x - At(x) <= t /\ \A a \in first : a <= x => a <= At(x)
    <2>1. \E a \in first : a <= x /\ x - a <= t
      <3>1. CASE x \in first
        BY <1>0, <3>1
      <3>2. CASE x \notin first
        BY <1>0, <3>2 DEF Firsts
      <3> QED BY <3>1, <3>2
    <2>2. PICK y \in first : y <= x /\ x - y <= t
      BY <2>1
    <2>3. x \in Int
      OBVIOUS
    <2>4. At(x) \in first /\ At(x) <= x /\ y <= At(x) /\ \A a \in first : a <= x => a <= At(x)
      BY <1>0, <2>2, <2>3, GreatestBelow
    <2> DEFINE g == At(x)
    <2> HIDE DEF g
    <2>5. g \in Int /\ y \in Int /\ y <= g
      BY <1>0, <2>4 DEF g
    <2>6. x - g <= t
      BY <2>2, <2>3, <2>5
    <2> QED BY <2>4, <2>6 DEF g
  <1>3. \A x \in S : At(x) = x <=> x \in first
    <2>1. ASSUME NEW x \in first PROVE At(x) = x
      <3> DEFINE g == At(x)
      <3>1. x \in S /\ x \in Int /\ x <= x
        BY <1>0
      <3>2. g \in first /\ g <= x /\ x <= g
        BY <1>2, <3>1
      <3> HIDE DEF g
      <3>3. g = x
        BY <1>0, <3>1, <3>2
      <3> QED BY <3>3 DEF g
    <2> HIDE DEF At
    <2> QED BY <1>2, <2>1
  <1> HIDE DEF At
  <1>4. ASSUME NEW x \in S
        PROVE  At(x) = IF below(x) = {} \/ x - At(Greatest(below(x))) >= gap THEN x ELSE At(Greatest(below(x)))
    <2> DEFINE y == Greatest(below(x))
    <2>1. CASE below(x) = {}
      <3>1. \A a \in first : ~(a < x)
        BY <1>0, <2>1
      <3>2. At(x) = x
        <4> DEFINE g == At(x)
        <4>1. g \in first /\ g <= x /\ x \in Int
          BY <1>2
        <4> HIDE DEF g
        <4>2. g \in Int /\ ~(g < x)
          BY <1>0, <3>1, <4>1
        <4>3. g = x
          BY <4>1, <4>2
        <4> QED BY <4>3 DEF g
      <3> QED BY <2>1, <3>2
    <2>2. CASE below(x) # {}
      <3>1. y \in S /\ y < x /\ \A b \in S : b < x => b <= y
        BY <1>1, <2>2
      <3> HIDE DEF y
      <3>2. /\ At(y) \in first /\ At(y) <= y /\ At(y) < x /\ At(y) \in Int
            /\ \A a \in first : a < x => a <= At(y)
        <4> DEFINE g == At(y)
        <4>1. g \in first /\ g <= y /\ \A a \in first : a <= y => a <= g
          BY <1>2, <3>1
        <4> HIDE DEF g
        <4>2. g \in Int /\ y \in Int /\ x \in Int /\ g < x
          BY <1>0, <3>1, <4>1
        <4>3. \A a \in first : a < x => a <= y
          BY <1>0, <3>1
        <4> QED BY <4>1, <4>2, <4>3 DEF g
      <3>3. CASE x - At(y) >= gap
        <4>1. \A a \in first : a < x => x - a > t
          BY <1>0, <3>2, <3>3
        <4>2. x \in first
          BY <4>1 DEF Firsts
        <4>3. At(x) = x
          BY <1>3, <4>2
        <4> QED BY <3>3, <4>3 DEF y
      <3>4. CASE ~(x - At(y) >= gap)
        <4>1. x \notin first
          <5>1. ~(x - At(y) > t)
            BY <1>0, <3>2, <3>4
          <5> QED BY <3>2, <5>1 DEF Firsts
        <4>2. At(x) \in first /\ At(x) <= x /\ \A a \in first : a <= x => a <= At(x)
          BY <1>2
        <4>3. At(x) # x
          BY <4>1, <4>2
        <4>4. At(x) = At(y)
          <5> DEFINE g == At(x)
                     h == At(y)
          <5>1. /\ g \in first /\ g <= x /\ g # x /\ x \in Int
                /\ h \in first /\ h < x /\ (g < x => g <= h) /\ (h <= x => h <= g)
            BY <3>2, <4>2, <4>3
          <5> HIDE DEF g, h
          <5>2. g \in Int /\ h \in Int
            BY <1>0, <5>1
          <5>3. g = h
            BY <5>1, <5>2
          <5> QED BY <5>3 DEF g, h
        <4> QED BY <2>2, <3>4, <4>4 DEF y
      <3> QED BY <3>3, <3>4
    <2> QED BY <2>1, <2>2
  <1>5. anchors = step(anchors)
    <2> SUFFICES ASSUME NEW x \in S
                 PROVE  At(x) = IF below(x) = {} \/ x - anchors[Greatest(below(x))] >= gap THEN x
                                ELSE anchors[Greatest(below(x))]
      OBVIOUS
    <2>1. below(x) # {} => anchors[Greatest(below(x))] = At(Greatest(below(x)))
      <3> HIDE DEF below
      <3> QED BY <1>1
    <2> HIDE DEF anchors, below
    <2> QED BY <1>4, <2>1
  <1>6. opened = step(opened)
    <2> HIDE DEF step, anchors
    <2> QED BY <1>5
  <1>7. \A x \in S : opened[x] = anchors[x]
    <2> DEFINE Bad == {x \in S : opened[x] # anchors[x]}
    <2> SUFFICES ASSUME Bad # {} PROVE FALSE
      OBVIOUS
    <2>1. Bad \in SUBSET Int /\ \A x \in Bad : lo <= x
      OBVIOUS
    <2> DEFINE b == Least(Bad)
    <2>2. b \in Bad /\ \A x \in Bad : b <= x
      <3> HIDE DEF Bad
      <3> QED BY <2>1, LeastIs
    <2> HIDE DEF b
    <2>3. b \in S /\ opened[b] # anchors[b]
      BY <2>2
    <2> DEFINE y == Greatest(below(b))
    <2>4. below(b) # {} => y \in S /\ y < b
      BY <1>1, <2>3
    <2>5. below(b) # {} => opened[y] = anchors[y]
      <3> HIDE DEF y, below, opened, anchors
      <3> SUFFICES ASSUME below(b) # {} PROVE opened[y] = anchors[y]
        OBVIOUS
      <3>1. y \in S /\ ~(b <= y)
        <4>1. y \in S /\ y < b
          BY <2>4
        <4>2. y \in Int /\ b \in Int
          BY <2>3, <4>1
        <4> QED BY <4>1, <4>2
      <3> QED BY <2>2, <3>1
    <2>6. opened[b] = IF below(b) = {} \/ b - opened[y] >= gap THEN b ELSE opened[y]
      <3> HIDE DEF opened, below
      <3> QED BY <1>6, <2>3
    <2>7. anchors[b] = IF below(b) = {} \/ b - anchors[y] >= gap THEN b ELSE anchors[y]
      <3> HIDE DEF anchors, below
      <3> QED BY <1>5, <2>3
    <2> DEFINE B == below(b)
    <2>8. /\ B # {} => opened[y] = anchors[y]
          /\ opened[b] = IF B = {} \/ b - opened[y] >= gap THEN b ELSE opened[y]
          /\ anchors[b] = IF B = {} \/ b - anchors[y] >= gap THEN b ELSE anchors[y]
      BY <2>5, <2>6, <2>7
    <2> HIDE DEF opened, anchors, y, B
    <2>9. CASE B = {}
      BY <2>3, <2>8, <2>9
    <2>10. CASE B # {}
      BY <2>3, <2>8, <2>10
    <2> QED BY <2>9, <2>10
  <1>8. opened = anchors
    <2> HIDE DEF opened, below
    <2>1. opened = [x \in S |-> opened[x]]
      BY <1>6
    <2> QED BY <1>7, <2>1
  <1>9. OpenedLast(S, gap) = opened
    BY Zenon DEF OpenedLast
  <1> HIDE DEF opened
  <1>10. OpenedLast(S, gap) = [x \in S |-> Greatest({a \in first : a <= x})]
    BY <1>8, <1>9, Zenon DEF At
  <1>11. \A x \in S : OpenedLast(S, gap)[x] = x <=> x \in first
    BY <1>3, <1>8, <1>9
  <1> QED BY <1>0, <1>10, <1>11 DEF Walked

(* The clusters of the walk are those of the sets. *)
LEMMA ClustersWalked ==
  ASSUME NEW S \in SUBSET Int, NEW lo \in Int, NEW hi \in Int, \A p \in S : lo <= p /\ p <= hi, NEW t \in Nat
  PROVE  WorkerCluster(S, t) = ClusterAnchors(S, t)
  <1> DEFINE Keeps(f) == \A p \in S : p \in f <=> \A a \in f : a < p => p - a > t
             first == CHOOSE f \in SUBSET S : Keeps(f)
             gap == t + 1
  <1>1. t \in Int
    OBVIOUS
  <1>2. PICK f : Firsts(f, S, t)
    BY <1>1, FirstsExist
  <1>3. f \in SUBSET S /\ Keeps(f)
    BY <1>2 DEF Firsts
  <1>4. first \in SUBSET S /\ Keeps(first)
    <2> HIDE DEF Keeps
    <2> QED BY <1>3, Zenon
  <1>5. ClusterAnchors(S, t) = [p \in S |-> Greatest({a \in first : a <= p})]
    BY Zenon DEF ClusterAnchors
  <1> HIDE DEF first
  <1>6. Firsts(first, S, t)
    BY <1>4, Zenon DEF Firsts
  <1>7. gap = t + 1
    OBVIOUS
  <1>8. WorkerCluster(S, t) = OpenedLast(S, gap)
    BY Zenon DEF WorkerCluster
  <1> HIDE DEF gap, Keeps
  <1>9. Walked(S, gap, first)
    BY <1>6, <1>7, WalkIs
  <1> QED BY <1>5, <1>8, <1>9, Zenon DEF Walked

(* The swings the walk selects are those that keep the gap. *)
LEMMA SelectedWalked ==
  ASSUME NEW m \in Nat, NEW C \in SUBSET (1 .. m)
  PROVE  {i \in C : OpenedLast(C, MinGap)[i] = i} = SeparatedReactions(C)
  <1> DEFINE t == MinGap - 1
             one == 1
             Keeps(kept) == \A i \in C : i \in kept <=> \A k \in kept : k < i => i - k >= MinGap
  <1>1. MinGap \in Int /\ t \in Nat /\ MinGap = t + 1 /\ t \in Int /\ one \in Int /\ m \in Int
    BY PriceActionAssumption
  <1>2. C \in SUBSET Int /\ \A p \in C : one <= p /\ p <= m
    OBVIOUS
  <1>3. SeparatedReactions(C) = CHOOSE kept \in SUBSET C : Keeps(kept)
    BY Zenon DEF SeparatedReactions
  <1>4. ASSUME NEW f \in SUBSET C PROVE Firsts(f, C, t) <=> Keeps(f)
    <2>1. \A i \in C, k \in f : i - k > t <=> i - k >= MinGap
      BY <1>1, <1>2
    <2> HIDE DEF t
    <2> QED BY <2>1 DEF Firsts
  <1> HIDE DEF t, one
  <1>5. PICK f : Firsts(f, C, t)
    BY <1>1, <1>2, FirstsExist
  <1>6. f \in SUBSET C /\ Keeps(f)
    BY <1>4, <1>5 DEF Firsts
  <1> DEFINE R == SeparatedReactions(C)
  <1>7. R \in SUBSET C /\ Keeps(R)
    <2> HIDE DEF Keeps
    <2> QED BY <1>3, <1>6, Zenon
  <1> HIDE DEF R
  <1>8. Firsts(R, C, t)
    BY <1>4, <1>7
  <1>9. Walked(C, MinGap, R)
    BY <1>1, <1>2, <1>8, WalkIs
  <1>10. {i \in C : OpenedLast(C, MinGap)[i] = i} = R
    BY <1>7, <1>9, Zenon DEF Walked
  <1> QED BY <1>10 DEF R

(* The zones of the port are those of the strategy.                         *)
LEMMA ZonesWalked ==
  ASSUME NEW m \in Nat, NEW f, \A i \in 1 .. m : f[i] \in Int, NEW swings \in SUBSET (1 .. m), NEW t \in Nat, NEW kind
  PROVE  WorkerZones(swings, f, kind, t) = BuildSwingZones(swings, f, kind, t)
  <1> DEFINE S == {f[i] : i \in swings}
             anchors == ClusterAnchors(S, t)
             cluster == WorkerCluster(S, t)
             selected(listed) == {i \in listed : OpenedLast(listed, MinGap)[i] = i}
             C(a) == {i \in swings : anchors[f[i]] = a}
             D(a) == {i \in swings : cluster[f[i]] = a}
             As == {anchors[f[i]] : i \in swings}
             Bs == {cluster[f[i]] : i \in swings}
             R == {SeparatedReactions(C(a)) : a \in As}
             Q == {selected(D(a)) : a \in Bs}
             of(X) == {[kind |-> kind, low |-> Least({f[i] : i \in r}) - t,
                        high |-> Greatest({f[i] : i \in r}) + t, touches |-> Cardinality(r)] :
                          r \in {r \in X : Cardinality(r) >= MinTouches}}
  <1>1. BuildSwingZones(swings, f, kind, t) = of(R)
    BY Zenon DEF BuildSwingZones
  <1>2. WorkerZones(swings, f, kind, t) = of(Q)
    BY Zenon DEF WorkerZones
  <1>3. cluster = anchors
    <2>1. PICK lo \in Int, hi \in Int : Within(f, m, lo, hi)
      BY BoundsExist
    <2>2. S \in SUBSET Int /\ \A p \in S : lo <= p /\ p <= hi
      BY <2>1 DEF Within
    <2> HIDE DEF S
    <2> QED BY <2>2, ClustersWalked
  <1> HIDE DEF cluster, anchors
  <1>4. As = Bs /\ \A a : C(a) = D(a)
    BY <1>3
  <1>5. \A a : selected(C(a)) = SeparatedReactions(C(a))
    <2>1. ASSUME NEW a PROVE selected(C(a)) = SeparatedReactions(C(a))
      <3> DEFINE Ca == C(a)
      <3>1. Ca \in SUBSET (1 .. m)
        OBVIOUS
      <3> HIDE DEF Ca
      <3>2. {i \in Ca : OpenedLast(Ca, MinGap)[i] = i} = SeparatedReactions(Ca)
        BY <3>1, SelectedWalked
      <3> QED BY <3>2 DEF Ca
    <2> QED BY <2>1
  <1> HIDE DEF C, D, As, Bs, selected
  <1>6. R = Q
    BY <1>4, <1>5
  <1> HIDE DEF R, Q
  <1> QED BY <1>1, <1>2, <1>6

(* So are its swings.                                                       *)
LEMMA SwingsWalked ==
  ASSUME NEW s \in Seq(Candle)
  PROVE  WorkerSwingLows(s) = ConfirmedSwingLows(s) /\ WorkerSwingHighs(s) = ConfirmedSwingHighs(s)
  <1>1. Strength \in Nat /\ Len(s) \in Nat
    BY PriceActionAssumption
  <1>2. \A i \in 1 .. Len(s) : s[i].low \in Int /\ s[i].high \in Int
    <2>1. \A i \in 1 .. Len(s) : s[i] \in Candle
      OBVIOUS
    <2>2. \A c \in Candle : c.low \in Int /\ c.high \in Int
      BY DEF Candle
    <2> QED BY <2>1, <2>2
  <1>3. ASSUME NEW i \in Strength + 1 .. Len(s) - Strength, NEW j \in SwingWindow(i)
        PROVE  /\ s[j].low <= s[i].low <=> ~(s[i].low < s[j].low)
               /\ s[j].high >= s[i].high <=> ~(s[i].high > s[j].high)
    <2>1. i \in 1 .. Len(s) /\ j \in 1 .. Len(s)
      BY <1>1 DEF SwingWindow
    <2>2. s[i].low \in Int /\ s[j].low \in Int /\ s[i].high \in Int /\ s[j].high \in Int
      BY <1>2, <2>1
    <2> QED BY <2>2
  <1> QED BY <1>3 DEF WorkerSwingLows, WorkerSwingHighs, ConfirmedSwingLows, ConfirmedSwingHighs

(* The last of at least two swings is not the first one. *)
LEMMA LastOfSwings ==
  ASSUME NEW m \in Nat, NEW swings \in SUBSET (1 .. m), ~(Cardinality(swings) < 2)
  PROVE  LET g == Greatest(swings)
             before == {j \in swings : j < g}
         IN  before # {} /\ before = swings \ {g} /\ g \in 1 .. m /\ Greatest(before) \in 1 .. m
  <1> DEFINE g == Greatest(swings)
             before == {j \in swings : j < g}
  <1>1. IsFiniteSet(swings)
    <2>1. IsFiniteSet(1 .. m)
      BY FS_Interval
    <2> QED BY <2>1, FS_Subset
  <1>2. swings # {} /\ \A x : swings # {x}
    <2>1. Cardinality({}) = 0 /\ \A x : Cardinality({x}) = 1
      BY FS_EmptySet, FS_Singleton
    <2> QED BY <2>1
  <1>3. swings \in SUBSET Int /\ m \in Int /\ \A x \in swings : x <= m
    OBVIOUS
  <1>4. g \in swings /\ \A x \in swings : x <= g
    BY <1>2, <1>3, GreatestIs
  <1> HIDE DEF g
  <1>5. before = swings \ {g}
    <2>1. ASSUME NEW x \in swings PROVE x < g <=> x # g
      <3>1. x \in Int /\ g \in Int /\ x <= g
        BY <1>3, <1>4
      <3> QED BY <3>1
    <2> QED BY <2>1
  <1>6. before # {}
    BY <1>2, <1>4, <1>5
  <1>7. before \in SUBSET Int /\ (\A x \in before : x <= m) /\ before \in SUBSET (1 .. m)
    <2>1. before \in SUBSET swings
      OBVIOUS
    <2> HIDE DEF before
    <2> QED BY <1>3, <2>1
  <1> HIDE DEF before
  <1>8. Greatest(before) \in before
    BY <1>3, <1>6, <1>7, GreatestIs
  <1>9. before # {} /\ before = swings \ {g} /\ g \in 1 .. m /\ Greatest(before) \in 1 .. m
    BY <1>4, <1>5, <1>6, <1>7, <1>8
  <1> QED BY <1>9 DEF before, g

(* And its structure.                                                       *)
LEMMA StructureWalked ==
  ASSUME NEW s \in Seq(Candle)
  PROVE  WorkerStructure(s) = StructureBias(s)
  <1> DEFINE highs == ConfirmedSwingHighs(s)
             lows == ConfirmedSwingLows(s)
             m == Len(s)
             f == [i \in DOMAIN s |-> s[i].low]
             g == [i \in DOMAIN s |-> s[i].high]
             before(swings, i) == {j \in swings : j < i}
             hh(i) == before(highs, i) = {} \/ s[i].high > s[Greatest(before(highs, i))].high
             hl(i) == before(lows, i) = {} \/ s[i].low > s[Greatest(before(lows, i))].low
             x == Greatest(highs)
             y == Greatest(lows)
             up == Rises(highs, g)
             on == Rises(lows, f)
             few == Cardinality(highs) < 2 \/ Cardinality(lows) < 2
  <1>1. WorkerStructure(s) = IF few THEN "UNKNOWN" ELSE IF hh(x) /\ hl(y) THEN "BULLISH"
                             ELSE IF ~hh(x) /\ ~hl(y) THEN "BEARISH" ELSE "RANGE"
    <2>1. WorkerSwingLows(s) = ConfirmedSwingLows(s) /\ WorkerSwingHighs(s) = ConfirmedSwingHighs(s)
      BY SwingsWalked
    <2> HIDE DEF few
    <2> QED BY <2>1, Zenon DEF WorkerStructure, few
  <1>2. StructureBias(s) = IF few THEN "UNKNOWN" ELSE IF up /\ on THEN "BULLISH"
                           ELSE IF ~up /\ ~on THEN "BEARISH" ELSE "RANGE"
    BY Zenon DEF StructureBias
  <1>3. m \in Nat /\ lows \in SUBSET (1 .. m) /\ highs \in SUBSET (1 .. m)
    BY SwingPrices
  <1>4. (\A i \in 1 .. m : f[i] = s[i].low) /\ (\A i \in 1 .. m : g[i] = s[i].high)
    OBVIOUS
  <1> HIDE DEF highs, lows, m, f, g
  <1>5. ~few => (hh(x) <=> up)
    <2> SUFFICES ASSUME ~(Cardinality(highs) < 2) PROVE hh(x) <=> up
      OBVIOUS
    <2>1. /\ before(highs, x) # {} /\ before(highs, x) = highs \ {x}
          /\ x \in 1 .. m /\ Greatest(before(highs, x)) \in 1 .. m
      BY <1>3, LastOfSwings
    <2>2. up <=> g[x] > g[Greatest(highs \ {x})]
      BY Zenon DEF Rises
    <2> HIDE DEF x, before, up
    <2> QED BY <1>4, <2>1, <2>2
  <1>6. ~few => (hl(y) <=> on)
    <2> SUFFICES ASSUME ~(Cardinality(lows) < 2) PROVE hl(y) <=> on
      OBVIOUS
    <2>1. /\ before(lows, y) # {} /\ before(lows, y) = lows \ {y}
          /\ y \in 1 .. m /\ Greatest(before(lows, y)) \in 1 .. m
      BY <1>3, LastOfSwings
    <2>2. on <=> f[y] > f[Greatest(lows \ {y})]
      BY Zenon DEF Rises
    <2> HIDE DEF y, before, on
    <2> QED BY <1>4, <2>1, <2>2
  <1> HIDE DEF few
  <1>7. CASE few
    BY <1>1, <1>2, <1>7, Zenon
  <1>8. CASE ~few
    <2> DEFINE p == hh(x)
               q == hl(y)
    <2>1. /\ WorkerStructure(s) = IF p /\ q THEN "BULLISH" ELSE IF ~p /\ ~q THEN "BEARISH" ELSE "RANGE"
          /\ StructureBias(s) = IF up /\ on THEN "BULLISH" ELSE IF ~up /\ ~on THEN "BEARISH" ELSE "RANGE"
          /\ p <=> up
          /\ q <=> on
      BY <1>1, <1>2, <1>5, <1>6, <1>8, Zenon
    <2> HIDE DEF p, q, up, on
    <2>2. CASE p /\ q
      BY <2>1, <2>2
    <2>3. CASE ~p /\ ~q
      BY <2>1, <2>3
    <2>4. CASE (p /\ ~q) \/ (~p /\ q)
      BY <2>1, <2>4
    <2> QED BY <2>2, <2>3, <2>4
  <1> QED BY <1>7, <1>8

(* The first candle the port tries as a test.                               *)
FirstTest(s) == IF Len(s) - MaxTestAge > 1 THEN Len(s) - MaxTestAge ELSE 1

(* What the loop returns.                                                   *)
Found(state, action, breakout, k) == [action |-> action, state |-> state, breakout |-> breakout, test |-> k]

(* What its loop does with the candle k, when rest is what it makes of the  *)
(* ones before.                                                             *)
Tried(s, z, k, rest) ==
  LET n         == Len(s)
      buffer    == AdaptiveConfirmationBuffer(Front(s))
      breakout  == Breakout(s[k], z, buffer)
      reclaim   == breakout = "FAKE_BREAKOUT"
      rejection == /\ breakout = "NO_BREAKOUT"
                   /\ ClosesBeyond(s[k], z)
                   /\ RejectionPressure(s[k], Direction(z))
  IN  IF ~Touches(s[k], z) THEN rest
      ELSE IF breakout = "TRUE_BREAKOUT" THEN Found("BROKEN", "WAIT", breakout, k)
      ELSE IF breakout = "WAIT" \/ ~(reclaim \/ rejection) THEN rest
      ELSE IF CandlePressure(s[n]) # Pressure(Direction(z)) THEN Found("CONFIRM", "WAIT", breakout, k)
      ELSE IF ~ClosesBeyond(s[n], z) THEN Found("CONFIRM", "WAIT", breakout, k)
      ELSE Found("CONFIRM", Direction(z), breakout, k)

(* The loop stops at the candles that decide, with their decision.          *)
LEMMA TriedIs ==
  ASSUME NEW s \in Seq(Candle), NEW z, NEW k \in Int, FirstTest(s) <= k, k <= Len(s) - 1, NEW rest
  PROVE  /\ k \in Deciding(s, z) => Tried(s, z, k, rest) = Decision(s, z, k)
         /\ k \notin Deciding(s, z) => Tried(s, z, k, rest) = rest
  <1> DEFINE n == Len(s)
             buffer == AdaptiveConfirmationBuffer(Front(s))
             b == Breakout(s[k], z, buffer)
             touch == Touches(s[k], z)
             reject == b = "NO_BREAKOUT" /\ ClosesBeyond(s[k], z) /\ RejectionPressure(s[k], Direction(z))
             press == CandlePressure(s[n]) = Pressure(Direction(z))
             beyond == ClosesBeyond(s[n], z)
  <1>1. k \in n - MaxTestAge .. n - 1 /\ k >= 1
    <2>1. n \in Nat /\ MaxTestAge \in Nat
      BY PriceActionAssumption
    <2> QED BY <2>1 DEF FirstTest
  <1>2. k \in Deciding(s, z) <=> touch /\ (b = "TRUE_BREAKOUT" \/ b = "FAKE_BREAKOUT" \/ reject)
    <2>1. Held(s[k], z, buffer) <=> b = "FAKE_BREAKOUT" \/ reject
      BY Zenon DEF Held
    <2>2. k \in Deciding(s, z) <=> touch /\ (b = "TRUE_BREAKOUT" \/ Held(s[k], z, buffer))
      <3> HIDE DEF buffer
      <3> QED BY <1>1, Zenon DEF Deciding, buffer
    <2> QED BY <2>1, <2>2, Zenon
  <1>3. Tried(s, z, k, rest) =
          IF ~touch THEN rest
          ELSE IF b = "TRUE_BREAKOUT" THEN Found("BROKEN", "WAIT", b, k)
          ELSE IF b = "WAIT" \/ ~(b = "FAKE_BREAKOUT" \/ reject) THEN rest
          ELSE IF ~press THEN Found("CONFIRM", "WAIT", b, k)
          ELSE IF ~beyond THEN Found("CONFIRM", "WAIT", b, k)
          ELSE Found("CONFIRM", Direction(z), b, k)
    BY Zenon DEF Tried
  <1>4. Decision(s, z, k) =
          IF b = "TRUE_BREAKOUT" THEN Found("BROKEN", "WAIT", b, k)
          ELSE Found("CONFIRM", IF press /\ beyond THEN Direction(z) ELSE "WAIT", b, k)
    <2>1. Confirms(s[n], z) <=> press /\ beyond
      BY Zenon DEF Confirms
    <2>2. Decision(s, z, k) =
          IF b = "TRUE_BREAKOUT" THEN Found("BROKEN", "WAIT", b, k)
          ELSE Found("CONFIRM", IF Confirms(s[n], z) THEN Direction(z) ELSE "WAIT", b, k)
      BY Zenon DEF Decision, Found
    <2>3. CASE press /\ beyond
      BY <2>1, <2>2, <2>3, Zenon
    <2>4. CASE ~(press /\ beyond)
      BY <2>1, <2>2, <2>4, Zenon
    <2> QED BY <2>3, <2>4
  <1>5. reject => b = "NO_BREAKOUT"
    OBVIOUS
  <1> DEFINE p == press
             q == beyond
             c == reject
             u == touch
             d == Direction(z)
             T == Tried(s, z, k, rest)
             D == Decision(s, z, k)
  <1>6. /\ k \in Deciding(s, z) <=> u /\ (b = "TRUE_BREAKOUT" \/ b = "FAKE_BREAKOUT" \/ c)
        /\ T = IF ~u THEN rest
               ELSE IF b = "TRUE_BREAKOUT" THEN Found("BROKEN", "WAIT", b, k)
               ELSE IF b = "WAIT" \/ ~(b = "FAKE_BREAKOUT" \/ c) THEN rest
               ELSE IF ~p THEN Found("CONFIRM", "WAIT", b, k)
               ELSE IF ~q THEN Found("CONFIRM", "WAIT", b, k)
               ELSE Found("CONFIRM", d, b, k)
        /\ D = IF b = "TRUE_BREAKOUT" THEN Found("BROKEN", "WAIT", b, k)
               ELSE Found("CONFIRM", IF p /\ q THEN d ELSE "WAIT", b, k)
        /\ c => b = "NO_BREAKOUT"
    BY <1>2, <1>3, <1>4, <1>5, Zenon
  <1> HIDE DEF b, p, q, c, u, d, T, D, press, beyond, reject, touch
  <1>7. CASE k \notin Deciding(s, z)
    <2>1. CASE ~u
      <3>1. T = rest
        BY <1>6, <2>1, Zenon
      <3> QED BY <1>7, <3>1, Zenon DEF T
    <2>2. CASE u
      <3>1. b # "TRUE_BREAKOUT" /\ (b = "WAIT" \/ ~(b = "FAKE_BREAKOUT" \/ c))
        BY <1>6, <1>7, <2>2, Zenon
      <3> QED BY <1>6, <1>7, <2>2, <3>1, Zenon DEF T
    <2> QED BY <1>7, <2>1, <2>2 DEF T
  <1>8. CASE k \in Deciding(s, z) /\ b = "TRUE_BREAKOUT"
    <2>1. u
      BY <1>6, <1>8, Zenon
    <2>2. T = D
      BY <1>6, <1>8, <2>1, Zenon
    <2> QED BY <1>8, <2>2 DEF T, D
  <1>9. CASE k \in Deciding(s, z) /\ b # "TRUE_BREAKOUT"
    <2>1. u /\ (b = "FAKE_BREAKOUT" \/ c) /\ b # "WAIT"
      <3>1. u /\ (b = "FAKE_BREAKOUT" \/ c)
        BY <1>6, <1>9, Zenon
      <3>2. b = "FAKE_BREAKOUT" \/ b = "NO_BREAKOUT"
        BY <1>6, <3>1, Zenon
      <3> QED BY <3>1, <3>2
    <2>2. ~(b = "WAIT" \/ ~(b = "FAKE_BREAKOUT" \/ c))
      BY <2>1, Zenon
    <2>3. T = IF ~p THEN Found("CONFIRM", "WAIT", b, k)
              ELSE IF ~q THEN Found("CONFIRM", "WAIT", b, k)
              ELSE Found("CONFIRM", d, b, k)
      BY <1>6, <1>9, <2>1, <2>2, Zenon
    <2>4. D = Found("CONFIRM", IF p /\ q THEN d ELSE "WAIT", b, k)
      BY <1>6, <1>9, Zenon
    <2>5. T = D
      <3>1. CASE p /\ q
        BY <2>3, <2>4, <3>1, Zenon
      <3>2. CASE ~p
        BY <2>3, <2>4, <3>2, Zenon
      <3>3. CASE p /\ ~q
        BY <2>3, <2>4, <3>3, Zenon
      <3> QED BY <3>1, <3>2, <3>3, Zenon
    <2> QED BY <1>9, <2>5 DEF T, D
  <1> QED BY <1>7, <1>8, <1>9

(* The loop back from the last candle ends at the latest that decides.      *)
LEMMA SequenceWalked ==
  ASSUME NEW s \in Seq(Candle), NEW z
  PROVE  WorkerSequence(s, z) = EvaluateSequence(s, z)
  <1> DEFINE n == Len(s)
             first == FirstTest(s)
             D == Deciding(s, z)
             step(f) == [k \in 0 .. n - 1 |-> IF k < first THEN NoSequence ELSE Tried(s, z, k, f[k - 1])]
             from == CHOOSE f : f = step(f)
             Upto(k) == {d \in D : d <= k}
             Closed(k) == IF Upto(k) = {} THEN NoSequence ELSE Decision(s, z, Greatest(Upto(k)))
             closed == [k \in 0 .. n - 1 |-> Closed(k)]
  <1>1. /\ n \in Nat /\ first \in Int /\ first >= 1
        /\ \A d \in D : d \in Int /\ first <= d /\ d <= n - 1
    <2>1. n \in Nat /\ MaxTestAge \in Nat
      BY PriceActionAssumption
    <2> QED BY <2>1 DEF FirstTest, Deciding
  <1>2. WorkerSequence(s, z) = IF n < 2 THEN NoSequence ELSE from[n - 1]
    BY Zenon DEF WorkerSequence, Tried, FirstTest, Found
  <1> HIDE DEF D, first
  <1>3. ASSUME NEW k \in 0 .. n - 1, k < first PROVE Closed(k) = NoSequence
    <2>1. Upto(k) = {}
      BY <1>1, <1>3
    <2> HIDE DEF Upto
    <2> QED BY <2>1
  <1>4. ASSUME NEW k \in 0 .. n - 1, ~(k < first) PROVE Closed(k) = Tried(s, z, k, Closed(k - 1))
    <2> DEFINE rest == Closed(k - 1)
    <2>0. k \in Int /\ k <= n - 1 /\ first <= k
      BY <1>1, <1>4
    <2>1. /\ k \in D => Tried(s, z, k, rest) = Decision(s, z, k)
          /\ k \notin D => Tried(s, z, k, rest) = rest
      <3> HIDE DEF rest
      <3> QED BY <2>0, TriedIs DEF D, first
    <2>2. CASE k \in D
      <3> DEFINE T == Upto(k)
      <3>1. T \in SUBSET Int /\ k \in T /\ \A a \in T : a <= k
        <4>1. (\A a \in T : a \in D /\ a <= k) /\ k <= k
          BY <2>0
        <4>2. k \in T
          BY <2>2, <4>1
        <4> HIDE DEF T
        <4> QED BY <1>1, <4>1, <4>2
      <3>0. Closed(k) = IF T = {} THEN NoSequence ELSE Decision(s, z, Greatest(T))
        OBVIOUS
      <3> HIDE DEF T
      <3>2. Greatest(T) = k
        BY <2>0, <3>1, GreatestUnique
      <3>3. T # {}
        BY <3>1
      <3> HIDE DEF rest, Closed
      <3>4. Closed(k) = Decision(s, z, k)
        BY <3>0, <3>2, <3>3
      <3>5. Tried(s, z, k, rest) = Decision(s, z, k)
        BY <2>1, <2>2
      <3> QED BY <3>4, <3>5, Zenon DEF rest
    <2>3. CASE k \notin D
      <3>1. Upto(k) = Upto(k - 1)
        <4>1. ASSUME NEW d \in D PROVE d <= k <=> d <= k - 1
          <5>1. d \in Int /\ d # k
            BY <1>1, <2>3
          <5> QED BY <2>0, <5>1
        <4> QED BY <4>1
      <3> HIDE DEF Upto
      <3>2. Closed(k) = rest
        BY <3>1
      <3> QED BY <2>1, <2>3, <3>2
    <2> QED BY <2>2, <2>3
  <1> HIDE DEF Closed
  <1>5. closed = step(closed)
    <2> SUFFICES ASSUME NEW k \in 0 .. n - 1
                 PROVE  Closed(k) = IF k < first THEN NoSequence ELSE Tried(s, z, k, closed[k - 1])
      OBVIOUS
    <2>1. ~(k < first) => closed[k - 1] = Closed(k - 1)
      BY <1>1
    <2> HIDE DEF closed
    <2> QED BY <1>3, <1>4, <2>1
  <1>6. from = step(from)
    <2> HIDE DEF step, closed
    <2> QED BY <1>5
  <1>7. \A k \in 0 .. n - 1 : from[k] = closed[k]
    <2> DEFINE S == {k \in Nat : k <= n - 1 => from[k] = closed[k]}
    <2> HIDE DEF from, closed
    <2>1. 0 \in S
      <3> SUFFICES ASSUME 0 <= n - 1 PROVE from[0] = closed[0]
        OBVIOUS
      <3>1. 0 \in 0 .. n - 1 /\ 0 < first
        BY <1>1
      <3>2. from[0] = NoSequence
        BY <1>6, <3>1
      <3>3. closed[0] = NoSequence
        BY <1>5, <3>1
      <3> QED BY <3>2, <3>3
    <2>2. ASSUME NEW k \in Nat, k \in S PROVE k + 1 \in S
      <3> DEFINE j == k + 1
      <3> SUFFICES ASSUME j <= n - 1 PROVE from[j] = closed[j]
        OBVIOUS
      <3>1. j \in 0 .. n - 1 /\ j - 1 = k /\ from[k] = closed[k]
        BY <1>1, <2>2
      <3> HIDE DEF j, S
      <3>2. from[j] = IF j < first THEN NoSequence ELSE Tried(s, z, j, from[k])
        BY <1>6, <3>1
      <3>3. closed[j] = IF j < first THEN NoSequence ELSE Tried(s, z, j, closed[k])
        BY <1>5, <3>1
      <3> QED BY <3>1, <3>2, <3>3
    <2>3. Nat \subseteq S
      <3> HIDE DEF S
      <3> QED BY <2>1, <2>2, Induction
    <2>4. SUFFICES ASSUME NEW k \in 0 .. n - 1 PROVE from[k] = closed[k]
      OBVIOUS
    <2>5. k \in Nat /\ k <= n - 1
      BY <1>1
    <2>6. k \in S
      BY <2>3, <2>5
    <2> QED BY <2>5, <2>6
  <1> HIDE DEF from
  <1>8. CASE n < 2
    BY <1>2, <1>8, SequenceIs
  <1>9. CASE ~(n < 2)
    <2>1. n - 1 \in 0 .. n - 1 /\ n >= 2
      BY <1>1, <1>9
    <2>2. WorkerSequence(s, z) = Closed(n - 1)
      <3>1. from[n - 1] = Closed(n - 1)
        BY <1>7, <2>1
      <3> QED BY <1>2, <1>9, <3>1
    <2>3. Upto(n - 1) = D
      BY <1>1
    <2>4. Closed(n - 1) = IF D = {} THEN NoSequence ELSE Decision(s, z, Greatest(D))
      <3> HIDE DEF Upto
      <3> QED BY <2>3, Zenon DEF Closed
    <2> QED BY <2>1, <2>2, <2>4, SequenceIs, Zenon DEF D
  <1> QED BY <1>8, <1>9

-----------------------------------------------------------------------------
(* The port of the worker: the same signal.                                 *)

(* Readings that are not there forbid no direction: they only leave out     *)
(* setups of a forbidden one.                                               *)
LEMMA FilteredSetups ==
  ASSUME NEW s \in Seq(Candle), s # <<>>, NEW zones, NEW kind \in {"SUPPORT", "RESISTANCE"}, NEW lo, NEW m,
         OfKind(zones, kind, lo, m), NEW bias, NEW readings, NEW alignment
  PROVE  LET dir == IF kind = "SUPPORT" THEN "LONG" ELSE "SHORT"
         IN  /\ IndicatorsAllow(readings, dir) =>
                  Setups(s, zones, bias, readings, alignment) = Setups(s, zones, bias, NoReadings, alignment)
             /\ ~IndicatorsAllow(readings, dir) => Setups(s, zones, bias, readings, alignment) = {}
  <1> DEFINE dir == IF kind = "SUPPORT" THEN "LONG" ELSE "SHORT"
             E(z, r) == EvaluateZone(s, z, bias, r, alignment)
  <1>1. \A z \in zones : ZoneOK(z, kind, lo) /\ Direction(z) = dir
    BY DEF OfKind, ZoneOK, Direction
  <1>2. IndicatorsAllow(NoReadings, dir)
    <2>1. 1 \in DOMAIN NoReadings /\ NoReadings[1] = "UNAVAILABLE"
      BY DEF NoReadings
    <2>2. Opposite(dir) # "UNAVAILABLE"
      BY DEF Opposite
    <2> QED BY <2>1, <2>2 DEF IndicatorsAllow
  <1> HIDE DEF dir, E
  <1>3. ASSUME NEW z \in zones, IndicatorsAllow(readings, dir) PROVE E(z, readings) = E(z, NoReadings)
    <2> DEFINE a == EvaluateSequence(s, z).action
               e == [action |-> Direction(z), zone |-> z, breakout |-> EvaluateSequence(s, z).breakout,
                     entry |-> Last(s).close, stop |-> ProtectiveStop(z, Front(s)),
                     score |-> ScoreSetup(Direction(z), z.touches, bias, EvaluateSequence(s, z).breakout, alignment)]
    <2>0. ZoneOK(z, kind, lo) /\ Direction(z) = dir
      BY <1>1
    <2>1. \A r : /\ a # "WAIT" /\ IndicatorsAllow(r, Direction(z)) => E(z, r) = e
                 /\ a = "WAIT" => E(z, r) = NoSetup
      <3> HIDE DEF a, e
      <3> SUFFICES ASSUME NEW r
                   PROVE  /\ a # "WAIT" /\ IndicatorsAllow(r, Direction(z)) => E(z, r) = e
                          /\ a = "WAIT" => E(z, r) = NoSetup
        OBVIOUS
      <3>1. a # "WAIT" /\ IndicatorsAllow(r, Direction(z)) => E(z, r) = e
        BY <2>0, SetupIs, Zenon DEF E, a, e
      <3>2. a = "WAIT" => E(z, r) = NoSetup
        BY <2>0, SetupIs, Zenon DEF E, a
      <3> QED BY <3>1, <3>2
    <2> HIDE DEF a, e
    <2>2. CASE a = "WAIT"
      BY <2>1, <2>2
    <2>3. CASE a # "WAIT"
      BY <1>2, <1>3, <2>0, <2>1, <2>3
    <2> QED BY <2>2, <2>3
  <1>4. ASSUME NEW z \in zones, ~IndicatorsAllow(readings, dir) PROVE E(z, readings) = NoSetup
    <2>0. ZoneOK(z, kind, lo) /\ Direction(z) = dir
      BY <1>1
    <2> QED BY <1>4, <2>0, SetupIs, Zenon DEF E
  <1>5. \A r : Setups(s, zones, bias, r, alignment) = {E(z, r) : z \in zones} \ {NoSetup}
    BY DEF Setups, E
  <1>6. /\ IndicatorsAllow(readings, dir) =>
             Setups(s, zones, bias, readings, alignment) = Setups(s, zones, bias, NoReadings, alignment)
        /\ ~IndicatorsAllow(readings, dir) => Setups(s, zones, bias, readings, alignment) = {}
    BY <1>3, <1>4, <1>5
  <1> QED BY <1>6 DEF dir

(* The candidates of the port are the setups before the readings. *)
LEMMA CandidatesAre ==
  ASSUME NEW s \in Seq(Candle), s # <<>>, NEW zones, NEW kind \in {"SUPPORT", "RESISTANCE"}, NEW lo, NEW m,
         OfKind(zones, kind, lo, m), NEW bias
  PROVE  WorkerCandidates(s, zones, bias) = Setups(s, zones, bias, NoReadings, "UNAVAILABLE")
  <1> DEFINE na == "UNAVAILABLE"
             of(z) == [action |-> Direction(z), zone |-> z, breakout |-> WorkerSequence(s, z).breakout,
                       entry |-> Last(s).close, stop |-> ProtectiveStop(z, Front(s)),
                       score |-> ScoreSetup(Direction(z), z.touches, bias, WorkerSequence(s, z).breakout, na)]
             e(z) == [action |-> Direction(z), zone |-> z, breakout |-> EvaluateSequence(s, z).breakout,
                      entry |-> Last(s).close, stop |-> ProtectiveStop(z, Front(s)),
                      score |-> ScoreSetup(Direction(z), z.touches, bias, EvaluateSequence(s, z).breakout, na)]
             E(z) == EvaluateZone(s, z, bias, NoReadings, na)
             act(z) == EvaluateSequence(s, z).action # "WAIT"
  <1>1. WorkerCandidates(s, zones, bias) = {of(z) : z \in {z \in zones : WorkerSequence(s, z).action # "WAIT"}}
    BY Zenon DEF WorkerCandidates
  <1>2. \A z : of(z) = e(z) /\ (WorkerSequence(s, z).action # "WAIT" <=> act(z))
    <2>1. ASSUME NEW z PROVE of(z) = e(z) /\ (WorkerSequence(s, z).action # "WAIT" <=> act(z))
      <3>1. WorkerSequence(s, z) = EvaluateSequence(s, z)
        BY SequenceWalked
      <3> QED BY <3>1, Zenon
    <2> QED BY <2>1
  <1>3. ASSUME NEW z \in zones
        PROVE  /\ act(z) => E(z) = e(z) /\ E(z) # NoSetup
               /\ ~act(z) => E(z) = NoSetup
    <2>1. ZoneOK(z, kind, lo) /\ Direction(z) \in {"LONG", "SHORT"}
      BY DEF OfKind, Direction
    <2>2. IndicatorsAllow(NoReadings, Direction(z))
      <3>1. 1 \in DOMAIN NoReadings /\ NoReadings[1] = "UNAVAILABLE"
        BY DEF NoReadings
      <3>2. Opposite(Direction(z)) # "UNAVAILABLE"
        BY DEF Opposite
      <3> QED BY <3>1, <3>2 DEF IndicatorsAllow
    <2> HIDE DEF na
    <2>3. act(z) => E(z) = e(z) /\ e(z) # NoSetup
      BY <2>1, <2>2, SetupIs, Zenon
    <2>4. ~act(z) => E(z) = NoSetup
      BY <2>1, SetupIs, Zenon
    <2> HIDE DEF e, E, act
    <2> QED BY <2>3, <2>4, Zenon
  <1>4. Setups(s, zones, bias, NoReadings, na) = {E(z) : z \in zones} \ {NoSetup}
    BY Zenon DEF Setups
  <1> HIDE DEF of, e, E, act
  <1> QED BY <1>1, <1>2, <1>3, <1>4 DEF na

(* The one the port sorts to the front is the best signal. *)
LEMMA BestWalked ==
  ASSUME NEW s \in Seq(Candle), s # <<>>, NEW zones, NEW kind \in {"SUPPORT", "RESISTANCE"}, NEW lo \in Int, NEW m,
         OfKind(zones, kind, lo, m), NEW bias, NEW alignment
  PROVE  WorkerBest(Setups(s, zones, bias, NoReadings, alignment)) = BestOf(s, zones, bias, NoReadings, alignment)
  <1> DEFINE X == Setups(s, zones, bias, NoReadings, alignment)
             b == BestOf(s, zones, bias, NoReadings, alignment)
             before(x, y) == x.score > y.score \/ (x.score = y.score /\ x.zone.low < y.zone.low)
             E(z) == EvaluateZone(s, z, bias, NoReadings, alignment)
  <1>1. WorkerBest(X) = IF X = {} THEN NoSetup ELSE CHOOSE x \in X : \A y \in X \ {x} : before(x, y)
    BY Zenon DEF WorkerBest
  <1>2. \A x \in X : SetupOK(x, s, zones, kind, lo)
    BY SetupsOfKind
  <1>3. /\ X = {} => b = NoSetup
        /\ X # {} => b \in X /\ \A t \in X : t.score <= b.score /\ (t.score = b.score => b.zone.low <= t.zone.low)
    BY BestSetup
  <1>4. \A x \in X : x = E(x.zone)
    <2>1. ASSUME NEW z \in zones, E(z) # NoSetup PROVE E(z).zone = z
      <3>1. ZoneOK(z, kind, lo)
        BY DEF OfKind
      <3>2. EvaluateSequence(s, z).action # "WAIT" /\ IndicatorsAllow(NoReadings, Direction(z))
        BY <2>1, <3>1, SetupIs
      <3>3. E(z) = [action |-> Direction(z), zone |-> z, breakout |-> EvaluateSequence(s, z).breakout,
                    entry |-> Last(s).close, stop |-> ProtectiveStop(z, Front(s)),
                    score |-> ScoreSetup(Direction(z), z.touches, bias, EvaluateSequence(s, z).breakout, alignment)]
        BY <3>1, <3>2, SetupIs
      <3> HIDE DEF E
      <3> QED BY <3>3
    <2>2. X = {E(z) : z \in zones} \ {NoSetup}
      BY Zenon DEF Setups
    <2> HIDE DEF X, E
    <2> QED BY <2>1, <2>2
  <1> HIDE DEF X, b, E
  <1>5. \A x \in X : x.score \in Int /\ x.zone.low \in Int /\ x.zone \in zones
    BY <1>2 DEF SetupOK, Ranked
  <1>6. \A x, y \in X : x.zone.low = y.zone.low => x = y
    <2>1. \A y, z \in zones : y.low = z.low => y = z
      BY Zenon DEF OfKind
    <2>2. ASSUME NEW x \in X, NEW y \in X, x.zone.low = y.zone.low PROVE x = y
      <3>1. x.zone = y.zone
        BY <1>5, <2>1, <2>2
      <3> QED BY <1>4, <3>1
    <2> QED BY <2>2
  <1>7. ASSUME X # {}, NEW y \in X \ {b} PROVE before(b, y) /\ ~before(y, b)
    <2>1. b \in X /\ y.score <= b.score /\ (y.score = b.score => b.zone.low <= y.zone.low)
      BY <1>3, <1>7
    <2>2. b.zone.low # y.zone.low
      BY <1>6, <1>7, <2>1
    <2>3. y.score \in Int /\ b.score \in Int /\ y.zone.low \in Int /\ b.zone.low \in Int
      BY <1>5, <2>1
    <2> QED BY <2>1, <2>2, <2>3
  <1> HIDE DEF before
  <1>8. CASE X # {}
    <2>1. b \in X /\ \A y \in X \ {b} : before(b, y)
      BY <1>3, <1>7, <1>8
    <2> DEFINE w == CHOOSE x \in X : \A y \in X \ {x} : before(x, y)
    <2>2. w \in X /\ \A y \in X \ {w} : before(w, y)
      BY <2>1, Zenon
    <2> HIDE DEF w
    <2>3. w = b
      BY <1>7, <1>8, <2>1, <2>2
    <2> QED BY <1>1, <1>8, <2>3, Zenon DEF w, X, b
  <1>9. CASE X = {}
    BY <1>1, <1>3, <1>9 DEF X, b
  <1> QED BY <1>8, <1>9

(* What readings can tell: a direction that none of them supports is one    *)
(* that all of them oppose, unless one is neutral or missing.               *)
LEMMA ReadingsTell ==
  ASSUME NEW r \in Readings, NEW dir
  PROVE  /\ WorkerIndicatorsAllow(r, dir) => IndicatorsAllow(r, dir)
         /\ IndicatorsAllow(r, dir) /\ ~WorkerIndicatorsAllow(r, dir) => \E i \in DOMAIN r : r[i] = "NEUTRAL"
  <1>1. \A i \in DOMAIN r : r[i] \in {"BULLISH", "BEARISH", "NEUTRAL", "UNAVAILABLE"}
    <2>1. r \in Seq({"BULLISH", "BEARISH", "NEUTRAL", "UNAVAILABLE"})
      BY StrategyBarsAssumption
    <2> QED BY <2>1
  <1>2. /\ Opposite(dir) # "UNAVAILABLE" /\ Opposite(dir) # Favourable(dir)
        /\ {Opposite(dir), Favourable(dir)} = {"BULLISH", "BEARISH"}
    BY DEF Opposite, Favourable
  <1>3. WorkerIndicatorsAllow(r, dir) => IndicatorsAllow(r, dir)
    BY <1>2 DEF WorkerIndicatorsAllow, IndicatorsAllow
  <1>4. ASSUME IndicatorsAllow(r, dir), ~WorkerIndicatorsAllow(r, dir) PROVE \E i \in DOMAIN r : r[i] = "NEUTRAL"
    <2>1. PICK i \in DOMAIN r : r[i] # Opposite(dir)
      BY <1>4 DEF IndicatorsAllow
    <2>2. r[i] # "UNAVAILABLE" /\ r[i] # Favourable(dir)
      BY <1>4 DEF WorkerIndicatorsAllow
    <2>3. r[i] \notin {"BULLISH", "BEARISH"} /\ r[i] # "UNAVAILABLE"
      BY <1>2, <2>1, <2>2
    <2> QED BY <1>1, <2>3
  <1> QED BY <1>3, <1>4

(* The filters: with no more than one direction to decide about, the port   *)
(* and the monitor end at the same setup or at none.                        *)
LEMMA FiltersAgree ==
  ASSUME NEW r \in Readings, NEW f, NEW b, NEW dir,
         b # NoSetup => b.action = dir,
         NEW strategy, strategy = (IF b # NoSetup /\ IndicatorsAllow(r, dir) THEN b ELSE NoSetup),
         NEW monitor, monitor = (IF strategy # NoSetup /\ SupervisorAllows(strategy, f) THEN strategy ELSE NoSetup)
  PROVE  (IF b # NoSetup /\ SupervisorAllows(b, f) /\ WorkerIndicatorsAllow(r, b.action) THEN b ELSE NoSetup)
           = (IF NeutralVeto(r, monitor) THEN NoSetup ELSE monitor)
  <1> DEFINE worker == IF b # NoSetup /\ SupervisorAllows(b, f) /\ WorkerIndicatorsAllow(r, b.action) THEN b ELSE NoSetup
  <1>1. NeutralVeto(r, NoSetup) = FALSE
    BY DEF NeutralVeto
  <1>2. /\ WorkerIndicatorsAllow(r, dir) => IndicatorsAllow(r, dir)
        /\ IndicatorsAllow(r, dir) /\ ~WorkerIndicatorsAllow(r, dir) => \E i \in DOMAIN r : r[i] = "NEUTRAL"
    BY ReadingsTell
  <1>3. CASE b = NoSetup
    <2>1. strategy = NoSetup /\ monitor = NoSetup /\ worker = NoSetup
      BY <1>3, Zenon
    <2> QED BY <1>1, <2>1, Zenon
  <1>4. CASE b # NoSetup /\ ~SupervisorAllows(b, f)
    <2>1. monitor = NoSetup /\ worker = NoSetup
      BY <1>4, Zenon
    <2> QED BY <1>1, <2>1, Zenon
  <1>5. CASE b # NoSetup /\ SupervisorAllows(b, f) /\ ~IndicatorsAllow(r, dir)
    <2>1. strategy = NoSetup /\ monitor = NoSetup /\ worker = NoSetup
      BY <1>2, <1>5, Zenon
    <2> QED BY <1>1, <2>1, Zenon
  <1>6. CASE b # NoSetup /\ SupervisorAllows(b, f) /\ IndicatorsAllow(r, dir)
    <2>1. strategy = b /\ monitor = b /\ b.action = dir
      BY <1>6, Zenon
    <2>2. NeutralVeto(r, monitor) <=> ~WorkerIndicatorsAllow(r, dir)
      <3>1. monitor # NoSetup /\ monitor.action = dir
        BY <1>6, <2>1
      <3>2. ASSUME ~WorkerIndicatorsAllow(r, dir) PROVE NeutralVeto(r, monitor)
        BY <1>2, <1>6, <3>1, <3>2, Zenon DEF NeutralVeto
      <3>3. ASSUME NeutralVeto(r, monitor) PROVE ~WorkerIndicatorsAllow(r, dir)
        BY <3>1, <3>3, Zenon DEF NeutralVeto
      <3> QED BY <3>2, <3>3
    <2>3. CASE WorkerIndicatorsAllow(r, dir)
      <3>1. worker = b
        BY <1>6, <2>1, <2>3, Zenon
      <3> QED BY <2>1, <2>2, <2>3, <3>1, Zenon
    <2>4. CASE ~WorkerIndicatorsAllow(r, dir)
      <3>1. worker = NoSetup
        BY <2>1, <2>4, Zenon
      <3> QED BY <2>2, <2>4, <3>1, Zenon
    <2> QED BY <2>3, <2>4
  <1> QED BY <1>3, <1>4, <1>5, <1>6

(* The port finds the zones, the structure and the tolerance of the monitor. *)
LEMMA WorkerSignalIs ==
  ASSUME NEW s \in Seq(Candle), s # <<>>, NEW r, NEW f
  PROVE  LET bias == StructureBias(Front(s))
             b == SelectSignal(BestOf(s, FindSupportZones(Front(s)), bias, NoReadings, "UNAVAILABLE"),
                               BestOf(s, FindResistanceZones(Front(s)), bias, NoReadings, "UNAVAILABLE"))
         IN  WorkerSignal(s, r, f) =
               IF b # NoSetup /\ SupervisorAllows(b, f) /\ WorkerIndicatorsAllow(r, b.action) THEN b ELSE NoSetup
  <1> DEFINE h == Front(s)
             t == AdaptiveZoneTolerance(h)
             p == [i \in DOMAIN h |-> h[i].low]
             q == [i \in DOMAIN h |-> h[i].high]
             low == "SUPPORT"
             high == "RESISTANCE"
             na == "UNAVAILABLE"
             lows == FindSupportZones(h)
             highs == FindResistanceZones(h)
             bias == StructureBias(h)
             m == Len(h)
             ls == ConfirmedSwingLows(h)
             hs == ConfirmedSwingHighs(h)
  <1>1. h \in Seq(Candle)
    BY FrontType
  <1> HIDE DEF h
  <1>2. WorkerStructure(h) = bias /\ WorkerSwingLows(h) = ls /\ WorkerSwingHighs(h) = hs
    BY <1>1, StructureWalked, SwingsWalked
  <1>3. /\ t \in Nat /\ m \in Nat /\ ls \in SUBSET (1 .. m) /\ hs \in SUBSET (1 .. m)
        /\ \A i \in 1 .. m : p[i] \in Int
        /\ \A i \in 1 .. m : q[i] \in Int
    BY <1>1, SwingPrices, ToleranceType
  <1>4. lows = BuildSwingZones(ls, p, low, t) /\ highs = BuildSwingZones(hs, q, high, t)
    BY Zenon DEF FindSupportZones, FindResistanceZones
  <1>5. WorkerZones(WorkerSwingLows(h), p, low, t) = lows /\ WorkerZones(WorkerSwingHighs(h), q, high, t) = highs
    <2> HIDE DEF t, p, q, low, high, m, ls, hs, lows, highs
    <2>1. WorkerZones(ls, p, low, t) = BuildSwingZones(ls, p, low, t)
      BY <1>3, ZonesWalked
    <2>2. WorkerZones(hs, q, high, t) = BuildSwingZones(hs, q, high, t)
      BY <1>3, ZonesWalked
    <2> QED BY <1>2, <1>4, <2>1, <2>2
  <1>6. PICK l1 \in Int : OfKind(lows, low, l1, m)
    BY <1>1, FoundOfKind
  <1>7. PICK l2 \in Int : OfKind(highs, high, l2, m)
    BY <1>1, FoundOfKind
  <1>8. low \in {"SUPPORT", "RESISTANCE"} /\ high \in {"SUPPORT", "RESISTANCE"}
    OBVIOUS
  <1> DEFINE long == WorkerBest(WorkerCandidates(s, WorkerZones(WorkerSwingLows(h), p, low, t), WorkerStructure(h)))
             short == WorkerBest(WorkerCandidates(s, WorkerZones(WorkerSwingHighs(h), q, high, t), WorkerStructure(h)))
             signal == SelectSignal(long, short)
  <1>9. WorkerSignal(s, r, f) =
          IF signal # NoSetup /\ SupervisorAllows(signal, f) /\ WorkerIndicatorsAllow(r, signal.action)
          THEN signal ELSE NoSetup
    BY Zenon DEF WorkerSignal, h
  <1> HIDE DEF t, p, q, low, high, m, ls, hs, lows, highs, bias
  <1>10. long = BestOf(s, lows, bias, NoReadings, na)
    <2>1. WorkerCandidates(s, lows, bias) = Setups(s, lows, bias, NoReadings, na)
      BY <1>6, <1>8, CandidatesAre
    <2>2. WorkerBest(Setups(s, lows, bias, NoReadings, na)) = BestOf(s, lows, bias, NoReadings, na)
      BY <1>6, <1>8, BestWalked
    <2> QED BY <1>2, <1>5, <2>1, <2>2, Zenon
  <1>11. short = BestOf(s, highs, bias, NoReadings, na)
    <2>1. WorkerCandidates(s, highs, bias) = Setups(s, highs, bias, NoReadings, na)
      BY <1>7, <1>8, CandidatesAre
    <2>2. WorkerBest(Setups(s, highs, bias, NoReadings, na)) = BestOf(s, highs, bias, NoReadings, na)
      BY <1>7, <1>8, BestWalked
    <2> QED BY <1>2, <1>5, <2>1, <2>2, Zenon
  <1> HIDE DEF long, short
  <1> QED BY <1>9, <1>10, <1>11, Zenon DEF bias, lows, highs, h

(* At most one direction has setups: the filters decide about that one, in  *)
(* whatever order they are asked.                                           *)
LEMMA WorkerFollows ==
  ASSUME NEW s \in Seq(Candle), s # <<>>
  PROVE  WorkerFollowsMonitor(s)
  <1> SUFFICES ASSUME NEW r \in Readings, NEW f \in Forecasts
               PROVE  WorkerSignal(s, r, f) =
                        (IF NeutralVeto(r, MonitorSignal(s, r, f)) THEN NoSetup ELSE MonitorSignal(s, r, f))
    BY Zenon DEF WorkerFollowsMonitor
  <1> DEFINE h == Front(s)
             na == "UNAVAILABLE"
             bias == StructureBias(h)
             lows == FindSupportZones(h)
             highs == FindResistanceZones(h)
             low == "SUPPORT"
             high == "RESISTANCE"
             buy == "LONG"
             sell == "SHORT"
             m == Len(h)
             L == Setups(s, lows, bias, NoReadings, na)
             S == Setups(s, highs, bias, NoReadings, na)
             long == BestOf(s, lows, bias, NoReadings, na)
             short == BestOf(s, highs, bias, NoReadings, na)
             Lr == Setups(s, lows, bias, r, na)
             Sr == Setups(s, highs, bias, r, na)
             longr == BestOf(s, lows, bias, r, na)
             shortr == BestOf(s, highs, bias, r, na)
             b == SelectSignal(long, short)
             strategy == StrategySignal(s, r, na)
             monitor == MonitorSignal(s, r, f)
  <1>1. WorkerSignal(s, r, f) =
          IF b # NoSetup /\ SupervisorAllows(b, f) /\ WorkerIndicatorsAllow(r, b.action) THEN b ELSE NoSetup
    BY WorkerSignalIs
  <1>2. strategy = SelectSignal(longr, shortr)
    BY Zenon DEF StrategySignal, BestOf
  <1>3. monitor = IF strategy # NoSetup /\ SupervisorAllows(strategy, f) THEN strategy ELSE NoSetup
    BY Zenon DEF MonitorSignal
  <1>4. h \in Seq(Candle)
    BY FrontType
  <1>5. PICK l1 \in Int : OfKind(lows, low, l1, m)
    BY <1>4, FoundOfKind
  <1>6. PICK l2 \in Int : OfKind(highs, high, l2, m)
    BY <1>4, FoundOfKind
  <1>7. low \in {"SUPPORT", "RESISTANCE"} /\ high \in {"SUPPORT", "RESISTANCE"}
    OBVIOUS
  <1>8. /\ (IF low = "SUPPORT" THEN "LONG" ELSE "SHORT") = buy
        /\ (IF high = "SUPPORT" THEN "LONG" ELSE "SHORT") = sell
    OBVIOUS
  <1>9. (\A x \in L : x.action = buy) /\ (\A x \in S : x.action = sell) /\ (L = {} \/ S = {})
    <2> HIDE DEF na, bias
    <2> QED BY OneDirection
  <1> HIDE DEF h, na, lows, highs, bias, low, high, buy, sell, m
  <1>10. (L = {} => long = NoSetup) /\ (L # {} => long \in L)
    BY <1>5, <1>7, BestSetup
  <1>11. (S = {} => short = NoSetup) /\ (S # {} => short \in S)
    BY <1>6, <1>7, BestSetup
  <1>12. Lr = {} => longr = NoSetup
    BY <1>5, <1>7, BestSetup
  <1>13. Sr = {} => shortr = NoSetup
    BY <1>6, <1>7, BestSetup
  <1>14. /\ IndicatorsAllow(r, buy) => Lr = L
         /\ ~IndicatorsAllow(r, buy) => Lr = {}
    BY <1>5, <1>7, <1>8, FilteredSetups
  <1>15. /\ IndicatorsAllow(r, sell) => Sr = S
         /\ ~IndicatorsAllow(r, sell) => Sr = {}
    BY <1>6, <1>7, <1>8, FilteredSetups
  <1>16. \A x \in L \cup S : x # NoSetup
    BY DEF Setups
  <1>17. /\ Lr = L /\ Lr # {} => longr = long
         /\ Sr = S /\ Sr # {} => shortr = short
    <2>1. ASSUME NEW zones, NEW kind \in {"SUPPORT", "RESISTANCE"}, NEW lo \in Int, OfKind(zones, kind, lo, m),
                 Setups(s, zones, bias, r, na) = Setups(s, zones, bias, NoReadings, na)
          PROVE  BestOf(s, zones, bias, r, na) = BestOf(s, zones, bias, NoReadings, na)
      <3>1. \A x : BestOf(s, zones, bias, x, na) =
                     LET X == Setups(s, zones, bias, x, na)
                         best == {y \in X : \A t \in X : t.score <= y.score}
                     IN  IF X = {} THEN NoSetup
                         ELSE CHOOSE y \in best : \A t \in best : y.zone.low <= t.zone.low
        BY Zenon DEF BestOf, BestSignal, Setups
      <3> QED BY <2>1, <3>1
    <2> QED BY <1>5, <1>6, <1>7, <2>1
  <1> HIDE DEF L, S, long, short, Lr, Sr, longr, shortr
  <1>18. b = IF short = NoSetup THEN long ELSE IF long = NoSetup THEN short
             ELSE IF long.score > short.score THEN long ELSE short
    BY Zenon DEF SelectSignal
  <1>19. strategy = IF shortr = NoSetup THEN longr ELSE IF longr = NoSetup THEN shortr
             ELSE IF longr.score > shortr.score THEN longr ELSE shortr
    BY <1>2, Zenon DEF SelectSignal
  <1> HIDE DEF b, strategy, monitor
  <1>20. /\ IndicatorsAllow(r, buy) => longr = long
         /\ ~IndicatorsAllow(r, buy) => longr = NoSetup
         /\ IndicatorsAllow(r, sell) => shortr = short
         /\ ~IndicatorsAllow(r, sell) => shortr = NoSetup
    BY <1>10, <1>11, <1>12, <1>13, <1>14, <1>15, <1>17, Zenon
  <1>21. \E dir : /\ b # NoSetup => b.action = dir
                  /\ strategy = (IF b # NoSetup /\ IndicatorsAllow(r, dir) THEN b ELSE NoSetup)
    <2>1. CASE S = {}
      <3>1. short = NoSetup /\ b = long /\ shortr = NoSetup /\ strategy = longr
        BY <1>11, <1>18, <1>19, <1>20, <2>1, Zenon
      <3>2. b # NoSetup => b.action = buy
        BY <1>9, <1>10, <3>1
      <3>3. strategy = (IF b # NoSetup /\ IndicatorsAllow(r, buy) THEN b ELSE NoSetup)
        BY <1>20, <3>1, Zenon
      <3> QED BY <3>2, <3>3
    <2>2. CASE L = {}
      <3>1. long = NoSetup /\ b = short /\ longr = NoSetup /\ strategy = shortr
        BY <1>10, <1>18, <1>19, <1>20, <2>2, Zenon
      <3>2. b # NoSetup => b.action = sell
        BY <1>9, <1>11, <3>1
      <3>3. strategy = (IF b # NoSetup /\ IndicatorsAllow(r, sell) THEN b ELSE NoSetup)
        BY <1>20, <3>1, Zenon
      <3> QED BY <3>2, <3>3
    <2> QED BY <1>9, <2>1, <2>2
  <1>22. PICK dir : /\ b # NoSetup => b.action = dir
                    /\ strategy = (IF b # NoSetup /\ IndicatorsAllow(r, dir) THEN b ELSE NoSetup)
    BY <1>21
  <1>23. (IF b # NoSetup /\ SupervisorAllows(b, f) /\ WorkerIndicatorsAllow(r, b.action) THEN b ELSE NoSetup)
           = (IF NeutralVeto(r, monitor) THEN NoSetup ELSE monitor)
    BY <1>3, <1>22, FiltersAgree
  <1> QED BY <1>1, <1>23, Zenon DEF monitor

(* At the close of every candle, for every history, all parameters,         *)
(* readings and forecasts, the implementations of the strategy decide the   *)
(* same: the two-setup orchestration (two_setups.py) the direction, the port*)
(* of the worker (signal_parity.js, signal_parity_v2.js) the signal of the  *)
(* realtime monitor (realtime.py), but for the veto of a neutral reading.   *)
THEOREM ImplementationsDecideTheSame == Spec => ImplementationsAgree
  <1>1. ASSUME CandlesOK, [Next]_vars, candles' # candles
        PROVE  TwoSetupsDecideTheSame(candles') /\ WorkerFollowsMonitor(candles')
    <2>1. PICK c \in Candle : candles' = Append(candles, c)
      BY <1>1, OneMoreCandle
    <2>2. candles' \in Seq(Candle) /\ candles' # <<>>
      BY <1>1, <2>1 DEF CandlesOK
    <2> QED BY <2>2, TwoSetupsAgree, WorkerFollows
  <1>2. CandlesOK /\ [Next]_vars => [TwoSetupsDecideTheSame(candles') /\ WorkerFollowsMonitor(candles')]_vars
    BY <1>1 DEF vars
  <1> QED BY <1>2, CandlesInvariant, PTL DEF Spec, ImplementationsAgree

=============================================================================
