-------------------------- MODULE PaperProgramsProofs --------------------------
(***************************************************************************)
(* Proofs about the programs on the closed bars, for every candle the  *)
(* market can make, every decision and any number of bars and restarts.    *)
(***************************************************************************)
EXTENDS PaperPrograms, FiniteSetTheorems, SequenceTheorems, WellFoundedInduction, TLAPS

-----------------------------------------------------------------------------
(* The first bar that touches a plan.                                      *)

Ascending(s) == \A i, j \in DOMAIN s : i < j => s[i] < s[j]

Touches(plan, c) == HitStop(plan, c, 0) \/ HitTarget(plan, c, 0)

(* Of the bars met after the one at index at, the one at index e is the     *)
(* first that touches.                                                     *)
FirstTouch(plan, bs, met, at, e) ==
  /\ at \in DOMAIN met /\ e \in DOMAIN met /\ at < e
  /\ Touches(plan, bs[met[e]])
  /\ \A k \in at + 1 .. e - 1 : ~Touches(plan, bs[met[k]])

Untouched(plan, bs, met, at) ==
  /\ at \in DOMAIN met
  /\ \A k \in at + 1 .. Len(met) : ~Touches(plan, bs[met[k]])

LEMMA LeastOfNat ==
  ASSUME NEW T \in SUBSET Nat, T # {}
  PROVE  \E i \in T : \A j \in T : i <= j
<1>1. IsWellFoundedOn(OpToRel(<, Nat), Nat)
  BY NatLessThanWellFounded
<1>2. PICK i \in T : \A j \in T : ~(<<j, i>> \in OpToRel(<, Nat))
  BY <1>1, WFMin
<1>3. \A j \in T : ~(j < i)
  BY <1>2 DEF OpToRel
<1> QED BY <1>3

(* What simulate_exit finds on a sequence of candles. *)
LEMMA ExitIs ==
  ASSUME NEW plan, NEW S, NEW c \in Seq(S), NEW e \in 1 .. Len(c), Touches(plan, c[e]),
         \A k \in 1 .. e - 1 : ~Touches(plan, c[k])
  PROVE  ExitAfter(plan, c, 0, 0) =
           [outcome |-> IF HitStop(plan, c[e], 0) THEN "LOSS" ELSE "WIN", held |-> e]
<1> DEFINE hits == {i \in 0 + 1 .. Len(c) : HitStop(plan, c[i], 0) \/ HitTarget(plan, c[i], 0)}
<1>1. e \in hits /\ \A i \in hits : e <= i /\ i \in Int
  BY DEF Touches
<1>2. ExitAfter(plan, c, 0, 0) =
        IF hits = {} THEN [outcome |-> "OPEN", held |-> Len(c)]
        ELSE [outcome |-> IF HitStop(plan, c[First(hits)], 0) THEN "LOSS" ELSE "WIN", held |-> First(hits)]
  BY Zenon DEF ExitAfter
<1> HIDE DEF hits
<1>3. First(hits) = e
  <2>1. First(hits) \in hits /\ \A j \in hits : First(hits) <= j
    BY <1>1 DEF First
  <2> DEFINE f == First(hits)
  <2>2. f \in hits /\ f <= e
    BY <1>1, <2>1
  <2> HIDE DEF f
  <2>3. f \in Int /\ e <= f
    BY <1>1, <2>2
  <2>4. f = e
    BY <2>2, <2>3
  <2> QED BY <2>4 DEF f
<1> QED BY <1>1, <1>2, <1>3

LEMMA NoExit ==
  ASSUME NEW plan, NEW S, NEW c \in Seq(S), \A k \in 1 .. Len(c) : ~Touches(plan, c[k])
  PROVE  ExitAfter(plan, c, 0, 0) = [outcome |-> "OPEN", held |-> Len(c)]
BY DEF ExitAfter, Touches

-----------------------------------------------------------------------------
(* The bars a program met after a bar.                                     *)

LEMMA AfterIs ==
  ASSUME NEW N \in Nat, NEW met \in Seq(1 .. N), Ascending(met), NEW at \in DOMAIN met
  PROVE  /\ After(met, met[at]) \in Seq(1 .. N)
         /\ Len(After(met, met[at])) = Len(met) - at
         /\ \A k \in 1 .. Len(met) - at : After(met, met[at])[k] = met[at + k]
<1> DEFINE ix == CHOOSE k \in DOMAIN met : met[k] = met[at]
           a == [k \in 1 .. Len(met) - at |-> met[at + k]]
<1>1. ix = at
  <2>1. ix \in DOMAIN met /\ met[ix] = met[at]
    OBVIOUS
  <2> HIDE DEF ix
  <2>2. met[ix] \in Int /\ met[at] \in Int /\ ix \in Int /\ at \in Int
    BY <2>1
  <2> QED BY <2>1, <2>2 DEF Ascending
<1>2. After(met, met[at]) = a
  <2> HIDE DEF ix
  <2>1. After(met, met[at]) = [k \in 1 .. Len(met) - ix |-> met[ix + k]]
    BY DEF After, ix
  <2> QED BY <1>1, <2>1
<1>3. Len(met) - at \in Nat
  OBVIOUS
<1>4. a \in [1 .. Len(met) - at -> 1 .. N]
  OBVIOUS
<1>5. \A k \in 1 .. Len(met) - at : a[k] = met[at + k]
  OBVIOUS
<1> HIDE DEF a
<1>6. a \in Seq(1 .. N) /\ Len(a) = Len(met) - at
  BY <1>3, <1>4
<1> QED BY <1>2, <1>5, <1>6

LEMMA CandlesAfterIs ==
  ASSUME bars \in Seq(Bar), NEW met \in Seq(1 .. Len(bars)), Ascending(met), NEW at \in DOMAIN met
  PROVE  LET c == CandlesAfter(met, met[at])
         IN  /\ c \in Seq(Bar) /\ Len(c) = Len(met) - at
             /\ \A k \in 1 .. Len(met) - at : c[k] = bars[met[at + k]]
<1> DEFINE a == After(met, met[at])
           c == [k \in DOMAIN a |-> bars[a[k]]]
<1>1. /\ a \in Seq(1 .. Len(bars)) /\ Len(a) = Len(met) - at
      /\ \A k \in 1 .. Len(met) - at : a[k] = met[at + k]
  BY AfterIs
<1>2. CandlesAfter(met, met[at]) = c
  BY DEF CandlesAfter
<1> HIDE DEF a
<1>3. Len(a) \in Nat /\ DOMAIN a = 1 .. Len(a) /\ \A k \in DOMAIN a : a[k] \in 1 .. Len(bars)
  BY <1>1
<1>4. c \in [1 .. Len(a) -> Bar]
  BY <1>3
<1>5. c \in Seq(Bar) /\ Len(c) = Len(a)
  BY <1>3, <1>4
<1> QED BY <1>1, <1>2, <1>3, <1>5

(* The exit that simulate_exit finds on the bars met after the entry. *)
LEMMA TouchIsTheExit ==
  ASSUME bars \in Seq(Bar), NEW met \in Seq(1 .. Len(bars)), Ascending(met),
         NEW plan, NEW at, NEW e, FirstTouch(plan, bars, met, at, e)
  PROVE  LET c == CandlesAfter(met, met[at])
         IN  /\ SimulateExit(plan, c) =
                  [outcome |-> IF HitStop(plan, bars[met[e]], 0) THEN "LOSS" ELSE "WIN", held |-> e - at]
             /\ e - at \in 1 .. Len(c)
             /\ After(met, met[at])[e - at] = met[e]
<1> DEFINE c == CandlesAfter(met, met[at])
<1>1. /\ at \in DOMAIN met /\ e \in DOMAIN met /\ at < e /\ Touches(plan, bars[met[e]])
      /\ \A k \in at + 1 .. e - 1 : ~Touches(plan, bars[met[k]])
  BY DEF FirstTouch
<1>2. /\ c \in Seq(Bar) /\ Len(c) = Len(met) - at
      /\ \A k \in 1 .. Len(met) - at : c[k] = bars[met[at + k]]
  BY <1>1, CandlesAfterIs
<1> HIDE DEF c
<1>3. at \in Nat /\ e \in Nat /\ e - at \in 1 .. Len(met) - at /\ at + (e - at) = e
  BY <1>1
<1>4. Touches(plan, c[e - at]) /\ c[e - at] = bars[met[e]]
  BY <1>1, <1>2, <1>3
<1>5. ASSUME NEW k \in 1 .. (e - at) - 1
      PROVE  ~Touches(plan, c[k])
  <2>1. at + k \in at + 1 .. e - 1 /\ k \in 1 .. Len(met) - at
    BY <1>3
  <2> QED BY <1>1, <1>2, <2>1
<1>6. SimulateExit(plan, c) =
        [outcome |-> IF HitStop(plan, c[e - at], 0) THEN "LOSS" ELSE "WIN", held |-> e - at]
  BY <1>2, <1>3, <1>4, <1>5, ExitIs DEF SimulateExit
<1>7. After(met, met[at])[e - at] = met[e]
  <2>1. \A k \in 1 .. Len(met) - at : After(met, met[at])[k] = met[at + k]
    BY <1>1, AfterIs
  <2> QED BY <1>3, <2>1
<1> QED BY <1>2, <1>3, <1>4, <1>6, <1>7 DEF c

LEMMA UntouchedIsOpen ==
  ASSUME bars \in Seq(Bar), NEW met \in Seq(1 .. Len(bars)), Ascending(met),
         NEW plan, NEW at, Untouched(plan, bars, met, at)
  PROVE  SimulateExit(plan, CandlesAfter(met, met[at])) = [outcome |-> "OPEN", held |-> Len(met) - at]
<1> DEFINE c == CandlesAfter(met, met[at])
<1>1. at \in DOMAIN met /\ \A k \in at + 1 .. Len(met) : ~Touches(plan, bars[met[k]])
  BY DEF Untouched
<1>2. /\ c \in Seq(Bar) /\ Len(c) = Len(met) - at
      /\ \A k \in 1 .. Len(met) - at : c[k] = bars[met[at + k]]
  BY <1>1, CandlesAfterIs
<1> HIDE DEF c
<1>3. ASSUME NEW k \in 1 .. Len(c)
      PROVE  ~Touches(plan, c[k])
  <2>1. at + k \in at + 1 .. Len(met)
    BY <1>1, <1>2
  <2> QED BY <1>1, <1>2, <2>1
<1> QED BY <1>2, <1>3, NoExit DEF SimulateExit, c

-----------------------------------------------------------------------------
(* A later bar changes nothing about those met.                            *)

LEMMA MetOneMore ==
  ASSUME NEW N \in Nat, NEW met \in Seq(1 .. N), Ascending(met), NEW n \in 1 .. N,
         \A i \in DOMAIN met : met[i] < n
  PROVE  /\ Append(met, n) \in Seq(1 .. N) /\ Ascending(Append(met, n))
         /\ Len(Append(met, n)) = Len(met) + 1 /\ Append(met, n)[Len(met) + 1] = n
         /\ \A i \in DOMAIN met : Append(met, n)[i] = met[i]
         /\ DOMAIN met = 1 .. Len(met) /\ DOMAIN Append(met, n) = 1 .. Len(met) + 1 /\ Len(met) \in Nat
<1>1. /\ Append(met, n) \in Seq(1 .. N)
      /\ Len(Append(met, n)) = Len(met) + 1 /\ Append(met, n)[Len(met) + 1] = n
      /\ \A i \in DOMAIN met : Append(met, n)[i] = met[i]
      /\ DOMAIN met = 1 .. Len(met) /\ DOMAIN Append(met, n) = 1 .. Len(met) + 1 /\ Len(met) \in Nat
  OBVIOUS
<1>2. ASSUME NEW i \in 1 .. Len(met) + 1, NEW j \in 1 .. Len(met) + 1, i < j
      PROVE  Append(met, n)[i] < Append(met, n)[j]
  <2>1. i \in DOMAIN met /\ (j \in DOMAIN met \/ j = Len(met) + 1)
    BY <1>1, <1>2
  <2> QED BY <1>1, <1>2, <2>1 DEF Ascending
<1>3. Ascending(Append(met, n))
  BY <1>1, <1>2 DEF Ascending
<1> QED BY <1>1, <1>3

LEMMA TouchStays ==
  ASSUME NEW N \in Nat, NEW met \in Seq(1 .. N), NEW n, NEW plan, NEW bs, NEW at, NEW e,
         FirstTouch(plan, bs, met, at, e)
  PROVE  FirstTouch(plan, bs, Append(met, n), at, e) /\ Append(met, n)[e] = met[e] /\ Append(met, n)[at] = met[at]
<1>1. /\ \A i \in DOMAIN met : Append(met, n)[i] = met[i] /\ i \in DOMAIN Append(met, n)
      /\ DOMAIN met = 1 .. Len(met) /\ Len(met) \in Nat
  OBVIOUS
<1>2. /\ at \in DOMAIN met /\ e \in DOMAIN met /\ at < e /\ Touches(plan, bs[met[e]])
      /\ \A k \in at + 1 .. e - 1 : ~Touches(plan, bs[met[k]])
  BY DEF FirstTouch
<1>3. \A k \in at + 1 .. e - 1 : k \in DOMAIN met
  BY <1>1, <1>2
<1> HIDE DEF Touches
<1> QED BY <1>1, <1>2, <1>3 DEF FirstTouch

LEMMA UntouchedOneMore ==
  ASSUME NEW N \in Nat, NEW met \in Seq(1 .. N), NEW n, NEW plan, NEW bs, NEW at,
         Untouched(plan, bs, met, at), NEW e, e = Len(met) + 1
  PROVE  /\ ~Touches(plan, bs[n]) => Untouched(plan, bs, Append(met, n), at)
         /\ Touches(plan, bs[n]) => FirstTouch(plan, bs, Append(met, n), at, e)
         /\ Append(met, n)[at] = met[at]
<1>1. /\ \A i \in DOMAIN met : Append(met, n)[i] = met[i]
      /\ DOMAIN met = 1 .. Len(met) /\ Len(met) \in Nat
      /\ Len(Append(met, n)) = Len(met) + 1 /\ DOMAIN Append(met, n) = 1 .. Len(met) + 1
      /\ Append(met, n)[Len(met) + 1] = n
  OBVIOUS
<1>2. at \in DOMAIN met /\ \A k \in at + 1 .. Len(met) : ~Touches(plan, bs[met[k]])
  BY DEF Untouched
<1>3. \A k \in at + 1 .. Len(met) : k \in DOMAIN met /\ ~Touches(plan, bs[Append(met, n)[k]])
  BY <1>1, <1>2
<1> DEFINE v == Append(met, n)
           L == Len(met)
<1>4. /\ L \in Nat /\ DOMAIN v = 1 .. L + 1 /\ Len(v) = L + 1 /\ v[L + 1] = n /\ at \in 1 .. L
      /\ \A k \in at + 1 .. L : ~Touches(plan, bs[v[k]])
  BY <1>1, <1>2, <1>3
<1> HIDE DEF v, L
<1>5. \A k \in at + 1 .. L + 1 : k \in at + 1 .. L \/ k = L + 1
  BY <1>4
<1>6. ~Touches(plan, bs[n]) => Untouched(plan, bs, v, at)
  BY <1>4, <1>5 DEF Untouched
<1>7. Touches(plan, bs[n]) => FirstTouch(plan, bs, v, at, L + 1)
  BY <1>4 DEF FirstTouch
<1> QED BY <1>1, <1>2, <1>6, <1>7 DEF v, L

(* A new bar of the market changes nothing about those before it.          *)
LEMMA TouchOfMoreBars ==
  ASSUME NEW bs \in Seq(Bar), NEW b, NEW met \in Seq(1 .. Len(bs)), NEW plan, NEW at
  PROVE  /\ \A e : FirstTouch(plan, bs, met, at, e) => FirstTouch(plan, Append(bs, b), met, at, e)
         /\ Untouched(plan, bs, met, at) => Untouched(plan, Append(bs, b), met, at)
         /\ \A i \in DOMAIN met : Append(bs, b)[met[i]] = bs[met[i]]
<1>1. \A i \in DOMAIN met : Append(bs, b)[met[i]] = bs[met[i]]
  OBVIOUS
<1>2. DOMAIN met = 1 .. Len(met) /\ Len(met) \in Nat
  OBVIOUS
<1>3. ASSUME NEW e, FirstTouch(plan, bs, met, at, e)
      PROVE  FirstTouch(plan, Append(bs, b), met, at, e)
  <2>1. /\ at \in DOMAIN met /\ e \in DOMAIN met /\ at < e /\ Touches(plan, bs[met[e]])
        /\ \A k \in at + 1 .. e - 1 : ~Touches(plan, bs[met[k]])
    BY <1>3 DEF FirstTouch
  <2>2. \A k \in at + 1 .. e - 1 : k \in DOMAIN met
    BY <1>2, <2>1
  <2> QED BY <1>1, <2>1, <2>2 DEF FirstTouch
<1>4. ASSUME Untouched(plan, bs, met, at)
      PROVE  Untouched(plan, Append(bs, b), met, at)
  <2>1. at \in DOMAIN met /\ \A k \in at + 1 .. Len(met) : ~Touches(plan, bs[met[k]])
    BY <1>4 DEF Untouched
  <2>2. \A k \in at + 1 .. Len(met) : k \in DOMAIN met
    BY <1>2, <2>1
  <2> QED BY <1>1, <2>1, <2>2 DEF Untouched
<1> QED BY <1>1, <1>3, <1>4

LEMMA SeqOfMore ==
  ASSUME NEW S, NEW T, S \subseteq T, NEW s \in Seq(S)
  PROVE  s \in Seq(T)
<1>1. s \in [1 .. Len(s) -> T] /\ Len(s) \in Nat
  OBVIOUS
<1> QED BY <1>1

-----------------------------------------------------------------------------
(* The monitor.                                                            *)

MonitorTypeOK ==
  /\ bars \in Seq(Bar)
  /\ Len(bars) <= MaxBars
  /\ cursor \in 0 .. Len(bars)

LEMMA BarTypes ==
  ASSUME bars \in Seq(Bar), NEW n \in 1 .. Len(bars)
  PROVE  /\ bars[n] \in Bar /\ bars[n].decision \in Decisions /\ bars[n].open \in Int
         /\ bars[n].decision.action \in {"WAIT", "LONG", "SHORT"}
         /\ bars[n].decision.entry \in Int /\ bars[n].decision.stop \in Int
         /\ SessionStop(bars[n].decision) \in Int
<1>1. bars[n] \in Bar
  OBVIOUS
<1>2. bars[n].decision \in Decisions /\ bars[n].open \in Int
  BY <1>1 DEF Bar
<1>3. /\ bars[n].decision.action \in {"WAIT", "LONG", "SHORT"}
      /\ bars[n].decision.entry \in Int /\ bars[n].decision.stop \in Int
      /\ bars[n].decision.edge \in Int
  BY <1>2, MonitorAssumption
<1>4. SessionStop(bars[n].decision) \in Int
  BY <1>3, SessionAssumption DEF SessionStop
<1> QED BY <1>1, <1>2, <1>3, <1>4

LEMMA TestedTypes ==
  ASSUME bars \in Seq(Bar), NEW n \in 1 .. Len(bars)
  PROVE  /\ Tested(bars, n).action \in {"WAIT", "LONG", "SHORT"}
         /\ Tested(bars, n).entry \in Int /\ Tested(bars, n).stop \in Int
         /\ OnItsSide(Tested(bars, n))
<1>1. bars[n].decision \in Decisions
  BY BarTypes
<1>2. /\ bars[n].decision.tested \in [action : {"WAIT", "LONG", "SHORT"}, entry : Int, stop : Int]
      /\ OnItsSide(bars[n].decision.tested)
  BY <1>1, MonitorAssumption
<1> QED BY <1>2 DEF Tested

Closing(c, d) ==
  [open |-> c.open, high |-> c.high, low |-> c.low, close |-> c.close, decision |-> d]

LEMMA MarketKeepsMonitor ==
  ASSUME MonitorTypeOK, NEW c \in Candles, NEW d \in Decisions, CloseBar(c, d)
  PROVE  /\ MonitorTypeOK' /\ Len(bars') = Len(bars) + 1 /\ cursor' = cursor
         /\ bars' = Append(bars, Closing(c, d))
         /\ \A n \in 1 .. Len(bars) : bars'[n] = bars[n]
<1> DEFINE b == Closing(c, d)
<1>1. b \in Bar
  BY MonitorAssumption DEF ValidCandle, Bar, Closing
<1>2. bars' = Append(bars, b) /\ Len(bars) < MaxBars /\ cursor' = cursor
  BY DEF CloseBar, Closing
<1> HIDE DEF b
<1>3. /\ bars' \in Seq(Bar) /\ Len(bars') = Len(bars) + 1 /\ Len(bars) \in Nat
      /\ \A n \in 1 .. Len(bars) : bars'[n] = bars[n]
  BY <1>1, <1>2 DEF MonitorTypeOK
<1> QED BY <1>2, <1>3, MonitorAssumption DEF MonitorTypeOK, b

LEMMA AcceptKeepsMonitor ==
  ASSUME MonitorTypeOK, Accept
  PROVE  /\ MonitorTypeOK' /\ bars' = bars /\ cursor' = Len(bars) /\ cursor < Len(bars)
         /\ Len(bars) \in 1 .. Len(bars)
BY DEF MonitorTypeOK, Accept

-----------------------------------------------------------------------------
(* The bot.                                                                *)

Plans == [dir : {"WAIT", "LONG", "SHORT"}, entry : Int, stop : Int, risk : Int, target : Int]

BotTrades == [signal : Nat \ {0}, bar : Nat, exit : Nat, plan : Plans]

BotTypeOK ==
  /\ evaluated \in 0 .. Len(bars)
  /\ waiting \in 0 .. Len(bars)
  /\ last \in 0 .. Len(bars)
  /\ held \in BotTrades \cup {NoPosition}
  /\ settled \in Seq(BotTrades)
  /\ accepted \in Seq(1 .. Len(bars))
  /\ restarts \in 0 .. MaxRestarts

(* The bars met come in order, and a signal is older than what comes next. *)
OrderInv ==
  /\ Ascending(accepted)
  /\ \A i \in DOMAIN accepted : accepted[i] <= last
  /\ waiting <= last
  /\ waiting <= cursor
  /\ evaluated # 0 => waiting < evaluated /\ evaluated <= cursor

(* A trade acted on a signal older than any that waits. *)
Older(p) ==
  /\ p.signal < p.bar /\ p.bar <= last
  /\ waiting # 0 => p.signal < waiting
  /\ evaluated # 0 => p.signal < evaluated

SignalsInv ==
  /\ \A i \in DOMAIN settled : Older(settled[i])
  /\ held # NoPosition => Older(held)
  /\ \A i, j \in DOMAIN settled : i < j => settled[i].signal < settled[j].signal
  /\ held # NoPosition => \A i \in DOMAIN settled : settled[i].signal < held.signal

(* p left at the first bar of met that touched its levels; it is open. *)
Left(p, bs, met) ==
  \E at, e \in DOMAIN met : met[at] = p.bar /\ met[e] = p.exit /\ FirstTouch(p.plan, bs, met, at, e)

StillOpen(p, bs, met) == \E at \in DOMAIN met : met[at] = p.bar /\ Untouched(p.plan, bs, met, at)

TouchInv ==
  /\ \A i \in DOMAIN settled : Left(settled[i], bars, accepted)
  /\ held # NoPosition => StillOpen(held, bars, accepted)

BotInv == BotTypeOK /\ OrderInv /\ SignalsInv /\ TouchInv

LEMMA NoPositionIsNone == NoPosition \notin BotTrades
<1>1. ASSUME NEW p \in BotTrades
      PROVE  p.signal # 0
  BY DEF BotTrades
<1>2. NoPosition.signal = 0
  BY DEF NoPosition
<1> QED BY <1>1, <1>2

LEMMA InitBotInv ==
  ASSUME BotInit, MonitorTypeOK, BotAssumption
  PROVE  BotInv
BY DEF BotInit, MonitorTypeOK, BotInv, BotTypeOK, OrderInv, SignalsInv, TouchInv, Ascending, BotAssumption

LEMMA MarketKeepsBot ==
  ASSUME MonitorTypeOK, BotInv, NEW c \in Candles, NEW d \in Decisions, CloseBar(c, d), UNCHANGED botVars
  PROVE  BotInv'
<1>1. /\ Len(bars') = Len(bars) + 1 /\ cursor' = cursor /\ Len(bars) \in Nat
      /\ bars' = Append(bars, Closing(c, d))
  BY MarketKeepsMonitor DEF MonitorTypeOK
<1>2. UNCHANGED <<evaluated, waiting, last, held, settled, accepted, restarts>>
  BY DEF botVars
<1>3. BotTypeOK'
  <2>1. 1 .. Len(bars) \subseteq 1 .. Len(bars')
    BY <1>1
  <2>2. accepted \in Seq(1 .. Len(bars'))
    BY <1>1, <2>1, SeqOfMore DEF BotInv, BotTypeOK
  <2> QED BY <1>1, <1>2, <2>2 DEF BotInv, BotTypeOK
<1>4. OrderInv' /\ SignalsInv'
  BY <1>1, <1>2 DEF BotInv, OrderInv, SignalsInv, Older, Ascending
<1>5. TouchInv'
  <2>1. bars \in Seq(Bar) /\ accepted \in Seq(1 .. Len(bars))
    BY DEF MonitorTypeOK, BotInv, BotTypeOK
  <2>2. ASSUME NEW p, Left(p, bars, accepted)
        PROVE  Left(p, bars', accepted)
    BY <1>1, <2>1, <2>2, TouchOfMoreBars DEF Left
  <2>3. ASSUME NEW p, StillOpen(p, bars, accepted)
        PROVE  StillOpen(p, bars', accepted)
    BY <1>1, <2>1, <2>3, TouchOfMoreBars DEF StillOpen
  <2> QED BY <1>2, <2>2, <2>3 DEF BotInv, TouchInv
<1> QED BY <1>3, <1>4, <1>5 DEF BotInv

LEMMA EvaluateKeeps ==
  ASSUME MonitorTypeOK, BotInv, Evaluate
  PROVE  BotInv'
<1>1. /\ evaluated = 0 /\ bars' = bars /\ cursor' = Len(bars) /\ cursor < Len(bars) /\ evaluated' = Len(bars)
      /\ UNCHANGED <<waiting, last, held, settled, accepted, restarts>>
      /\ Len(bars) \in Nat /\ cursor \in Nat /\ waiting \in Nat /\ last \in 0 .. Len(bars)
  BY DEF Evaluate, Accept, MonitorTypeOK, BotInv, BotTypeOK
<1>2. BotTypeOK'
  BY <1>1 DEF BotInv, BotTypeOK
<1>3. OrderInv'
  BY <1>1 DEF BotInv, OrderInv, Ascending
<1>5. SignalsInv'
  <2>1. /\ \A i \in DOMAIN settled : settled[i] \in BotTrades
        /\ held # NoPosition => held \in BotTrades
    BY DEF BotInv, BotTypeOK
  <2>2. \A i \in DOMAIN settled : Older(settled[i])'
    <3> SUFFICES ASSUME NEW i \in DOMAIN settled PROVE Older(settled[i])'
      OBVIOUS
    <3>1. Older(settled[i]) /\ settled[i] \in BotTrades /\ settled' = settled
      BY <1>1, <2>1 DEF BotInv, SignalsInv
    <3>2. settled[i].signal \in Nat /\ settled[i].bar \in Nat
      BY <3>1 DEF BotTrades
    <3> QED BY <1>1, <3>1, <3>2 DEF Older
  <2>3. held # NoPosition => Older(held)'
    <3> SUFFICES ASSUME held # NoPosition PROVE Older(held)'
      OBVIOUS
    <3>1. Older(held) /\ held \in BotTrades /\ held' = held
      BY <1>1, <2>1 DEF BotInv, SignalsInv
    <3>2. held.signal \in Nat /\ held.bar \in Nat
      BY <3>1 DEF BotTrades
    <3> QED BY <1>1, <3>1, <3>2 DEF Older
  <2> QED BY <1>1, <2>2, <2>3 DEF BotInv, SignalsInv
<1>6. TouchInv'
  BY <1>1 DEF BotInv, TouchInv
<1> QED BY <1>2, <1>3, <1>5, <1>6 DEF BotInv

LEMMA EnteredType ==
  ASSUME bars \in Seq(Bar), NEW s \in 1 .. Len(bars), NEW n \in Nat
  PROVE  /\ Entered(s, n) \in BotTrades
         /\ Entered(s, n).signal = s /\ Entered(s, n).bar = n
<1> DEFINE d == bars[s].decision
           risk == IF d.stop < d.entry THEN d.entry - d.stop ELSE d.stop - d.entry
           plan == [dir |-> d.action, entry |-> d.entry, stop |-> d.stop, risk |-> risk,
                    target |-> IF d.action = "LONG" THEN d.entry + 2 * risk ELSE d.entry - 2 * risk]
<1>1. d.action \in {"WAIT", "LONG", "SHORT"} /\ d.entry \in Int /\ d.stop \in Int
  BY BarTypes
<1> HIDE DEF d
<1>2. plan \in Plans
  BY <1>1 DEF Plans
<1> HIDE DEF plan, risk
<1>3. Entered(s, n) = [signal |-> s, bar |-> n, exit |-> n, plan |-> plan]
  BY DEF Entered, plan, risk, d
<1>4. s \in Nat \ {0}
  OBVIOUS
<1> QED BY <1>2, <1>3, <1>4 DEF BotTrades

LEMMA ProcessBarKeeps ==
  ASSUME MonitorTypeOK, BotInv, evaluated # 0, bars' = bars, cursor' = cursor, restarts' = restarts,
         evaluated' = 0, waiting' \in {0, evaluated}, ProcessBar(Len(bars), waiting)
  PROVE  BotInv'
<1> DEFINE n == Len(bars)
<1>1. /\ bars \in Seq(Bar) /\ n \in Nat /\ cursor \in 0 .. n
      /\ evaluated \in 1 .. n /\ waiting \in 0 .. n /\ last \in 0 .. n
      /\ held \in BotTrades \cup {NoPosition} /\ settled \in Seq(BotTrades)
      /\ accepted \in Seq(1 .. n)
  BY DEF MonitorTypeOK, BotInv, BotTypeOK
<1>2. /\ Ascending(accepted) /\ \A i \in DOMAIN accepted : accepted[i] <= last
      /\ waiting <= last /\ waiting <= cursor /\ waiting < evaluated /\ evaluated <= cursor
  BY DEF BotInv, OrderInv
(* Every trade so far is older than the signal of this cycle. *)
<1>3. ASSUME NEW p \in BotTrades, Older(p)
      PROVE  /\ p.signal < evaluated /\ p.signal < p.bar /\ p.bar <= last
             /\ waiting # 0 => p.signal < waiting
             /\ p.signal \in Nat /\ p.bar \in Nat
  BY <1>1, <1>3 DEF Older, BotTrades
<1>4. /\ \A i \in DOMAIN settled : settled[i] \in BotTrades /\ Older(settled[i])
      /\ held # NoPosition => held \in BotTrades /\ Older(held)
      /\ \A i, j \in DOMAIN settled : i < j => settled[i].signal < settled[j].signal
      /\ held # NoPosition => \A i \in DOMAIN settled : settled[i].signal < held.signal
  BY <1>1 DEF BotInv, SignalsInv
<1>5. /\ \A i \in DOMAIN settled : Left(settled[i], bars, accepted)
      /\ held # NoPosition => StillOpen(held, bars, accepted)
  BY DEF BotInv, TouchInv
<1>6. CASE n <= last
  <2>1. UNCHANGED <<last, held, settled, accepted>> /\ last = n
    BY <1>1, <1>6 DEF ProcessBar
  <2>2. BotTypeOK'
    BY <1>1, <2>1 DEF BotInv, BotTypeOK
  <2>3. OrderInv'
    BY <1>1, <1>2, <2>1 DEF OrderInv, Ascending
  <2>4. \A i \in DOMAIN settled : Older(settled[i])'
    BY <1>3, <1>4, <2>1 DEF Older
  <2>5. held # NoPosition => Older(held)'
    BY <1>3, <1>4, <2>1 DEF Older
  <2>6. SignalsInv'
    BY <1>4, <2>1, <2>4, <2>5 DEF SignalsInv
  <2>7. TouchInv'
    BY <1>5, <2>1 DEF TouchInv
  <2> QED BY <2>2, <2>3, <2>6, <2>7 DEF BotInv
<1>7. CASE ~(n <= last)
  <2> DEFINE exits  == held # NoPosition /\ Exits(held, n)
             enters == held = NoPosition /\ waiting # 0 /\ bars[waiting].decision.action # "WAIT"
             gone   == [held EXCEPT !.exit = n]
             came   == Entered(waiting, n)
             met    == Append(accepted, n)
  <2>1. /\ last' = n /\ accepted' = met
        /\ settled' = (IF exits THEN Append(settled, gone) ELSE settled)
        /\ held' = (IF exits THEN NoPosition ELSE IF enters THEN came ELSE held)
    BY <1>7 DEF ProcessBar
  <2>2. n \in 1 .. n /\ last < n /\ \A i \in DOMAIN accepted : accepted[i] < n
    BY <1>1, <1>2, <1>7
  <2> HIDE DEF n, exits, enters, gone, came, met
  <2>3. /\ met \in Seq(1 .. n) /\ Ascending(met) /\ Len(met) = Len(accepted) + 1
        /\ met[Len(accepted) + 1] = n /\ DOMAIN met = 1 .. Len(accepted) + 1
        /\ DOMAIN accepted = 1 .. Len(accepted) /\ Len(accepted) \in Nat
        /\ \A i \in DOMAIN accepted : met[i] = accepted[i]
    BY <1>1, <1>2, <2>2, MetOneMore DEF met
  <2>4. OrderInv'
    <3>1. ASSUME NEW i \in DOMAIN met
          PROVE  met[i] <= n
      <4>1. met[i] \in 1 .. n /\ n \in Nat
        BY <1>1, <2>3
      <4> QED BY <4>1
    <3>2. waiting' <= n /\ waiting' <= cursor
      BY <1>1, <1>2
    <3> QED BY <2>1, <2>3, <3>1, <3>2 DEF OrderInv
  <2>5. \A i \in DOMAIN settled : Older(settled[i])'
    <3> SUFFICES ASSUME NEW i \in DOMAIN settled, settled'[i] = settled[i] PROVE Older(settled[i])'
      <4>1. \A i \in DOMAIN settled : settled'[i] = settled[i]
        BY <1>1, <2>1
      <4> QED BY <4>1
    <3> DEFINE p == settled[i]
    <3>1. /\ p.signal < evaluated /\ p.signal < p.bar /\ p.bar <= last
          /\ p.signal \in Nat /\ p.bar \in Nat
      BY <1>3, <1>4
    <3> QED BY <1>1, <2>1, <2>2, <3>1 DEF Older
  <2>6. ASSUME NEW p, Left(p, bars, accepted)
        PROVE  Left(p, bars, met)
    <3>1. PICK at \in DOMAIN accepted, e \in DOMAIN accepted :
            accepted[at] = p.bar /\ accepted[e] = p.exit /\ FirstTouch(p.plan, bars, accepted, at, e)
      BY <2>6 DEF Left
    <3>2. /\ FirstTouch(p.plan, bars, met, at, e) /\ met[e] = p.exit /\ met[at] = p.bar
          /\ at \in DOMAIN met /\ e \in DOMAIN met
      BY <1>1, <2>3, <3>1, TouchStays DEF met
    <3> QED BY <3>2 DEF Left
  <2>7. CASE exits
    <3>1. /\ held \in BotTrades /\ Older(held) /\ StillOpen(held, bars, accepted)
          /\ \A i \in DOMAIN settled : settled[i].signal < held.signal
          /\ Touches(held.plan, bars[n])
      BY <1>4, <1>5, <2>7 DEF exits, Exits, Touches
    <3>2. /\ gone \in BotTrades /\ gone.signal = held.signal /\ gone.bar = held.bar
          /\ gone.plan = held.plan /\ gone.exit = n
      BY <1>1, <3>1 DEF BotTrades, gone
    <3>3. settled' = Append(settled, gone) /\ held' = NoPosition
      BY <2>1, <2>7
    <3>4. /\ settled' \in Seq(BotTrades) /\ DOMAIN settled' = 1 .. Len(settled) + 1
          /\ DOMAIN settled = 1 .. Len(settled) /\ Len(settled) \in Nat
          /\ settled'[Len(settled) + 1] = gone /\ \A i \in DOMAIN settled : settled'[i] = settled[i]
      BY <1>1, <3>2, <3>3
    <3>5. BotTypeOK'
      BY <1>1, <2>1, <2>2, <2>3, <3>3, <3>4 DEF BotInv, BotTypeOK, n
    <3>6. ASSUME NEW i \in DOMAIN settled'
          PROVE  Older(settled[i])'
      <4>1. CASE i \in DOMAIN settled
        BY <2>5, <4>1
      <4>2. CASE i = Len(settled) + 1
        <5>1. /\ held.signal < evaluated /\ held.signal < held.bar /\ held.bar <= last
              /\ held.signal \in Nat /\ held.bar \in Nat
          BY <1>3, <3>1
        <5> QED BY <1>1, <2>1, <2>2, <3>2, <3>4, <4>2, <5>1 DEF Older
      <4> QED BY <3>4, <4>1, <4>2
    <3>7. ASSUME NEW i \in DOMAIN settled', NEW j \in DOMAIN settled', i < j
          PROVE  settled'[i].signal < settled'[j].signal
      <4>1. i \in DOMAIN settled /\ (j \in DOMAIN settled \/ j = Len(settled) + 1)
        BY <3>4, <3>7
      <4> QED BY <1>4, <3>1, <3>2, <3>4, <3>7, <4>1
    <3>8. SignalsInv'
      BY <3>3, <3>6, <3>7 DEF SignalsInv
    <3>9. Left(gone, bars, met)
      <4>1. PICK at \in DOMAIN accepted : accepted[at] = held.bar /\ Untouched(held.plan, bars, accepted, at)
        BY <3>1 DEF StillOpen
      <4>2. FirstTouch(held.plan, bars, met, at, Len(accepted) + 1) /\ met[at] = accepted[at]
        <5> DEFINE e == Len(accepted) + 1
        <5>1. e = Len(accepted) + 1
          OBVIOUS
        <5> HIDE DEF e
        <5>2. FirstTouch(held.plan, bars, met, at, e) /\ met[at] = accepted[at]
          <6>1. n \in Nat /\ accepted \in Seq(1 .. n) /\ Untouched(held.plan, bars, accepted, at)
            BY <1>1, <4>1
          <6>2. Touches(held.plan, bars[n])
            BY <3>1
          <6>3. Append(accepted, n)[at] = accepted[at]
            BY <5>1, <6>1, UntouchedOneMore
          <6>4. FirstTouch(held.plan, bars, Append(accepted, n), at, e)
            BY <5>1, <6>1, <6>2, UntouchedOneMore
          <6> QED BY <6>3, <6>4 DEF met
        <5> QED BY <5>1, <5>2
      <4>3. at \in DOMAIN met /\ Len(accepted) + 1 \in DOMAIN met
        BY <2>3
      <4> QED BY <2>3, <3>2, <4>1, <4>2, <4>3 DEF Left
    <3>10. TouchInv'
      <4>1. ASSUME NEW i \in DOMAIN settled'
            PROVE  Left(settled'[i], bars, met)
        <5>1. CASE i \in DOMAIN settled
          BY <1>5, <2>6, <3>4, <5>1
        <5>2. CASE i = Len(settled) + 1
          BY <3>4, <3>9, <5>2
        <5> QED BY <3>4, <5>1, <5>2
      <4> QED BY <2>1, <3>3, <4>1 DEF TouchInv
    <3> QED BY <2>4, <3>5, <3>8, <3>10 DEF BotInv
  <2>8. CASE ~exits /\ enters
    <3>1. /\ held = NoPosition /\ waiting \in 1 .. n /\ held' = came /\ settled' = settled
      BY <1>1, <2>1, <2>8 DEF enters
    <3>2. came \in BotTrades /\ came.signal = waiting /\ came.bar = n
      BY <1>1, <3>1, EnteredType DEF came, n
    <3>3. BotTypeOK'
      BY <1>1, <2>1, <2>2, <2>3, <3>1, <3>2 DEF BotInv, BotTypeOK, n
    <3>4. Older(held)'
      BY <1>1, <1>2, <2>1, <2>2, <3>1, <3>2 DEF Older
    <3>5. \A i \in DOMAIN settled : settled[i].signal < waiting
      BY <1>3, <1>4, <3>1
    <3>6. SignalsInv'
      BY <1>4, <2>5, <3>1, <3>2, <3>4, <3>5 DEF SignalsInv
    <3>7. StillOpen(came, bars, met)
      <4>1. Untouched(came.plan, bars, met, Len(accepted) + 1)
        BY <2>3 DEF Untouched
      <4> QED BY <2>3, <3>2, <4>1 DEF StillOpen
    <3>8. TouchInv'
      BY <1>5, <2>1, <2>6, <3>1, <3>7 DEF TouchInv
    <3> QED BY <2>4, <3>3, <3>6, <3>8 DEF BotInv
  <2>9. CASE ~exits /\ ~enters
    <3>1. held' = held /\ settled' = settled
      BY <2>1, <2>9
    <3>2. BotTypeOK'
      BY <1>1, <2>1, <2>2, <2>3, <3>1 DEF BotInv, BotTypeOK, n
    <3>3. held # NoPosition => Older(held)'
      <4> SUFFICES ASSUME held # NoPosition PROVE Older(held)'
        OBVIOUS
      <4>1. /\ held.signal < evaluated /\ held.signal < held.bar /\ held.bar <= last
            /\ held.signal \in Nat /\ held.bar \in Nat
        BY <1>3, <1>4
      <4> QED BY <1>1, <2>1, <2>2, <3>1, <4>1 DEF Older
    <3>4. SignalsInv'
      BY <1>4, <2>5, <3>1, <3>3 DEF SignalsInv
    <3>5. held # NoPosition => StillOpen(held, bars, met)
      <4> SUFFICES ASSUME held # NoPosition PROVE StillOpen(held, bars, met)
        OBVIOUS
      <4>1. PICK at \in DOMAIN accepted : accepted[at] = held.bar /\ Untouched(held.plan, bars, accepted, at)
        BY <1>5 DEF StillOpen
      <4>2. ~Touches(held.plan, bars[n])
        BY <2>9 DEF exits, Exits, Touches
      <4>3. Untouched(held.plan, bars, met, at) /\ met[at] = accepted[at] /\ at \in DOMAIN met
        BY <1>1, <2>3, <4>1, <4>2, UntouchedOneMore DEF met
      <4> QED BY <4>1, <4>3 DEF StillOpen
    <3>6. TouchInv'
      BY <1>5, <2>1, <2>6, <3>1, <3>5 DEF TouchInv
    <3> QED BY <2>4, <3>2, <3>4, <3>6 DEF BotInv
  <2> QED BY <2>7, <2>8, <2>9
<1> QED BY <1>6, <1>7

(* A cycle that fails before processing, and a restart, take no signal on. *)
LEMMA GiveUpKeeps ==
  ASSUME MonitorTypeOK, BotInv, bars' = bars, cursor' \in 0 .. Len(bars),
         evaluated' = 0, waiting' \in {0, waiting}, waiting' <= cursor',
         restarts' \in 0 .. MaxRestarts, UNCHANGED <<last, held, settled, accepted>>
  PROVE  BotInv'
<1>1. waiting \in Nat /\ last \in Nat /\ waiting <= last /\ waiting \in 0 .. Len(bars)
  BY DEF MonitorTypeOK, BotInv, BotTypeOK, OrderInv
<1>2. BotTypeOK'
  BY <1>1 DEF BotInv, BotTypeOK, MonitorTypeOK
<1>3. OrderInv'
  BY <1>1 DEF BotInv, OrderInv, Ascending
<1>4. \A i \in DOMAIN settled : Older(settled[i])'
  BY DEF BotInv, SignalsInv, Older
<1>5. held # NoPosition => Older(held)'
  BY DEF BotInv, SignalsInv, Older
<1>6. SignalsInv'
  BY <1>4, <1>5 DEF BotInv, SignalsInv
<1>7. TouchInv'
  BY DEF BotInv, TouchInv
<1> QED BY <1>2, <1>3, <1>6, <1>7 DEF BotInv

LEMMA BotKeeps ==
  ASSUME MonitorTypeOK, BotInv, Bot
  PROVE  MonitorTypeOK' /\ BotInv'
<1>1. CASE Evaluate
  BY <1>1, EvaluateKeeps, AcceptKeepsMonitor DEF Evaluate
<1>2. CASE CycleFailsBeforeProcessing
  <2>1. /\ MonitorTypeOK' /\ bars' = bars /\ cursor' \in 0 .. Len(bars) /\ cursor <= cursor'
    <3>1. CASE Accept
      BY <3>1, AcceptKeepsMonitor DEF MonitorTypeOK
    <3>2. CASE UNCHANGED <<bars, cursor>>
      BY <3>2 DEF MonitorTypeOK
    <3> QED BY <1>2, <3>1, <3>2 DEF CycleFailsBeforeProcessing
  <2>2. /\ evaluated' = 0 /\ waiting' = waiting /\ restarts' \in 0 .. MaxRestarts
        /\ UNCHANGED <<last, held, settled, accepted>>
    BY <1>2 DEF CycleFailsBeforeProcessing, BotInv, BotTypeOK
  <2>3. waiting <= cursor /\ waiting \in Int /\ cursor \in Int
    BY DEF BotInv, OrderInv, BotTypeOK, MonitorTypeOK
  <2>4. waiting' <= cursor'
    BY <2>1, <2>2, <2>3
  <2> QED BY <2>1, <2>2, <2>4, GiveUpKeeps
<1>3. CASE ProcessAndKeep \/ ProcessThenFail
  <2>1. /\ evaluated # 0 /\ ProcessBar(Len(bars), waiting) /\ evaluated' = 0
        /\ waiting' \in {0, evaluated} /\ UNCHANGED <<bars, cursor, restarts>>
    BY <1>3 DEF ProcessAndKeep, ProcessThenFail
  <2>2. MonitorTypeOK'
    BY <2>1 DEF MonitorTypeOK
  <2> QED BY <2>1, <2>2, ProcessBarKeeps
<1>4. CASE Restart
  <2>1. /\ bars' = bars /\ cursor' = 0 /\ waiting' = 0 /\ evaluated' = 0
        /\ restarts' \in 0 .. MaxRestarts /\ UNCHANGED <<last, held, settled, accepted>>
    BY <1>4, BotAssumption DEF Restart, BotInv, BotTypeOK
  <2>2. MonitorTypeOK' /\ 0 \in 0 .. Len(bars)
    BY <2>1 DEF MonitorTypeOK
  <2> QED BY <2>1, <2>2, GiveUpKeeps
<1> QED BY <1>1, <1>2, <1>3, <1>4 DEF Bot

(* The invariant says of every trade of the bot what BotIsSound asks. *)
LEMMA BotInvIsSound ==
  ASSUME MonitorTypeOK, BotInv
  PROVE  SignalActsOnceAndLater /\ ExitIsFirstTouch
<1> DEFINE L == Len(settled)
<1>1. /\ settled \in Seq(BotTrades) /\ held \in BotTrades \cup {NoPosition}
      /\ bars \in Seq(Bar) /\ accepted \in Seq(1 .. Len(bars)) /\ Ascending(accepted)
  BY DEF MonitorTypeOK, BotInv, BotTypeOK, OrderInv
<1>2. L \in Nat /\ DOMAIN settled = 1 .. L
  BY <1>1
<1>3. /\ \A i \in DOMAIN Positions : i \in 1 .. L \/ (i = L + 1 /\ held # NoPosition)
      /\ \A i \in 1 .. L : i \in DOMAIN Positions /\ Positions[i] = settled[i]
      /\ held # NoPosition => Positions[L + 1] = held
  <2>1. CASE held = NoPosition
    BY <1>2, <2>1 DEF Positions
  <2>2. CASE held # NoPosition
    <3>1. /\ Append(settled, held)[L + 1] = held /\ DOMAIN Append(settled, held) = 1 .. L + 1
          /\ \A i \in 1 .. L : Append(settled, held)[i] = settled[i]
      BY <1>1, <2>2
    <3> QED BY <1>2, <2>2, <3>1 DEF Positions
  <2> QED BY <2>1, <2>2
<1> HIDE DEF L
<1>4. /\ \A i \in DOMAIN settled : settled[i] \in BotTrades /\ Older(settled[i])
      /\ held # NoPosition => held \in BotTrades /\ Older(held)
      /\ \A i, j \in DOMAIN settled : i < j => settled[i].signal < settled[j].signal
      /\ held # NoPosition => \A i \in DOMAIN settled : settled[i].signal < held.signal
      /\ \A i \in DOMAIN settled : Left(settled[i], bars, accepted)
      /\ held # NoPosition => StillOpen(held, bars, accepted)
  BY <1>1 DEF BotInv, SignalsInv, TouchInv
<1>5. ASSUME NEW i \in DOMAIN Positions
      PROVE  Positions[i].signal < Positions[i].bar /\ Positions[i].signal \in Nat
  <2>1. Positions[i] \in BotTrades /\ Older(Positions[i])
    BY <1>2, <1>3, <1>4
  <2> QED BY <2>1 DEF Older, BotTrades
<1>6. ASSUME NEW i \in DOMAIN Positions, NEW j \in DOMAIN Positions, i < j
      PROVE  Positions[i].signal < Positions[j].signal
  <2>1. i \in 1 .. L
    BY <1>2, <1>3, <1>6
  <2> QED BY <1>2, <1>3, <1>4, <1>6, <2>1
<1>7. SignalActsOnceAndLater
  <2>1. \A i \in DOMAIN Positions : i \in Int
    BY <1>2, <1>3
  <2>2. ASSUME NEW i \in DOMAIN Positions, NEW j \in DOMAIN Positions, j # i
        PROVE  Positions[j].signal # Positions[i].signal
    <3>1. /\ Positions[i].signal \in Nat /\ Positions[j].signal \in Nat
          /\ (i < j => Positions[i].signal < Positions[j].signal)
          /\ (j < i => Positions[j].signal < Positions[i].signal)
      BY <1>5, <1>6
    <3> QED BY <2>1, <2>2, <3>1
  <2> QED BY <1>5, <2>2 DEF SignalActsOnceAndLater
<1>8. ASSUME NEW i \in DOMAIN Positions
      PROVE  LET p    == Positions[i]
                 exit == SimulateExit(p.plan, CandlesAfter(accepted, p.bar))
             IN  IF i \in DOMAIN settled
                 THEN exit.outcome # "OPEN" /\ After(accepted, p.bar)[exit.held] = p.exit
                 ELSE exit.outcome = "OPEN"
  <2>1. CASE i \in DOMAIN settled
    <3> DEFINE p == settled[i]
    <3>1. PICK at \in DOMAIN accepted, e \in DOMAIN accepted :
            accepted[at] = p.bar /\ accepted[e] = p.exit /\ FirstTouch(p.plan, bars, accepted, at, e)
      BY <1>4, <2>1 DEF Left
    <3> HIDE DEF p
    <3>2. /\ SimulateExit(p.plan, CandlesAfter(accepted, accepted[at])) =
               [outcome |-> IF HitStop(p.plan, bars[accepted[e]], 0) THEN "LOSS" ELSE "WIN", held |-> e - at]
          /\ After(accepted, accepted[at])[e - at] = accepted[e]
      BY <1>1, <3>1, TouchIsTheExit
    <3>3. Positions[i] = p
      BY <1>2, <1>3, <2>1 DEF p
    <3> QED BY <2>1, <3>1, <3>2, <3>3
  <2>2. CASE i \notin DOMAIN settled
    <3>1. Positions[i] = held /\ held # NoPosition
      BY <1>2, <1>3, <2>2
    <3>2. PICK at \in DOMAIN accepted : accepted[at] = held.bar /\ Untouched(held.plan, bars, accepted, at)
      BY <1>4, <3>1 DEF StillOpen
    <3>3. SimulateExit(held.plan, CandlesAfter(accepted, accepted[at])) = [outcome |-> "OPEN", held |-> Len(accepted) - at]
      BY <1>1, <3>2, UntouchedIsOpen
    <3> QED BY <2>2, <3>1, <3>2, <3>3
  <2> QED BY <2>1, <2>2
<1>9. ExitIsFirstTouch
  BY <1>8 DEF ExitIsFirstTouch
<1> QED BY <1>7, <1>9

-----------------------------------------------------------------------------
(* The journal of the session.                                             *)

Events == [type : {"SIGNAL", "OPEN", "CLOSE"}, id : Nat, bar : Nat]

(* A journal of count opens and closes whose signals are of bars up to n.  *)
Tells(events, n, count) ==
  /\ events \in Seq(Events)
  /\ \A i \in DOMAIN events : events[i].type = "SIGNAL" => events[i].bar <= n
  /\ \A i, j \in DOMAIN events :
       i < j /\ events[i].type = "SIGNAL" /\ events[j].type = "SIGNAL" => events[i].bar < events[j].bar
  /\ \A i \in DOMAIN events :
       events[i].type # "SIGNAL" =>
         /\ events[i].type = (IF TradeEvents(events, i) % 2 = 1 THEN "OPEN" ELSE "CLOSE")
         /\ events[i].id = (TradeEvents(events, i) + 1) \div 2
  /\ TradeEvents(events, Len(events)) = count

(* One more event counts when it is no signal. *)
LEMMA TradeEventsOneMore ==
  ASSUME NEW events \in Seq(Events), NEW e \in Events, NEW more, more = Append(events, e)
  PROVE  /\ TradeEvents(events, Len(events)) \in Nat
         /\ \A i \in 1 .. Len(events) : TradeEvents(more, i) = TradeEvents(events, i)
         /\ e.type # "SIGNAL" => TradeEvents(more, Len(more)) = TradeEvents(events, Len(events)) + 1
         /\ e.type = "SIGNAL" => TradeEvents(more, Len(more)) = TradeEvents(events, Len(events))
<1> DEFINE L == Len(events)
           m == Len(more)
           old  == {i \in 1 .. L : events[i].type # "SIGNAL"}
           new  == {i \in 1 .. m : more[i].type # "SIGNAL"}
<1>1. L \in Nat /\ m = L + 1 /\ more[m] = e /\ \A i \in 1 .. L : more[i] = events[i]
  OBVIOUS
<1>2. ASSUME NEW i \in 1 .. L
      PROVE  TradeEvents(more, i) = TradeEvents(events, i)
  <2>1. {k \in 1 .. i : more[k].type # "SIGNAL"} = {k \in 1 .. i : events[k].type # "SIGNAL"}
    BY <1>1
  <2> QED BY <2>1 DEF TradeEvents
<1>3. IsFiniteSet(old) /\ Cardinality(old) \in Nat
  <2>1. IsFiniteSet(1 .. L)
    BY <1>1, FS_Interval
  <2> QED BY <2>1, FS_Subset, FS_CardinalityType
<1>4. TradeEvents(events, L) = Cardinality(old) /\ TradeEvents(more, m) = Cardinality(new)
  BY DEF TradeEvents
<1>5. ASSUME e.type # "SIGNAL"
      PROVE  Cardinality(new) = Cardinality(old) + 1
  <2>1. new = old \cup {m} /\ m \notin old
    BY <1>1, <1>5
  <2> QED BY <1>3, <2>1, FS_AddElement
<1>6. ASSUME e.type = "SIGNAL"
      PROVE  new = old
  BY <1>1, <1>6
<1> HIDE DEF old, new, L, m
<1>7. e.type = "SIGNAL" => TradeEvents(more, m) = TradeEvents(events, L)
  BY <1>4, <1>6
<1>8. e.type # "SIGNAL" => TradeEvents(more, m) = TradeEvents(events, L) + 1
  BY <1>4, <1>5
<1>9. L = Len(events) /\ m = Len(more)
  BY DEF L, m
<1> QED BY <1>2, <1>3, <1>4, <1>7, <1>8, <1>9

LEMMA SignalTold ==
  ASSUME NEW n \in Nat, NEW m \in Nat, n < m, NEW count \in Nat, NEW events, Tells(events, n, count),
         NEW e \in Events, e.type = "SIGNAL", e.bar = m
  PROVE  Tells(Append(events, e), m, count)
<1> DEFINE more == Append(events, e)
           L    == Len(events)
           M    == L + 1
<1>1. /\ events \in Seq(Events) /\ DOMAIN events = 1 .. L
      /\ \A i \in DOMAIN events : events[i] \in Events
      /\ \A i \in DOMAIN events : events[i].type = "SIGNAL" => events[i].bar <= n
      /\ \A i, j \in DOMAIN events :
           i < j /\ events[i].type = "SIGNAL" /\ events[j].type = "SIGNAL" => events[i].bar < events[j].bar
      /\ \A i \in DOMAIN events :
           events[i].type # "SIGNAL" =>
             /\ events[i].type = (IF TradeEvents(events, i) % 2 = 1 THEN "OPEN" ELSE "CLOSE")
             /\ events[i].id = (TradeEvents(events, i) + 1) \div 2
      /\ TradeEvents(events, L) = count
  BY DEF Tells
<1>2. /\ more \in Seq(Events) /\ DOMAIN more = 1 .. M /\ Len(more) = M /\ L \in Nat /\ M = L + 1
      /\ more[M] = e /\ \A i \in 1 .. L : more[i] = events[i]
  BY <1>1
<1>3. /\ \A i \in 1 .. L : TradeEvents(more, i) = TradeEvents(events, i)
      /\ TradeEvents(more, M) = count
  <2>1. more = Append(events, e) /\ L = Len(events) /\ M = Len(more)
    BY <1>2
  <2> HIDE DEF more, L, M
  <2>2. events \in Seq(Events) /\ TradeEvents(events, L) = count
    BY <1>1
  <2>3. \A i \in 1 .. L : TradeEvents(more, i) = TradeEvents(events, i)
    BY <2>1, <2>2, TradeEventsOneMore
  <2>4. TradeEvents(more, M) = TradeEvents(events, L)
    BY <2>1, <2>2, TradeEventsOneMore
  <2> QED BY <2>2, <2>3, <2>4
<1> HIDE DEF more, L, M
<1>4. ASSUME NEW i \in DOMAIN more
      PROVE  /\ more[i].type = "SIGNAL" => more[i].bar <= m
             /\ more[i].type # "SIGNAL" =>
                  /\ more[i].type = (IF TradeEvents(more, i) % 2 = 1 THEN "OPEN" ELSE "CLOSE")
                  /\ more[i].id = (TradeEvents(more, i) + 1) \div 2
  <2>1. CASE i \in 1 .. L
    <3>1. events[i] \in Events
      BY <1>1, <2>1
    <3>2. events[i].bar \in Nat
      BY <3>1 DEF Events
    <3> QED BY <1>1, <1>2, <1>3, <2>1, <3>2
  <2>2. CASE i = M
    BY <1>2, <2>2
  <2> QED BY <1>2, <2>1, <2>2
<1>5. ASSUME NEW i \in DOMAIN more, NEW j \in DOMAIN more, i < j,
             more[i].type = "SIGNAL", more[j].type = "SIGNAL"
      PROVE  more[i].bar < more[j].bar
  <2>1. i \in 1 .. L /\ (j \in 1 .. L \/ j = M)
    BY <1>2, <1>5
  <2>2. events[i] \in Events
    BY <1>1, <2>1
  <2>3. events[i].bar \in Nat
    BY <2>2 DEF Events
  <2> QED BY <1>1, <1>2, <1>5, <2>1, <2>3
<1>6. Tells(more, m, count)
  BY <1>2, <1>3, <1>4, <1>5 DEF Tells
<1> QED BY <1>6 DEF more

LEMMA TradeTold ==
  ASSUME NEW n \in Nat, NEW count \in Nat, NEW events, Tells(events, n, count),
         NEW e \in Events, e.type = (IF (count + 1) % 2 = 1 THEN "OPEN" ELSE "CLOSE"),
         e.id = (count + 2) \div 2
  PROVE  Tells(Append(events, e), n, count + 1)
<1> DEFINE more == Append(events, e)
           L    == Len(events)
           M    == L + 1
<1>1. /\ events \in Seq(Events) /\ DOMAIN events = 1 .. L
      /\ \A i \in DOMAIN events : events[i] \in Events
      /\ \A i \in DOMAIN events : events[i].type = "SIGNAL" => events[i].bar <= n
      /\ \A i, j \in DOMAIN events :
           i < j /\ events[i].type = "SIGNAL" /\ events[j].type = "SIGNAL" => events[i].bar < events[j].bar
      /\ \A i \in DOMAIN events :
           events[i].type # "SIGNAL" =>
             /\ events[i].type = (IF TradeEvents(events, i) % 2 = 1 THEN "OPEN" ELSE "CLOSE")
             /\ events[i].id = (TradeEvents(events, i) + 1) \div 2
      /\ TradeEvents(events, L) = count
  BY DEF Tells
<1>2. /\ more \in Seq(Events) /\ DOMAIN more = 1 .. M /\ Len(more) = M /\ L \in Nat /\ M = L + 1
      /\ more[M] = e /\ \A i \in 1 .. L : more[i] = events[i]
  BY <1>1
<1>3. e.type # "SIGNAL"
  OBVIOUS
<1>4. /\ \A i \in 1 .. L : TradeEvents(more, i) = TradeEvents(events, i)
      /\ TradeEvents(more, M) = count + 1
  <2>1. more = Append(events, e) /\ L = Len(events) /\ M = Len(more)
    BY <1>2
  <2> HIDE DEF more, L, M
  <2>2. events \in Seq(Events) /\ TradeEvents(events, L) = count
    BY <1>1
  <2>3. \A i \in 1 .. L : TradeEvents(more, i) = TradeEvents(events, i)
    BY <2>1, <2>2, TradeEventsOneMore
  <2>4. TradeEvents(more, M) = TradeEvents(events, L) + 1
    BY <1>3, <2>1, <2>2, TradeEventsOneMore
  <2> QED BY <2>2, <2>3, <2>4
<1>5. (count + 1) + 1 = count + 2
  OBVIOUS
<1> HIDE DEF more, L, M
<1>6. ASSUME NEW i \in DOMAIN more
      PROVE  /\ more[i].type = "SIGNAL" => more[i].bar <= n
             /\ more[i].type # "SIGNAL" =>
                  /\ more[i].type = (IF TradeEvents(more, i) % 2 = 1 THEN "OPEN" ELSE "CLOSE")
                  /\ more[i].id = (TradeEvents(more, i) + 1) \div 2
  <2>1. CASE i \in 1 .. L
    BY <1>1, <1>2, <1>4, <2>1
  <2>2. CASE i = M
    BY <1>2, <1>3, <1>4, <1>5, <2>2
  <2> QED BY <1>2, <2>1, <2>2
<1>7. ASSUME NEW i \in DOMAIN more, NEW j \in DOMAIN more, i < j,
             more[i].type = "SIGNAL", more[j].type = "SIGNAL"
      PROVE  more[i].bar < more[j].bar
  <2>1. i \in 1 .. L /\ j \in 1 .. L
    BY <1>2, <1>3, <1>7
  <2> QED BY <1>1, <1>2, <1>7, <2>1
<1>8. Tells(more, n, count + 1)
  BY <1>2, <1>4, <1>6, <1>7 DEF Tells
<1> QED BY <1>8 DEF more

(* What a journal tells does not depend on bars to come. *)
LEMMA ToldStaysTold ==
  ASSUME NEW n \in Int, NEW m \in Int, n <= m, NEW count, NEW events, Tells(events, n, count)
  PROVE  Tells(events, m, count)
<1>1. ASSUME NEW i \in DOMAIN events, events[i].type = "SIGNAL"
      PROVE  events[i].bar <= m
  <2>1. events[i] \in Events /\ events[i].bar <= n
    BY <1>1 DEF Tells
  <2>2. events[i].bar \in Int
    BY <2>1 DEF Events
  <2> QED BY <2>1, <2>2
<1> QED BY <1>1 DEF Tells

-----------------------------------------------------------------------------
(* The session.                                                            *)

SessionTrades == [id : Nat \ {0}, signal : Nat, bar : Nat, held : Nat,
                  outcome : {"OPEN", "WIN", "LOSS"}, exit : Nat, plan : Plans]

SessionTypeOK ==
  /\ pending \in 0 .. Len(bars)
  /\ position \in SessionTrades \cup {Flat}
  /\ closed \in Seq(SessionTrades)
  /\ seen \in Seq(1 .. Len(bars))
  /\ refusals \subseteq 1 .. Len(bars)

SeenInv ==
  /\ Ascending(seen)
  /\ \A i \in DOMAIN seen : seen[i] <= cursor

(* p was closed by the first bar that touched it, stop before target. *)
Ended(p, bs, met) ==
  \E at, e \in DOMAIN met :
    /\ met[at] = p.bar /\ FirstTouch(p.plan, bs, met, at, e)
    /\ p.held = e - at
    /\ p.outcome = IF HitStop(p.plan, bs[met[e]], 0) THEN "LOSS" ELSE "WIN"

(* p is open and no bar since its entry touched it. *)
Lives(p, bs, met) ==
  \E at \in DOMAIN met : met[at] = p.bar /\ Untouched(p.plan, bs, met, at) /\ p.held = Len(met) - at

TradesInv ==
  /\ \A i \in DOMAIN closed : Ended(closed[i], bars, seen)
  /\ position # Flat => Lives(position, bars, seen) /\ position.id = Len(closed) + 1

JournalInv == Tells(journal, cursor, IF position = Flat THEN 2 * Len(closed) ELSE 2 * Len(closed) + 1)

SessionInv == SessionTypeOK /\ SeenInv /\ PendingIsFresh /\ TradesInv /\ JournalInv

LEMMA FlatIsNoTrade == Flat \notin SessionTrades
<1>1. ASSUME NEW p \in SessionTrades
      PROVE  p.id # 0
  BY DEF SessionTrades
<1>2. Flat.id = 0
  BY DEF Flat
<1> QED BY <1>1, <1>2

LEMMA InitSessionInv ==
  ASSUME SessionInit, MonitorTypeOK
  PROVE  SessionInv
<1>1. pending = 0 /\ position = Flat /\ closed = <<>> /\ journal = <<>> /\ seen = <<>> /\ refusals = {}
  BY DEF SessionInit
<1>2. SessionTypeOK /\ SeenInv /\ PendingIsFresh /\ TradesInv
  BY <1>1 DEF SessionTypeOK, SeenInv, PendingIsFresh, TradesInv, Ascending, MonitorTypeOK
<1>3. TradeEvents(journal, Len(journal)) = 0
  <2>1. {i \in 1 .. Len(journal) : journal[i].type # "SIGNAL"} = {}
    BY <1>1
  <2> QED BY <2>1, FS_EmptySet DEF TradeEvents
<1>4. JournalInv
  <2>1. journal \in Seq(Events) /\ DOMAIN journal = {} /\ 2 * Len(closed) = 0
    BY <1>1
  <2>2. Tells(journal, cursor, 0)
    BY <1>3, <2>1 DEF Tells
  <2> QED BY <1>1, <2>1, <2>2 DEF JournalInv
<1> QED BY <1>2, <1>4 DEF SessionInv

LEMMA MarketKeepsSession ==
  ASSUME MonitorTypeOK, SessionInv, NEW c \in Candles, NEW d \in Decisions, CloseBar(c, d),
         UNCHANGED sessionVars
  PROVE  SessionInv'
<1>1. /\ Len(bars') = Len(bars) + 1 /\ cursor' = cursor /\ Len(bars) \in Nat
      /\ bars' = Append(bars, Closing(c, d))
  BY MarketKeepsMonitor DEF MonitorTypeOK
<1>2. UNCHANGED <<pending, position, closed, journal, seen, refusals>>
  BY DEF sessionVars
<1>3. bars \in Seq(Bar) /\ seen \in Seq(1 .. Len(bars))
  BY DEF MonitorTypeOK, SessionInv, SessionTypeOK
<1>4. SessionTypeOK'
  <2>1. 1 .. Len(bars) \subseteq 1 .. Len(bars')
    BY <1>1
  <2>2. seen \in Seq(1 .. Len(bars'))
    BY <1>1, <1>3, <2>1, SeqOfMore
  <2> QED BY <1>1, <1>2, <2>1, <2>2 DEF SessionInv, SessionTypeOK
<1>5. SeenInv' /\ PendingIsFresh' /\ JournalInv'
  BY <1>1, <1>2 DEF SessionInv, SeenInv, PendingIsFresh, JournalInv, Ascending
<1>6. TradesInv'
  <2>1. ASSUME NEW p, Ended(p, bars, seen)
        PROVE  Ended(p, bars', seen)
    BY <1>1, <1>3, <2>1, TouchOfMoreBars DEF Ended
  <2>2. ASSUME NEW p, Lives(p, bars, seen)
        PROVE  Lives(p, bars', seen)
    BY <1>1, <1>3, <2>2, TouchOfMoreBars DEF Lives
  <2> QED BY <1>2, <2>1, <2>2 DEF SessionInv, TradesInv
<1> QED BY <1>4, <1>5, <1>6 DEF SessionInv

LEMMA LostBarKeepsSession ==
  ASSUME MonitorTypeOK, SessionInv, EvaluationFails
  PROVE  SessionInv'
<1>1. /\ bars' = bars /\ cursor' = Len(bars) /\ cursor < Len(bars) /\ Len(bars) \in Nat /\ cursor \in Nat
      /\ UNCHANGED <<pending, position, closed, journal, seen, refusals>>
  BY DEF EvaluationFails, Accept, sessionVars, MonitorTypeOK
<1>2. SessionTypeOK' /\ PendingIsFresh' /\ TradesInv'
  BY <1>1 DEF SessionInv, SessionTypeOK, PendingIsFresh, TradesInv
<1>3. SeenInv'
  <2>1. \A i \in DOMAIN seen : seen[i] \in Nat /\ seen[i] <= cursor
    BY DEF SessionInv, SessionTypeOK, SeenInv
  <2> QED BY <1>1, <2>1 DEF SessionInv, SeenInv, Ascending
<1>4. JournalInv'
  BY <1>1, ToldStaysTold DEF SessionInv, JournalInv
<1> QED BY <1>2, <1>3, <1>4 DEF SessionInv

LEMMA OpenedType ==
  ASSUME bars \in Seq(Bar), NEW s \in 1 .. Len(bars), NEW n \in 1 .. Len(bars), NEW id \in Nat \ {0}
  PROVE  /\ Opened(id, s, n) \in SessionTrades
         /\ Opened(id, s, n).id = id /\ Opened(id, s, n).bar = n /\ Opened(id, s, n).held = 0
<1> DEFINE d     == bars[s].decision
           entry == EntryPrice(bars[n].open, d.action, Cost)
           stop  == SessionStop(d)
           plan  == BuildRiskPlan(d.action, entry, stop)
<1>1. d.action \in {"WAIT", "LONG", "SHORT"} /\ stop \in Int /\ bars[n].open \in Int
  BY BarTypes
<1>2. RewardRisk \in Int /\ Cost \in Int
  BY SimulationAssumption
<1>3. entry \in Int
  BY <1>1, <1>2 DEF EntryPrice
<1> HIDE DEF d, entry, stop
<1>4. plan \in Plans
  <2> DEFINE risk == IF d.action = "LONG" THEN entry - stop ELSE stop - entry
  <2>1. risk \in Int
    BY <1>1, <1>3
  <2> HIDE DEF risk
  <2>2. risk * RewardRisk \in Int
    BY <1>2, <2>1
  <2> DEFINE gain == risk * RewardRisk
  <2>3. plan = [dir |-> d.action, entry |-> entry, stop |-> stop, risk |-> risk,
                target |-> IF d.action = "LONG" THEN entry + gain ELSE entry - gain]
    BY DEF BuildRiskPlan, risk
  <2>4. gain \in Int
    BY <2>2
  <2> HIDE DEF gain
  <2> QED BY <1>1, <1>3, <2>1, <2>3, <2>4 DEF Plans
<1> HIDE DEF plan
<1>5. Opened(id, s, n) = [id |-> id, signal |-> s, bar |-> n, held |-> 0, outcome |-> "OPEN", exit |-> n,
                          plan |-> plan]
  BY DEF Opened, plan, entry, stop, d
<1> QED BY <1>4, <1>5 DEF SessionTrades

(* What meets a bar keeps its identity; it ends exactly when it is touched. *)
LEMMA OnBarIs ==
  ASSUME NEW p \in SessionTrades, NEW n \in Nat
  PROVE  LET q == OnBar(p, n)
         IN  /\ q \in SessionTrades /\ q.id = p.id /\ q.bar = p.bar /\ q.plan = p.plan /\ q.held = p.held + 1
             /\ Touches(p.plan, bars[n]) =>
                  q.outcome = (IF HitStop(p.plan, bars[n], 0) THEN "LOSS" ELSE "WIN")
             /\ q.outcome # "OPEN" <=> Touches(p.plan, bars[n])
<1> DEFINE o == IF HitStop(p.plan, bars[n], 0) THEN "LOSS"
                ELSE IF HitTarget(p.plan, bars[n], 0) THEN "WIN" ELSE "OPEN"
           q == [p EXCEPT !.held = @ + 1, !.exit = n, !.outcome = o]
<1>1. OnBar(p, n) = q
  BY DEF OnBar
<1>2. o \in {"OPEN", "WIN", "LOSS"}
  OBVIOUS
<1>3. /\ Touches(p.plan, bars[n]) => o = (IF HitStop(p.plan, bars[n], 0) THEN "LOSS" ELSE "WIN")
      /\ o # "OPEN" <=> Touches(p.plan, bars[n])
  BY DEF Touches
<1> HIDE DEF o
<1>4. p.held + 1 \in Nat
  BY DEF SessionTrades
<1>5. q.id = p.id /\ q.bar = p.bar /\ q.plan = p.plan /\ q.held = p.held + 1 /\ q.outcome = o
  BY DEF SessionTrades
<1>6. q \in SessionTrades
  <2> DEFINE more == p.held + 1
  <2>1. more \in Nat
    BY <1>4
  <2>2. [p EXCEPT !.held = more, !.exit = n, !.outcome = o] \in SessionTrades
    <3> HIDE DEF more
    <3> QED BY <1>2, <2>1 DEF SessionTrades
  <2> QED BY <2>2
<1> QED BY <1>1, <1>3, <1>5, <1>6

(* Bar n, the last of x, meets the trades so far. *)
TradesMeet(x, n) ==
  /\ \A p : Ended(p, bars, seen) => Ended(p, bars, x)
  /\ \A p : Lives(p, bars, seen) /\ ~Touches(p.plan, bars[n]) =>
       \E at \in DOMAIN x :
         x[at] = p.bar /\ Untouched(p.plan, bars, x, at) /\ p.held + 1 = Len(x) - at
  /\ \A p : Lives(p, bars, seen) /\ Touches(p.plan, bars[n]) =>
       \E at, e \in DOMAIN x :
         x[at] = p.bar /\ FirstTouch(p.plan, bars, x, at, e) /\ p.held + 1 = e - at /\ x[e] = n

LEMMA SessionTradesMeet ==
  ASSUME bars \in Seq(Bar), seen \in Seq(1 .. Len(bars)), NEW n
  PROVE  TradesMeet(Append(seen, n), n)
<1> DEFINE met == Append(seen, n)
           L   == Len(seen)
           e   == L + 1
<1>1. /\ Len(bars) \in Nat /\ L \in Nat /\ DOMAIN seen = 1 .. L /\ DOMAIN met = 1 .. e /\ Len(met) = e
      /\ met[e] = n /\ e = L + 1 /\ e \in DOMAIN met
  OBVIOUS
<1>2. L = Len(seen) /\ met = Append(seen, n) /\ \A i \in DOMAIN seen : i \in DOMAIN met
  OBVIOUS
<1> HIDE DEF met, L, e
<1>3. ASSUME NEW p, Ended(p, bars, seen)
      PROVE  Ended(p, bars, met)
  <2>1. PICK at \in DOMAIN seen, x \in DOMAIN seen :
          /\ seen[at] = p.bar /\ FirstTouch(p.plan, bars, seen, at, x)
          /\ p.held = x - at
          /\ p.outcome = IF HitStop(p.plan, bars[seen[x]], 0) THEN "LOSS" ELSE "WIN"
    BY <1>3 DEF Ended
  <2>2. FirstTouch(p.plan, bars, met, at, x) /\ met[x] = seen[x] /\ met[at] = seen[at]
    BY <1>1, <1>2, <2>1, TouchStays
  <2>3. at \in DOMAIN met /\ x \in DOMAIN met
    BY <1>2
  <2> QED BY <2>1, <2>2, <2>3 DEF Ended
<1>4. ASSUME NEW p, Lives(p, bars, seen)
      PROVE  \E at \in DOMAIN met :
               /\ met[at] = p.bar /\ p.held + 1 = e - at
               /\ ~Touches(p.plan, bars[n]) => Untouched(p.plan, bars, met, at)
               /\ Touches(p.plan, bars[n]) => FirstTouch(p.plan, bars, met, at, e)
  <2>1. PICK at \in DOMAIN seen :
          seen[at] = p.bar /\ Untouched(p.plan, bars, seen, at) /\ p.held = L - at
    BY <1>2, <1>4 DEF Lives
  <2>2. /\ ~Touches(p.plan, bars[n]) => Untouched(p.plan, bars, met, at)
        /\ Touches(p.plan, bars[n]) => FirstTouch(p.plan, bars, met, at, e)
        /\ met[at] = seen[at]
    <3>1. e = Len(seen) + 1
      BY <1>1, <1>2
    <3>2. ~Touches(p.plan, bars[n]) => Untouched(p.plan, bars, Append(seen, n), at)
      BY <1>1, <2>1, <3>1, UntouchedOneMore
    <3>3. Touches(p.plan, bars[n]) => FirstTouch(p.plan, bars, Append(seen, n), at, e)
      BY <1>1, <2>1, <3>1, UntouchedOneMore
    <3>4. Append(seen, n)[at] = seen[at]
      BY <1>1, <2>1, <3>1, UntouchedOneMore
    <3> QED BY <1>2, <3>2, <3>3, <3>4
  <2>3. at \in DOMAIN met /\ p.held + 1 = e - at
    BY <1>1, <1>2, <2>1
  <2> QED BY <2>1, <2>2, <2>3
<1>5. ASSUME NEW p, Lives(p, bars, seen), ~Touches(p.plan, bars[n])
      PROVE  \E at \in DOMAIN met :
               met[at] = p.bar /\ Untouched(p.plan, bars, met, at) /\ p.held + 1 = Len(met) - at
  BY <1>1, <1>4, <1>5
<1>6. ASSUME NEW p, Lives(p, bars, seen), Touches(p.plan, bars[n])
      PROVE  \E at, x \in DOMAIN met :
               /\ met[at] = p.bar /\ FirstTouch(p.plan, bars, met, at, x)
               /\ p.held + 1 = x - at /\ met[x] = n
  BY <1>1, <1>4, <1>6
<1>7. TradesMeet(met, n)
  BY <1>3, <1>5, <1>6 DEF TradesMeet
<1> QED BY <1>2, <1>7

(* One bar through process_once, whatever the position does on it. *)
Signalled(n) == Append(journal, [type |-> "SIGNAL", id |-> 0, bar |-> n])

OnceOn(n) ==
  /\ pending' \in {0, n} /\ (pending' # 0 => position' = Flat)
  /\ refusals' \in {refusals, refusals \cup {n}} /\ seen' = Append(seen, n)
  /\ \/ position = Flat /\ position' = Flat /\ closed' = closed /\ journal' = Signalled(n)
     \/ \E p : /\ position = Flat /\ pending # 0 /\ position' = p /\ closed' = closed
               /\ p = Opened(Len(closed) + 1, pending, n)
               /\ journal' = Append(Signalled(n), [type |-> "OPEN", id |-> p.id, bar |-> n])
     \/ /\ position # Flat /\ position' = OnBar(position, n) /\ closed' = closed
        /\ journal' = Signalled(n) /\ position'.outcome = "OPEN"
     \/ \E q : /\ position # Flat /\ position' = Flat /\ q = OnBar(position, n) /\ q.outcome # "OPEN"
               /\ closed' = Append(closed, q)
               /\ journal' = Append(Signalled(n), [type |-> "CLOSE", id |-> q.id, bar |-> n])

LEMMA ProcessOnceCases ==
  ASSUME MonitorTypeOK, SessionInv, ProcessOnce
  PROVE  OnceOn(Len(bars))
<1> DEFINE n    == Len(bars)
           told == Append(journal, [type |-> "SIGNAL", id |-> 0, bar |-> n])
<1> DEFINE after   == IF position = Flat THEN Flat ELSE OnBar(position, n)
           exited  == position # Flat /\ after.outcome # "OPEN"
           free    == position = Flat \/ exited
           attempt == pending # 0 /\ free
           p       == IF attempt THEN Opened(Len(closed') + 1, pending, n) ELSE Flat
           refused == attempt /\ Refused(p.plan)
           opened  == attempt /\ ~refused
           shut    == [type |-> "CLOSE", id |-> after.id, bar |-> n]
           taken   == [type |-> "OPEN", id |-> p.id, bar |-> n]
<1> SUFFICES OnceOn(n)
  OBVIOUS
<1>1. /\ closed' = IF exited THEN Append(closed, after) ELSE closed
      /\ position' = IF opened THEN p ELSE IF free THEN Flat ELSE after
      /\ pending' = IF refused THEN 0 ELSE NextPending(n, free /\ ~opened)
      /\ journal' = JournalOf(n, exited, after, attempt, opened, p)
      /\ seen' = Append(seen, n)
      /\ refusals' = IF refused THEN refusals \cup {n} ELSE refusals
  BY DEF ProcessOnce
<1>2. /\ pending # 0 => position = Flat
      /\ journal \in Seq(Events) /\ n \in Nat
  BY DEF SessionInv, PendingIsFresh, JournalInv, Tells, MonitorTypeOK
<1>3. /\ told \in Seq(Events)
      /\ journal \o <<[type |-> "SIGNAL", id |-> 0, bar |-> n]>> = told
  <2> DEFINE s == [type |-> "SIGNAL", id |-> 0, bar |-> n]
  <2>1. s \in Events
    BY <1>2 DEF Events
  <2> HIDE DEF s
  <2>2. Append(journal, s) = journal \o <<s>> /\ Append(journal, s) \in Seq(Events)
    BY <1>2, <2>1, AppendIsConcat
  <2> QED BY <2>2 DEF s
<1>4. JournalOf(n, exited, after, attempt, opened, p) =
        (told \o (IF exited THEN <<shut>> ELSE <<>>)) \o (IF opened THEN <<taken>> ELSE <<>>)
  <2>1. Event("SIGNAL", Flat, n) = <<[type |-> "SIGNAL", id |-> 0, bar |-> n]>>
    BY DEF Event, Flat
  <2>2. Event("CLOSE", after, n) = <<shut>> /\ Event("OPEN", p, n) = <<taken>>
    BY DEF Event
  <2> HIDE DEF after, exited, p, opened, attempt, shut, taken
  <2> QED BY <1>3, <2>1, <2>2 DEF JournalOf
<1> DEFINE j == JournalOf(n, exited, after, attempt, opened, p)
<1>5. pending' \in {0, n} /\ (pending' # 0 => free /\ ~opened)
  BY <1>1 DEF NextPending
<1>6. ~(exited /\ attempt) /\ (opened => attempt) /\ (attempt => position = Flat) /\ ~(exited /\ position = Flat)
  BY <1>2
<1>7. /\ told \o <<>> = told
      /\ exited => told \o <<shut>> = Append(told, shut) /\ Append(told, shut) \o <<>> = Append(told, shut)
      /\ opened => told \o <<taken>> = Append(told, taken)
  <2>1. told \o <<>> = told
    BY <1>3
  <2>2. ASSUME exited
        PROVE  told \o <<shut>> = Append(told, shut) /\ Append(told, shut) \o <<>> = Append(told, shut)
    <3>1. shut \in Events
      <4>1. position \in SessionTrades
        BY <2>2 DEF SessionInv, SessionTypeOK
      <4>2. after = OnBar(position, n) /\ after \in SessionTrades
        BY <1>2, <2>2, <4>1, OnBarIs
      <4>3. after.id \in Nat
        BY <4>2 DEF SessionTrades
      <4> HIDE DEF after
      <4> QED BY <1>2, <4>3 DEF Events
    <3> HIDE DEF shut
    <3>2. told \o <<shut>> = Append(told, shut) /\ Append(told, shut) \in Seq(Events)
      BY <1>3, <3>1, AppendIsConcat
    <3> DEFINE s == Append(told, shut)
    <3>3. s \in Seq(Events)
      BY <3>2
    <3> HIDE DEF s
    <3>4. s \o <<>> = s
      BY <3>3
    <3> QED BY <3>2, <3>4 DEF s
  <2>3. ASSUME opened
        PROVE  told \o <<taken>> = Append(told, taken)
    <3>1. taken \in Events
      <4>1. position = Flat /\ pending \in 1 .. Len(bars) /\ n \in 1 .. Len(bars) /\ bars \in Seq(Bar)
        BY <1>2, <2>3 DEF SessionInv, SessionTypeOK, MonitorTypeOK, ProcessOnce, Accept
      <4>2. closed' = closed /\ p = Opened(Len(closed') + 1, pending, n)
        BY <1>1, <2>3, <4>1
      <4> DEFINE id == Len(closed') + 1
      <4>3. id \in Nat \ {0}
        BY <4>2 DEF SessionInv, SessionTypeOK
      <4> HIDE DEF id, p
      <4>4. p \in SessionTrades
        BY <4>1, <4>2, <4>3, OpenedType DEF id
      <4>5. p.id \in Nat
        BY <4>4 DEF SessionTrades
      <4> QED BY <1>2, <4>5 DEF Events
    <3> HIDE DEF taken
    <3> QED BY <1>3, <3>1, AppendIsConcat
  <2> QED BY <2>1, <2>2, <2>3
<1>12. told = Signalled(n)
  BY DEF Signalled
<1> HIDE DEF after, p, shut, taken, told, n
<1>8. CASE position = Flat /\ ~opened
  <2>1. position' = Flat /\ closed' = closed /\ journal' = told
    BY <1>1, <1>4, <1>6, <1>7, <1>8
  <2> QED BY <1>1, <1>5, <1>8, <1>12, <2>1 DEF OnceOn
<1>9. CASE opened
  <2>1. /\ position = Flat /\ pending # 0 /\ position' = p /\ closed' = closed /\ ~exited
        /\ journal' = Append(told, taken)
    BY <1>1, <1>4, <1>6, <1>7, <1>9
  <2>2. p = Opened(Len(closed) + 1, pending, n)
    BY <1>6, <1>9, <2>1 DEF p
  <2>3. \E o : /\ position = Flat /\ pending # 0 /\ position' = o /\ closed' = closed
               /\ o = Opened(Len(closed) + 1, pending, n)
               /\ journal' = Append(told, [type |-> "OPEN", id |-> o.id, bar |-> n])
    BY <2>1, <2>2 DEF taken
  <2> QED BY <1>1, <1>5, <1>9, <1>12, <2>3 DEF OnceOn
<1>10. CASE position # Flat /\ ~exited
  <2>1. ~opened /\ ~free /\ position' = after /\ closed' = closed /\ journal' = told /\ after.outcome = "OPEN"
    BY <1>1, <1>4, <1>6, <1>7, <1>10
  <2>2. after = OnBar(position, n)
    BY <1>10 DEF after
  <2> QED BY <1>1, <1>5, <1>10, <1>12, <2>1, <2>2 DEF OnceOn
<1>11. CASE exited
  <2>1. /\ ~opened /\ position # Flat /\ position' = Flat /\ closed' = Append(closed, after)
        /\ after.outcome # "OPEN" /\ journal' = Append(told, shut)
    BY <1>1, <1>4, <1>6, <1>7, <1>11
  <2>2. after = OnBar(position, n)
    BY <1>11 DEF after
  <2>3. \E q : /\ position # Flat /\ position' = Flat /\ q = OnBar(position, n) /\ q.outcome # "OPEN"
               /\ closed' = Append(closed, q)
               /\ journal' = Append(told, [type |-> "CLOSE", id |-> q.id, bar |-> n])
    BY <2>1, <2>2 DEF shut
  <2> QED BY <1>1, <1>5, <1>12, <2>1, <2>3 DEF OnceOn
<1> QED BY <1>8, <1>9, <1>10, <1>11

LEMMA ProcessOnceKeeps ==
  ASSUME MonitorTypeOK, SessionInv, ProcessOnce
  PROVE  SessionInv'
<1> DEFINE n     == Len(bars)
           met   == Append(seen, n)
           said  == [type |-> "SIGNAL", id |-> 0, bar |-> n]
           told  == Append(journal, said)
           c     == Len(closed)
           count == IF position = Flat THEN 2 * c ELSE 2 * c + 1
<1>1. /\ n \in 1 .. n /\ bars' = bars /\ cursor' = n /\ cursor \in Nat /\ cursor < n /\ n \in Nat
      /\ bars \in Seq(Bar)
  BY AcceptKeepsMonitor DEF ProcessOnce, MonitorTypeOK
<1>2. /\ pending \in 0 .. n /\ position \in SessionTrades \cup {Flat} /\ closed \in Seq(SessionTrades)
      /\ seen \in Seq(1 .. n) /\ refusals \subseteq 1 .. n /\ Ascending(seen)
      /\ \A i \in DOMAIN seen : seen[i] <= cursor
      /\ \A i \in DOMAIN closed : Ended(closed[i], bars, seen)
      /\ position # Flat => Lives(position, bars, seen) /\ position.id = c + 1
      /\ Tells(journal, cursor, count)
      /\ c \in Nat /\ DOMAIN closed = 1 .. c
  BY DEF SessionInv, SessionTypeOK, SeenInv, TradesInv, JournalInv
<1>3. /\ pending' \in {0, n} /\ (pending' # 0 => position' = Flat)
      /\ refusals' \in {refusals, refusals \cup {n}} /\ seen' = met
      /\ \/ /\ position = Flat /\ position' = Flat /\ closed' = closed /\ journal' = told
         \/ \E p : /\ position = Flat /\ pending # 0 /\ position' = p /\ closed' = closed
                   /\ p = Opened(Len(closed) + 1, pending, n)
                   /\ journal' = Append(told, [type |-> "OPEN", id |-> p.id, bar |-> n])
         \/ /\ position # Flat /\ position' = OnBar(position, n) /\ closed' = closed /\ journal' = told
            /\ position'.outcome = "OPEN"
         \/ \E q : /\ position # Flat /\ position' = Flat /\ q = OnBar(position, n) /\ q.outcome # "OPEN"
                   /\ closed' = Append(closed, q)
                   /\ journal' = Append(told, [type |-> "CLOSE", id |-> q.id, bar |-> n])
  BY ProcessOnceCases DEF OnceOn, Signalled
<1>4. TradesMeet(met, n)
  BY <1>1, <1>2, SessionTradesMeet
<1>5. count \in Nat
  BY <1>2
<1>6. Tells(told, n, count)
  <2>1. said \in Events /\ said.type = "SIGNAL" /\ said.bar = n
    BY <1>1 DEF Events
  <2> HIDE DEF said, n, count
  <2> QED BY <1>1, <1>2, <1>5, <2>1, SignalTold
<1>7. /\ met \in Seq(1 .. n) /\ Ascending(met) /\ Len(met) = Len(seen) + 1 /\ met[Len(seen) + 1] = n
      /\ \A i \in DOMAIN met : met[i] <= n
  <2>1. \A i \in DOMAIN seen : seen[i] \in Int /\ seen[i] < n
    BY <1>1, <1>2
  <2>2. met \in Seq(1 .. n) /\ Ascending(met) /\ Len(met) = Len(seen) + 1 /\ met[Len(seen) + 1] = n
    BY <1>1, <1>2, <2>1, MetOneMore
  <2>3. \A i \in DOMAIN met : met[i] \in 1 .. n
    BY <2>2
  <2> QED BY <1>1, <2>2, <2>3
<1>8. Last(met) = n /\ met # <<>>
  <2>1. Len(met) = Len(seen) + 1 /\ Len(seen) \in Nat /\ met[Len(met)] = n
    BY <1>2, <1>7
  <2> HIDE DEF met
  <2>2. met # <<>>
    BY <2>1
  <2> QED BY <2>1, <2>2 DEF Last
<1>9. SeenInv'
  BY <1>1, <1>3, <1>7 DEF SeenInv, Ascending
<1>10. PendingIsFresh'
  BY <1>1, <1>3, <1>8 DEF PendingIsFresh, Last
<1> HIDE DEF met, told, said
<1>11. ASSUME position' \in SessionTrades \cup {Flat}, closed' \in Seq(SessionTrades),
              \A i \in DOMAIN closed' : Ended(closed'[i], bars, met),
              position' # Flat => Lives(position', bars, met) /\ position'.id = Len(closed') + 1,
              Tells(journal', n, IF position' = Flat THEN 2 * Len(closed') ELSE 2 * Len(closed') + 1)
       PROVE  SessionInv'
  <2>1. SessionTypeOK'
    BY <1>1, <1>2, <1>3, <1>7, <1>11 DEF SessionTypeOK
  <2>2. TradesInv'
    BY <1>1, <1>3, <1>11 DEF TradesInv
  <2>3. JournalInv'
    BY <1>1, <1>11 DEF JournalInv
  <2> QED BY <1>9, <1>10, <2>1, <2>2, <2>3 DEF SessionInv
<1>12. \A i \in DOMAIN closed : Ended(closed[i], bars, met)
  BY <1>2, <1>4 DEF TradesMeet
<1>13. CASE position = Flat /\ position' = Flat /\ closed' = closed /\ journal' = told
  <2>1. Tells(journal', n, 2 * Len(closed'))
    BY <1>6, <1>13
  <2> QED BY <1>2, <1>11, <1>12, <1>13, <2>1
<1>14. ASSUME NEW p, position = Flat, pending # 0, position' = p, closed' = closed,
              p = Opened(Len(closed) + 1, pending, n),
              journal' = Append(told, [type |-> "OPEN", id |-> p.id, bar |-> n])
       PROVE  SessionInv'
  <2> DEFINE id == Len(closed) + 1
             e  == [type |-> "OPEN", id |-> p.id, bar |-> n]
  <2>1. id \in Nat \ {0} /\ pending \in 1 .. Len(bars) /\ id = c + 1
    BY <1>2, <1>14
  <2>2. p = Opened(id, pending, n)
    BY <1>14
  <2> HIDE DEF id
  <2>3. p \in SessionTrades /\ p.id = id /\ p.bar = n /\ p.held = 0
    BY <1>1, <2>1, <2>2, OpenedType
  <2>4. Lives(p, bars, met)
    <3> DEFINE at == Len(met)
    <3>1. at \in DOMAIN met /\ met[at] = n /\ at \in Nat
      BY <1>7
    <3>2. Untouched(p.plan, bars, met, at)
      BY <3>1 DEF Untouched
    <3>3. p.held = Len(met) - at
      BY <2>3, <3>1
    <3> QED BY <2>3, <3>1, <3>2, <3>3 DEF Lives
  <2>5. Tells(Append(told, e), n, 2 * c + 1)
    <3> DEFINE k == 2 * c
    <3>1. k \in Nat /\ (k + 1) % 2 = 1 /\ (k + 2) \div 2 = id /\ k = count /\ 2 * c + 1 = k + 1
      BY <1>2, <1>14, <2>1
    <3> HIDE DEF k, count
    <3>2. e \in Events /\ e.type = "OPEN" /\ e.id = id
      BY <1>1, <2>1, <2>3 DEF Events
    <3> HIDE DEF e, n
    <3>3. Tells(Append(told, e), n, k + 1)
      BY <1>1, <1>6, <3>1, <3>2, TradeTold
    <3> QED BY <3>1, <3>3
  <2>6. p # Flat
    BY <2>3, FlatIsNoTrade
  <2>7. Tells(journal', n, 2 * Len(closed') + 1)
    BY <1>14, <2>5
  <2> QED BY <1>2, <1>11, <1>12, <1>14, <2>1, <2>3, <2>4, <2>6, <2>7
<1>15. CASE /\ position # Flat /\ position' = OnBar(position, n) /\ closed' = closed /\ journal' = told
            /\ position'.outcome = "OPEN"
  <2> DEFINE q == OnBar(position, n)
  <2>1. position \in SessionTrades
    BY <1>2, <1>15
  <2>2. /\ q \in SessionTrades /\ q.id = position.id /\ q.bar = position.bar /\ q.plan = position.plan
        /\ q.held = position.held + 1 /\ ~Touches(position.plan, bars[n])
    BY <1>1, <1>15, <2>1, OnBarIs
  <2> HIDE DEF q
  <2>3. Lives(q, bars, met)
    BY <1>2, <1>4, <1>15, <2>2 DEF Lives, TradesMeet
  <2>4. q # Flat /\ position' = q
    BY <1>15, <2>2, FlatIsNoTrade DEF q
  <2>5. Tells(journal', n, 2 * Len(closed') + 1)
    BY <1>6, <1>15
  <2> QED BY <1>2, <1>11, <1>12, <1>15, <2>2, <2>3, <2>4, <2>5
<1>16. ASSUME NEW q, position # Flat, position' = Flat, q = OnBar(position, n), q.outcome # "OPEN",
              closed' = Append(closed, q),
              journal' = Append(told, [type |-> "CLOSE", id |-> q.id, bar |-> n])
       PROVE  SessionInv'
  <2> DEFINE e == [type |-> "CLOSE", id |-> q.id, bar |-> n]
  <2>1. position \in SessionTrades /\ position.id = c + 1
    BY <1>2, <1>16
  <2>2. /\ q \in SessionTrades /\ q.id = position.id /\ q.bar = position.bar /\ q.plan = position.plan
        /\ q.held = position.held + 1 /\ Touches(position.plan, bars[n])
        /\ q.outcome = (IF HitStop(position.plan, bars[n], 0) THEN "LOSS" ELSE "WIN")
    BY <1>1, <1>16, <2>1, OnBarIs
  <2>3. Ended(q, bars, met)
    <3>1. PICK at \in DOMAIN met, x \in DOMAIN met :
            /\ met[at] = position.bar /\ FirstTouch(position.plan, bars, met, at, x)
            /\ position.held + 1 = x - at /\ met[x] = n
      BY <1>2, <1>4, <1>16, <2>2 DEF TradesMeet
    <3>2. q.outcome = (IF HitStop(q.plan, bars[met[x]], 0) THEN "LOSS" ELSE "WIN")
      BY <2>2, <3>1
    <3> QED BY <2>2, <3>1, <3>2 DEF Ended
  <2>4. /\ closed' \in Seq(SessionTrades) /\ Len(closed') = c + 1 /\ DOMAIN closed' = 1 .. c + 1
        /\ closed'[c + 1] = q /\ \A i \in DOMAIN closed : closed'[i] = closed[i]
    BY <1>2, <1>16, <2>2
  <2>5. \A i \in DOMAIN closed' : Ended(closed'[i], bars, met)
    <3> SUFFICES ASSUME NEW i \in DOMAIN closed' PROVE Ended(closed'[i], bars, met)
      OBVIOUS
    <3>1. i \in DOMAIN closed \/ i = c + 1
      BY <1>2, <2>4
    <3> QED BY <1>12, <2>3, <2>4, <3>1
  <2>6. Tells(Append(told, e), n, 2 * (c + 1))
    <3> DEFINE k == 2 * c + 1
               id == c + 1
    <3>1. k \in Nat /\ (k + 1) % 2 = 0 /\ (k + 2) \div 2 = id /\ k = count /\ 2 * (c + 1) = k + 1
      <4>1. c \in Nat /\ k = count
        BY <1>2, <1>16
      <4> HIDE DEF c, count
      <4>2. k \in Nat /\ 2 * (c + 1) = k + 1
        BY <4>1
      <4>3. (k + 1) % 2 = 0
        BY <4>1, <4>2
      <4>4. (k + 2) \div 2 = id
        BY <4>1
      <4> QED BY <4>1, <4>2, <4>3, <4>4
    <3>2. q.id = id /\ id \in Nat
      BY <1>2, <2>1, <2>2
    <3> HIDE DEF k, count, id
    <3>3. e \in Events /\ e.type = "CLOSE" /\ e.id = id
      BY <1>1, <3>2 DEF Events
    <3> HIDE DEF e, n
    <3>4. Tells(Append(told, e), n, k + 1)
      BY <1>1, <1>6, <3>1, <3>3, TradeTold
    <3> QED BY <3>1, <3>4
  <2>7. Tells(journal', n, 2 * Len(closed'))
    BY <1>16, <2>4, <2>6
  <2> QED BY <1>11, <1>16, <2>4, <2>5, <2>7
<1> QED BY <1>3, <1>13, <1>14, <1>15, <1>16

LEMMA SessionKeeps ==
  ASSUME MonitorTypeOK, SessionInv, ProcessOnce \/ EvaluationFails
  PROVE  MonitorTypeOK' /\ SessionInv'
<1>1. Accept
  BY DEF ProcessOnce, EvaluationFails
<1> QED BY <1>1, AcceptKeepsMonitor, ProcessOnceKeeps, LostBarKeepsSession

(* The label of a trade that ended within its bars. *)
LEMMA LabelIs ==
  ASSUME NEW plan, NEW c \in Seq(Bar), NEW e \in 1 .. Len(c), e <= MaxHold, Touches(plan, c[e]),
         \A k \in 1 .. e - 1 : ~Touches(plan, c[k])
  PROVE  LabelOutcome(plan, c) \in (IF HitStop(plan, c[e], 0) THEN {"LOSS", "AMBIGUOUS"} ELSE {"WIN"})
<1> DEFINE k == IF MaxHold < Len(c) THEN MaxHold ELSE Len(c)
           u == SubSeq(c, 1, k)
<1>1. k \in 1 .. Len(c) /\ e \in 1 .. k /\ Len(c) \in Nat
  BY SimulationAssumption
<1>2. UpTo(c, MaxHold) = u
  BY DEF UpTo
<1> HIDE DEF k
<1>3. u \in Seq(Bar) /\ Len(u) = k /\ \A i \in 1 .. k : u[i] = c[i]
  <2>1. 1 \in Int /\ k \in Int /\ (\A i \in 1 .. k : c[i] \in Bar) /\ 1 <= k /\ k - 1 + 1 = k
    BY <1>1
  <2>2. /\ u \in Seq(Bar) /\ Len(u) = k - 1 + 1
        /\ \A i \in 1 .. k - 1 + 1 : u[i] = c[1 + i - 1]
    BY <2>1, SubSeqProperties
  <2>3. \A i \in 1 .. k : 1 + i - 1 = i
    BY <2>1
  <2> HIDE DEF u
  <2> QED BY <2>1, <2>2, <2>3
<1> HIDE DEF u
<1>4. e \in 1 .. Len(u) /\ Touches(plan, u[e]) /\ \A i \in 1 .. e - 1 : ~Touches(plan, u[i])
  BY <1>1, <1>3
<1>5. ExitAfter(plan, u, 0, 0) = [outcome |-> IF HitStop(plan, u[e], 0) THEN "LOSS" ELSE "WIN", held |-> e]
  BY <1>3, <1>4, ExitIs
<1>6. u[e] = c[e]
  BY <1>1, <1>3
<1> HIDE DEF Touches
<1> QED BY <1>2, <1>5, <1>6 DEF LabelOutcome

LEMMA SessionInvIsReplayable ==
  ASSUME MonitorTypeOK, SessionInv
  PROVE  ClosedTradeIsReplayable
<1> SUFFICES ASSUME NEW i \in DOMAIN closed
             PROVE  LET t    == closed[i]
                        exit == SimulateExit(t.plan, CandlesAfter(seen, t.bar))
                    IN  /\ t.outcome = exit.outcome /\ t.held = exit.held
                        /\ t.held <= MaxHold =>
                             LabelOutcome(t.plan, CandlesAfter(seen, t.bar)) \in
                               (IF t.outcome = "LOSS" THEN {"LOSS", "AMBIGUOUS"} ELSE {"WIN"})
  BY DEF ClosedTradeIsReplayable
<1> DEFINE t == closed[i]
           c == CandlesAfter(seen, t.bar)
<1>1. bars \in Seq(Bar) /\ seen \in Seq(1 .. Len(bars)) /\ Ascending(seen) /\ Ended(t, bars, seen)
  BY DEF MonitorTypeOK, SessionInv, SessionTypeOK, SeenInv, TradesInv
<1>2. PICK at \in DOMAIN seen, e \in DOMAIN seen :
        /\ seen[at] = t.bar /\ FirstTouch(t.plan, bars, seen, at, e)
        /\ t.held = e - at
        /\ t.outcome = IF HitStop(t.plan, bars[seen[e]], 0) THEN "LOSS" ELSE "WIN"
  BY <1>1 DEF Ended
<1> HIDE DEF t
<1> DEFINE x == e - at
<1>3. /\ SimulateExit(t.plan, c) =
           [outcome |-> IF HitStop(t.plan, bars[seen[e]], 0) THEN "LOSS" ELSE "WIN", held |-> e - at]
      /\ x \in 1 .. Len(c)
  BY <1>1, <1>2, TouchIsTheExit
<1>4. /\ c \in Seq(Bar) /\ Len(c) = Len(seen) - at
      /\ \A k \in 1 .. Len(seen) - at : c[k] = bars[seen[at + k]]
  BY <1>1, <1>2, CandlesAfterIs
<1>5. /\ at \in Nat /\ e \in Nat /\ at + x = e /\ Len(seen) \in Nat /\ e <= Len(seen)
      /\ Touches(t.plan, bars[seen[e]])
      /\ \A k \in at + 1 .. e - 1 : ~Touches(t.plan, bars[seen[k]])
  <2>1. DOMAIN seen = 1 .. Len(seen) /\ Len(seen) \in Nat
    BY <1>1
  <2>2. /\ Touches(t.plan, bars[seen[e]])
        /\ \A k \in at + 1 .. e - 1 : ~Touches(t.plan, bars[seen[k]])
    BY <1>2 DEF FirstTouch
  <2> QED BY <2>1, <2>2
<1>6. c[x] = bars[seen[e]]
  BY <1>3, <1>4, <1>5
<1>7. ASSUME NEW k \in 1 .. x - 1
      PROVE  ~Touches(t.plan, c[k])
  <2>1. k \in 1 .. Len(seen) - at /\ at + k \in at + 1 .. e - 1
    BY <1>5
  <2> QED BY <1>4, <1>5, <2>1
<1> HIDE DEF c, x
<1>8. x <= MaxHold =>
        LabelOutcome(t.plan, c) \in (IF HitStop(t.plan, c[x], 0) THEN {"LOSS", "AMBIGUOUS"} ELSE {"WIN"})
  BY <1>3, <1>4, <1>5, <1>6, <1>7, LabelIs
<1>9. x = e - at
  BY DEF x
<1> QED BY <1>2, <1>3, <1>6, <1>8, <1>9 DEF t, c

LEMMA SessionInvIsSound ==
  ASSUME MonitorTypeOK, SessionInv
  PROVE  PendingIsFresh /\ JournalTellsTheSession
<1> DEFINE count == TradeEvents(journal, Len(journal))
           c == Len(closed)
<1>1. c \in Nat /\ Tells(journal, cursor, IF position = Flat THEN 2 * c ELSE 2 * c + 1)
  BY DEF SessionInv, JournalInv, SessionTypeOK
<1> HIDE DEF c
<1>2. count = (IF position = Flat THEN 2 * c ELSE 2 * c + 1)
  BY <1>1 DEF Tells
<1> HIDE DEF count
<1>3. (position = Flat) <=> (count % 2 = 0)
  <2>1. (2 * c) % 2 = 0 /\ (2 * c + 1) % 2 = 1
    BY <1>1
  <2> QED BY <1>2, <2>1
<1>4. c = count \div 2
  <2>1. (2 * c) \div 2 = c /\ (2 * c + 1) \div 2 = c
    BY <1>1
  <2> QED BY <1>2, <2>1
<1>5. JournalTellsTheSession
  BY <1>1, <1>3, <1>4 DEF JournalTellsTheSession, Tells, count, c
<1> QED BY <1>5 DEF SessionInv

-----------------------------------------------------------------------------
(* What the execution costs do to a trade.                                 *)

(* The levels a refused plan does not have: the stop on one side of the     *)
(* entry, the target on the other, at its distance times RewardRisk.       *)
PlanOf(plan, gain) ==
  /\ plan.dir \in {"LONG", "SHORT"} /\ plan.entry \in Int /\ plan.risk \in Nat \ {0} /\ gain \in Nat
  /\ plan.dir = "LONG" => plan.stop = plan.entry - plan.risk /\ plan.target = plan.entry + gain
  /\ plan.dir = "SHORT" => plan.stop = plan.entry + plan.risk /\ plan.target = plan.entry - gain

(* A spread brings the stop nearer and moves the target away. *)
LEMMA SpreadOfTouch ==
  ASSUME NEW plan, NEW gain, PlanOf(plan, gain), NEW c \in Bar, NEW cost \in Costs
  PROVE  /\ HitStop(plan, c, 0) => HitStop(plan, c, cost)
         /\ HitTarget(plan, c, cost) => HitTarget(plan, c, 0)
<1>1. c.low \in Int /\ c.high \in Int /\ cost \in Nat
  BY SimulationAssumption DEF Bar
<1>2. plan.stop \in Int /\ plan.target \in Int
  BY DEF PlanOf
<1> QED BY <1>1, <1>2 DEF HitStop, HitTarget

LEMMA CostsNeverHelpPlan ==
  ASSUME NEW plan, NEW gain, gain = plan.risk * RewardRisk, PlanOf(plan, gain), NEW c \in Seq(Bar),
         NEW cost \in Costs, LatencyBars = 0
  PROVE  SimulateRealisticExit(plan, c, cost).gain <= Gain(plan, SimulateExit(plan, c))
<1> DEFINE real  == ExitAfter(plan, c, LatencyBars, cost)
           ideal == SimulateExit(plan, c)
           hits  == {i \in 0 + 1 .. Len(c) : HitStop(plan, c[i], cost) \/ HitTarget(plan, c[i], cost)}
           f     == First(hits)
<1>1. /\ cost \in Nat /\ plan.dir \in {"LONG", "SHORT"} /\ plan.entry \in Int /\ plan.risk \in Nat \ {0}
      /\ gain \in Nat
      /\ plan.dir = "LONG" => plan.stop = plan.entry - plan.risk /\ plan.target = plan.entry + gain
      /\ plan.dir = "SHORT" => plan.stop = plan.entry + plan.risk /\ plan.target = plan.entry - gain
  BY SimulationAssumption DEF PlanOf
(* What either exit is worth. *)
<1>2. /\ Gain(plan, ideal) = (IF ideal.outcome = "WIN" THEN gain
                              ELSE IF ideal.outcome = "LOSS" THEN 0 - plan.risk ELSE 0)
  <2> HIDE DEF ideal
  <2> QED BY DEF Gain
<1>3. SimulateRealisticExit(plan, c, cost).gain =
        (IF real.outcome = "OPEN" THEN 0
         ELSE IF real.outcome = "WIN" THEN gain - cost ELSE 0 - plan.risk - cost)
  <2> DEFINE paid == ExitPrice(IF real.outcome = "WIN" THEN plan.target ELSE plan.stop, plan.dir, cost)
  <2>1. SimulateRealisticExit(plan, c, cost).gain =
          IF real.outcome = "OPEN" THEN 0
          ELSE IF plan.dir = "LONG" THEN paid - plan.entry ELSE plan.entry - paid
    BY DEF SimulateRealisticExit
  <2>2. paid = (IF plan.dir = "LONG" THEN (IF real.outcome = "WIN" THEN plan.target ELSE plan.stop) - cost
                ELSE (IF real.outcome = "WIN" THEN plan.target ELSE plan.stop) + cost)
    BY DEF ExitPrice
  <2> DEFINE o == real.outcome
             profit == SimulateRealisticExit(plan, c, cost).gain
  <2> HIDE DEF real, paid, o, profit
  <2>3. CASE plan.dir = "LONG"
    <3>1. plan.stop = plan.entry - plan.risk /\ plan.target = plan.entry + gain
      BY <1>1, <2>3
    <3>2. profit = IF o = "OPEN" THEN 0 ELSE (IF o = "WIN" THEN plan.target ELSE plan.stop) - cost - plan.entry
      BY <2>1, <2>2, <2>3 DEF o, profit
    <3> QED BY <1>1, <3>1, <3>2 DEF o, profit
  <2>4. CASE plan.dir = "SHORT"
    <3>1. plan.stop = plan.entry + plan.risk /\ plan.target = plan.entry - gain
      BY <1>1, <2>4
    <3>2. profit = IF o = "OPEN" THEN 0 ELSE plan.entry - ((IF o = "WIN" THEN plan.target ELSE plan.stop) + cost)
      BY <2>1, <2>2, <2>4 DEF o, profit
    <3> QED BY <1>1, <3>1, <3>2 DEF o, profit
  <2> QED BY <1>1, <2>3, <2>4
<1>4. real = IF hits = {} THEN [outcome |-> "OPEN", held |-> Len(c)]
             ELSE [outcome |-> IF HitStop(plan, c[f], cost) THEN "LOSS" ELSE "WIN", held |-> f]
  BY Zenon DEF ExitAfter
<1>5. \A i \in 1 .. Len(c) : /\ HitStop(plan, c[i], 0) => HitStop(plan, c[i], cost)
                             /\ HitTarget(plan, c[i], cost) => HitTarget(plan, c[i], 0)
  BY SpreadOfTouch
<1>6. ideal.outcome # "OPEN" => ideal.outcome \in {"LOSS", "WIN"}
  BY Zenon DEF SimulateExit, ExitAfter
(* Never touched with the spread, it never lost without. *)
<1>7. CASE hits = {}
  <2>1. real.outcome = "OPEN"
    BY <1>4, <1>7
  <2>2. ideal.outcome # "LOSS"
    <3>1. \A i \in 1 .. Len(c) : ~HitStop(plan, c[i], 0)
      BY <1>5, <1>7
    <3> DEFINE T == {i \in 0 + 1 .. Len(c) : HitStop(plan, c[i], 0) \/ HitTarget(plan, c[i], 0)}
    <3>2. ideal = IF T = {} THEN [outcome |-> "OPEN", held |-> Len(c)]
                  ELSE [outcome |-> IF HitStop(plan, c[First(T)], 0) THEN "LOSS" ELSE "WIN", held |-> First(T)]
      BY Zenon DEF SimulateExit, ExitAfter
    <3>3. T # {} => First(T) \in 1 .. Len(c)
      <4> SUFFICES ASSUME T # {} PROVE First(T) \in T
        OBVIOUS
      <4>1. T \subseteq Nat
        OBVIOUS
      <4>2. \E i \in T : \A j \in T : i <= j
        BY <4>1, LeastOfNat
      <4> HIDE DEF T
      <4> QED BY <4>2 DEF First
    <3> QED BY <3>1, <3>2, <3>3
  <2> QED BY <1>1, <1>2, <1>3, <2>1, <2>2
<1>8. CASE hits # {}
  <2>1. f \in hits /\ \A i \in hits : f <= i
    <3>1. hits \subseteq Nat
      OBVIOUS
    <3>2. \E i \in hits : \A j \in hits : i <= j
      BY <1>8, <3>1, LeastOfNat
    <3> HIDE DEF hits
    <3> QED BY <3>2 DEF First
  <2>2. f \in 1 .. Len(c) /\ \A i \in 1 .. f - 1 : ~HitStop(plan, c[i], cost)
    <3>1. /\ hits \subseteq 1 .. Len(c) /\ Len(c) \in Nat
          /\ \A i \in 1 .. Len(c) : HitStop(plan, c[i], cost) => i \in hits
      OBVIOUS
    <3> HIDE DEF hits, f
    <3> QED BY <2>1, <3>1
  <2> HIDE DEF hits, f
  <2>3. CASE HitStop(plan, c[f], cost)
    <3>1. real.outcome = "LOSS"
      BY <1>4, <1>8, <2>3
    <3> QED BY <1>1, <1>2, <1>3, <3>1
  <2>4. CASE ~HitStop(plan, c[f], cost)
    <3>1. real.outcome = "WIN"
      BY <1>4, <1>8, <2>4
    <3>2. HitTarget(plan, c[f], 0) /\ ~HitStop(plan, c[f], 0)
      BY <1>5, <2>1, <2>2, <2>4 DEF hits
    <3>3. ideal.outcome = "WIN"
      <4> DEFINE T == {i \in 1 .. f : Touches(plan, c[i])}
      <4>1. f \in T /\ T \subseteq Nat
        BY <2>2, <3>2 DEF Touches
      <4>2. PICK e \in T : \A i \in T : e <= i
        BY <4>1, LeastOfNat
      <4>3. e \in 1 .. f /\ Touches(plan, c[e]) /\ e \in 1 .. Len(c)
        BY <2>2, <4>2
      <4>4. \A i \in 1 .. e - 1 : ~Touches(plan, c[i])
        <5> SUFFICES ASSUME NEW i \in 1 .. e - 1, Touches(plan, c[i]) PROVE FALSE
          OBVIOUS
        <5>1. i \in T /\ i < e
          BY <2>2, <4>3
        <5> QED BY <4>2, <4>3, <5>1
      <4>5. ~HitStop(plan, c[e], 0)
        BY <1>5, <2>2, <3>2, <4>3
      <4>6. ideal = [outcome |-> IF HitStop(plan, c[e], 0) THEN "LOSS" ELSE "WIN", held |-> e]
        BY <4>3, <4>4, ExitIs DEF SimulateExit
      <4> QED BY <4>5, <4>6
    <3> QED BY <1>1, <1>2, <1>3, <3>1, <3>3
  <2> QED BY <2>3, <2>4
<1> QED BY <1>7, <1>8

LEMMA CostsHurt ==
  ASSUME MonitorTypeOK, LatencyBars = 0
  PROVE  CostsNeverHelp
<1> SUFFICES ASSUME NEW i \in 1 .. Len(bars) - 1, NEW cost \in Costs
             PROVE  LET d      == Tested(bars, i)
                        plan   == BuildRiskPlan(d.action, EntryPrice(bars[i + 1].open, d.action, cost), d.stop)
                        future == SubSeq(bars, i + 2, Len(bars))
                    IN  d.action # "WAIT" /\ ~Refused(plan) =>
                          SimulateRealisticExit(plan, future, cost).gain <= Gain(plan, SimulateExit(plan, future))
  BY DEF CostsNeverHelp
<1> DEFINE d      == Tested(bars, i)
           entry  == EntryPrice(bars[i + 1].open, d.action, cost)
           plan   == BuildRiskPlan(d.action, entry, d.stop)
           future == SubSeq(bars, i + 2, Len(bars))
           gain   == plan.risk * RewardRisk
<1> SUFFICES ASSUME d.action # "WAIT", ~Refused(plan)
             PROVE  SimulateRealisticExit(plan, future, cost).gain <= Gain(plan, SimulateExit(plan, future))
  OBVIOUS
<1>1. bars \in Seq(Bar) /\ Len(bars) \in Nat /\ i \in 1 .. Len(bars) /\ i + 1 \in 1 .. Len(bars)
  BY DEF MonitorTypeOK
<1>2. d.action \in {"LONG", "SHORT"} /\ d.stop \in Int
  BY <1>1, TestedTypes
<1>3. bars[i + 1].open \in Int
  <2> DEFINE n == i + 1
  <2>1. n \in 1 .. Len(bars)
    BY <1>1
  <2> HIDE DEF n
  <2>2. bars[n].open \in Int
    BY <1>1, <2>1, BarTypes
  <2> QED BY <2>2 DEF n
<1>4. entry \in Int
  BY <1>2, <1>3, SimulationAssumption DEF EntryPrice
<1>5. future \in Seq(Bar)
  <2>1. i + 2 \in Int /\ Len(bars) \in Int /\ \A k \in i + 2 .. Len(bars) : bars[k] \in Bar
    BY <1>1
  <2> QED BY <2>1, SubSeqProperties
<1> HIDE DEF d, entry, future
<1>6. PlanOf(plan, gain)
  <2> DEFINE risk == IF d.action = "LONG" THEN entry - d.stop ELSE d.stop - entry
  <2>1. plan = [dir |-> d.action, entry |-> entry, stop |-> d.stop, risk |-> risk,
                target |-> IF d.action = "LONG" THEN entry + risk * RewardRisk ELSE entry - risk * RewardRisk]
    BY DEF BuildRiskPlan
  <2>2. risk \in Int /\ ~(risk <= 0)
    BY <1>2, <1>4, <2>1 DEF Refused
  <2>3. risk \in Nat \ {0} /\ RewardRisk \in Nat
    BY <2>2, SimulationAssumption
  <2>4. /\ d.action = "LONG" => d.stop = entry - risk
        /\ d.action = "SHORT" => d.stop = entry + risk
    BY <1>2, <1>4
  <2> HIDE DEF risk
  <2>5. risk * RewardRisk \in Nat
    BY <2>3
  <2> QED BY <1>2, <1>4, <2>1, <2>3, <2>4, <2>5 DEF PlanOf
<1> HIDE DEF plan
<1> QED BY <1>5, <1>6, CostsNeverHelpPlan

-----------------------------------------------------------------------------
(* The programs.                                                           *)

(* A process runs one of the programs, and the other one never started. *)
ProgramsInv ==
  /\ MonitorTypeOK
  /\ program \in {"session", "bot", "research"}
  /\ program = "session" => SessionInv /\ BotInit
  /\ program = "bot" => BotInv /\ SessionInit
  /\ program = "research" => SessionInit /\ BotInit

LEMMA InitPrograms ==
  ASSUME Init
  PROVE  ProgramsInv
<1>1. MonitorTypeOK
  <2>1. CASE program = "research"
    BY <2>1, ProgramsAssumption DEF Init, MonitorTypeOK
  <2>2. CASE program # "research"
    BY <2>2, MonitorAssumption DEF Init, MonitorInit, MonitorTypeOK
  <2> QED BY <2>1, <2>2
<1> QED BY <1>1, BotAssumption, ProgramsAssumption, InitSessionInv, InitBotInv DEF Init, ProgramsInv

LEMMA StepKeepsPrograms ==
  ASSUME ProgramsInv, [Next]_vars
  PROVE  ProgramsInv'
<1>1. CASE Market
  <2>1. PICK c \in Candles, d \in Decisions : CloseBar(c, d)
    BY <1>1 DEF Market
  <2>2. UNCHANGED <<sessionVars, botVars, program>> /\ MonitorTypeOK'
    BY <1>1, <2>1, MarketKeepsMonitor DEF Market, ProgramsInv
  <2>3. CASE program = "session"
    <3>1. SessionInv'
      BY <2>1, <2>2, <2>3, MarketKeepsSession DEF ProgramsInv
    <3>2. BotInit'
      BY <2>2, <2>3 DEF ProgramsInv, BotInit, botVars, NoPosition
    <3> QED BY <2>2, <2>3, <3>1, <3>2 DEF ProgramsInv
  <2>4. CASE program = "bot"
    <3>1. BotInv'
      BY <2>1, <2>2, <2>4, MarketKeepsBot DEF ProgramsInv
    <3>2. SessionInit'
      BY <2>2, <2>4 DEF ProgramsInv, SessionInit, sessionVars, Flat
    <3> QED BY <2>2, <2>4, <3>1, <3>2 DEF ProgramsInv
  <2>5. CASE program = "research"
    <3>1. SessionInit' /\ BotInit'
      BY <2>2, <2>5 DEF ProgramsInv, SessionInit, sessionVars, Flat, BotInit, botVars, NoPosition
    <3> QED BY <2>2, <2>5, <3>1 DEF ProgramsInv
  <2> QED BY <2>3, <2>4, <2>5 DEF ProgramsInv
<1>2. CASE Session
  <2>1. program = "session" /\ UNCHANGED <<botVars, program>> /\ MonitorTypeOK' /\ SessionInv'
    BY <1>2, SessionKeeps DEF Session, ProgramsInv
  <2>2. BotInit'
    BY <2>1 DEF ProgramsInv, BotInit, botVars, NoPosition
  <2> QED BY <2>1, <2>2 DEF ProgramsInv
<1>3. CASE Bot
  <2>1. program = "bot" /\ UNCHANGED <<sessionVars, program>> /\ MonitorTypeOK' /\ BotInv'
    BY <1>3, BotKeeps DEF Bot, ProgramsInv
  <2>2. SessionInit'
    BY <2>1 DEF ProgramsInv, SessionInit, sessionVars, Flat
  <2> QED BY <2>1, <2>2 DEF ProgramsInv
<1>4. CASE UNCHANGED vars
  <2>1. UNCHANGED <<bars, cursor, program, pending, position, closed, journal, seen, refusals>>
    BY <1>4 DEF vars, sessionVars
  <2>2. UNCHANGED <<evaluated, waiting, last, held, settled, accepted, restarts>>
    BY <1>4 DEF vars, botVars
  <2>3. MonitorTypeOK'
    BY <2>1 DEF ProgramsInv, MonitorTypeOK
  <2>4. program = "session" => SessionInv' /\ BotInit'
    BY <2>1, <2>2 DEF ProgramsInv, SessionInv, SessionTypeOK, SeenInv, PendingIsFresh, TradesInv, JournalInv,
                      BotInit, NoPosition, Ascending, Ended, Lives, FirstTouch, Untouched
  <2>5. program = "bot" => BotInv' /\ SessionInit'
    BY <2>1, <2>2 DEF ProgramsInv, BotInv, BotTypeOK, OrderInv, SignalsInv, Older, TouchInv, SessionInit, Flat
  <2>6. program = "research" => SessionInit' /\ BotInit'
    BY <2>1, <2>2 DEF ProgramsInv, SessionInit, Flat, BotInit, NoPosition
  <2> QED BY <2>1, <2>3, <2>4, <2>5, <2>6 DEF ProgramsInv
<1> QED BY <1>1, <1>2, <1>3, <1>4 DEF Next

(* Every reachable state of every program satisfies the invariant.       *)
THEOREM ProgramsAreInvariant == Spec => []ProgramsInv
<1>1. Init => ProgramsInv
  BY InitPrograms
<1>2. ProgramsInv /\ [Next]_vars => ProgramsInv'
  BY StepKeepsPrograms
<1> QED BY <1>1, <1>2, PTL DEF Spec

LEMMA InvIsTyped ==
  ASSUME ProgramsInv
  PROVE  TypeOK
<1>1. MonitorTypeOK /\ Len(bars) \in Nat
  BY DEF ProgramsInv, MonitorTypeOK
<1>2. CASE program = "session"
  BY <1>1, <1>2, BotAssumption
  DEF ProgramsInv, TypeOK, MonitorTypeOK, SessionInv, SessionTypeOK, BotInit
<1>3. CASE program = "bot"
  BY <1>1, <1>3 DEF ProgramsInv, TypeOK, MonitorTypeOK, BotInv, BotTypeOK, SessionInit
<1>4. CASE program = "research"
  BY <1>1, <1>4, BotAssumption DEF ProgramsInv, TypeOK, MonitorTypeOK, SessionInit, BotInit
<1> QED BY <1>2, <1>3, <1>4 DEF ProgramsInv

(* The session (paper_session.py) loses and invents nothing between the     *)
(* signal and the journal, and a closed trade is what simulate_exit makes   *)
(* of its plan and the bars processed since, for every market, decision and *)
(* lost bar.                                                               *)
THEOREM SessionSound == Spec => []SessionIsSound
<1>1. ProgramsInv => SessionIsSound
  <2> SUFFICES ASSUME ProgramsInv PROVE SessionIsSound
    OBVIOUS
  <2>1. program = "session" => PendingIsFresh /\ JournalTellsTheSession /\ ClosedTradeIsReplayable
    BY SessionInvIsSound, SessionInvIsReplayable DEF ProgramsInv
  <2> QED BY <2>1, InvIsTyped DEF SessionIsSound
<1> QED BY <1>1, ProgramsAreInvariant, PTL

(* A signal of the bot (run_bot.py) opens at most one position, on a later  *)
(* bar, which ends at the first touch, through failures and restarts.      *)
THEOREM BotSound == Spec => []BotIsSound
<1>1. ProgramsInv => BotIsSound
  BY BotInvIsSound DEF ProgramsInv, BotIsSound
<1> QED BY <1>1, ProgramsAreInvariant, PTL

(* Without latency, spread and slippage (execution.py) never improve the    *)
(* trade of a signal, whatever the bars after it.                          *)
THEOREM CostsHurtEverySignal ==
  ASSUME LatencyBars = 0
  PROVE  Spec => []CostsNeverHelp
<1>1. ProgramsInv => CostsNeverHelp
  BY CostsHurt DEF ProgramsInv
<1> QED BY <1>1, ProgramsAreInvariant, PTL

-----------------------------------------------------------------------------
(* The turns of a backtest (backtest.py): the run from a turn is that turn *)
(* and the run from the turn it goes on with.                              *)

(* Induction over the bars, from the last one back. *)
LEMMA Backwards ==
  ASSUME NEW S, NEW lo \in Int, NEW hi \in Int,
         \A i \in lo .. hi : (\A j \in i + 1 .. hi : j \in S) => i \in S
  PROVE  lo .. hi \subseteq S
<1> DEFINE U == {d \in Nat : hi - d \in lo .. hi /\ hi - d \notin S}
<1> SUFFICES ASSUME NEW x \in lo .. hi, x \notin S PROVE FALSE
  OBVIOUS
<1>1. U \in SUBSET Nat /\ U # {}
  <2>1. hi - x \in Nat /\ hi - (hi - x) = x
    OBVIOUS
  <2> QED BY <2>1
<1>2. PICK d \in U : \A e \in U : d <= e
  BY <1>1, LeastOfNat
<1>3. ASSUME NEW j \in (hi - d) + 1 .. hi
      PROVE  j \in S
  <2> SUFFICES ASSUME j \notin S PROVE FALSE
    OBVIOUS
  <2>1. hi - j \in Nat /\ hi - (hi - j) = j /\ j \in lo .. hi /\ ~(d <= hi - j)
    BY <1>2
  <2> QED BY <1>2, <2>1
<1> QED BY <1>2, <1>3

LEMMA Upwards ==
  ASSUME NEW S, NEW hi \in Int,
         \A i \in 0 .. hi : (\A j \in 0 .. i - 1 : j \in S) => i \in S
  PROVE  0 .. hi \subseteq S
<1> DEFINE U == {d \in Nat : d \in 0 .. hi /\ d \notin S}
<1> SUFFICES ASSUME NEW x \in 0 .. hi, x \notin S PROVE FALSE
  OBVIOUS
<1>1. U \in SUBSET Nat /\ U # {}
  OBVIOUS
<1>2. PICK d \in U : \A e \in U : d <= e
  BY <1>1, LeastOfNat
<1>3. ASSUME NEW j \in 0 .. d - 1
      PROVE  j \in S
  BY <1>2
<1> QED BY <1>2, <1>3

(* The turns of a run: each leads to a later bar, at most past the end. *)
Turns(turns, T, start, end) ==
  \A i \in start .. end : turns[i] \in T /\ turns[i].then \in i + 1 .. end + 1

(* from gives the turns that are taken from each bar. *)
TakenFrom(from, turns, T, start, end) ==
  /\ from \in [start .. end + 1 -> Seq(T)]
  /\ from[end + 1] = <<>>
  /\ \A i \in start .. end : from[i] = <<turns[i]>> \o from[turns[i].then]

LEMMA TurnsAreTaken ==
  ASSUME NEW T, NEW start \in Int, NEW end \in Int, start <= end + 1,
         NEW turns, Turns(turns, T, start, end)
  PROVE  \E from : TakenFrom(from, turns, T, start, end) /\ TurnsTaken(turns, start, end) = from[start]
<1> DEFINE G(k, g) == /\ g \in [k .. end + 1 -> Seq(T)]
                      /\ \A i \in k .. end + 1 :
                           g[i] = IF i > end THEN <<>> ELSE <<turns[i]>> \o g[turns[i].then]
           S == {k \in Int : \E g : G(k, g)}
<1>1. ASSUME NEW k \in start .. end + 1, \A j \in k + 1 .. end + 1 : j \in S
      PROVE  k \in S
  <2>1. CASE k = end + 1
    <3> DEFINE g == [i \in k .. end + 1 |-> <<>>]
    <3>1. \A i \in k .. end + 1 : i > end /\ i \in Int
      BY <2>1
    <3>2. G(k, g)
      BY <3>1
    <3>3. k \in Int
      OBVIOUS
    <3> HIDE DEF G, g
    <3> QED BY <3>2, <3>3
  <2>2. CASE k # end + 1
    <3>1. k + 1 \in k + 1 .. end + 1 /\ k \in start .. end
      BY <2>2
    <3>2. PICK h : G(k + 1, h)
      BY <1>1, <3>1
    <3> DEFINE n == turns[k].then
               v == <<turns[k]>> \o h[n]
               g == [i \in k .. end + 1 |-> IF i = k THEN v ELSE h[i]]
    <3>3. turns[k] \in T /\ n \in k + 1 .. end + 1
      BY <3>1 DEF Turns
    <3>4. h[n] \in Seq(T)
      BY <3>2, <3>3
    <3>5. v \in Seq(T)
      BY <3>3, <3>4
    <3> HIDE DEF v
    <3>6. g \in [k .. end + 1 -> Seq(T)]
      <4>1. \A i \in k .. end + 1 : i = k \/ i \in k + 1 .. end + 1
        OBVIOUS
      <4>2. \A i \in k + 1 .. end + 1 : h[i] \in Seq(T)
        BY <3>2
      <4> QED BY <3>5, <4>1, <4>2
    <3>7. ASSUME NEW i \in k .. end + 1
          PROVE  g[i] = IF i > end THEN <<>> ELSE <<turns[i]>> \o g[turns[i].then]
      <4>1. CASE i = k
        <5>1. g[n] = h[n] /\ g[i] = v /\ ~(i > end)
          BY <3>1, <3>3, <4>1
        <5> HIDE DEF g
        <5> QED BY <4>1, <5>1 DEF v
      <4>2. CASE i # k
        <5>1. i \in k + 1 .. end + 1 /\ g[i] = h[i]
          BY <4>2
        <5>2. CASE i > end
          BY <3>2, <5>1, <5>2
        <5>3. CASE ~(i > end)
          <6>1. i \in start .. end
            BY <5>1, <5>3
          <6> DEFINE m == turns[i].then
          <6>2. m \in k + 1 .. end + 1 /\ m # k /\ m \in k .. end + 1
            BY <5>1, <6>1 DEF Turns
          <6>3. g[m] = h[m]
            BY <6>2
          <6>4. h[i] = <<turns[i]>> \o h[m]
            BY <3>2, <5>1, <5>3
          <6> HIDE DEF g
          <6> QED BY <5>1, <5>3, <6>3, <6>4
        <5> QED BY <5>2, <5>3
      <4> QED BY <4>1, <4>2
    <3> HIDE DEF g
    <3>8. G(k, g)
      BY <3>6, <3>7
    <3>9. k \in Int
      OBVIOUS
    <3> HIDE DEF G
    <3> QED BY <3>8, <3>9
  <2> QED BY <2>1, <2>2
<1>2. start \in S
  <2> HIDE DEF S
  <2> DEFINE hi == end + 1
  <2>1. hi \in Int /\ \A i \in start .. hi : (\A j \in i + 1 .. hi : j \in S) => i \in S
    BY <1>1
  <2> HIDE DEF hi
  <2>2. start .. hi \subseteq S
    BY <2>1, Backwards
  <2>3. start \in start .. hi
    BY DEF hi
  <2> QED BY <2>2, <2>3
<1>3. PICK g : G(start, g)
  BY <1>2
<1> DEFINE Eq(f) == f = [i \in start .. end + 1 |->
                           IF i > end THEN <<>> ELSE <<turns[i]>> \o f[turns[i].then]]
           from == CHOOSE f : Eq(f)
<1>4. Eq(g)
  BY <1>3
<1>5. Eq(from)
  BY <1>4, Zenon
<1>6. TurnsTaken(turns, start, end) = from[start]
  BY Zenon DEF TurnsTaken
<1> HIDE DEF from
<1>7. \A i \in start .. end + 1 : from[i] = IF i > end THEN <<>> ELSE <<turns[i]>> \o from[turns[i].then]
  BY <1>5
<1>8. DOMAIN from = start .. end + 1 /\ from = [i \in start .. end + 1 |-> from[i]]
  BY <1>5
<1> HIDE DEF Eq, G, S
<1> DEFINE V == {i \in Int : from[i] \in Seq(T)}
<1> HIDE DEF V
<1>9. ASSUME NEW i \in start .. end + 1, \A j \in i + 1 .. end + 1 : j \in V
      PROVE  i \in V
  <2> i \in Int
    OBVIOUS
  <2>1. CASE i > end
    <3>1. from[i] = <<>>
      BY <1>7, <2>1
    <3>2. <<>> \in Seq(T)
      OBVIOUS
    <3>3. from[i] \in Seq(T)
      BY <3>1, <3>2, Zenon
    <3> QED BY <3>3 DEF V
  <2>2. CASE ~(i > end)
    <3>1. turns[i] \in T /\ turns[i].then \in i + 1 .. end + 1
      BY <2>2 DEF Turns
    <3>2. from[turns[i].then] \in Seq(T)
      BY <1>9, <3>1 DEF V
    <3>3. from[i] = <<turns[i]>> \o from[turns[i].then]
      BY <1>7, <2>2
    <3>4. from[i] \in Seq(T)
      <4> DEFINE r == from[turns[i].then]
                 t == turns[i]
      <4>1. r \in Seq(T) /\ t \in T /\ from[i] = <<t>> \o r
        BY <3>1, <3>2, <3>3
      <4> HIDE DEF r, t
      <4> QED BY <4>1
    <3> QED BY <3>4 DEF V
  <2> QED BY <2>1, <2>2
<1>10. start .. end + 1 \subseteq V
  <2> DEFINE hi == end + 1
  <2>1. hi \in Int /\ \A i \in start .. hi : (\A j \in i + 1 .. hi : j \in V) => i \in V
    BY <1>9
  <2> HIDE DEF hi
  <2>2. start .. hi \subseteq V
    BY <2>1, Backwards
  <2> QED BY <2>2 DEF hi
<1>11. from \in [start .. end + 1 -> Seq(T)]
  BY <1>8, <1>10 DEF V
<1>12. TakenFrom(from, turns, T, start, end)
  <2>1. end + 1 \in start .. end + 1 /\ end + 1 > end
    OBVIOUS
  <2>2. from[end + 1] = <<>>
    BY <1>7, <2>1
  <2>3. ASSUME NEW i \in start .. end
        PROVE from[i] = <<turns[i]>> \o from[turns[i].then]
    <3>1. i \in start .. end + 1 /\ ~(i > end)
      OBVIOUS
    <3> QED BY <1>7, <3>1
  <2> QED BY <1>11, <2>2, <2>3 DEF TakenFrom
<1> QED BY <1>6, <1>12

-----------------------------------------------------------------------------
(* upTo gives the trades of the first turns. *)
TradesUpTo(upTo, turns, X) ==
  /\ upTo \in [0 .. Len(turns) -> Seq(X)]
  /\ upTo[0] = <<>>
  /\ \A k \in 1 .. Len(turns) :
       upTo[k] = IF turns[k].trade = NoTrade THEN upTo[k - 1] ELSE Append(upTo[k - 1], turns[k].trade)

LEMMA TradesAre ==
  ASSUME NEW X, NEW turns, Len(turns) \in Nat,
         \A k \in 1 .. Len(turns) : turns[k].trade # NoTrade => turns[k].trade \in X
  PROVE  \E upTo : TradesUpTo(upTo, turns, X) /\ TradesOf(turns) = upTo[Len(turns)]
<1> DEFINE L == Len(turns)
           Next1(g, k) == IF k = 0 THEN <<>>
                          ELSE IF turns[k].trade = NoTrade THEN g[k - 1] ELSE Append(g[k - 1], turns[k].trade)
           G(k, g) == /\ g \in [0 .. k -> Seq(X)]
                      /\ \A i \in 0 .. k : g[i] = Next1(g, i)
           S == {k \in Int : \E g : G(k, g)}
<1>0. L \in Nat
  OBVIOUS
<1>0a. \A k \in 1 .. L : turns[k].trade # NoTrade => turns[k].trade \in X
  OBVIOUS
<1>0b. L = Len(turns)
  OBVIOUS
<1> HIDE DEF L
<1>1. ASSUME NEW k \in 0 .. L, \A j \in 0 .. k - 1 : j \in S
      PROVE  k \in S
  <2>1. CASE k = 0
    <3> DEFINE g == [i \in 0 .. k |-> <<>>]
    <3>1. \A i \in 0 .. k : i = 0
      BY <2>1
    <3>2. G(k, g)
      BY <3>1
    <3>3. k \in Int
      OBVIOUS
    <3> HIDE DEF G, g
    <3> QED BY <3>2, <3>3
  <2>2. CASE k # 0
    <3>1. k - 1 \in 0 .. k - 1 /\ k \in 1 .. L
      BY <2>2
    <3>2. PICK h : G(k - 1, h)
      BY <1>1, <3>1
    <3> DEFINE t == turns[k].trade
               v == IF t = NoTrade THEN h[k - 1] ELSE Append(h[k - 1], t)
               g == [i \in 0 .. k |-> IF i = k THEN v ELSE h[i]]
    <3>3. h[k - 1] \in Seq(X)
      BY <3>1, <3>2
    <3>4. v \in Seq(X)
      <4>1. t # NoTrade => t \in X
        BY <1>0a, <3>1
      <4> HIDE DEF t
      <4> QED BY <3>3, <4>1
    <3>4a. v = Next1(h, k)
      BY <2>2
    <3> HIDE DEF v
    <3>5. g \in [0 .. k -> Seq(X)]
      <4>1. \A i \in 0 .. k : i = k \/ i \in 0 .. k - 1
        OBVIOUS
      <4>2. \A i \in 0 .. k - 1 : h[i] \in Seq(X)
        BY <3>2
      <4> QED BY <3>4, <4>1, <4>2
    <3>6. ASSUME NEW i \in 0 .. k
          PROVE  g[i] = Next1(g, i)
      <4>1. CASE i = k
        <5>1. g[k - 1] = h[k - 1] /\ g[i] = v
          BY <3>1, <4>1
        <5> HIDE DEF g
        <5> QED BY <3>4a, <4>1, <5>1
      <4>2. CASE i # k
        <5>1. i \in 0 .. k - 1 /\ g[i] = h[i]
          BY <4>2
        <5>2. i # 0 => i - 1 \in 0 .. k /\ i - 1 # k
          BY <5>1
        <5>3. i # 0 => g[i - 1] = h[i - 1]
          BY <5>2
        <5>4. h[i] = Next1(h, i)
          BY <3>2, <5>1
        <5> HIDE DEF g
        <5> QED BY <5>1, <5>3, <5>4
      <4> QED BY <4>1, <4>2
    <3> HIDE DEF g, Next1
    <3>7. G(k, g)
      BY <3>5, <3>6
    <3>8. k \in Int
      OBVIOUS
    <3> HIDE DEF G
    <3> QED BY <3>7, <3>8
  <2> QED BY <2>1, <2>2
<1>2. L \in S
  <2> HIDE DEF S
  <2>1. L \in Int /\ L \in 0 .. L
    BY <1>0
  <2>2. \A i \in 0 .. L : (\A j \in 0 .. i - 1 : j \in S) => i \in S
    BY <1>1
  <2>3. 0 .. L \subseteq S
    BY <2>1, <2>2, Upwards
  <2> QED BY <2>1, <2>3
<1>3. PICK g : G(L, g)
  BY <1>2
<1> DEFINE Eq(f) == f = [k \in 0 .. L |-> Next1(f, k)]
           upTo == CHOOSE f : Eq(f)
<1>4. Eq(g)
  <2> HIDE DEF Next1
  <2> QED BY <1>3
<1>5. Eq(upTo)
  <2> HIDE DEF Next1
  <2> QED BY <1>4, Zenon
<1>6. TradesOf(turns) = upTo[Len(turns)]
  BY Zenon DEF TradesOf, L
<1> HIDE DEF upTo
<1>7. \A k \in 0 .. L : upTo[k] = Next1(upTo, k)
  <2> HIDE DEF Next1
  <2> QED BY <1>5
<1>8. DOMAIN upTo = 0 .. L /\ upTo = [k \in 0 .. L |-> upTo[k]]
  <2> HIDE DEF Next1
  <2> QED BY <1>5
<1> HIDE DEF Eq, G, S
<1>9. upTo[0] = <<>>
  BY <1>0, <1>7
<1>10. ASSUME NEW k \in 1 .. L
       PROVE  upTo[k] = IF turns[k].trade = NoTrade THEN upTo[k - 1] ELSE Append(upTo[k - 1], turns[k].trade)
  <2>1. k \in 0 .. L /\ k # 0
    OBVIOUS
  <2> QED BY <1>7, <2>1
<1> DEFINE V == {k \in Int : upTo[k] \in Seq(X)}
<1> HIDE DEF V
<1>11. ASSUME NEW k \in 0 .. L, \A j \in 0 .. k - 1 : j \in V
       PROVE  k \in V
  <2> k \in Int
    OBVIOUS
  <2>1. CASE k = 0
    <3>1. <<>> \in Seq(X) /\ upTo[k] = <<>>
      BY <1>9, <2>1
    <3>2. upTo[k] \in Seq(X)
      BY <3>1, Zenon
    <3> QED BY <3>2 DEF V
  <2>2. CASE k # 0
    <3>1. k \in 1 .. L /\ k - 1 \in 0 .. k - 1
      BY <2>2
    <3>2. upTo[k - 1] \in Seq(X) /\ (turns[k].trade # NoTrade => turns[k].trade \in X)
      BY <1>0a, <1>11, <3>1 DEF V
    <3>3. upTo[k] \in Seq(X)
      <4> DEFINE v == upTo[k - 1]
                 x == turns[k].trade
      <4>1. v \in Seq(X) /\ (x # NoTrade => x \in X) /\ upTo[k] = IF x = NoTrade THEN v ELSE Append(v, x)
        BY <1>10, <3>1, <3>2
      <4> HIDE DEF v, x
      <4> QED BY <4>1
    <3> QED BY <3>3 DEF V
  <2> QED BY <2>1, <2>2
<1>12. 0 .. L \subseteq V
  <2>1. L \in Int
    BY <1>0
  <2>2. \A i \in 0 .. L : (\A j \in 0 .. i - 1 : j \in V) => i \in V
    BY <1>11
  <2> QED BY <2>1, <2>2, Upwards
<1>13. upTo \in [0 .. L -> Seq(X)]
  BY <1>8, <1>12 DEF V
<1>14. TradesUpTo(upTo, turns, X)
  BY <1>0b, <1>9, <1>10, <1>13 DEF TradesUpTo
<1> QED BY <1>6, <1>14

(* The trades of a turn and of those after it. *)
TradeOfTurn(t) == IF t.trade = NoTrade THEN <<>> ELSE <<t.trade>>

LEMMA NoTurnsNoTrades == TradesOf(<<>>) = <<>>
<1> DEFINE none == <<>>
<1>2. none = <<>> /\ Len(none) = 0 /\ Len(none) \in Nat /\ \A k \in 1 .. Len(none) : FALSE
  OBVIOUS
<1> HIDE DEF none
<1>3. \E upTo : TradesUpTo(upTo, none, {}) /\ TradesOf(none) = upTo[Len(none)]
  BY <1>2, TradesAre
<1>4. TradesOf(none) = <<>>
  BY <1>2, <1>3 DEF TradesUpTo
<1> QED BY <1>2, <1>4

TradesAdd(t, s, X) ==
  /\ TradesOf(s) \in Seq(X) /\ TradeOfTurn(t) \in Seq(X)
  /\ TradesOf(<<t>> \o s) = TradeOfTurn(t) \o TradesOf(s)

TradesIn(T, X) == \A t \in T : t.trade # NoTrade => t.trade \in X

LEMMA TradesOfMoreTurns ==
  ASSUME NEW X, NEW T, TradesIn(T, X),
         NEW t \in T, NEW s \in Seq(T)
  PROVE  TradesAdd(t, s, X)
<1>0. \A u \in T : u.trade # NoTrade => u.trade \in X
  BY DEF TradesIn
<1> DEFINE L == Len(s)
           r == <<t>> \o s
           H == TradeOfTurn(t)
<1>1. /\ L \in Nat /\ Len(r) = L + 1 /\ r[1] = t /\ \A k \in 1 .. L : r[k + 1] = s[k] /\ s[k] \in T
      /\ \A k \in 1 .. Len(r) : r[k] \in T
  <2>1. /\ L \in Nat /\ r \in Seq(T) /\ Len(r) = L + 1 /\ r[1] = t
        /\ \A k \in 1 .. L : r[k + 1] = s[k] /\ s[k] \in T
    OBVIOUS
  <2> HIDE DEF r, L
  <2> QED BY <2>1
<1> HIDE DEF r
<1>2. PICK U : TradesUpTo(U, r, X) /\ TradesOf(r) = U[Len(r)]
  <2>1. Len(r) \in Nat /\ \A k \in 1 .. Len(r) : r[k].trade # NoTrade => r[k].trade \in X
    BY <1>0, <1>1
  <2> QED BY <2>1, TradesAre
<1>3. PICK V : TradesUpTo(V, s, X) /\ TradesOf(s) = V[L]
  BY <1>0, <1>1, TradesAre
<1>4. H \in Seq(X)
  BY <1>0 DEF TradeOfTurn
<1>5. U[1] = H /\ U[0] = <<>> /\ V[0] = <<>>
  <2>1. U[0] = <<>> /\ V[0] = <<>> /\ 1 \in 1 .. Len(r)
    BY <1>1, <1>2, <1>3 DEF TradesUpTo
  <2>2. U[1] = IF r[1].trade = NoTrade THEN U[1 - 1] ELSE Append(U[1 - 1], r[1].trade)
    BY <1>2, <2>1 DEF TradesUpTo
  <2>3. U[1] = IF t.trade = NoTrade THEN <<>> ELSE Append(<<>>, t.trade)
    <3>1. 1 - 1 = 0
      OBVIOUS
    <3>2. U[1 - 1] = <<>>
      BY <2>1, <3>1
    <3> QED BY <1>1, <2>2, <3>2, Zenon
  <2>4. Append(<<>>, t.trade) = <<t.trade>>
    OBVIOUS
  <2> QED BY <2>1, <2>3, <2>4 DEF TradeOfTurn
<1>6. /\ \A k \in 0 .. L : V[k] \in Seq(X)
      /\ \A k \in 1 .. L : V[k] = IF s[k].trade = NoTrade THEN V[k - 1] ELSE Append(V[k - 1], s[k].trade)
      /\ \A k \in 1 .. L : U[k + 1] = IF s[k].trade = NoTrade THEN U[k] ELSE Append(U[k], s[k].trade)
  <2>1. ASSUME NEW k \in 1 .. L
        PROVE  U[k + 1] = IF s[k].trade = NoTrade THEN U[k] ELSE Append(U[k], s[k].trade)
    <3>1. k + 1 \in 1 .. Len(r) /\ (k + 1) - 1 = k /\ r[k + 1] = s[k]
      BY <1>1
    <3>2. U[k + 1] = IF r[k + 1].trade = NoTrade THEN U[(k + 1) - 1] ELSE Append(U[(k + 1) - 1], r[k + 1].trade)
      BY <1>2, <3>1 DEF TradesUpTo
    <3> QED BY <3>1, <3>2
  <2> QED BY <1>3, <2>1 DEF TradesUpTo
<1> HIDE DEF H, L
<1> DEFINE S == {k \in Int : U[k + 1] = H \o V[k]}
<1> HIDE DEF S
<1>7. ASSUME NEW k \in 0 .. L, \A j \in 0 .. k - 1 : j \in S
      PROVE  k \in S
  <2> k \in Int
    OBVIOUS
  <2>1. CASE k = 0
    <3>1. H \o <<>> = H
      BY <1>4
    <3>2. U[k + 1] = H \o V[k]
      <4>1. k + 1 = 1
        BY <2>1
      <4> QED BY <1>5, <2>1, <3>1, <4>1
    <3> QED BY <3>2 DEF S
  <2>2. CASE k # 0
    <3>1. k \in 1 .. L /\ k - 1 \in 0 .. k - 1 /\ k - 1 \in 0 .. L /\ (k - 1) + 1 = k
      BY <1>1, <2>2
    <3>2. U[k] = H \o V[k - 1] /\ V[k - 1] \in Seq(X)
      BY <1>6, <1>7, <3>1 DEF S
    <3>3. CASE s[k].trade = NoTrade
      <4>1. U[k + 1] = H \o V[k]
        BY <1>6, <3>1, <3>2, <3>3
      <4> QED BY <4>1 DEF S
    <3>4. CASE s[k].trade # NoTrade
      <4> DEFINE v == V[k - 1]
                 x == s[k].trade
      <4>1. U[k + 1] = Append(H \o v, x) /\ V[k] = Append(v, x) /\ x \in X
        BY <1>0, <1>1, <1>6, <3>1, <3>2, <3>4
      <4>2. v \in Seq(X)
        BY <3>2
      <4> HIDE DEF v, x
      <4>3. Append(H \o v, x) = H \o Append(v, x)
        <5>1. /\ H \o v \in Seq(X) /\ <<x>> \in Seq(X)
              /\ Append(H \o v, x) = (H \o v) \o <<x>> /\ Append(v, x) = v \o <<x>>
          BY <1>4, <4>1, <4>2, AppendIsConcat
        <5>2. (H \o v) \o <<x>> = H \o (v \o <<x>>)
          BY <1>4, <4>2, <5>1, ConcatAssociative
        <5> QED BY <5>1, <5>2
      <4>4. U[k + 1] = H \o V[k]
        BY <4>1, <4>3
      <4> QED BY <4>4 DEF S
    <3> QED BY <3>3, <3>4
  <2> QED BY <2>1, <2>2
<1>8. L \in S
  <2>1. L \in Int /\ L \in 0 .. L
    BY <1>1
  <2>2. \A i \in 0 .. L : (\A j \in 0 .. i - 1 : j \in S) => i \in S
    BY <1>7
  <2>3. 0 .. L \subseteq S
    BY <2>1, <2>2, Upwards
  <2> QED BY <2>1, <2>3
<1>9. V[L] \in Seq(X)
  BY <1>1, <1>6
<1> QED BY <1>1, <1>2, <1>3, <1>4, <1>8, <1>9 DEF r, H, S, TradesAdd

(* A sequence of candles has a first that touches, or none does. *)
LEMMA FirstTouchOrNone ==
  ASSUME NEW plan, NEW S, NEW c \in Seq(S)
  PROVE  \/ \A k \in 1 .. Len(c) : ~Touches(plan, c[k])
         \/ \E e \in 1 .. Len(c) : Touches(plan, c[e]) /\ \A k \in 1 .. e - 1 : ~Touches(plan, c[k])
<1> SUFFICES ASSUME \E k \in 1 .. Len(c) : Touches(plan, c[k])
             PROVE  \E e \in 1 .. Len(c) : Touches(plan, c[e]) /\ \A k \in 1 .. e - 1 : ~Touches(plan, c[k])
  OBVIOUS
<1> DEFINE U == {k \in 1 .. Len(c) : Touches(plan, c[k])}
<1>1. U \in SUBSET Nat /\ U # {}
  OBVIOUS
<1>2. PICK e \in U : \A k \in U : e <= k
  BY <1>1, LeastOfNat
<1>3. e \in 1 .. Len(c) /\ Touches(plan, c[e])
  BY <1>2
<1>4. ASSUME NEW k \in 1 .. e - 1, Touches(plan, c[k])
      PROVE  FALSE
  <2>1. k \in U /\ k < e
    BY <1>3, <1>4
  <2> QED BY <1>2, <1>3, <2>1
<1> QED BY <1>3, <1>4

LEMMA ExitWithin ==
  ASSUME NEW plan, NEW S, NEW c \in Seq(S)
  PROVE  LET exit == SimulateExit(plan, c)
         IN  \/ exit.outcome = "OPEN" /\ exit.held = Len(c)
             \/ exit.outcome \in {"WIN", "LOSS"} /\ exit.held \in 1 .. Len(c)
<1>1. CASE \A k \in 1 .. Len(c) : ~Touches(plan, c[k])
  BY <1>1, NoExit DEF SimulateExit
<1>2. CASE \E e \in 1 .. Len(c) : Touches(plan, c[e]) /\ \A k \in 1 .. e - 1 : ~Touches(plan, c[k])
  <2>1. PICK e \in 1 .. Len(c) : Touches(plan, c[e]) /\ \A k \in 1 .. e - 1 : ~Touches(plan, c[k])
    BY <1>2
  <2>2. ExitAfter(plan, c, 0, 0) =
          [outcome |-> IF HitStop(plan, c[e], 0) THEN "LOSS" ELSE "WIN", held |-> e]
    BY <2>1, ExitIs
  <2> QED BY <2>2 DEF SimulateExit
<1> QED BY <1>1, <1>2, FirstTouchOrNone

(* The run of the backtest on all the bars, bar by bar. *)
TradesAt(i, how) == Trades(bars, i, Len(bars), how, DOMAIN bars)
TradeAt(i, how)  == BacktestTrade(bars, i, Len(bars), how)
TurnAt(i, how)   == Turn(bars, i, Len(bars), how, DOMAIN bars)
RunAll(how)      == RunBacktest(bars, 1, Len(bars), how, DOMAIN bars)

FillBar(i, how) == IF how.next THEN i + 1 ELSE i
Upto(fill) == IF fill + MaxHold < Len(bars) THEN fill + MaxHold ELSE Len(bars)
Ahead(i, how) == SubSeq(bars, FillBar(i, how) + 1, Upto(FillBar(i, how)))
FillPrice(i, how) == IF how.next THEN bars[FillBar(i, how)].open ELSE Tested(bars, i).entry
PlanAt(i, how) == BuildRiskPlan(Tested(bars, i).action, FillPrice(i, how), Tested(bars, i).stop)

(* c are the candles after bar n that a trade can be held. *)
CandlesFrom(c, n) ==
  /\ c \in Seq(Bar) /\ Len(c) = Upto(n) - n /\ Upto(n) \in n .. Len(bars)
  /\ \A k \in 1 .. Len(c) : c[k] = bars[n + k]

LEMMA AheadIs ==
  ASSUME bars \in Seq(Bar), NEW i \in 1 .. Len(bars), NEW how, how.next \in BOOLEAN, TradesAt(i, how)
  PROVE  /\ FillBar(i, how) \in i .. Len(bars)
         /\ how.next => FillBar(i, how) = i + 1
         /\ ~how.next => FillBar(i, how) = i
         /\ CandlesFrom(Ahead(i, how), FillBar(i, how))
<1> DEFINE f == FillBar(i, how)
           u == Upto(f)
           c == Ahead(i, how)
<1>1. f \in i .. Len(bars) /\ (how.next => f = i + 1) /\ (~how.next => f = i)
  BY DEF FillBar, TradesAt, Trades
<1>2. c = SubSeq(bars, f + 1, u)
  BY DEF Ahead
<1> HIDE DEF f, c
<1>3. u \in f .. Len(bars) /\ f \in Nat /\ u \in Nat
  BY <1>1, SimulationAssumption DEF Upto
<1> HIDE DEF u
<1>4. /\ f + 1 \in Int /\ u \in Int /\ \A k \in f + 1 .. u : bars[k] \in Bar
      /\ \A k \in 1 .. u - f : f + k \in f + 1 .. u
  BY <1>1, <1>3
<1>5. c \in Seq(Bar) /\ Len(c) = u - f /\ \A k \in 1 .. u - f : c[k] = bars[f + k]
  <2>1. c = [k \in 1 .. 1 + u - (f + 1) |-> bars[k + (f + 1) - 1]]
    BY <1>2, <1>3, SMT
  <2>2. 1 + u - (f + 1) = u - f /\ u - f \in Nat /\ \A k \in 1 .. u - f : k + (f + 1) - 1 = f + k
    BY <1>3
  <2>3. c = [k \in 1 .. u - f |-> bars[f + k]]
    BY <2>1, <2>2
  <2>4. c \in [1 .. u - f -> Bar]
    BY <1>4, <2>3
  <2> QED BY <2>2, <2>3, <2>4
<1>6. CandlesFrom(c, f)
  BY <1>3, <1>5 DEF CandlesFrom, u
<1> QED BY <1>1, <1>6 DEF f, c

LEMMA TradeAtIs ==
  ASSUME NEW i, NEW how, how.model = NoModel
  PROVE  LET exit == SimulateExit(PlanAt(i, how), Ahead(i, how))
         IN  TradeAt(i, how) =
               [signal |-> i, dir |-> PlanAt(i, how).dir, entry |-> PlanAt(i, how).entry,
                refused |-> Refused(PlanAt(i, how)), outcome |-> exit.outcome, held |-> exit.held,
                resume |-> FillBar(i, how) + 1 + exit.held]
BY Zenon DEF TradeAt, BacktestTrade, PlanAt, FillPrice, Ahead, FillBar, Upto

(* Where a turn leads: a refused plan ends the run, an open trade leaves    *)
(* the next bar its turn, a closed one the first bar after it.              *)
LEMMA TurnIs ==
  ASSUME bars \in Seq(Bar), NEW i \in 1 .. Len(bars), NEW how, how.next \in BOOLEAN, how.model = NoModel
  PROVE  LET t == TurnAt(i, how)
             x == TradeAt(i, how)
         IN  /\ t.bar = i /\ t.then \in i + 1 .. Len(bars) + 1
             /\ ~TradesAt(i, how) => t.trade = NoTrade /\ t.then = i + 1
             /\ TradesAt(i, how) =>
                  /\ t.trade = x /\ x # NoTrade /\ x.signal = i
                  /\ x.outcome \in {"OPEN", "WIN", "LOSS"}
                  /\ x.refused => t.then = Len(bars) + 1
                  /\ ~x.refused /\ x.outcome = "OPEN" => t.then = i + 1
                  /\ ~x.refused /\ x.outcome # "OPEN" =>
                       t.then = x.resume /\ x.resume \in i + 2 .. Len(bars) + 1
<1> DEFINE t == TurnAt(i, how)
           x == TradeAt(i, how)
           L == Len(bars)
<1>0. L \in Nat /\ i \in 1 .. L
  OBVIOUS
<1>1. CASE ~TradesAt(i, how)
  <2>1. t = [bar |-> i, trade |-> NoTrade, then |-> i + 1]
    BY <1>1, Zenon DEF TurnAt, Turn, TradesAt
  <2> QED BY <1>1, <2>1
<1>2. CASE TradesAt(i, how)
  <2> DEFINE then == IF x.refused THEN L + 1 ELSE IF x.outcome = "OPEN" THEN i + 1 ELSE x.resume
  <2>1. t = [bar |-> i, trade |-> x, then |-> then]
    BY <1>2, Zenon DEF TurnAt, Turn, TradesAt, TradeAt
  <2> DEFINE exit == SimulateExit(PlanAt(i, how), Ahead(i, how))
             f    == FillBar(i, how)
             u    == Upto(f)
  <2>2. /\ x.signal = i /\ x.outcome = exit.outcome /\ x.resume = f + 1 + exit.held
    BY TradeAtIs
  <2>3. x # NoTrade
    <3>1. NoTrade.signal = 0 /\ i # 0
      BY DEF NoTrade
    <3> HIDE DEF x
    <3> QED BY <2>2, <3>1
  <2>4. f \in i .. L /\ u \in f .. L /\ Ahead(i, how) \in Seq(Bar) /\ Len(Ahead(i, how)) = u - f
    BY <1>2, AheadIs DEF CandlesFrom
  <2>5. \/ exit.outcome = "OPEN"
        \/ exit.outcome \in {"WIN", "LOSS"} /\ exit.held \in 1 .. u - f
    BY <2>4, ExitWithin
  <2> HIDE DEF f, u, exit, x, t, L
  <2>6. x.outcome # "OPEN" => x.resume \in i + 2 .. L + 1
    BY <1>0, <2>2, <2>4, <2>5
  <2>7. x.outcome \in {"OPEN", "WIN", "LOSS"}
    BY <2>2, <2>5
  <2>8. t.bar = i /\ t.trade = x /\ t.then = then
    BY <2>1
  <2>9. then \in i + 1 .. L + 1
    BY <1>0, <2>6
  <2> QED BY <1>2, <2>2, <2>3, <2>6, <2>7, <2>8, <2>9 DEF t, x, L
<1> QED BY <1>1, <1>2

(* run gives the turns taken from each bar, and their trades. *)
Unfolds(run, how) ==
  /\ DOMAIN run = 1 .. Len(bars) + 1
  /\ RunAll(how) = run[1]
  /\ run[Len(bars) + 1] = <<>>
  /\ \A i \in 1 .. Len(bars) : run[i] = <<TurnAt(i, how)>> \o run[TurnAt(i, how).then]
  /\ \A i \in 1 .. Len(bars) + 1 : /\ run[i] \in Seq({TurnAt(k, how) : k \in 1 .. Len(bars)})
                                   /\ TradesOf(run[i]) \in Seq({TradeAt(k, how) : k \in 1 .. Len(bars)})
  /\ TradesOf(run[Len(bars) + 1]) = <<>>
  /\ \A i \in 1 .. Len(bars) :
       TradesOf(run[i]) = (IF TradesAt(i, how) THEN <<TradeAt(i, how)>> ELSE <<>>)
                            \o TradesOf(run[TurnAt(i, how).then])

LEMMA RunUnfolds ==
  ASSUME bars \in Seq(Bar), NEW how, how.next \in BOOLEAN, how.model = NoModel
  PROVE  \E run : Unfolds(run, how)
<1> DEFINE L == Len(bars)
           turns == [i \in 1 .. L |-> TurnAt(i, how)]
           T == {TurnAt(k, how) : k \in 1 .. L}
           X == {TradeAt(k, how) : k \in 1 .. L}
<1>1. L \in Nat /\ 1 <= L + 1 /\ 1 \in Int /\ L \in Int /\ L + 1 \in 1 .. L + 1 /\ 1 \in 1 .. L + 1
  OBVIOUS
<1>2. \A i \in 1 .. L : /\ turns[i] = TurnAt(i, how) /\ turns[i] \in T
                        /\ TurnAt(i, how).then \in i + 1 .. L + 1
  BY TurnIs
<1>3. TradesIn(T, X)
  <2> SUFFICES ASSUME NEW k \in 1 .. L, TurnAt(k, how).trade # NoTrade
               PROVE  TurnAt(k, how).trade \in X
    BY DEF TradesIn
  <2>1. TurnAt(k, how).trade = TradeAt(k, how)
    BY TurnIs
  <2> QED BY <2>1
<1>4. RunAll(how) = TurnsTaken(turns, 1, L)
  BY Zenon DEF RunAll, RunBacktest, TurnAt
<1>5. \A i \in 1 .. L : TradeOfTurn(TurnAt(i, how)) = IF TradesAt(i, how) THEN <<TradeAt(i, how)>> ELSE <<>>
  <2> SUFFICES ASSUME NEW i \in 1 .. L
               PROVE  TradeOfTurn(TurnAt(i, how)) = IF TradesAt(i, how) THEN <<TradeAt(i, how)>> ELSE <<>>
    OBVIOUS
  <2>1. /\ ~TradesAt(i, how) => TurnAt(i, how).trade = NoTrade
        /\ TradesAt(i, how) => TurnAt(i, how).trade = TradeAt(i, how) /\ TradeAt(i, how) # NoTrade
    BY TurnIs
  <2> QED BY <2>1, Zenon DEF TradeOfTurn
<1>6. turns \in [1 .. L -> T]
  BY <1>2
<1> HIDE DEF turns, T, X
<1>3a. ASSUME NEW u \in T, NEW v \in Seq(T)
       PROVE  TradesAdd(u, v, X)
  BY <1>3, TradesOfMoreTurns
<1>7. Turns(turns, T, 1, L)
  BY <1>2 DEF Turns
<1> HIDE DEF L
<1>8. PICK run : TakenFrom(run, turns, T, 1, L) /\ TurnsTaken(turns, 1, L) = run[1]
  BY <1>1, <1>7, TurnsAreTaken
<1>9. /\ run \in [1 .. L + 1 -> Seq(T)] /\ run[L + 1] = <<>>
      /\ \A i \in 1 .. L : run[i] = <<TurnAt(i, how)>> \o run[TurnAt(i, how).then]
  BY <1>2, <1>8 DEF TakenFrom
<1>10. TradesOf(run[L + 1]) = <<>>
  BY <1>9, NoTurnsNoTrades
<1>11. ASSUME NEW i \in 1 .. L
       PROVE  /\ TradesOf(run[i]) \in Seq(X)
              /\ TradesOf(run[i]) = (IF TradesAt(i, how) THEN <<TradeAt(i, how)>> ELSE <<>>)
                                      \o TradesOf(run[TurnAt(i, how).then])
  <2> DEFINE t == TurnAt(i, how)
             s == run[t.then]
  <2>1. t \in T /\ t.then \in 1 .. L + 1
    BY <1>1, <1>2
  <2>2. s \in Seq(T) /\ run[i] = <<t>> \o s
    BY <1>9, <2>1
  <2> DEFINE h == IF TradesAt(i, how) THEN <<TradeAt(i, how)>> ELSE <<>>
  <2>2a. TradeOfTurn(t) = h
    BY <1>5
  <2> HIDE DEF t, s, h
  <2>3. /\ TradesOf(s) \in Seq(X) /\ TradeOfTurn(t) \in Seq(X)
        /\ TradesOf(<<t>> \o s) = TradeOfTurn(t) \o TradesOf(s)
    BY <1>3a, <2>1, <2>2 DEF TradesAdd
  <2>4. TradesOf(run[i]) = h \o TradesOf(s) /\ h \in Seq(X)
    BY <2>2, <2>2a, <2>3
  <2>5. TradesOf(run[i]) \in Seq(X)
    BY <2>3, <2>4
  <2> QED BY <2>4, <2>5 DEF t, s, h
<1>12. \A i \in 1 .. L + 1 : run[i] \in Seq(T) /\ TradesOf(run[i]) \in Seq(X)
  <2>1. \A i \in 1 .. L + 1 : i \in 1 .. L \/ i = L + 1
    BY <1>1
  <2>2. <<>> \in Seq(X)
    OBVIOUS
  <2> QED BY <1>9, <1>10, <1>11, <2>1, <2>2
<1>13. DOMAIN run = 1 .. L + 1 /\ RunAll(how) = run[1]
  BY <1>4, <1>8, <1>9
<1> QED BY <1>9, <1>10, <1>11, <1>12, <1>13 DEF Unfolds, L, T, X

-----------------------------------------------------------------------------
(* The backtest at the reference of the signal (realtime_replay.py): the   *)
(* certificate of parity compares the bars it decides on with those of the *)
(* replayed monitor.                                                       *)

(* The turns r taken from bar i on: in order, from i, and all the bars if   *)
(* none of them is traded.                                                 *)
AllBars(r, i) == \A n \in i .. Len(bars) : \E k \in DOMAIN r : r[k].bar = n

Visits(i, r) ==
  /\ \A k \in DOMAIN r : r[k].bar \in i .. Len(bars)
  /\ \A j, k \in DOMAIN r : j < k => r[j].bar < r[k].bar
  /\ i <= Len(bars) => \E k \in DOMAIN r : r[k].bar = i
  /\ (\A n \in i .. Len(bars) : ~TradesAt(n, AtReference)) => AllBars(r, i)

LEMMA TurnsVisit ==
  ASSUME bars \in Seq(Bar), NEW run, Unfolds(run, AtReference)
  PROVE  \A i \in 1 .. Len(bars) + 1 : Visits(i, run[i])
<1> DEFINE L == Len(bars)
           how == AtReference
           T == {TurnAt(k, how) : k \in 1 .. L}
           S == {i \in Int : Visits(i, run[i])}
<1>0. how.next \in BOOLEAN /\ how.model = NoModel /\ how = AtReference
  BY DEF AtReference
<1>1. L \in Nat /\ L = Len(bars)
  OBVIOUS
<1>2. /\ run[L + 1] = <<>>
      /\ \A i \in 1 .. L : run[i] = <<TurnAt(i, how)>> \o run[TurnAt(i, how).then]
      /\ \A i \in 1 .. L + 1 : run[i] \in Seq(T)
  BY DEF Unfolds
<1> HIDE DEF S, how, T
<1>3. ASSUME NEW i \in 1 .. L + 1, \A j \in i + 1 .. L + 1 : j \in S
      PROVE  i \in S
  <2>1. CASE i = L + 1
    <3>1. run[i] = <<>>
      BY <1>2, <2>1
    <3>2. i .. L = {} /\ DOMAIN <<>> = {} /\ ~(i <= L)
      BY <1>1, <2>1
    <3>3. Visits(i, run[i])
      BY <1>1, <3>1, <3>2 DEF Visits, AllBars
    <3> QED BY <3>3 DEF S
  <2>2. CASE i # L + 1
    <3> DEFINE t == TurnAt(i, how)
               n == t.then
               s == run[n]
               r == run[i]
    <3>1. i \in 1 .. L /\ i \in Nat
      BY <1>1, <2>2
    <3>2. /\ t.bar = i /\ n \in i + 1 .. L + 1
          /\ ~TradesAt(i, how) => n = i + 1
      BY <1>0, <3>1, TurnIs
    <3>4. n \in S /\ n \in 1 .. L + 1
      BY <1>1, <1>3, <3>1, <3>2
    <3>5. Visits(n, s) /\ s \in Seq(T)
      BY <1>2, <3>4 DEF S
    <3>6. r = <<t>> \o s
      BY <1>2, <3>1
    <3> HIDE DEF t, n, s, r
    <3>7. /\ Len(s) \in Nat /\ DOMAIN s = 1 .. Len(s) /\ DOMAIN r = 1 .. Len(s) + 1 /\ r[1] = t
          /\ \A k \in 1 .. Len(s) : r[k + 1] = s[k]
      BY <3>5, <3>6
    <3>9. \A k \in DOMAIN s : s[k].bar \in n .. L
      BY <3>5, <1>1 DEF Visits
    <3>10. ASSUME NEW k \in DOMAIN r
           PROVE  \/ k = 1 /\ r[k].bar = i
                  \/ k - 1 \in DOMAIN s /\ r[k] = s[k - 1] /\ r[k].bar \in n .. L
      <4>1. CASE k = 1
        <5>1. r[k].bar = i
          BY <3>2, <3>7, <4>1 DEF t
        <5> QED BY <4>1, <5>1
      <4>2. CASE k # 1
        <5>1. k - 1 \in 1 .. Len(s) /\ (k - 1) + 1 = k
          BY <3>7, <4>2
        <5>2. r[k] = s[k - 1]
          BY <3>7, <5>1
        <5> QED BY <3>7, <3>9, <5>1, <5>2
      <4> QED BY <4>1, <4>2
    <3>11. \A k \in DOMAIN r : r[k].bar \in i .. L
      BY <1>1, <3>1, <3>2, <3>10 DEF n
    <3>12. ASSUME NEW j \in DOMAIN r, NEW k \in DOMAIN r, j < k
           PROVE  r[j].bar < r[k].bar
      <4>1. k # 1 /\ k - 1 \in DOMAIN s /\ r[k] = s[k - 1] /\ r[k].bar \in n .. L
        BY <3>7, <3>10, <3>12
      <4>2. CASE j = 1
        <5>1. r[j].bar = i
          BY <3>2, <3>7, <4>2 DEF t
        <5> QED BY <1>1, <3>1, <3>2, <4>1, <5>1 DEF n
      <4>3. CASE j # 1
        <5>1. j - 1 \in DOMAIN s /\ r[j] = s[j - 1] /\ j - 1 < k - 1
          BY <3>7, <3>10, <3>12, <4>3
        <5>2. s[j - 1].bar < s[k - 1].bar
          BY <3>5, <4>1, <5>1 DEF Visits
        <5> QED BY <4>1, <5>1, <5>2
      <4> QED BY <4>2, <4>3
    <3>13. 1 \in DOMAIN r /\ r[1].bar = i
      BY <3>2, <3>7 DEF t
    <3>14. ASSUME \A b \in i .. L : ~TradesAt(b, how)
           PROVE  AllBars(r, i)
      <4>1. i \in i .. L /\ i + 1 .. L \subseteq i .. L
        BY <1>1, <3>1
      <4>2. n = i + 1
        BY <3>2, <3>14, <4>1 DEF n
      <4>3. AllBars(s, n)
        BY <1>0, <1>1, <3>5, <3>14, <4>1, <4>2 DEF Visits
      <4>4. ASSUME NEW b \in i .. L
            PROVE  \E k \in DOMAIN r : r[k].bar = b
        <5>1. CASE b = i
          BY <3>13, <5>1
        <5>2. CASE b # i
          <6>1. b \in n .. L
            BY <1>1, <3>1, <4>2, <5>2
          <6>2. PICK k \in DOMAIN s : s[k].bar = b
            BY <1>1, <4>3, <6>1 DEF AllBars
          <6>3. k + 1 \in DOMAIN r /\ r[k + 1] = s[k]
            BY <3>7, <6>2
          <6> QED BY <6>2, <6>3
        <5> QED BY <5>1, <5>2
      <4> QED BY <1>1, <4>4 DEF AllBars
    <3>15. i <= L => \E k \in DOMAIN r : r[k].bar = i
      BY <3>13
    <3>16. Visits(i, r)
      <4>1. (\A b \in i .. Len(bars) : ~TradesAt(b, AtReference)) => AllBars(r, i)
        BY <1>0, <1>1, <3>14
      <4> QED BY <1>1, <3>11, <3>12, <3>15, <4>1 DEF Visits
    <3> QED BY <3>16, <3>1 DEF S, r
  <2> QED BY <2>1, <2>2
<1>4. 1 .. L + 1 \subseteq S
  <2> DEFINE hi == L + 1
  <2>1. hi \in Int /\ 1 \in Int /\ \A i \in 1 .. hi : (\A j \in i + 1 .. hi : j \in S) => i \in S
    BY <1>1, <1>3
  <2> HIDE DEF hi
  <2>2. 1 .. hi \subseteq S
    BY <2>1, Backwards
  <2> QED BY <2>2 DEF hi
<1> QED BY <1>4 DEF S

(* A record that waits on a bar waits in the backtest too. *)
LEMMA SameRecordWaits ==
  ASSUME NEW d, SameRecord(d), d.action = "WAIT"
  PROVE  d.tested.action = "WAIT"
BY DEF SameRecord

LEMMA CertifiedIs ==
  ASSUME MonitorTypeOK
  PROVE  CertifiedOnlyInSilence
<1> DEFINE L == Len(bars)
           Silent == \A i \in 1 .. L : bars[i].decision.action = "WAIT" /\ SameRecord(bars[i].decision)
<1>1. bars \in Seq(Bar) /\ L \in Nat /\ DOMAIN bars = 1 .. L
  BY DEF MonitorTypeOK
<1>2. AtReference.next \in BOOLEAN /\ AtReference.model = NoModel
  BY DEF AtReference
<1>3. PICK run : Unfolds(run, AtReference)
  BY <1>1, <1>2, RunUnfolds
<1> DEFINE r == run[1]
           all == RunBacktest(bars, 1, Len(bars), AtReference, DOMAIN bars)
<1>4. Visits(1, r) /\ all = r
  <2>1. 1 \in 1 .. L + 1
    BY <1>1
  <2> QED BY <1>1, <1>3, <2>1, TurnsVisit DEF Unfolds, RunAll
<1>5. Decided = [k \in DOMAIN r |-> r[k].bar]
  <2>1. Decided = [k \in DOMAIN all |-> all[k].bar]
    BY Zenon DEF Decided
  <2> HIDE DEF all
  <2> QED BY <1>4, <2>1
<1> HIDE DEF r
<1>6. Ordered(Decided)
  <2> DEFINE s == [k \in DOMAIN r |-> r[k].bar]
  <2>1. \A i, j \in DOMAIN s : i < j => s[i] < s[j]
    BY <1>4 DEF Visits
  <2> QED BY <1>5, <2>1 DEF Ordered
<1>7. ToSet(Decided) = {r[k].bar : k \in DOMAIN r}
  BY <1>5 DEF ToSet
<1> SUFFICES ASSUME NEW first \in 1 .. L
             PROVE  Certified(first) <=> first = 1 /\ Silent
  BY <1>1, Zenon DEF CertifiedOnlyInSilence
<1>8. ToSet(Replayed(first)) = first .. L /\ Ordered(Replayed(first))
  <2> DEFINE len == L - first + 1
             s == [k \in 1 .. len |-> first + k - 1]
  <2>1. len \in Nat /\ len = L - first + 1 /\ Replayed(first) = s
    BY <1>1 DEF Replayed
  <2> HIDE DEF len
  <2>2. Ordered(s)
    BY <2>1 DEF Ordered
  <2>3. ToSet(s) = first .. L
    <3>1. \A b \in first .. L : b - first + 1 \in 1 .. len /\ s[b - first + 1] = b
      BY <2>1
    <3>2. \A k \in 1 .. len : s[k] \in first .. L
      BY <2>1
    <3> QED BY <3>1, <3>2 DEF ToSet
  <2> QED BY <2>1, <2>2, <2>3
<1>9. ToSet(Decided) \subseteq 1 .. L /\ 1 \in ToSet(Decided)
  BY <1>1, <1>4, <1>7 DEF Visits
<1>10. ASSUME Certified(first)
       PROVE  first = 1 /\ Silent
  <2>1. /\ ToSet(Decided) = first .. L
        /\ \A i \in first .. L : SameRecord(bars[i].decision)
        /\ \A i \in first .. L : bars[i].decision.action = "WAIT"
    BY <1>8, <1>10 DEF Certified, StreamsAgree, PaperConsumes
  <2>2. first = 1
    BY <1>1, <1>9, <2>1
  <2> QED BY <2>1, <2>2
<1>11. ASSUME first = 1, Silent
       PROVE  Certified(first)
  <2>1. \A n \in 1 .. Len(bars) : ~TradesAt(n, AtReference)
    BY <1>11, SameRecordWaits DEF TradesAt, Trades, Tested
  <2>2. AllBars(r, 1)
    BY <1>4, <2>1 DEF Visits
  <2>3. ToSet(Decided) = 1 .. L
    BY <1>1, <1>7, <1>9, <2>2 DEF AllBars
  <2> QED BY <1>6, <1>8, <1>9, <1>11, <2>3 DEF Certified, StreamsAgree, PaperConsumes
<1> QED BY <1>10, <1>11

-----------------------------------------------------------------------------
(* The paper session walks the bars (paper_session.py): from the signal to *)
(* the fill, from the fill to the exit, one trade after the other.         *)

(* What process_once does, with the signal that waits after it. *)
WalksOn(n) ==
  /\ seen' = Append(seen, n)
  /\ refusals' = refusals \/ refusals' = refusals \cup {n}
  /\ \/ /\ position = Flat /\ pending = 0 /\ position' = Flat /\ closed' = closed
        /\ pending' = NextPending(n, TRUE)
     \/ n \in refusals' /\ position' = Flat /\ closed' = closed
     \/ /\ position = Flat /\ pending # 0 /\ position' = Opened(Len(closed) + 1, pending, n)
        /\ ~Refused(position'.plan) /\ closed' = closed /\ pending' = 0
     \/ /\ position # Flat /\ position' = OnBar(position, n) /\ closed' = closed /\ pending' = 0
        /\ position'.outcome = "OPEN"
     \/ /\ position # Flat /\ position' = Flat /\ closed' = Append(closed, OnBar(position, n))
        /\ pending' = NextPending(n, TRUE)

LEMMA ProcessOnceWalks ==
  ASSUME PendingIsFresh, ProcessOnce
  PROVE  WalksOn(Len(bars))
<1> DEFINE n       == Len(bars)
           after   == IF position = Flat THEN Flat ELSE OnBar(position, n)
           exited  == position # Flat /\ after.outcome # "OPEN"
           free    == position = Flat \/ exited
           attempt == pending # 0 /\ free
           p       == IF attempt THEN Opened(Len(closed') + 1, pending, n) ELSE Flat
           refused == attempt /\ Refused(p.plan)
           opened  == attempt /\ ~refused
<1> SUFFICES WalksOn(n)
  OBVIOUS
<1>1. /\ closed' = IF exited THEN Append(closed, after) ELSE closed
      /\ position' = IF opened THEN p ELSE IF free THEN Flat ELSE after
      /\ pending' = IF refused THEN 0 ELSE NextPending(n, free /\ ~opened)
      /\ seen' = Append(seen, n)
      /\ refusals' = IF refused THEN refusals \cup {n} ELSE refusals
  BY DEF ProcessOnce
<1>2. pending # 0 => position = Flat
  BY DEF PendingIsFresh
<1>3. NextPending(n, FALSE) = 0
  BY DEF NextPending
<1> HIDE DEF n
<1>4. CASE position = Flat /\ pending = 0
  <2>1. ~exited /\ free /\ ~attempt /\ ~refused /\ ~opened /\ (free /\ ~opened) = TRUE
    BY <1>4
  <2> HIDE DEF exited, free, attempt, p, refused, opened, after
  <2>2. position' = Flat /\ closed' = closed /\ pending' = NextPending(n, TRUE) /\ refusals' = refusals
    BY <1>1, <2>1
  <2> QED BY <1>1, <1>4, <2>2 DEF WalksOn
<1>5. CASE position = Flat /\ pending # 0
  <2>1. ~exited /\ free /\ attempt
    BY <1>5
  <2>2. closed' = closed /\ p = Opened(Len(closed) + 1, pending, n)
    BY <1>1, <2>1
  <2>3. CASE refused
    <3>1. ~opened /\ position' = Flat /\ refusals' = refusals \cup {n}
      BY <1>1, <2>1, <2>3
    <3> QED BY <1>1, <2>2, <3>1 DEF WalksOn
  <2>4. CASE ~refused
    <3>1. opened /\ ~Refused(p.plan) /\ (free /\ ~opened) = FALSE
      BY <2>1, <2>4
    <3> HIDE DEF exited, free, attempt, p, refused, opened, after
    <3>2. position' = p /\ pending' = 0 /\ refusals' = refusals
      BY <1>1, <1>3, <2>4, <3>1
    <3> QED BY <1>1, <1>5, <2>2, <3>1, <3>2 DEF WalksOn
  <2> QED BY <2>3, <2>4
<1>6. CASE position # Flat
  <2>1. pending = 0 /\ ~attempt /\ ~refused /\ ~opened /\ after = OnBar(position, n)
    BY <1>2, <1>6
  <2>2. CASE exited
    <3>1. free /\ (free /\ ~opened) = TRUE
      BY <2>1, <2>2
    <3> HIDE DEF exited, free, attempt, p, refused, opened, after
    <3>2. position' = Flat /\ closed' = Append(closed, after) /\ pending' = NextPending(n, TRUE) /\ refusals' = refusals
      BY <1>1, <2>1, <2>2, <3>1
    <3> QED BY <1>1, <1>6, <2>1, <3>2 DEF WalksOn
  <2>3. CASE ~exited
    <3>1. ~free /\ (free /\ ~opened) = FALSE /\ after.outcome = "OPEN"
      BY <1>6, <2>1, <2>3
    <3> HIDE DEF exited, free, attempt, p, refused, opened, after
    <3>2. position' = after /\ closed' = closed /\ pending' = 0 /\ refusals' = refusals
      BY <1>1, <1>3, <2>1, <2>3, <3>1
    <3> QED BY <1>1, <1>6, <2>1, <3>1, <3>2 DEF WalksOn
  <2> QED BY <2>2, <2>3
<1> QED BY <1>4, <1>5, <1>6

-----------------------------------------------------------------------------
(* The walk of a session that processed every bar, was never refused and    *)
(* closed no trade on a bar with a signal.                                 *)

(* p is the trade of its signal, filled on the next bar. *)
Filled(p, bs, m) ==
  LET d == bs[p.signal].decision
  IN  /\ p.signal \in 1 .. m /\ p.bar = p.signal + 1 /\ p.bar <= m
      /\ p.plan = BuildRiskPlan(d.action, EntryPrice(bs[p.bar].open, d.action, Cost), SessionStop(d))
      /\ ~Refused(p.plan) /\ d.action # "WAIT"

Untroubled ==
  /\ \A i \in DOMAIN seen : seen[i] = i
  /\ refusals = {}
  /\ \A i \in DOMAIN closed : bars[closed[i].exit].decision.action = "WAIT"

(* After m bars: the closed trades came one after another, the position     *)
(* after them, and every bar is a wait, waits, or belongs to a trade.       *)
Walked(bs, m, c, pos, pend) ==
  /\ \A i \in DOMAIN c : /\ Filled(c[i], bs, m) /\ c[i].exit = c[i].bar + c[i].held
                         /\ c[i].held >= 1 /\ c[i].exit <= m
  /\ \A i, j \in DOMAIN c : i < j => c[i].exit < c[j].signal
  /\ pos # Flat => Filled(pos, bs, m) /\ pos.bar + pos.held = m /\ \A i \in DOMAIN c : c[i].exit < pos.signal
  /\ pend # 0 => pend = m /\ bs[m].decision.action # "WAIT" /\ \A i \in DOMAIN c : c[i].exit < m
  /\ \A b \in 1 .. m : \/ bs[b].decision.action = "WAIT"
                       \/ b = pend
                       \/ pos # Flat /\ pos.signal <= b
                       \/ \E i \in DOMAIN c : b \in c[i].signal .. c[i].exit

WalkInv ==
  /\ position # Flat => position.outcome = "OPEN"
  /\ \A i \in DOMAIN closed : closed[i].exit \in 1 .. Len(bars)
  /\ Untroubled => Walked(bars, Len(seen), closed, position, pending)

LEMMA FilledMore ==
  ASSUME NEW bs, NEW more, NEW m \in Nat, NEW n \in Nat, m <= n, \A b \in 1 .. m : more[b] = bs[b],
         NEW p, p.signal \in Nat, Filled(p, bs, m)
  PROVE  Filled(p, more, n)
<1>1. /\ p.signal \in 1 .. m /\ p.bar = p.signal + 1 /\ p.bar <= m
  BY DEF Filled
<1>2. p.signal \in 1 .. n /\ p.bar <= n /\ p.bar \in 1 .. m
  BY <1>1
<1>3. more[p.signal] = bs[p.signal] /\ more[p.bar] = bs[p.bar]
  BY <1>1, <1>2
<1> QED BY <1>1, <1>2, <1>3 DEF Filled

LEMMA WalkedOnMore ==
  ASSUME NEW bs, NEW more, NEW m \in Nat, \A b \in 1 .. m : more[b] = bs[b],
         NEW c \in Seq(SessionTrades), NEW pos \in SessionTrades \cup {Flat}, NEW pend \in 0 .. m,
         Walked(bs, m, c, pos, pend)
  PROVE  Walked(more, m, c, pos, pend)
<1>1. \A p \in SessionTrades : Filled(p, bs, m) => Filled(p, more, m)
  <2> SUFFICES ASSUME NEW p \in SessionTrades, Filled(p, bs, m) PROVE Filled(p, more, m)
    OBVIOUS
  <2>1. p.signal \in Nat /\ m <= m
    BY DEF SessionTrades
  <2> QED BY <2>1, FilledMore
<1>2. \A i \in DOMAIN c : c[i] \in SessionTrades
  OBVIOUS
<1>3. pend # 0 => pend = m /\ pend \in 1 .. m
  BY DEF Walked
<1> QED BY <1>1, <1>2, <1>3 DEF Walked

LEMMA TradesFilledMore ==
  ASSUME NEW bs, NEW m \in Nat, NEW p \in SessionTrades, Filled(p, bs, m)
  PROVE  Filled(p, bs, m + 1)
<1>1. p.signal \in Nat /\ m + 1 \in Nat /\ m <= m + 1
  BY DEF SessionTrades
<1> DEFINE n == m + 1
<1> HIDE DEF n
<1>2. n \in Nat /\ m <= n
  BY <1>1 DEF n
<1>3. Filled(p, bs, n)
  BY <1>1, <1>2, FilledMore
<1> QED BY <1>3 DEF n

LEMMA WalkWaits ==
  ASSUME NEW bs, NEW m \in Nat, NEW c \in Seq(SessionTrades), Walked(bs, m, c, Flat, 0)
  PROVE  Walked(bs, m + 1, c, Flat, IF bs[m + 1].decision.action # "WAIT" THEN m + 1 ELSE 0)
<1>1. \A i \in DOMAIN c : c[i] \in SessionTrades /\ c[i].exit \in Nat
  <2>1. \A i \in DOMAIN c : c[i] \in SessionTrades
    OBVIOUS
  <2>2. \A t \in SessionTrades : t.exit \in Nat
    BY DEF SessionTrades
  <2> QED BY <2>1, <2>2
<1>2. \A i \in DOMAIN c : /\ Filled(c[i], bs, m + 1) /\ c[i].exit = c[i].bar + c[i].held
                          /\ c[i].held >= 1 /\ c[i].exit <= m + 1 /\ c[i].exit < m + 1
  <2> SUFFICES ASSUME NEW i \in DOMAIN c
               PROVE  /\ Filled(c[i], bs, m + 1) /\ c[i].exit = c[i].bar + c[i].held
                      /\ c[i].held >= 1 /\ c[i].exit <= m + 1 /\ c[i].exit < m + 1
    OBVIOUS
  <2>1. Filled(c[i], bs, m) /\ c[i].exit = c[i].bar + c[i].held /\ c[i].held >= 1 /\ c[i].exit <= m
    BY DEF Walked
  <2>2. Filled(c[i], bs, m + 1)
    BY <1>1, <2>1, TradesFilledMore
  <2> QED BY <1>1, <2>1, <2>2
<1> DEFINE n == m + 1
           pend == IF bs[n].decision.action # "WAIT" THEN n ELSE 0
<1>3. \A b \in 1 .. m + 1 : b \in 1 .. m \/ b = m + 1
  OBVIOUS
<1>4. \A b \in 1 .. m : \/ bs[b].decision.action = "WAIT"
                        \/ \E i \in DOMAIN c : b \in c[i].signal .. c[i].exit
  BY DEF Walked
<1>5. \A i, j \in DOMAIN c : i < j => c[i].exit < c[j].signal
  BY DEF Walked
<1>6. /\ pend # 0 => pend = n /\ bs[n].decision.action # "WAIT"
      /\ pend = n \/ bs[n].decision.action = "WAIT"
  OBVIOUS
<1> SUFFICES Walked(bs, n, c, Flat, pend)
  OBVIOUS
<1> HIDE DEF pend
<1> QED BY <1>2, <1>3, <1>4, <1>5, <1>6 DEF Walked

LEMMA WalkOpens ==
  ASSUME NEW bs, NEW m \in Nat \ {0}, NEW c \in Seq(SessionTrades), NEW p \in SessionTrades,
         Walked(bs, m, c, Flat, m), p.signal = m, p.bar = m + 1, p.held = 0, ~Refused(p.plan),
         p.plan = BuildRiskPlan(bs[m].decision.action,
                                EntryPrice(bs[m + 1].open, bs[m].decision.action, Cost),
                                SessionStop(bs[m].decision))
  PROVE  Walked(bs, m + 1, c, p, 0)
<1>1. \A i \in DOMAIN c : c[i] \in SessionTrades /\ c[i].exit \in Nat
  <2>1. \A i \in DOMAIN c : c[i] \in SessionTrades
    OBVIOUS
  <2>2. \A t \in SessionTrades : t.exit \in Nat
    BY DEF SessionTrades
  <2> QED BY <2>1, <2>2
<1>2. \A i \in DOMAIN c : /\ Filled(c[i], bs, m + 1) /\ c[i].exit = c[i].bar + c[i].held
                          /\ c[i].held >= 1 /\ c[i].exit <= m + 1 /\ c[i].exit < m
  <2> SUFFICES ASSUME NEW i \in DOMAIN c
               PROVE  /\ Filled(c[i], bs, m + 1) /\ c[i].exit = c[i].bar + c[i].held
                      /\ c[i].held >= 1 /\ c[i].exit <= m + 1 /\ c[i].exit < m
    OBVIOUS
  <2>1. /\ Filled(c[i], bs, m) /\ c[i].exit = c[i].bar + c[i].held /\ c[i].held >= 1 /\ c[i].exit <= m
        /\ c[i].exit < m
    BY DEF Walked
  <2>2. Filled(c[i], bs, m + 1)
    BY <1>1, <2>1, TradesFilledMore
  <2> QED BY <1>1, <2>1, <2>2
<1>3. bs[m].decision.action # "WAIT"
  BY DEF Walked
<1>4. Filled(p, bs, m + 1) /\ p.bar + p.held = m + 1
  <2>1. p.signal \in 1 .. m + 1 /\ p.bar = p.signal + 1 /\ p.bar <= m + 1 /\ p.bar + p.held = m + 1
    OBVIOUS
  <2>2. p.plan = BuildRiskPlan(bs[p.signal].decision.action,
                   EntryPrice(bs[p.bar].open, bs[p.signal].decision.action, Cost),
                   SessionStop(bs[p.signal].decision))
    BY Zenon
  <2> QED BY <1>3, <2>1, <2>2 DEF Filled
<1>5. \A b \in 1 .. m + 1 : \/ bs[b].decision.action = "WAIT"
                            \/ p.signal <= b
                            \/ \E i \in DOMAIN c : b \in c[i].signal .. c[i].exit
  <2>1. \A b \in 1 .. m : \/ bs[b].decision.action = "WAIT" \/ b = m
                          \/ \E i \in DOMAIN c : b \in c[i].signal .. c[i].exit
    BY DEF Walked
  <2>2. \A b \in 1 .. m + 1 : b \in 1 .. m \/ b = m + 1
    OBVIOUS
  <2>3. p.signal <= m /\ p.signal <= m + 1
    OBVIOUS
  <2> QED BY <2>1, <2>2, <2>3
<1>6. \A i, j \in DOMAIN c : i < j => c[i].exit < c[j].signal
  BY DEF Walked
<1>7. p # Flat
  BY FlatIsNoTrade
<1> QED BY <1>2, <1>4, <1>5, <1>6, <1>7 DEF Walked

LEMMA WalkHolds ==
  ASSUME NEW bs, NEW m \in Nat, NEW c \in Seq(SessionTrades), NEW p \in SessionTrades, NEW q \in SessionTrades,
         Walked(bs, m, c, p, 0), q.signal = p.signal, q.bar = p.bar, q.plan = p.plan, q.held = p.held + 1
  PROVE  Walked(bs, m + 1, c, q, 0)
<1>1. \A i \in DOMAIN c : c[i] \in SessionTrades /\ c[i].exit \in Nat
  <2>1. \A i \in DOMAIN c : c[i] \in SessionTrades
    OBVIOUS
  <2>2. \A t \in SessionTrades : t.exit \in Nat
    BY DEF SessionTrades
  <2> QED BY <2>1, <2>2
<1>2. p # Flat /\ q # Flat
  BY FlatIsNoTrade
<1>3. Filled(p, bs, m) /\ p.bar + p.held = m /\ \A i \in DOMAIN c : c[i].exit < p.signal
  BY <1>2 DEF Walked
<1>4. \A i \in DOMAIN c : /\ Filled(c[i], bs, m + 1) /\ c[i].exit = c[i].bar + c[i].held
                          /\ c[i].held >= 1 /\ c[i].exit <= m + 1 /\ c[i].exit < q.signal
  <2> SUFFICES ASSUME NEW i \in DOMAIN c
               PROVE  /\ Filled(c[i], bs, m + 1) /\ c[i].exit = c[i].bar + c[i].held
                      /\ c[i].held >= 1 /\ c[i].exit <= m + 1 /\ c[i].exit < q.signal
    OBVIOUS
  <2>1. Filled(c[i], bs, m) /\ c[i].exit = c[i].bar + c[i].held /\ c[i].held >= 1 /\ c[i].exit <= m
    BY DEF Walked
  <2>2. Filled(c[i], bs, m + 1)
    BY <1>1, <2>1, TradesFilledMore
  <2> QED BY <1>1, <1>3, <2>1, <2>2
<1>5. Filled(q, bs, m + 1) /\ q.bar + q.held = m + 1
  <2>1. Filled(p, bs, m + 1)
    BY <1>3, TradesFilledMore
  <2>2. Filled(q, bs, m + 1)
    BY <2>1 DEF Filled
  <2>3. p.bar \in Nat /\ p.held \in Nat
    BY DEF SessionTrades
  <2> QED BY <1>3, <2>2, <2>3
<1>6. \A b \in 1 .. m + 1 : \/ bs[b].decision.action = "WAIT"
                            \/ q.signal <= b
                            \/ \E i \in DOMAIN c : b \in c[i].signal .. c[i].exit
  <2>1. \A b \in 1 .. m : \/ bs[b].decision.action = "WAIT" \/ p.signal <= b
                          \/ \E i \in DOMAIN c : b \in c[i].signal .. c[i].exit
    BY DEF Walked
  <2>2. \A b \in 1 .. m + 1 : b \in 1 .. m \/ b = m + 1
    OBVIOUS
  <2>3. q.signal <= m + 1
    BY <1>5 DEF Filled
  <2> QED BY <2>1, <2>2, <2>3
<1>7. \A i, j \in DOMAIN c : i < j => c[i].exit < c[j].signal
  BY DEF Walked
<1> QED BY <1>2, <1>4, <1>5, <1>6, <1>7 DEF Walked

LEMMA WalkCloses ==
  ASSUME NEW bs, NEW m \in Nat, NEW c \in Seq(SessionTrades), NEW p \in SessionTrades, NEW q \in SessionTrades,
         Walked(bs, m, c, p, 0), q.signal = p.signal, q.bar = p.bar, q.plan = p.plan, q.held = p.held + 1,
         q.exit = m + 1, bs[m + 1].decision.action = "WAIT"
  PROVE  Walked(bs, m + 1, Append(c, q), Flat, 0)
<1> DEFINE C == Len(c)
           e == Append(c, q)
<1>0. /\ C \in Nat /\ DOMAIN c = 1 .. C /\ DOMAIN e = 1 .. C + 1 /\ e[C + 1] = q
      /\ \A i \in DOMAIN c : e[i] = c[i] /\ i \in DOMAIN e
  OBVIOUS
<1>1. \A i \in DOMAIN c : c[i] \in SessionTrades
  OBVIOUS
<1> HIDE DEF e, C
<1>2. Walked(bs, m + 1, c, q, 0)
  BY WalkHolds
<1>3. q # Flat
  BY FlatIsNoTrade
<1>4. Filled(q, bs, m + 1) /\ q.bar + q.held = m + 1 /\ \A i \in DOMAIN c : c[i].exit < q.signal
  BY <1>2, <1>3 DEF Walked
<1>5. ASSUME NEW i \in DOMAIN e
      PROVE  /\ Filled(e[i], bs, m + 1) /\ e[i].exit = e[i].bar + e[i].held
             /\ e[i].held >= 1 /\ e[i].exit <= m + 1
  <2>1. CASE i \in DOMAIN c
    BY <1>0, <1>2, <2>1 DEF Walked
  <2>2. CASE i = C + 1
    <3>1. q.held >= 1
      BY DEF SessionTrades
    <3> QED BY <1>0, <1>4, <2>2, <3>1
  <2> QED BY <1>0, <2>1, <2>2
<1>6. ASSUME NEW i \in DOMAIN e, NEW j \in DOMAIN e, i < j
      PROVE  e[i].exit < e[j].signal
  <2>1. i \in DOMAIN c
    BY <1>0, <1>6
  <2>2. CASE j \in DOMAIN c
    <3>1. c[i].exit < c[j].signal
      BY <1>2, <1>6, <2>1, <2>2 DEF Walked
    <3> QED BY <1>0, <2>1, <2>2, <3>1
  <2>3. CASE j = C + 1
    BY <1>0, <1>4, <2>1, <2>3
  <2> QED BY <1>0, <2>2, <2>3
<1>7. ASSUME NEW b \in 1 .. m + 1
      PROVE  \/ bs[b].decision.action = "WAIT"
             \/ \E i \in DOMAIN e : b \in e[i].signal .. e[i].exit
  <2>1. \/ bs[b].decision.action = "WAIT" \/ q.signal <= b
        \/ \E i \in DOMAIN c : b \in c[i].signal .. c[i].exit
    BY <1>2 DEF Walked
  <2>2. CASE q.signal <= b
    <3>1. C + 1 \in DOMAIN e /\ e[C + 1] = q /\ q.signal \in Nat
      BY <1>0 DEF SessionTrades
    <3>2. b \in q.signal .. q.exit
      BY <2>2, <3>1
    <3> QED BY <3>1, <3>2
  <2>3. CASE \E i \in DOMAIN c : b \in c[i].signal .. c[i].exit
    <3>1. PICK i \in DOMAIN c : b \in c[i].signal .. c[i].exit
      BY <2>3
    <3>2. i \in DOMAIN e /\ e[i] = c[i]
      BY <1>0, <3>1
    <3> QED BY <3>1, <3>2
  <2> QED BY <2>1, <2>2, <2>3
<1>8. Walked(bs, m + 1, e, Flat, 0)
  BY <1>5, <1>6, <1>7 DEF Walked
<1> QED BY <1>8 DEF e

LEMMA OnBarKeeps ==
  ASSUME NEW p \in SessionTrades, NEW n \in Nat
  PROVE  OnBar(p, n).signal = p.signal /\ OnBar(p, n).exit = n
<1> DEFINE o == IF HitStop(p.plan, bars[n], 0) THEN "LOSS"
                ELSE IF HitTarget(p.plan, bars[n], 0) THEN "WIN" ELSE "OPEN"
<1>1. OnBar(p, n) = [p EXCEPT !.held = @ + 1, !.exit = n, !.outcome = o]
  BY DEF OnBar
<1> HIDE DEF o
<1> QED BY <1>1 DEF SessionTrades

LEMMA InitWalk ==
  ASSUME SessionInit
  PROVE  WalkInv
<1>1. position = Flat /\ pending = 0 /\ closed = <<>> /\ seen = <<>>
  BY DEF SessionInit
<1>2. DOMAIN closed = {} /\ Len(seen) = 0 /\ 1 .. Len(seen) = {}
  BY <1>1
<1> QED BY <1>1, <1>2 DEF WalkInv, Walked

(* A session that saw every bar so far saw no other. *)
LEMMA WalkIsTyped ==
  ASSUME MonitorTypeOK, SessionInv
  PROVE  /\ bars \in Seq(Bar) /\ Len(bars) \in Nat /\ Len(seen) \in Nat
         /\ closed \in Seq(SessionTrades) /\ position \in SessionTrades \cup {Flat}
         /\ Untroubled => Len(seen) <= Len(bars) /\ pending \in 0 .. Len(seen)
<1>1. /\ bars \in Seq(Bar) /\ Len(bars) \in Nat /\ Len(seen) \in Nat /\ seen \in Seq(1 .. Len(bars))
      /\ closed \in Seq(SessionTrades) /\ position \in SessionTrades \cup {Flat}
      /\ pending \in 0 .. Len(bars) /\ PendingIsFresh
  BY DEF MonitorTypeOK, SessionInv, SessionTypeOK
<1>2. ASSUME Untroubled
      PROVE  Len(seen) <= Len(bars) /\ pending \in 0 .. Len(seen)
  <2>1. \A i \in 1 .. Len(seen) : seen[i] = i /\ seen[i] \in 1 .. Len(bars)
    BY <1>1, <1>2 DEF Untroubled
  <2>2. Len(seen) <= Len(bars)
    <3>1. CASE Len(seen) = 0
      BY <1>1, <3>1
    <3>2. CASE Len(seen) # 0
      <4>1. Len(seen) \in 1 .. Len(seen)
        BY <1>1, <3>2
      <4>2. Len(seen) \in 1 .. Len(bars)
        BY <2>1, <4>1
      <4> QED BY <1>1, <4>2
    <3> QED BY <3>1, <3>2
  <2>3. pending # 0 => pending = Len(seen)
    <3> SUFFICES ASSUME pending # 0 PROVE pending = Len(seen)
      OBVIOUS
    <3>1. seen # <<>> /\ pending = seen[Len(seen)]
      BY <1>1 DEF PendingIsFresh, Last
    <3>2. Len(seen) \in 1 .. Len(seen)
      BY <1>1, <3>1
    <3> QED BY <2>1, <3>1, <3>2
  <2> QED BY <1>1, <2>2, <2>3
<1> QED BY <1>1, <1>2

LEMMA MarketKeepsWalk ==
  ASSUME MonitorTypeOK, SessionInv, WalkInv, NEW c \in Candles, NEW d \in Decisions, CloseBar(c, d),
         UNCHANGED sessionVars
  PROVE  WalkInv'
<1>1. /\ Len(bars') = Len(bars) + 1 /\ \A n \in 1 .. Len(bars) : bars'[n] = bars[n]
  BY MarketKeepsMonitor
<1>2. UNCHANGED <<pending, position, closed, seen, refusals>>
  BY DEF sessionVars
<1>3. /\ Len(bars) \in Nat /\ Len(seen) \in Nat
      /\ closed \in Seq(SessionTrades) /\ position \in SessionTrades \cup {Flat}
      /\ Untroubled => Len(seen) <= Len(bars) /\ pending \in 0 .. Len(seen)
  BY WalkIsTyped
<1>4. \A i \in DOMAIN closed : closed[i].exit \in 1 .. Len(bars)
  BY DEF WalkInv
<1>5. ASSUME Untroubled'
      PROVE  Walked(bars', Len(seen), closed, position, pending)
  <2>1. Untroubled
    <3>1. \A i \in DOMAIN closed : bars'[closed[i].exit].decision.action = "WAIT"
      BY <1>2, <1>5 DEF Untroubled
    <3>2. \A i \in DOMAIN closed : bars[closed[i].exit].decision.action = "WAIT"
      BY <1>1, <1>4, <3>1
    <3> QED BY <1>2, <1>5, <3>2 DEF Untroubled
  <2>2. Walked(bars, Len(seen), closed, position, pending)
    BY <2>1 DEF WalkInv
  <2>3. \A b \in 1 .. Len(seen) : bars'[b] = bars[b]
    BY <1>1, <1>3, <2>1
  <2> QED BY <1>3, <2>1, <2>2, <2>3, WalkedOnMore
<1>6. \A i \in DOMAIN closed' : closed'[i].exit \in 1 .. Len(bars')
  <2>1. \A i \in DOMAIN closed : closed[i].exit \in 1 .. Len(bars')
    BY <1>1, <1>3, <1>4
  <2> QED BY <1>2, <2>1
<1>7. Untroubled' => Walked(bars', Len(seen'), closed', position', pending')
  BY <1>2, <1>5
<1>8. (position # Flat => position.outcome = "OPEN")'
  BY <1>2 DEF WalkInv, Flat
<1> QED BY <1>6, <1>7, <1>8 DEF WalkInv

LEMMA LostBarKeepsWalk ==
  ASSUME WalkInv, EvaluationFails
  PROVE  WalkInv'
<1>1. UNCHANGED <<bars, pending, position, closed, seen, refusals>>
  BY DEF EvaluationFails, Accept, sessionVars
<1>2. (Untroubled' <=> Untroubled)
  BY <1>1 DEF Untroubled
<1>3. (position # Flat => position.outcome = "OPEN")'
  BY <1>1 DEF WalkInv, Flat
<1> QED BY <1>1, <1>2, <1>3 DEF WalkInv

LEMMA ProcessOnceKeepsWalk ==
  ASSUME MonitorTypeOK, SessionInv, WalkInv, ProcessOnce
  PROVE  WalkInv'
<1> DEFINE n == Len(bars)
           m == Len(seen)
<1>1. bars' = bars
  BY DEF ProcessOnce, Accept
<1>2. /\ bars \in Seq(Bar) /\ n \in Nat /\ m \in Nat /\ n \in 1 .. n
      /\ closed \in Seq(SessionTrades) /\ position \in SessionTrades \cup {Flat}
      /\ pending \in 0 .. n /\ PendingIsFresh
  BY WalkIsTyped, AcceptKeepsMonitor DEF ProcessOnce, SessionInv, SessionTypeOK
<1>3. WalksOn(n)
  BY <1>2, ProcessOnceWalks
<1>4. \A i \in DOMAIN closed : closed[i].exit \in 1 .. n
  BY DEF WalkInv
<1>5. seen' = Append(seen, n) /\ (refusals' = refusals \/ refusals' = refusals \cup {n})
  BY <1>3 DEF WalksOn
<1>6. closed' = closed \/ (closed' = Append(closed, OnBar(position, n)) /\ position \in SessionTrades)
  BY <1>2, <1>3 DEF WalksOn
<1>7. \A i \in DOMAIN closed : i \in DOMAIN closed' /\ closed'[i] = closed[i]
  BY <1>2, <1>6
<1>8. \A i \in DOMAIN closed' : closed'[i].exit \in 1 .. n
  <2>1. CASE closed' = closed
    BY <1>4, <2>1
  <2>2. CASE closed' = Append(closed, OnBar(position, n)) /\ position \in SessionTrades
    <3> DEFINE q == OnBar(position, n)
    <3>1. q.exit = n
      BY <1>2, <2>2, OnBarKeeps
    <3> HIDE DEF q, n
    <3> SUFFICES ASSUME NEW i \in DOMAIN closed' PROVE closed'[i].exit \in 1 .. n
      OBVIOUS
    <3>2. closed' = Append(closed, q)
      BY <2>2 DEF q
    <3>3. i \in DOMAIN closed \/ closed'[i] = q
      BY <1>2, <3>2
    <3> QED BY <1>2, <1>4, <1>7, <3>1, <3>3
  <2> QED BY <1>6, <2>1, <2>2
<1>9. ASSUME Untroubled'
      PROVE  Walked(bars, m + 1, closed', position', pending')
  <2>1. Untroubled
    <3>1. \A i \in DOMAIN seen : i \in DOMAIN seen' /\ seen'[i] = seen[i]
      BY <1>5 DEF SessionInv, SessionTypeOK
    <3>2. \A i \in DOMAIN seen : seen[i] = i
      BY <1>9, <3>1 DEF Untroubled
    <3>3. refusals = {}
      BY <1>5, <1>9 DEF Untroubled
    <3>4. \A i \in DOMAIN closed : bars[closed[i].exit].decision.action = "WAIT"
      BY <1>1, <1>7, <1>9 DEF Untroubled
    <3> QED BY <3>2, <3>3, <3>4 DEF Untroubled
  <2>2. n = m + 1
    <3>1. m + 1 \in DOMAIN seen' /\ seen'[m + 1] = n
      BY <1>2, <1>5 DEF SessionInv, SessionTypeOK
    <3> QED BY <1>9, <3>1 DEF Untroubled
  <2>3. Walked(bars, m, closed, position, pending) /\ pending \in 0 .. m
    BY <2>1, WalkIsTyped DEF WalkInv
  <2>4. n \notin refusals'
    BY <1>9 DEF Untroubled
  <2>5. NextPending(n, TRUE) = IF bars[n].decision.action # "WAIT" THEN n ELSE 0
    BY DEF NextPending
  <2>6. CASE /\ position = Flat /\ pending = 0 /\ position' = Flat /\ closed' = closed
             /\ pending' = NextPending(n, TRUE)
    <3>1. Walked(bars, m + 1, closed, Flat, IF bars[m + 1].decision.action # "WAIT" THEN m + 1 ELSE 0)
      BY <1>2, <2>3, <2>6, WalkWaits
    <3> QED BY <2>2, <2>5, <2>6, <3>1
  <2>7. CASE /\ position = Flat /\ pending # 0 /\ position' = Opened(Len(closed) + 1, pending, n)
             /\ ~Refused(position'.plan) /\ closed' = closed /\ pending' = 0
    <3> DEFINE id == Len(closed) + 1
               p  == Opened(id, pending, n)
               d  == bars[pending].decision
    <3>1. pending = m /\ m \in Nat \ {0}
      BY <1>2, <2>3, <2>7 DEF Walked
    <3>2. id \in Nat \ {0} /\ pending \in 1 .. Len(bars)
      BY <1>2, <2>7
    <3> HIDE DEF id
    <3>3. p \in SessionTrades /\ p.bar = n /\ p.held = 0
      BY <1>2, <3>2, OpenedType
    <3>4. p.signal = pending /\ p.plan = BuildRiskPlan(d.action, EntryPrice(bars[n].open, d.action, Cost), SessionStop(d))
      BY Zenon DEF Opened
    <3>5. position' = p
      BY <2>7 DEF id
    <3> HIDE DEF p, d
    <3>6. /\ p.signal = m /\ p.bar = m + 1 /\ p.held = 0 /\ ~Refused(p.plan)
          /\ Walked(bars, m, closed, Flat, m)
          /\ p.plan = BuildRiskPlan(bars[m].decision.action,
                        EntryPrice(bars[m + 1].open, bars[m].decision.action, Cost),
                        SessionStop(bars[m].decision))
      BY <2>2, <2>3, <2>7, <3>1, <3>3, <3>4, <3>5 DEF d
    <3> HIDE DEF m
    <3>7. Walked(bars, m + 1, closed, p, 0)
      BY <1>2, <3>1, <3>3, <3>6, WalkOpens
    <3> QED BY <2>7, <3>5, <3>7
  <2>8. CASE position # Flat
    <3> DEFINE q == OnBar(position, n)
    <3>1. position \in SessionTrades
      BY <1>2, <2>8
    <3>2. /\ q \in SessionTrades /\ q.signal = position.signal /\ q.bar = position.bar
          /\ q.plan = position.plan /\ q.held = position.held + 1 /\ q.exit = n
      BY <1>2, <3>1, OnBarIs, OnBarKeeps
    <3>3. pending = 0
      BY <1>2, <2>8 DEF PendingIsFresh
    <3>4. Walked(bars, m, closed, position, 0)
      BY <2>3, <3>3
    <3> HIDE DEF q
    <3>5. CASE position' = OnBar(position, n) /\ closed' = closed /\ pending' = 0
      <4>1. Walked(bars, m + 1, closed, q, 0)
        BY <1>2, <3>1, <3>2, <3>4, WalkHolds
      <4> QED BY <3>5, <4>1 DEF q
    <3>6. CASE /\ position' = Flat /\ closed' = Append(closed, OnBar(position, n))
               /\ pending' = NextPending(n, TRUE)
      <4>1. bars[n].decision.action = "WAIT"
        <5>1. closed' = Append(closed, q)
          BY <3>6 DEF q
        <5>2. Len(closed) + 1 \in DOMAIN closed' /\ closed'[Len(closed) + 1] = q
          BY <1>2, <3>2, <5>1
        <5> QED BY <1>1, <1>9, <3>2, <5>2 DEF Untroubled
      <4>2. Walked(bars, m + 1, Append(closed, q), Flat, 0)
        BY <1>2, <2>2, <3>1, <3>2, <3>4, <4>1, WalkCloses
      <4>3. pending' = 0
        BY <2>5, <3>6, <4>1
      <4> QED BY <3>6, <4>2, <4>3 DEF q
    <3> QED BY <1>3, <2>4, <2>8, <3>5, <3>6 DEF WalksOn
  <2> QED BY <1>3, <2>4, <2>6, <2>7, <2>8 DEF WalksOn
<1>10. Len(seen') = m + 1
  BY <1>2, <1>5 DEF SessionInv, SessionTypeOK
<1>11. (position # Flat => position.outcome = "OPEN")'
  <2>1. Flat' = Flat
    BY DEF Flat
  <2>2. \A id : Opened(id, pending, n).outcome = "OPEN"
    BY DEF Opened
  <2> QED BY <1>3, <2>1, <2>2 DEF WalksOn
<1> QED BY <1>1, <1>8, <1>9, <1>10, <1>11 DEF WalkInv

-----------------------------------------------------------------------------
(* The session is the backtest of its bars: trade by trade, and then from  *)
(* the last bar back to the first.                                         *)

(* Both decide the same on every bar. *)
BothDecideTheSame == \A i \in DOMAIN bars : DecidesTheSame(bars[i].decision)

(* p, whose bars are those from its entry on, has the plan of its signal.   *)
LEMMA FilledIsPlanned ==
  ASSUME MonitorTypeOK, Cost = 0, BothDecideTheSame, NEW p \in SessionTrades, Filled(p, bars, Len(bars))
  PROVE  /\ p.signal \in 1 .. Len(bars) /\ TradesAt(p.signal, AtNextOpen)
         /\ FillBar(p.signal, AtNextOpen) = p.bar /\ p.bar = p.signal + 1
         /\ p.plan = PlanAt(p.signal, AtNextOpen) /\ Refused(p.plan) = FALSE
         /\ CandlesFrom(Ahead(p.signal, AtNextOpen), p.bar)
<1> DEFINE s == p.signal
           n == p.bar
           d == bars[s].decision
           t == Tested(bars, s)
           L == Len(bars)
<1>0. L \in Nat /\ DOMAIN bars = 1 .. L /\ bars \in Seq(Bar)
  BY DEF MonitorTypeOK
<1>1. /\ s \in 1 .. L /\ n = s + 1 /\ n <= L /\ d.action # "WAIT" /\ ~Refused(p.plan)
      /\ p.plan = BuildRiskPlan(d.action, EntryPrice(bars[n].open, d.action, Cost), SessionStop(d))
  BY Zenon DEF Filled
<1>1a. d.action = t.action /\ SessionStop(d) = t.stop
  BY <1>0, <1>1 DEF BothDecideTheSame, DecidesTheSame, Tested
<1>2. AtNextOpen.next = TRUE /\ AtNextOpen.next \in BOOLEAN
  BY DEF AtNextOpen
<1>3. FillBar(s, AtNextOpen) = n
  BY <1>1, <1>2 DEF FillBar
<1>4. TradesAt(s, AtNextOpen)
  <2>1. s # L /\ s \in DOMAIN bars
    BY <1>0, <1>1
  <2> QED BY <1>1, <1>1a, <2>1 DEF TradesAt, Trades
<1>5. EntryPrice(bars[n].open, d.action, Cost) = bars[n].open
  <2>1. n \in 1 .. L
    BY <1>0, <1>1
  <2> HIDE DEF n, d
  <2>2. bars[n].open \in Int
    BY <1>0, <2>1, BarTypes
  <2> DEFINE price == bars[n].open
  <2>3. price + 0 = price /\ price - 0 = price
    BY <2>2
  <2> QED BY <2>3 DEF EntryPrice
<1>6. p.plan = PlanAt(s, AtNextOpen)
  <2>1. FillPrice(s, AtNextOpen) = bars[n].open
    BY <1>2, <1>3, Zenon DEF FillPrice
  <2>2. p.plan = BuildRiskPlan(t.action, bars[n].open, t.stop)
    BY <1>1, <1>1a, <1>5, Zenon
  <2> QED BY <2>1, <2>2, Zenon DEF PlanAt
<1>7. Refused(p.plan) = FALSE
  <2>1. p.plan.risk \in Int
    BY DEF SessionTrades, Plans
  <2> QED BY <1>1, <2>1 DEF Refused
<1> HIDE DEF s, n, d, t, L
<1>8. CandlesFrom(Ahead(s, AtNextOpen), n)
  <2>1. CandlesFrom(Ahead(s, AtNextOpen), FillBar(s, AtNextOpen))
    BY <1>0, <1>1, <1>2, <1>4, AheadIs DEF L
  <2> QED BY <1>3, <2>1
<1> QED BY <1>1, <1>3, <1>4, <1>6, <1>7, <1>8 DEF s, n, L

(* The backtest makes the same trade of the signal. *)
LEMMA SameTrade ==
  ASSUME NEW p \in SessionTrades, NEW h \in Nat,
         FillBar(p.signal, AtNextOpen) = p.bar, p.plan = PlanAt(p.signal, AtNextOpen), Refused(p.plan) = FALSE,
         SimulateExit(p.plan, Ahead(p.signal, AtNextOpen)) = [outcome |-> p.outcome, held |-> h],
         p.held = h
  PROVE  TradeAt(p.signal, AtNextOpen) = TradeOf(p)
<1>1. AtNextOpen.model = NoModel
  BY DEF AtNextOpen
<1> DEFINE s == p.signal
           exit == SimulateExit(PlanAt(s, AtNextOpen), Ahead(s, AtNextOpen))
<1>2. TradeAt(s, AtNextOpen) =
        [signal |-> s, dir |-> PlanAt(s, AtNextOpen).dir, entry |-> PlanAt(s, AtNextOpen).entry,
         refused |-> Refused(PlanAt(s, AtNextOpen)), outcome |-> exit.outcome, held |-> exit.held,
         resume |-> FillBar(s, AtNextOpen) + 1 + exit.held]
  BY <1>1, TradeAtIs
<1>3. exit.outcome = p.outcome /\ exit.held = p.held
  OBVIOUS
<1> HIDE DEF exit
<1> QED BY <1>2, <1>3, Zenon DEF TradeOf

LEMMA ClosedIsBacktested ==
  ASSUME MonitorTypeOK, Cost = 0, BothDecideTheSame, NEW p \in SessionTrades, Filled(p, bars, Len(bars)),
         p.exit = p.bar + p.held, p.exit <= Len(bars), p.held >= 1, p.held <= MaxHold,
         seen = [i \in 1 .. Len(bars) |-> i], Ended(p, bars, seen)
  PROVE  TradeAt(p.signal, AtNextOpen) = TradeOf(p) /\ p.outcome # "OPEN"
<1> DEFINE s == p.signal
           n == p.bar
           h == p.held
           L == Len(bars)
           c == Ahead(s, AtNextOpen)
<1>0. L \in Nat /\ bars \in Seq(Bar) /\ h \in Nat /\ n \in Nat /\ MaxHold \in Nat
  BY SimulationAssumption DEF MonitorTypeOK, SessionTrades
<1>1. /\ s \in 1 .. L /\ TradesAt(s, AtNextOpen) /\ FillBar(s, AtNextOpen) = n /\ n = s + 1
      /\ p.plan = PlanAt(s, AtNextOpen) /\ Refused(p.plan) = FALSE
      /\ CandlesFrom(c, n)
  BY FilledIsPlanned
<1>3. PICK at \in DOMAIN seen, e \in DOMAIN seen :
        /\ seen[at] = n /\ FirstTouch(p.plan, bars, seen, at, e)
        /\ h = e - at
        /\ p.outcome = IF HitStop(p.plan, bars[seen[e]], 0) THEN "LOSS" ELSE "WIN"
  BY DEF Ended
<1> HIDE DEF s, n, h, L, c
<1>4. DOMAIN seen = 1 .. L /\ \A k \in 1 .. L : seen[k] = k
  BY DEF L
<1>5. at = n /\ at \in 1 .. L /\ e \in 1 .. L /\ seen[e] = e /\ e = n + h
  BY <1>0, <1>3, <1>4
<1>6. /\ Touches(p.plan, bars[e])
      /\ \A k \in n + 1 .. e - 1 : ~Touches(p.plan, bars[k])
  <2>1. /\ Touches(p.plan, bars[seen[e]])
        /\ \A k \in at + 1 .. e - 1 : ~Touches(p.plan, bars[seen[k]])
    BY <1>3 DEF FirstTouch
  <2>2. \A k \in n + 1 .. e - 1 : seen[k] = k
    BY <1>0, <1>4, <1>5
  <2> QED BY <1>5, <2>1, <2>2
<1>7. /\ c \in Seq(Bar) /\ Len(c) = Upto(n) - n /\ Upto(n) \in n .. L
      /\ \A k \in 1 .. Len(c) : c[k] = bars[n + k]
  BY <1>1 DEF CandlesFrom, s, n, c, L
<1>8. n + h <= Upto(n) /\ h >= 1
  <2>1. n + h <= L /\ n + h <= n + MaxHold /\ h >= 1
    BY <1>0, <1>5 DEF h
  <2> QED BY <2>1 DEF Upto, L
<1>9. h \in 1 .. Len(c) /\ c[h] = bars[e]
  <2>1. h \in 1 .. Len(c)
    BY <1>0, <1>7, <1>8
  <2> QED BY <1>5, <1>7, <2>1
<1>10. ASSUME NEW k \in 1 .. h - 1
       PROVE  ~Touches(p.plan, c[k])
  <2>1. k \in 1 .. Len(c) /\ n + k \in n + 1 .. e - 1
    BY <1>0, <1>5, <1>9
  <2> QED BY <1>6, <1>7, <2>1
<1>11. SimulateExit(p.plan, c) = [outcome |-> IF HitStop(p.plan, c[h], 0) THEN "LOSS" ELSE "WIN", held |-> h]
  <2>1. Touches(p.plan, c[h])
    BY <1>6, <1>9
  <2> QED BY <1>7, <1>9, <1>10, <2>1, ExitIs DEF SimulateExit
<1>12. p.outcome = IF HitStop(p.plan, c[h], 0) THEN "LOSS" ELSE "WIN"
  BY <1>3, <1>5, <1>9
<1>13. SimulateExit(p.plan, c) = [outcome |-> p.outcome, held |-> h]
  BY <1>11, <1>12
<1>14. TradeAt(s, AtNextOpen) = TradeOf(p)
  BY <1>0, <1>1, <1>13, SameTrade DEF s, n, h, c
<1> QED BY <1>12, <1>14 DEF s

LEMMA PositionIsBacktested ==
  ASSUME MonitorTypeOK, Cost = 0, BothDecideTheSame, NEW p \in SessionTrades, Filled(p, bars, Len(bars)),
         p.bar + p.held = Len(bars), p.held <= MaxHold, p.outcome = "OPEN",
         seen = [i \in 1 .. Len(bars) |-> i], Lives(p, bars, seen)
  PROVE  TradeAt(p.signal, AtNextOpen) = TradeOf(p)
<1> DEFINE s == p.signal
           n == p.bar
           h == p.held
           L == Len(bars)
           c == Ahead(s, AtNextOpen)
<1>0. L \in Nat /\ bars \in Seq(Bar) /\ h \in Nat /\ n \in Nat /\ MaxHold \in Nat
  BY SimulationAssumption DEF MonitorTypeOK, SessionTrades
<1>1. /\ s \in 1 .. L /\ TradesAt(s, AtNextOpen) /\ FillBar(s, AtNextOpen) = n /\ n = s + 1
      /\ p.plan = PlanAt(s, AtNextOpen) /\ Refused(p.plan) = FALSE
      /\ CandlesFrom(c, n)
  BY FilledIsPlanned
<1>3. PICK at \in DOMAIN seen : seen[at] = n /\ Untouched(p.plan, bars, seen, at)
  BY DEF Lives
<1> HIDE DEF s, n, h, L, c
<1>4. DOMAIN seen = 1 .. L /\ Len(seen) = L /\ \A k \in 1 .. L : seen[k] = k
  BY <1>0 DEF L
<1>5. at = n /\ L = n + h
  BY <1>0, <1>3, <1>4 DEF n, h, L
<1>6. \A k \in n + 1 .. L : ~Touches(p.plan, bars[k])
  <2>1. \A k \in at + 1 .. L : ~Touches(p.plan, bars[seen[k]])
    BY <1>3, <1>4 DEF Untouched
  <2>2. \A k \in n + 1 .. L : seen[k] = k
    BY <1>0, <1>4, <1>5
  <2> QED BY <1>5, <2>1, <2>2
<1>7. /\ c \in Seq(Bar) /\ Len(c) = Upto(n) - n /\ Upto(n) \in n .. L
      /\ \A k \in 1 .. Len(c) : c[k] = bars[n + k]
  BY <1>1 DEF CandlesFrom, s, n, c, L
<1>8. Upto(n) = L
  <2>1. h <= MaxHold
    BY DEF h
  <2>2. ~(n + MaxHold < L)
    BY <1>0, <1>5, <2>1
  <2> QED BY <2>2 DEF Upto, L
<1>9. Len(c) = h
  BY <1>0, <1>5, <1>7, <1>8
<1>10. ASSUME NEW k \in 1 .. Len(c)
       PROVE  ~Touches(p.plan, c[k])
  <2>1. n + k \in n + 1 .. L
    BY <1>0, <1>5, <1>9
  <2> QED BY <1>6, <1>7, <2>1
<1>11. SimulateExit(p.plan, c) = [outcome |-> p.outcome, held |-> h]
  BY <1>7, <1>9, <1>10, NoExit DEF SimulateExit
<1>12. TradeAt(s, AtNextOpen) = TradeOf(p)
  BY <1>0, <1>1, <1>11, SameTrade DEF s, n, h, c
<1> QED BY <1>12 DEF s

(* What is left of the session at bar i, with the first c trades behind it. *)
Rest(i, c) ==
  /\ \A k \in 1 .. c : closed[k].exit < i
  /\ \A k \in c + 1 .. Len(closed) : i <= closed[k].signal
  /\ position # Flat => i <= position.signal

(* tr begins with the trades that are left.                                 *)
Continues(tr, c) ==
  /\ Len(closed) - c <= Len(tr)
  /\ \A k \in 1 .. Len(closed) - c : tr[k] = TradeOf(closed[c + k])
  /\ position # Flat /\ position.held <= MaxHold =>
       Len(closed) - c + 1 <= Len(tr) /\ tr[Len(closed) - c + 1] = TradeOf(position)
  /\ position = Flat => Len(tr) = Len(closed) - c

(* Every signal of the session is that of the same trade of the backtest,   *)
(* and no other signal is traded.                                          *)
SameSignals ==
  /\ \A k \in DOMAIN closed :
       LET p == closed[k]
       IN  /\ p.signal \in 1 .. Len(bars) - 1 /\ p.exit \in p.signal + 2 .. Len(bars)
           /\ TradesAt(p.signal, AtNextOpen)
           /\ TradeAt(p.signal, AtNextOpen) = TradeOf(p)
           /\ TurnAt(p.signal, AtNextOpen).then = p.exit + 1
  /\ \A j, k \in DOMAIN closed : j < k => closed[j].exit < closed[k].signal
  /\ position # Flat =>
       /\ position.signal \in 1 .. Len(bars) - 1 /\ TradesAt(position.signal, AtNextOpen)
       /\ \A k \in DOMAIN closed : closed[k].exit < position.signal
       /\ position.held <= MaxHold => TradeAt(position.signal, AtNextOpen) = TradeOf(position)
  /\ \A i \in 1 .. Len(bars) :
       TradesAt(i, AtNextOpen) => \/ position # Flat /\ position.signal <= i
                                  \/ \E k \in DOMAIN closed : i \in closed[k].signal .. closed[k].exit

LEMMA SignalsAreTheSame ==
  ASSUME MonitorTypeOK, SessionInv, WalkInv, Cost = 0, BothDecideTheSame,
         seen = [i \in 1 .. Len(bars) |-> i], refusals = {},
         \A i \in DOMAIN closed : /\ bars[closed[i].exit].decision.action = "WAIT"
                                  /\ closed[i].held <= MaxHold
  PROVE  SameSignals
<1> DEFINE L == Len(bars)
<1>1. /\ bars \in Seq(Bar) /\ L \in Nat /\ DOMAIN bars = 1 .. L
      /\ closed \in Seq(SessionTrades) /\ position \in SessionTrades \cup {Flat}
      /\ \A i \in DOMAIN closed : closed[i] \in SessionTrades /\ Ended(closed[i], bars, seen)
      /\ position # Flat => Lives(position, bars, seen) /\ position.outcome = "OPEN"
  <2>1. closed \in Seq(SessionTrades)
    BY DEF SessionInv, SessionTypeOK
  <2>2. \A i \in DOMAIN closed : closed[i] \in SessionTrades
    BY <2>1
  <2> QED BY <2>1, <2>2 DEF MonitorTypeOK, SessionInv, SessionTypeOK, TradesInv, WalkInv
<1>2. Walked(bars, L, closed, position, pending)
  <2>1. Len(seen) = L /\ \A i \in DOMAIN seen : seen[i] = i
    BY <1>1
  <2>2. Untroubled
    BY <2>1 DEF Untroubled
  <2> QED BY <2>1, <2>2 DEF WalkInv
<1>3. ASSUME NEW k \in DOMAIN closed
      PROVE  LET p == closed[k]
             IN  /\ p.signal \in 1 .. Len(bars) - 1 /\ p.exit \in p.signal + 2 .. Len(bars)
                 /\ TradesAt(p.signal, AtNextOpen)
                 /\ TradeAt(p.signal, AtNextOpen) = TradeOf(p)
                 /\ TurnAt(p.signal, AtNextOpen).then = p.exit + 1
  <2> DEFINE p == closed[k]
  <2>1. /\ p \in SessionTrades /\ Ended(p, bars, seen) /\ p.held <= MaxHold
        /\ Filled(p, bars, L) /\ p.exit = p.bar + p.held /\ p.held >= 1 /\ p.exit <= L
    BY <1>1, <1>2 DEF Walked
  <2> HIDE DEF p
  <2>2. TradeAt(p.signal, AtNextOpen) = TradeOf(p) /\ p.outcome # "OPEN"
    BY <2>1, ClosedIsBacktested
  <2>3. p.signal \in 1 .. Len(bars) /\ TradesAt(p.signal, AtNextOpen) /\ p.bar = p.signal + 1
    BY <2>1, FilledIsPlanned
  <2>4. p.exit \in Nat /\ p.held \in Nat /\ p.bar \in Nat /\ p.signal \in Nat
    BY <2>1 DEF SessionTrades
  <2>5. p.signal \in 1 .. Len(bars) - 1 /\ p.exit \in p.signal + 2 .. Len(bars)
    BY <1>1, <2>1, <2>3, <2>4
  <2>6. TurnAt(p.signal, AtNextOpen).then = p.exit + 1
    <3> DEFINE x == TradeAt(p.signal, AtNextOpen)
    <3>1. AtNextOpen.next \in BOOLEAN /\ AtNextOpen.model = NoModel
      BY DEF AtNextOpen
    <3>2. ~x.refused /\ x.outcome = p.outcome /\ x.resume = p.bar + 1 + p.held
      BY <2>2 DEF TradeOf
    <3>3. TurnAt(p.signal, AtNextOpen).then = x.resume
      <4> HIDE DEF x
      <4>1. ~x.refused /\ x.outcome # "OPEN" => TurnAt(p.signal, AtNextOpen).then = x.resume
        BY <1>1, <2>3, <3>1, TurnIs DEF x
      <4> QED BY <2>2, <3>2, <4>1
    <3> QED BY <2>1, <2>4, <3>2, <3>3
  <2> QED BY <2>2, <2>3, <2>5, <2>6 DEF p
<1>4. ASSUME position # Flat
      PROVE  /\ position.signal \in 1 .. Len(bars) - 1 /\ TradesAt(position.signal, AtNextOpen)
             /\ \A k \in DOMAIN closed : closed[k].exit < position.signal
             /\ position.held <= MaxHold => TradeAt(position.signal, AtNextOpen) = TradeOf(position)
  <2>1. /\ position \in SessionTrades /\ Lives(position, bars, seen) /\ position.outcome = "OPEN"
        /\ Filled(position, bars, L) /\ position.bar + position.held = L
        /\ \A k \in DOMAIN closed : closed[k].exit < position.signal
    BY <1>1, <1>2, <1>4 DEF Walked
  <2>2. position.signal \in 1 .. L /\ TradesAt(position.signal, AtNextOpen) /\ position.bar = position.signal + 1
    BY <2>1, FilledIsPlanned
  <2>3. position.held \in Nat
    BY <2>1 DEF SessionTrades
  <2>4. position.signal \in 1 .. Len(bars) - 1
    BY <1>1, <2>1, <2>2, <2>3
  <2> QED BY <2>1, <2>2, <2>4, PositionIsBacktested
<1>5. \A j, k \in DOMAIN closed : j < k => closed[j].exit < closed[k].signal
  BY <1>2 DEF Walked
<1>6. ASSUME NEW i \in 1 .. Len(bars), TradesAt(i, AtNextOpen)
      PROVE  \/ position # Flat /\ position.signal <= i
             \/ \E k \in DOMAIN closed : i \in closed[k].signal .. closed[k].exit
  <2>1. AtNextOpen.next = TRUE
    BY DEF AtNextOpen
  <2>2. bars[i].decision.action # "WAIT" /\ i # L
    BY <1>1, <1>6, <2>1 DEF TradesAt, Trades, Tested, BothDecideTheSame, DecidesTheSame
  <2>3. i # pending
    BY <1>2, <2>2 DEF Walked
  <2> QED BY <1>2, <2>2, <2>3 DEF Walked
<1> QED BY <1>3, <1>4, <1>5, <1>6 DEF SameSignals

LEMMA TradesContinue ==
  ASSUME MonitorTypeOK, SessionTypeOK, SameSignals, NEW run, Unfolds(run, AtNextOpen)
  PROVE  \A i \in 1 .. Len(bars) + 1 : \A c \in 0 .. Len(closed) :
           Rest(i, c) => Continues(TradesOf(run[i]), c)
<1> DEFINE L == Len(bars)
           C == Len(closed)
           how == AtNextOpen
           X == {TradeAt(k, how) : k \in 1 .. L}
           S == {i \in Int : \A c \in 0 .. C : Rest(i, c) => Continues(TradesOf(run[i]), c)}
<1>0. L \in Nat /\ C \in Nat /\ DOMAIN closed = 1 .. C /\ bars \in Seq(Bar)
  BY DEF MonitorTypeOK, SessionTypeOK
<1>1. how.next \in BOOLEAN /\ how.model = NoModel
  BY DEF AtNextOpen
<1>2. /\ TradesOf(run[L + 1]) = <<>>
      /\ \A i \in 1 .. L + 1 : TradesOf(run[i]) \in Seq(X)
      /\ \A i \in 1 .. L :
           TradesOf(run[i]) = (IF TradesAt(i, how) THEN <<TradeAt(i, how)>> ELSE <<>>)
                                \o TradesOf(run[TurnAt(i, how).then])
  BY DEF Unfolds
<1>3. \A k \in 1 .. C : /\ closed[k].signal \in 1 .. L - 1 /\ closed[k].exit \in closed[k].signal + 2 .. L
                        /\ TradesAt(closed[k].signal, how)
                        /\ TradeAt(closed[k].signal, how) = TradeOf(closed[k])
                        /\ TurnAt(closed[k].signal, how).then = closed[k].exit + 1
  BY <1>0 DEF SameSignals
<1>4. \A j, k \in 1 .. C : j < k => closed[j].exit < closed[k].signal
  BY <1>0 DEF SameSignals
<1>5. position # Flat => /\ position.signal \in 1 .. L - 1 /\ TradesAt(position.signal, how)
                         /\ \A k \in 1 .. C : closed[k].exit < position.signal
                         /\ position.held <= MaxHold => TradeAt(position.signal, how) = TradeOf(position)
  BY <1>0 DEF SameSignals
<1>6. \A i \in 1 .. L : TradesAt(i, how) => \/ position # Flat /\ position.signal <= i
                                           \/ \E k \in 1 .. C : i \in closed[k].signal .. closed[k].exit
  BY <1>0 DEF SameSignals
<1> HIDE DEF S, X, how, L, C
<1>7. ASSUME NEW i \in 1 .. L + 1, \A j \in i + 1 .. L + 1 : j \in S
      PROVE  i \in S
  <2> SUFFICES ASSUME NEW c \in 0 .. C, Rest(i, c) PROVE Continues(TradesOf(run[i]), c)
    BY <1>0 DEF S
  <2> DEFINE v == TradesOf(run[i])
  <2>0. v \in Seq(X) /\ i \in Nat
    BY <1>2
  <2>1. /\ \A k \in 1 .. c : closed[k].exit < i
        /\ \A k \in c + 1 .. C : i <= closed[k].signal
        /\ position # Flat => i <= position.signal
    BY DEF Rest, C
  <2>2. CASE i = L + 1
    <3>1. position = Flat
      BY <1>0, <1>5, <2>1, <2>2
    <3>2. c = C
      <4> SUFFICES ASSUME c # C PROVE FALSE
        OBVIOUS
      <4>1. c + 1 \in c + 1 .. C /\ c + 1 \in 1 .. C
        BY <1>0
      <4> QED BY <1>0, <1>3, <2>1, <2>2, <4>1
    <3>3. v = <<>> /\ Len(v) = 0
      BY <1>2, <2>2
    <3> HIDE DEF v
    <3>4. Continues(v, c)
      BY <1>0, <3>1, <3>2, <3>3 DEF Continues, C
    <3> QED BY <3>4 DEF v
  <2>3. CASE i # L + 1 /\ ~TradesAt(i, how)
    <3>1. i \in 1 .. L /\ i + 1 \in i + 1 .. L + 1
      BY <1>0, <2>3
    <3>2. TurnAt(i, how).then = i + 1
      BY <1>0, <1>1, <2>3, <3>1, TurnIs DEF L
    <3> DEFINE u == TradesOf(run[i + 1])
    <3>3. v = u
      <4>0. i + 1 \in 1 .. L + 1 /\ i \in 1 .. L
        BY <1>0, <3>1
      <4>1. u \in Seq(X)
        BY <1>2, <4>0
      <4>2. v = <<>> \o u
        BY <1>2, <2>3, <3>2, <4>0, Zenon
      <4> HIDE DEF u, v
      <4> QED BY <4>1, <4>2
    <3>4. Rest(i + 1, c)
      <4>1. ASSUME NEW k \in 1 .. c PROVE closed[k].exit < i + 1
        <5>1. closed[k].exit < i /\ k \in 1 .. C
          BY <1>0, <2>1
        <5> QED BY <1>0, <1>3, <2>0, <5>1
      <4>2. ASSUME NEW k \in c + 1 .. C PROVE i + 1 <= closed[k].signal
        <5>1. i <= closed[k].signal /\ k \in 1 .. C
          BY <1>0, <2>1
        <5>2. closed[k].signal # i /\ closed[k].signal \in Int
          BY <1>3, <2>3, <5>1
        <5> QED BY <2>0, <5>1, <5>2
      <4>3. position # Flat => i + 1 <= position.signal
        BY <1>5, <2>0, <2>1, <2>3
      <4> QED BY <4>1, <4>2, <4>3 DEF Rest, C
    <3>5. Continues(u, c)
      BY <1>7, <3>1, <3>4 DEF S
    <3> HIDE DEF u, v
    <3> QED BY <3>3, <3>5 DEF v
  <2>4. CASE i # L + 1 /\ TradesAt(i, how)
    <3>1. i \in 1 .. L
      BY <1>0, <2>4
    <3> DEFINE x == TradeAt(i, how)
               n == TurnAt(i, how).then
               u == TradesOf(run[n])
    <3>2. n \in i + 1 .. L + 1
      BY <1>0, <1>1, <3>1, TurnIs DEF L
    <3>3. u \in Seq(X) /\ v = <<x>> \o u
      <4>1. n \in 1 .. L + 1
        BY <1>0, <3>1, <3>2
      <4> QED BY <1>2, <2>4, <3>1, <4>1
    <3>4. /\ Len(v) = Len(u) + 1 /\ v[1] = x /\ Len(u) \in Nat
          /\ \A k \in 1 .. Len(u) : v[k + 1] = u[k]
      <4> HIDE DEF u, v, x
      <4> QED BY <3>3
    <3>5. CASE position # Flat /\ position.signal <= i
      <4>1. position.signal = i
        BY <1>5, <2>0, <2>1, <3>5
      <4>2. c = C
        <5> SUFFICES ASSUME c # C PROVE FALSE
          OBVIOUS
        <5>1. c + 1 \in c + 1 .. C /\ c + 1 \in 1 .. C
          BY <1>0
        <5>2. i <= closed[c + 1].signal /\ closed[c + 1].exit < i
          BY <1>5, <2>1, <3>5, <4>1, <5>1
        <5>3. closed[c + 1].signal \in Int /\ closed[c + 1].exit \in Int /\ closed[c + 1].exit >= closed[c + 1].signal
          BY <1>3, <5>1
        <5> QED BY <2>0, <5>2, <5>3
      <4>3. position.held <= MaxHold => x = TradeOf(position)
        BY <1>5, <3>5, <4>1
      <4>4. C - c = 0 /\ C - c + 1 = 1 /\ 1 .. C - c = {}
        BY <1>0, <4>2
      <4> HIDE DEF u, v, x
      <4>5. Continues(v, c)
        BY <3>4, <3>5, <4>3, <4>4 DEF Continues, C
      <4> QED BY <4>5 DEF v
    <3>6. CASE \E k \in 1 .. C : i \in closed[k].signal .. closed[k].exit
      <4>1. PICK k \in 1 .. C : i \in closed[k].signal .. closed[k].exit
        BY <3>6
      <4> DEFINE d == c + 1
      <4>2. closed[k].signal \in 1 .. L - 1 /\ closed[k].exit \in closed[k].signal + 2 .. L
        BY <1>3
      <4>3. k \in d .. C
        <5>1. ASSUME k \in 1 .. c PROVE FALSE
          BY <1>0, <2>0, <2>1, <4>1, <4>2, <5>1
        <5> QED BY <1>0, <5>1
      <4>4. closed[k].signal = i
        BY <1>0, <2>0, <2>1, <4>1, <4>2, <4>3
      <4>5. k = d
        <5> SUFFICES ASSUME k # d PROVE FALSE
          OBVIOUS
        <5>1. d \in 1 .. C /\ d < k /\ d \in c + 1 .. C
          BY <1>0, <4>3
        <5>2. closed[d].exit < i /\ i <= closed[d].signal
          BY <1>4, <2>1, <4>4, <5>1
        <5>3. closed[d].signal \in Int /\ closed[d].exit \in Int /\ closed[d].exit >= closed[d].signal
          BY <1>3, <5>1
        <5> QED BY <2>0, <5>2, <5>3
      <4>6. x = TradeOf(closed[d]) /\ n = closed[d].exit + 1 /\ d \in 1 .. C
        BY <1>3, <4>4, <4>5
      <4> HIDE DEF n
      <4>7. d \in 0 .. C /\ d = c + 1
        BY <4>6
      <4>8. Rest(n, d)
        <5>1. ASSUME NEW j \in 1 .. d PROVE closed[j].exit < n
          <6>1. j \in 1 .. C /\ (j < d \/ j = d)
            BY <1>0, <4>7
          <6>2. closed[j].exit \in Int /\ closed[d].exit \in Int /\ closed[d].signal \in Int
                /\ closed[d].signal <= closed[d].exit
            BY <1>3, <4>6, <6>1
          <6>3. j < d => closed[j].exit < closed[d].signal
            BY <1>4, <4>6, <6>1
          <6> QED BY <4>6, <6>1, <6>2, <6>3
        <5>2. ASSUME NEW j \in d + 1 .. C PROVE n <= closed[j].signal
          <6>1. j \in 1 .. C /\ d < j
            BY <1>0, <4>7
          <6>2. closed[d].exit < closed[j].signal /\ closed[d].exit \in Int /\ closed[j].signal \in Int
            BY <1>3, <1>4, <4>6, <6>1
          <6> QED BY <4>6, <6>2
        <5>3. position # Flat => n <= position.signal
          <6>1. closed[d].exit \in Int
            BY <1>3, <4>6
          <6> QED BY <1>5, <4>6, <6>1
        <5> QED BY <5>1, <5>2, <5>3 DEF Rest, C
      <4>9. Continues(u, d)
        BY <1>7, <3>2, <4>7, <4>8 DEF S, n
      <4> HIDE DEF u, v, x
      <4>10. Continues(v, c)
        <5>1. /\ C - d \in Nat /\ C - c = C - d + 1 /\ C - c \in Nat
          BY <1>0, <4>6, <4>7
        <5>2. /\ C - d <= Len(u) /\ \A j \in 1 .. C - d : u[j] = TradeOf(closed[d + j])
              /\ position # Flat /\ position.held <= MaxHold =>
                   C - d + 1 <= Len(u) /\ u[C - d + 1] = TradeOf(position)
              /\ position = Flat => Len(u) = C - d
          BY <4>9 DEF Continues, C
        <5>3. C - c <= Len(v) /\ (position = Flat => Len(v) = C - c)
          BY <3>4, <5>1, <5>2
        <5>4. ASSUME NEW j \in 1 .. C - c PROVE v[j] = TradeOf(closed[c + j])
          <6>1. CASE j = 1
            <7>1. c + j = d
              BY <4>7, <6>1
            <7> QED BY <3>4, <4>6, <6>1, <7>1
          <6>2. CASE j # 1
            <7>1. j - 1 \in 1 .. C - d /\ (j - 1) + 1 = j /\ d + (j - 1) = c + j
              BY <1>0, <4>7, <5>1, <6>2
            <7>2. j - 1 \in 1 .. Len(u)
              BY <3>4, <5>1, <5>2, <7>1
            <7>3. v[j] = u[j - 1]
              BY <3>4, <7>1, <7>2
            <7> QED BY <5>2, <7>1, <7>3
          <6> QED BY <6>1, <6>2
        <5>5. ASSUME position # Flat, position.held <= MaxHold
              PROVE  C - c + 1 <= Len(v) /\ v[C - c + 1] = TradeOf(position)
          <6> DEFINE m == C - d + 1
          <6>1. m \in 1 .. Len(u) /\ C - c + 1 = m + 1
            BY <3>4, <5>1, <5>2, <5>5
          <6>2. v[m + 1] = u[m] /\ u[m] = TradeOf(position)
            BY <3>4, <5>2, <5>5, <6>1
          <6> HIDE DEF m
          <6> QED BY <3>4, <6>1, <6>2
        <5> QED BY <5>3, <5>4, <5>5 DEF Continues, C
      <4> QED BY <4>10 DEF v
    <3> QED BY <1>6, <2>4, <3>1, <3>5, <3>6
  <2> QED BY <2>2, <2>3, <2>4
<1>8. 1 .. L + 1 \subseteq S
  <2> DEFINE hi == L + 1
  <2>1. hi \in Int /\ 1 \in Int /\ \A i \in 1 .. hi : (\A j \in i + 1 .. hi : j \in S) => i \in S
    BY <1>0, <1>7
  <2> HIDE DEF hi
  <2>2. 1 .. hi \subseteq S
    BY <2>1, Backwards
  <2> QED BY <2>2 DEF hi
<1> QED BY <1>8 DEF S, L, C

LEMMA FollowsBacktest ==
  ASSUME MonitorTypeOK, SessionInv, WalkInv
  PROVE  SessionFollowsBacktest
<1> DEFINE trades == TradesOf(RunBacktest(bars, 1, Len(bars), AtNextOpen, DOMAIN bars))
           made == [i \in DOMAIN closed |-> TradeOf(closed[i])]
<1> SUFFICES ASSUME Cost = 0, BothDecideTheSame,
                    seen = [i \in 1 .. Len(bars) |-> i], refusals = {},
                    \A i \in DOMAIN closed : /\ bars[closed[i].exit].decision.action = "WAIT"
                                             /\ closed[i].held <= MaxHold
             PROVE  /\ IsPrefix(made, trades)
                    /\ position # Flat /\ position.held <= MaxHold => trades[Len(closed) + 1] = TradeOf(position)
                    /\ position = Flat => Len(trades) = Len(closed)
  BY Zenon DEF SessionFollowsBacktest, BothDecideTheSame
<1>1. SameSignals
  BY SignalsAreTheSame
<1>2. bars \in Seq(Bar) /\ SessionTypeOK /\ AtNextOpen.next \in BOOLEAN /\ AtNextOpen.model = NoModel
  BY DEF MonitorTypeOK, SessionInv, AtNextOpen
<1>3. PICK run : Unfolds(run, AtNextOpen)
  BY <1>2, RunUnfolds
<1>4. trades = TradesOf(run[1])
  BY <1>3, Zenon DEF Unfolds, RunAll
<1>5. /\ Len(bars) \in Nat /\ Len(closed) \in Nat /\ closed \in Seq(SessionTrades)
      /\ DOMAIN closed = 1 .. Len(closed) /\ 1 \in 1 .. Len(bars) + 1 /\ 0 \in 0 .. Len(closed)
  BY <1>2 DEF SessionTypeOK
<1>6. Rest(1, 0)
  <2>1. \A k \in DOMAIN closed : 1 <= closed[k].signal
    BY <1>1 DEF SameSignals
  <2>2. position # Flat => 1 <= position.signal
    BY <1>1 DEF SameSignals
  <2> QED BY <1>5, <2>1, <2>2 DEF Rest
<1>7. Continues(trades, 0)
  BY <1>1, <1>2, <1>3, <1>4, <1>5, <1>6, TradesContinue
<1>8. trades \in Seq({TradeAt(k, AtNextOpen) : k \in 1 .. Len(bars)})
  <2>1. TradesOf(run[1]) \in Seq({TradeAt(k, AtNextOpen) : k \in 1 .. Len(bars)})
    BY <1>3, <1>5 DEF Unfolds
  <2> QED BY <1>4, <2>1
<1> HIDE DEF trades
<1>9. /\ Len(closed) <= Len(trades) /\ Len(trades) \in Nat
      /\ \A k \in 1 .. Len(closed) : trades[k] = TradeOf(closed[k])
      /\ position # Flat /\ position.held <= MaxHold => trades[Len(closed) + 1] = TradeOf(position)
      /\ position = Flat => Len(trades) = Len(closed)
  <2>1. Len(closed) - 0 = Len(closed) /\ \A k \in 1 .. Len(closed) : 0 + k = k
    BY <1>5
  <2> QED BY <1>5, <1>7, <1>8, <2>1 DEF Continues
<1>10. IsPrefix(made, trades)
  <2>1. made \in Seq({TradeOf(p) : p \in SessionTrades}) /\ Len(made) = Len(closed)
    <3>1. \A k \in 1 .. Len(closed) : closed[k] \in SessionTrades
      BY <1>5
    <3>2. made = [k \in 1 .. Len(closed) |-> TradeOf(closed[k])]
      BY <1>5
    <3> QED BY <1>5, <3>1, <3>2
  <2>2. \A k \in 1 .. Len(closed) : made[k] = trades[k]
    BY <1>5, <1>9
  <2> HIDE DEF made
  <2>3. SubSeq(made, 1, Len(made)) = SubSeq(trades, 1, Len(made))
    BY <1>5, <1>8, <1>9, <2>1, <2>2
  <2> QED BY <1>9, <2>1, <2>3 DEF IsPrefix
<1> QED BY <1>9, <1>10

(* What holds of the walk when the process runs the session. *)
SessionWalks == program = "session" => WalkInv

LEMMA StepKeepsWalk ==
  ASSUME ProgramsInv, SessionWalks, [Next]_vars
  PROVE  SessionWalks'
<1> SUFFICES ASSUME program' = "session" PROVE WalkInv'
  BY DEF SessionWalks
<1>1. CASE Market
  <2>1. program = "session" /\ UNCHANGED sessionVars
    BY <1>1 DEF Market
  <2>2. PICK c \in Candles, d \in Decisions : CloseBar(c, d)
    BY <1>1 DEF Market
  <2> QED BY <2>1, <2>2, MarketKeepsWalk DEF SessionWalks, ProgramsInv
<1>2. CASE Session
  BY <1>2, LostBarKeepsWalk, ProcessOnceKeepsWalk DEF Session, SessionWalks, ProgramsInv
<1>3. CASE Bot
  BY <1>3 DEF Bot
<1>4. CASE UNCHANGED vars
  <2>1. UNCHANGED <<bars, sessionVars, program>>
    BY <1>4 DEF vars
  <2> QED BY <2>1 DEF SessionWalks, WalkInv, Untroubled, sessionVars
<1> QED BY <1>1, <1>2, <1>3, <1>4 DEF Next

(* Whatever the paper session (paper_session.py) loses, refuses and trades, *)
(* as long as it was untroubled it walked the bars from each signal to the  *)
(* next open and from there to the first touch, one trade after the other.  *)
THEOREM SessionAlwaysWalks == Spec => []SessionWalks
<1>1. Init => SessionWalks
  BY InitWalk DEF Init, SessionWalks
<1>2. ProgramsInv /\ SessionWalks /\ [Next]_vars => SessionWalks'
  BY StepKeepsWalk
<1> QED BY <1>1, <1>2, ProgramsAreInvariant, PTL DEF Spec

(* Without latency, and for every market, pair of decisions, lost bar and   *)
(* number of bars: the untroubled paper session (paper_session.py) makes    *)
(* the trades of the backtest of its bars (backtest.py) as long as both     *)
(* decide the same on every bar, costs (execution.py) never improve a       *)
(* trade, and a record is certified (parity_certification.py) exactly when  *)
(* both wait on every bar with the same references and the replay begins    *)
(* with the first bar of the backtest.                                     *)
THEOREM SimulationsAlwaysAgree ==
  ASSUME LatencyBars = 0
  PROVE  Spec => []SimulationsAgree
<1>1. ProgramsInv /\ SessionWalks => SimulationsAgree
  <2> SUFFICES ASSUME ProgramsInv, SessionWalks, program = "session"
               PROVE  SessionFollowsBacktest /\ CostsNeverHelp /\ CertifiedOnlyInSilence
    BY DEF SimulationsAgree
  <2>1. MonitorTypeOK /\ SessionInv /\ WalkInv
    BY DEF ProgramsInv, SessionWalks
  <2> QED BY <2>1, FollowsBacktest, CostsHurt, CertifiedIs
<1> QED BY <1>1, ProgramsAreInvariant, SessionAlwaysWalks, PTL

-----------------------------------------------------------------------------
(* The research does not look ahead: what it computes from the first bars  *)
(* of a longer record is what it computes from those bars alone.           *)

Longer(more, bs) ==
  /\ more \in Seq(Bar) /\ bs \in Seq(Bar) /\ Len(bs) <= Len(more)
  /\ \A n \in 1 .. Len(bs) : more[n] = bs[n]

LEMMA SubSeqOfMore ==
  ASSUME NEW more, NEW bs, Longer(more, bs), NEW m \in Nat \ {0}, NEW n \in Int, n <= Len(bs)
  PROVE  SubSeq(more, m, n) = SubSeq(bs, m, n)
<1>1. \A i \in 1 .. 1 + n - m : i + m - 1 \in 1 .. Len(bs)
  BY DEF Longer
<1>2. \A i \in 1 .. 1 + n - m : more[i + m - 1] = bs[i + m - 1]
  BY <1>1 DEF Longer
<1>3. /\ SubSeq(more, m, n) = [i \in 1 .. 1 + n - m |-> more[i + m - 1]]
      /\ SubSeq(bs, m, n) = [i \in 1 .. 1 + n - m |-> bs[i + m - 1]]
  BY SMT DEF Longer
<1> QED BY <1>2, <1>3

(* A run of the backtest only looks at the bars up to its end. *)
LEMMA TradeOfMore ==
  ASSUME NEW more, NEW bs, Longer(more, bs), NEW i \in Nat \ {0}, NEW end \in Nat, i <= end,
         end <= Len(bs), NEW how, ~(how.next /\ i = end)
  PROVE  BacktestTrade(more, i, end, how) = BacktestTrade(bs, i, end, how)
<1> DEFINE fill == IF how.next THEN i + 1 ELSE i
           upto == IF fill + MaxHold < end THEN fill + MaxHold ELSE end
<1>1. /\ fill \in 1 .. Len(bs) /\ i \in 1 .. Len(bs) /\ fill + 1 \in Nat \ {0}
      /\ upto \in Int /\ upto <= Len(bs)
  <2>1. fill \in Nat \ {0} /\ fill <= end
    OBVIOUS
  <2> HIDE DEF fill
  <2> QED BY <2>1, SimulationAssumption DEF Longer
<1>2. more[i] = bs[i] /\ more[fill] = bs[fill]
  BY <1>1 DEF Longer
<1>3. SubSeq(more, fill + 1, upto) = SubSeq(bs, fill + 1, upto)
  BY <1>1, SubSeqOfMore
<1> QED BY <1>2, <1>3, Zenon DEF BacktestTrade, Tested

LEMMA RunOfMore ==
  ASSUME NEW more, NEW bs, Longer(more, bs), NEW start \in Nat \ {0}, NEW end \in Int, end <= Len(bs),
         NEW how, NEW approved
  PROVE  RunBacktest(more, start, end, how, approved) = RunBacktest(bs, start, end, how, approved)
<1>1. ASSUME NEW i \in start .. end
      PROVE  Turn(more, i, end, how, approved) = Turn(bs, i, end, how, approved)
  <2>1. /\ i \in Nat \ {0} /\ end \in Nat /\ i <= end /\ i \in 1 .. Len(bs)
    BY DEF Longer
  <2>2. more[i] = bs[i]
    BY <2>1 DEF Longer
  <2>3. Trades(more, i, end, how, approved) = Trades(bs, i, end, how, approved)
    BY <2>2 DEF Trades, Tested
  <2>4. CASE Trades(bs, i, end, how, approved)
    <3>1. ~(how.next /\ i = end)
      BY <2>4 DEF Trades
    <3>2. BacktestTrade(more, i, end, how) = BacktestTrade(bs, i, end, how)
      BY <2>1, <3>1, TradeOfMore
    <3> QED BY <2>3, <3>2, Zenon DEF Turn
  <2>5. CASE ~Trades(bs, i, end, how, approved)
    BY <2>3, <2>5, Zenon DEF Turn
  <2> QED BY <2>4, <2>5
<1>2. [i \in start .. end |-> Turn(more, i, end, how, approved)] =
        [i \in start .. end |-> Turn(bs, i, end, how, approved)]
  BY <1>1
<1> QED BY <1>2, Zenon DEF RunBacktest

LEMMA FeaturesOfMore ==
  ASSUME NEW more, NEW bs, Longer(more, bs), NEW i \in 1 .. Len(bs)
  PROVE  Features(more, i) = Features(bs, i)
<1>1. more[i] = bs[i] /\ i \in Nat \ {0} /\ i \in Int /\ i <= Len(bs)
  BY DEF Longer
<1>2. SubSeq(more, 1, i) = SubSeq(bs, 1, i)
  BY <1>1, SubSeqOfMore
<1> QED BY <1>1, <1>2 DEF Features

LEMMA SampleOfMore ==
  ASSUME NEW more, NEW bs, Longer(more, bs), NEW i \in Nat \ {0}, i + Horizon <= Len(bs)
  PROVE  Sample(more, i) = Sample(bs, i)
<1>1. /\ Horizon \in Nat \ {0} /\ Len(bs) \in Nat /\ Len(more) \in Nat /\ Len(bs) <= Len(more)
  BY ResearchAssumption DEF Longer
<1>2. i \in 1 .. Len(bs) /\ i + Horizon \in 1 .. Len(bs) /\ ~(i + Horizon > Len(bs)) /\ ~(i + Horizon > Len(more))
  BY <1>1
<1>3. more[i] = bs[i] /\ more[i + Horizon] = bs[i + Horizon]
  BY <1>2 DEF Longer
<1>4. Label(more, i) = Label(bs, i)
  BY <1>2, <1>3 DEF Label, Tested
<1>5. Features(more, i) = Features(bs, i)
  BY <1>2, FeaturesOfMore
<1> QED BY <1>4, <1>5 DEF Sample

LEMMA SignalsOfMore ==
  ASSUME NEW more, NEW bs, Longer(more, bs), NEW turns, NEW start \in Nat \ {0}, NEW end \in Int,
         end <= Len(bs)
  PROVE  Signals(more, turns, start, end) = Signals(bs, turns, start, end)
<1>1. \A i \in start .. end : more[i] = bs[i]
  BY DEF Longer
<1> QED BY <1>1 DEF Signals, Tested

LEMMA SamplesOfMore ==
  ASSUME NEW more, NEW bs, Longer(more, bs), NEW turns, NEW start \in Nat \ {0}, NEW end \in Int,
         end <= Len(bs)
  PROVE  Samples(more, turns, start, end) = Samples(bs, turns, start, end)
<1> DEFINE upto == end - Horizon
<1>1. Horizon \in Nat \ {0} /\ upto \in Int /\ upto + Horizon = end /\ Len(bs) \in Nat
  BY ResearchAssumption DEF Longer
<1> HIDE DEF upto
<1>2. Signals(more, turns, start, upto) = Signals(bs, turns, start, upto)
  <2>1. upto <= Len(bs)
    BY <1>1
  <2> QED BY <1>1, <2>1, SignalsOfMore
<1>3. \A i \in Signals(bs, turns, start, upto) : Sample(more, i) = Sample(bs, i)
  <2> SUFFICES ASSUME NEW i \in Signals(bs, turns, start, upto)
               PROVE  Sample(more, i) = Sample(bs, i)
    OBVIOUS
  <2>1. i \in start .. upto
    BY DEF Signals
  <2>2. i \in Nat \ {0} /\ i + Horizon <= Len(bs)
    BY <1>1, <2>1
  <2> QED BY <2>2, SampleOfMore
<1> QED BY <1>2, <1>3 DEF Samples, upto

(* The samples a window is trained on are those of the bars before it. *)
LEMMA TrainingOfMore ==
  ASSUME NEW more, NEW bs, Longer(more, bs), NEW s \in Nat \ {0}, s - 1 <= Len(bs), NEW how
  PROVE  Training(more, s, how) = Training(bs, s, how)
<1> DEFINE end == s - 1
<1>1. end \in Int /\ end <= Len(bs) /\ 1 \in Nat \ {0}
  OBVIOUS
<1> HIDE DEF end
<1>2. RunBacktest(more, 1, end, how, 1 .. end) = RunBacktest(bs, 1, end, how, 1 .. end)
  BY <1>1, RunOfMore
<1>3. \A turns : Samples(more, turns, 1, end) = Samples(bs, turns, 1, end)
  BY <1>1, SamplesOfMore
<1> QED BY <1>2, <1>3 DEF Training, end

LEMMA FoldOfMore ==
  ASSUME NEW more, NEW bs, Longer(more, bs), NEW s \in Nat \ {0}, s + TestBars - 1 <= Len(bs), NEW how
  PROVE  MLFold(more, s, how) = MLFold(bs, s, how) /\ DeepFold(more, s, how) = DeepFold(bs, s, how)
<1> DEFINE end == FoldEnd(bs, s)
<1>1. TestBars \in Nat \ {0} /\ Len(bs) \in Nat /\ Len(more) \in Nat /\ Len(bs) <= Len(more)
  BY ResearchAssumption DEF Longer
<1>2. FoldEnd(more, s) = end /\ end \in Int /\ end <= Len(bs) /\ s - 1 <= Len(bs) /\ s - 1 \in Int
  BY <1>1 DEF FoldEnd
<1> HIDE DEF end
<1>3. \A approved : RunBacktest(more, s, end, how, approved) = RunBacktest(bs, s, end, how, approved)
  BY <1>2, RunOfMore
<1>4. Training(more, s, how) = Training(bs, s, how)
  BY <1>2, TrainingOfMore
<1>5. \A i \in s .. end : Features(more, i) = Features(bs, i)
  <2>1. s .. end \subseteq 1 .. Len(bs)
    BY <1>1, <1>2
  <2> QED BY <2>1, FeaturesOfMore
<1>6. Approved(more, s, how) = Approved(bs, s, how)
  BY <1>2, <1>4, <1>5 DEF Approved, end
<1>7. Baseline(more, s, how) = Baseline(bs, s, how)
  BY <1>2, <1>3 DEF Baseline, end
<1>8. \A turns : /\ Signals(more, turns, s, end) = Signals(bs, turns, s, end)
                 /\ Samples(more, turns, s, end) = Samples(bs, turns, s, end)
  BY <1>2, SignalsOfMore, SamplesOfMore
<1>9. \A turns : {Features(more, i) : i \in Signals(more, turns, s, end)} =
                   {Features(bs, i) : i \in Signals(bs, turns, s, end)}
  <2>1. \A turns : Signals(bs, turns, s, end) \subseteq s .. end
    BY DEF Signals
  <2> QED BY <1>5, <1>8, <2>1
<1>10. RunBacktest(more, 1, s - 1, how, 1 .. s - 1) = RunBacktest(bs, 1, s - 1, how, 1 .. s - 1)
  <2>1. 1 \in Nat \ {0}
    OBVIOUS
  <2> QED BY <1>2, <2>1, RunOfMore
<1>11. MLFold(more, s, how) = MLFold(bs, s, how)
  BY <1>2, <1>3, <1>4, <1>6, <1>7, <1>9, <1>10, Zenon DEF MLFold, end
<1>12. DeepFold(more, s, how) = DeepFold(bs, s, how)
  BY <1>2, <1>4, <1>7, <1>8, Zenon DEF DeepFold, TestSamples, end
<1> QED BY <1>11, <1>12

(* The first candles of a sequence, and the ones after a candle. *)
LEMMA FirstOnes ==
  ASSUME NEW c \in Seq(Bar), NEW k \in Nat, k <= Len(c)
  PROVE  /\ SubSeq(c, 1, k) \in Seq(Bar) /\ Len(SubSeq(c, 1, k)) = k
         /\ \A i \in 1 .. k : SubSeq(c, 1, k)[i] = c[i]
OBVIOUS

LEMMA LastOnes ==
  ASSUME NEW c \in Seq(Bar), NEW k \in 1 .. Len(c)
  PROVE  LET r == SubSeq(c, k + 1, Len(c))
         IN  r \in Seq(Bar) /\ Len(r) = Len(c) - k /\ \A i \in 1 .. Len(c) - k : r[i] = c[k + i]
OBVIOUS

(* A longer future changes no label that is decided or has its horizon. *)
LEMMA LabelOfMore ==
  ASSUME NEW plan, NEW d, NEW c, Longer(d, c),
         LabelOutcome(plan, c) # "TIMEOUT" \/ MaxHold <= Len(c)
  PROVE  LabelOutcome(plan, d) = LabelOutcome(plan, c)
<1> DEFINE m == IF MaxHold < Len(c) THEN MaxHold ELSE Len(c)
           n == IF MaxHold < Len(d) THEN MaxHold ELSE Len(d)
           u == SubSeq(c, 1, m)
           w == SubSeq(d, 1, n)
<1>1. /\ m \in Nat /\ n \in Nat /\ m <= n /\ m <= Len(c) /\ n <= Len(d)
      /\ MaxHold <= Len(c) => n = m
      /\ Len(c) \in Nat /\ Len(d) \in Nat /\ Len(c) <= Len(d)
  BY SimulationAssumption DEF Longer
<1>2. UpTo(c, MaxHold) = u /\ UpTo(d, MaxHold) = w
  BY DEF UpTo
<1> HIDE DEF m, n
<1>3. /\ u \in Seq(Bar) /\ Len(u) = m /\ \A i \in 1 .. m : u[i] = c[i]
      /\ w \in Seq(Bar) /\ Len(w) = n /\ \A i \in 1 .. n : w[i] = d[i]
  BY <1>1, FirstOnes DEF Longer
<1>4. \A i \in 1 .. m : d[i] = c[i] /\ w[i] = u[i]
  BY <1>1, <1>3 DEF Longer
<1> HIDE DEF u, w
<1>5. CASE \E i \in 1 .. m : Touches(plan, c[i])
  <2> DEFINE T == {i \in 1 .. m : Touches(plan, c[i])}
  <2>1. T # {} /\ T \subseteq Nat
    BY <1>5
  <2>2. PICK e \in T : \A i \in T : e <= i
    BY <2>1, LeastOfNat
  <2>3. e \in 1 .. m /\ Touches(plan, c[e]) /\ \A i \in 1 .. e - 1 : ~Touches(plan, c[i])
    <3>1. e \in 1 .. m /\ Touches(plan, c[e])
      BY <2>2
    <3>2. ASSUME NEW i \in 1 .. e - 1, Touches(plan, c[i]) PROVE FALSE
      <4>1. i \in T /\ i < e
        BY <1>1, <3>1, <3>2
      <4> QED BY <2>2, <3>1, <4>1
    <3> QED BY <3>1, <3>2
  <2> HIDE DEF T
  <2>4. /\ e \in 1 .. Len(u) /\ e \in 1 .. Len(w)
        /\ u[e] = c[e] /\ w[e] = c[e] /\ d[e] = c[e]
        /\ \A i \in 1 .. e - 1 : ~Touches(plan, u[i]) /\ ~Touches(plan, w[i])
    BY <1>1, <1>3, <1>4, <2>3
  <2> DEFINE exit == [outcome |-> IF HitStop(plan, c[e], 0) THEN "LOSS" ELSE "WIN", held |-> e]
  <2>5. ExitAfter(plan, u, 0, 0) = exit /\ ExitAfter(plan, w, 0, 0) = exit
    <3>1. Touches(plan, u[e]) /\ Touches(plan, w[e])
      BY <2>3, <2>4
    <3>2. ExitAfter(plan, u, 0, 0) = exit
      BY <1>3, <2>4, <3>1, ExitIs
    <3>3. ExitAfter(plan, w, 0, 0) = exit
      BY <1>3, <2>4, <3>1, ExitIs
    <3> QED BY <3>2, <3>3
  <2>6. exit.held = e
    OBVIOUS
  <2> HIDE DEF exit
  <2> QED BY <1>2, <2>4, <2>5, <2>6, Zenon DEF LabelOutcome
<1>6. CASE \A i \in 1 .. m : ~Touches(plan, c[i])
  <2>1. ExitAfter(plan, u, 0, 0) = [outcome |-> "OPEN", held |-> Len(u)]
    BY <1>3, <1>6, NoExit
  <2>2. LabelOutcome(plan, c) = "TIMEOUT"
    BY <1>2, <2>1 DEF LabelOutcome
  <2>3. n = m
    BY <1>1, <2>2
  <2>4. \A i \in 1 .. n : ~Touches(plan, w[i])
    BY <1>3, <1>4, <1>6, <2>3
  <2>5. ExitAfter(plan, w, 0, 0) = [outcome |-> "OPEN", held |-> Len(w)]
    BY <1>3, <2>4, NoExit
  <2> QED BY <1>2, <2>2, <2>5 DEF LabelOutcome
<1> QED BY <1>5, <1>6

LEMMA ReplayOfMore ==
  ASSUME NEW more, NEW bs, Longer(more, bs), NEW i \in DOMAIN bs,
         ReplayLabels(bs)[i] # "TIMEOUT" \/ i + MaxHold <= Len(bs)
  PROVE  ReplayLabels(more)[i] = ReplayLabels(bs)[i]
<1> DEFINE plan == BuildRiskPlan(bs[i].decision.action, bs[i].decision.entry, bs[i].decision.stop)
           d    == SubSeq(more, i + 1, Len(more))
           c    == SubSeq(bs, i + 1, Len(bs))
<1>1. /\ i \in 1 .. Len(bs) /\ i \in DOMAIN more /\ more[i] = bs[i] /\ i + 1 \in Nat \ {0}
      /\ Len(bs) \in Nat /\ Len(more) \in Nat /\ Len(bs) <= Len(more) /\ MaxHold \in Nat
  BY SimulationAssumption DEF Longer
<1>2. /\ ReplayLabels(bs)[i] = IF bs[i].decision.action = "WAIT" THEN "INVALID" ELSE LabelOutcome(plan, c)
      /\ ReplayLabels(more)[i] = IF bs[i].decision.action = "WAIT" THEN "INVALID" ELSE LabelOutcome(plan, d)
  BY <1>1, Zenon DEF ReplayLabels
<1>3. Longer(d, c) /\ Len(c) = Len(bs) - i
  <2>1. c \in Seq(Bar) /\ Len(c) = Len(bs) - i /\ \A k \in 1 .. Len(bs) - i : c[k] = bs[i + k]
    BY <1>1, LastOnes DEF Longer
  <2>2. i \in 1 .. Len(more) /\ more \in Seq(Bar)
    BY <1>1 DEF Longer
  <2>3. d \in Seq(Bar) /\ Len(d) = Len(more) - i /\ \A k \in 1 .. Len(more) - i : d[k] = more[i + k]
    BY <2>2, LastOnes
  <2> HIDE DEF c, d
  <2>4. \A k \in 1 .. Len(bs) - i : i + k \in 1 .. Len(bs) /\ k \in 1 .. Len(more) - i
    BY <1>1
  <2>5. \A k \in 1 .. Len(c) : d[k] = c[k]
    BY <2>1, <2>3, <2>4 DEF Longer
  <2> QED BY <1>1, <2>1, <2>3, <2>5 DEF Longer
<1> HIDE DEF plan, c, d
<1>4. CASE bs[i].decision.action = "WAIT"
  BY <1>2, <1>4
<1>5. CASE bs[i].decision.action # "WAIT"
  <2>1. LabelOutcome(plan, c) # "TIMEOUT" \/ MaxHold <= Len(c)
    BY <1>1, <1>2, <1>3, <1>5
  <2> QED BY <1>2, <1>3, <1>5, <2>1, LabelOfMore
<1> QED BY <1>4, <1>5

(* The research (walk_forward.py, ml_walk_forward.py,                       *)
(* deep_learning_walk_forward.py, realtime_replay.py) never looks ahead,    *)
(* whatever the models, the windows and the record.                        *)
THEOREM ResearchNeverLooksAhead == Spec => FoldsNeverRepaint
<1> DEFINE Fixed ==
      /\ \A how \in Hows, s \in FoldStarts(bars') :
           /\ Training(bars', s, how) = Training(bars, s, how)
           /\ s + TestBars - 1 <= Len(bars) => /\ MLFold(bars', s, how) = MLFold(bars, s, how)
                                              /\ DeepFold(bars', s, how) = DeepFold(bars, s, how)
      /\ \A i \in DOMAIN bars :
           ReplayLabels(bars)[i] # "TIMEOUT" \/ i + MaxHold <= Len(bars) =>
             ReplayLabels(bars')[i] = ReplayLabels(bars)[i]
<1>1. ASSUME ProgramsInv, Next, bars' # bars
      PROVE  Fixed
  <2>1. Market
    BY <1>1 DEF Next, Session, Bot, ProcessOnce, EvaluationFails, Accept, Evaluate, CycleFailsBeforeProcessing,
                ProcessAndKeep, ProcessThenFail, Restart
  <2>2. PICK c \in Candles, d \in Decisions : CloseBar(c, d)
    BY <2>1 DEF Market
  <2>3. Longer(bars', bars) /\ Len(bars') = Len(bars) + 1 /\ Len(bars) \in Nat
    BY <1>1, <2>2, MarketKeepsMonitor DEF ProgramsInv, MonitorTypeOK, Longer
  <2>4. ASSUME NEW how \in Hows, NEW s \in FoldStarts(bars')
        PROVE  /\ Training(bars', s, how) = Training(bars, s, how)
               /\ s + TestBars - 1 <= Len(bars) => /\ MLFold(bars', s, how) = MLFold(bars, s, how)
                                                  /\ DeepFold(bars', s, how) = DeepFold(bars, s, how)
    <3>1. s \in Nat \ {0} /\ s - 1 <= Len(bars)
      BY <2>3, ResearchAssumption DEF FoldStarts
    <3> QED BY <2>3, <3>1, TrainingOfMore, FoldOfMore
  <2>5. ASSUME NEW i \in DOMAIN bars, ReplayLabels(bars)[i] # "TIMEOUT" \/ i + MaxHold <= Len(bars)
        PROVE  ReplayLabels(bars')[i] = ReplayLabels(bars)[i]
    BY <2>3, <2>5, ReplayOfMore
  <2> QED BY <2>4, <2>5
<1>2. ProgramsInv /\ [Next]_vars => [bars' # bars /\ program = "research" => Fixed]_vars
  <2> HIDE DEF Fixed
  <2> QED BY <1>1 DEF vars
<1>3. Spec => [][bars' # bars /\ program = "research" => Fixed]_vars
  <2> HIDE DEF Fixed
  <2> QED BY <1>2, ProgramsAreInvariant, PTL DEF Spec
<1> QED BY <1>3 DEF FoldsNeverRepaint
=============================================================================
