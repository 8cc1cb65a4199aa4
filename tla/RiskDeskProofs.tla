---------------------------- MODULE RiskDeskProofs -----------------------------
(***************************************************************************)
(* Proofs about the paper account behind its risk limits, for every price, *)
(* signal, limit, fee and number of bars, weeks and sessions.              *)
(***************************************************************************)
EXTENDS RiskDesk, FiniteSetTheorems, WellFoundedInduction, TLAPS

-----------------------------------------------------------------------------
(* Types.                                                                  *)

Trades == [net : Int, held : Nat, entered : Times, left : Times]

Accounts ==
  [balance : Int, realized : Int, peak : Int, position : Positions \cup {NoPosition},
   held : Nat, mark : Int, last : 0 .. MaxBar, trades : Seq(Trades)]

Switches ==
  [start : Int, peak : Int, equity : Int, lost : Nat, losses : Nat, halted : BOOLEAN,
   weekPeak : Int, week : Nat, weekLost : Nat]

AccountTypeOK ==
  /\ account \in Accounts
  /\ levels \in [stop : Int, target : Int]
  /\ lifecycle \in {"FLAT", "OPEN", "HALT"}
  /\ processed \in 0 .. MaxBar
  /\ worth \in Int
  /\ accepted \in SUBSET (1 .. processed)

-----------------------------------------------------------------------------
(* The account's functions keep its type.                                  *)

LEMMA ProductType ==
  ASSUME NEW x \in Int, NEW y \in Int
  PROVE  x * y \in Int
  OBVIOUS

LEMMA GainType ==
  ASSUME NEW p \in Positions, NEW price \in Int
  PROVE  Gain(p, price) \in Int
  BY ProductType DEF Gain, Positions

LEMMA EquityType ==
  ASSUME NEW a \in Accounts
  PROVE  Equity(a) \in Int
<1>1. a.balance \in Int /\ a.mark \in Int
  BY DEF Accounts
<1>2. CASE a.position = NoPosition
  BY <1>1, <1>2 DEF Equity
<1>3. CASE a.position # NoPosition
  <2>1. a.position \in Positions
    BY <1>3 DEF Accounts
  <2> QED BY <1>1, <1>3, <2>1, GainType DEF Equity
<1> QED BY <1>2, <1>3

(* Refreshing the peak changes nothing else, and the peak is then as high   *)
(* as it was and as the equity.                                            *)
LEMMA RefreshPeakKeeps ==
  ASSUME NEW a \in Accounts
  PROVE  LET r == RefreshPeak(a)
         IN  /\ r \in Accounts
             /\ r.peak >= a.peak /\ r.peak >= Equity(r)
             /\ r.balance = a.balance /\ r.realized = a.realized /\ r.position = a.position
             /\ r.held = a.held /\ r.mark = a.mark /\ r.last = a.last /\ r.trades = a.trades
<1> DEFINE r == RefreshPeak(a)
<1>1. Equity(a) \in Int
  BY EquityType
<1>2. /\ r \in Accounts /\ r.peak >= a.peak /\ r.peak >= Equity(a)
      /\ r.balance = a.balance /\ r.realized = a.realized /\ r.position = a.position
      /\ r.held = a.held /\ r.mark = a.mark /\ r.last = a.last /\ r.trades = a.trades
  <2> HIDE DEF r
  <2>1. CASE Equity(a) > a.peak
    <3>1. r = [a EXCEPT !.peak = Equity(a)]
      BY <2>1 DEF r, RefreshPeak
    <3> QED BY <1>1, <2>1, <3>1 DEF Accounts
  <2>2. CASE ~(Equity(a) > a.peak)
    <3>1. r = a
      BY <2>2 DEF r, RefreshPeak
    <3> QED BY <1>1, <2>2, <3>1 DEF Accounts
  <2> QED BY <2>1, <2>2
<1> HIDE DEF r
<1>3. Equity(r) = Equity(a)
  BY <1>2 DEF Equity
<1> QED BY <1>2, <1>3 DEF r

(* A bar at a new time: a position is held for one more bar.               *)
LEMMA MarkKeeps ==
  ASSUME NEW a \in Accounts, NEW t \in Times, a.last # t, NEW price \in Int
  PROVE  LET r == Mark(a, price, t)
         IN  /\ r \in Accounts
             /\ r.peak >= a.peak /\ r.peak >= Equity(r)
             /\ r.balance = a.balance /\ r.realized = a.realized /\ r.position = a.position
             /\ r.held = (IF a.position = NoPosition THEN a.held ELSE a.held + 1)
             /\ r.last = t /\ r.trades = a.trades
<1> DEFINE m == [a EXCEPT !.held = IF a.position = NoPosition THEN @ ELSE @ + 1,
                          !.last = t, !.mark = price]
<1>1. /\ m \in Accounts /\ m.peak = a.peak
      /\ m.balance = a.balance /\ m.realized = a.realized /\ m.position = a.position
      /\ m.held = (IF a.position = NoPosition THEN a.held ELSE a.held + 1)
      /\ m.last = t /\ m.trades = a.trades
  <2>1. t \in 0 .. MaxBar
    BY AccountAssumption DEF Times
  <2>2. (IF a.position = NoPosition THEN a.held ELSE a.held + 1) \in Nat
    BY DEF Accounts
  <2> QED BY <2>1, <2>2 DEF Accounts
<1>2. Mark(a, price, t) = RefreshPeak(m)
  BY DEF Mark
<1> HIDE DEF m
<1> QED BY <1>1, <1>2, RefreshPeakKeeps

LEMMA OpenPositionKeeps ==
  ASSUME NEW a \in Accounts, NEW side \in {"LONG", "SHORT"}, NEW quantity \in Nat,
         NEW entry \in Nat, NEW t \in Times
  PROVE  LET r == OpenPosition(a, side, quantity, entry, t)
         IN  /\ r \in Accounts
             /\ r.peak >= a.peak /\ r.peak >= Equity(r)
             /\ r.balance = a.balance /\ r.realized = a.realized
             /\ r.position = [side |-> side, quantity |-> quantity, entry |-> entry, since |-> t]
             /\ r.held = 0 /\ r.last = t /\ r.trades = a.trades
<1> DEFINE p == [side |-> side, quantity |-> quantity, entry |-> entry, since |-> t]
           m == [a EXCEPT !.position = p, !.last = t, !.held = 0, !.mark = entry]
<1>1. /\ m \in Accounts /\ m.peak = a.peak
      /\ m.balance = a.balance /\ m.realized = a.realized /\ m.position = p
      /\ m.held = 0 /\ m.last = t /\ m.trades = a.trades
  <2>1. t \in 0 .. MaxBar
    BY AccountAssumption DEF Times
  <2>2. p \in Positions
    BY DEF Positions
  <2> HIDE DEF p
  <2>3. m \in Accounts
    <3>1. entry \in Int
      OBVIOUS
    <3> QED BY <2>1, <2>2, <3>1 DEF Accounts
  <2>4. /\ m.peak = a.peak /\ m.balance = a.balance /\ m.realized = a.realized
        /\ m.trades = a.trades
    BY DEF Accounts
  <2>5. m.position = p /\ m.held = 0 /\ m.last = t
    BY DEF Accounts
  <2> QED BY <2>3, <2>4, <2>5
<1>2. OpenPosition(a, side, quantity, entry, t) = RefreshPeak(m)
  BY DEF OpenPosition
<1> HIDE DEF m
<1> QED BY <1>1, <1>2, RefreshPeakKeeps

(* What closing the position of an account at a price earns. *)
Net(a, price) == Gain(a.position, price) - Fee * a.position.quantity

LEMMA ClosePositionKeeps ==
  ASSUME NEW a \in Accounts, a.position # NoPosition, NEW price \in Int, NEW t \in Times
  PROVE  LET r == ClosePosition(a, price, t)
         IN  /\ r \in Accounts /\ Net(a, price) \in Int
             /\ r.peak >= a.peak /\ r.peak >= Equity(r)
             /\ r.balance = a.balance + Net(a, price) /\ r.realized = a.realized + Net(a, price)
             /\ r.position = NoPosition /\ r.last = t
             /\ r.trades = Append(a.trades, [net |-> Net(a, price), held |-> a.held,
                                             entered |-> a.position.since, left |-> t])
<1> DEFINE net == Net(a, price)
           trade == [net |-> net, held |-> a.held, entered |-> a.position.since, left |-> t]
           m == [a EXCEPT !.balance = @ + net, !.realized = @ + net, !.position = NoPosition,
                          !.last = t, !.held = 0, !.mark = price, !.trades = Append(@, trade)]
<1>1. a.position \in Positions
  BY DEF Accounts
<1>2. net \in Int
  <2>1. Fee * a.position.quantity \in Int
    BY <1>1, AccountAssumption, ProductType DEF Positions
  <2> QED BY <1>1, <2>1, GainType DEF Net
<1>3. trade \in Trades
  <2> HIDE DEF net
  <2> QED BY <1>1, <1>2 DEF Positions, Accounts, Trades
<1>4. ClosePosition(a, price, t) = RefreshPeak(m)
  BY DEF ClosePosition, Net
<1> HIDE DEF net, trade
<1>5. /\ m \in Accounts /\ m.peak = a.peak
      /\ m.balance = a.balance + net /\ m.realized = a.realized + net
      /\ m.position = NoPosition /\ m.last = t /\ m.trades = Append(a.trades, trade)
  <2>1. t \in 0 .. MaxBar
    BY AccountAssumption DEF Times
  <2>2. Append(a.trades, trade) \in Seq(Trades) /\ a.balance + net \in Int /\ a.realized + net \in Int
    BY <1>2, <1>3 DEF Accounts
  <2>3. m \in Accounts
    BY <2>1, <2>2 DEF Accounts
  <2>4. m.peak = a.peak /\ m.balance = a.balance + net /\ m.realized = a.realized + net
    BY DEF Accounts
  <2>5. m.position = NoPosition /\ m.last = t /\ m.trades = Append(a.trades, trade)
    BY DEF Accounts
  <2> QED BY <2>3, <2>4, <2>5
<1> HIDE DEF m
<1>6. /\ RefreshPeak(m) \in Accounts
      /\ RefreshPeak(m).peak >= m.peak /\ RefreshPeak(m).peak >= Equity(RefreshPeak(m))
      /\ RefreshPeak(m).balance = m.balance /\ RefreshPeak(m).realized = m.realized
      /\ RefreshPeak(m).position = m.position /\ RefreshPeak(m).last = m.last
      /\ RefreshPeak(m).trades = m.trades
  BY <1>5, RefreshPeakKeeps
<1> QED BY <1>2, <1>4, <1>5, <1>6 DEF net, trade

-----------------------------------------------------------------------------
(* The sum of the ledger.  Induction goes over a set of numbers, and the    *)
(* function that sums exists because it does for every prefix.             *)

LEMMA Induction ==
  ASSUME NEW S, 0 \in S, \A n \in Nat : n \in S => n + 1 \in S
  PROVE  Nat \subseteq S
<1> DEFINE T == Nat \ S
<1> SUFFICES ASSUME T # {} PROVE FALSE
  OBVIOUS
<1>1. PICK x \in T : \A y \in T : ~ (<<y, x>> \in OpToRel(<, Nat))
  BY WFMin, NatLessThanWellFounded
<1>2. x \in Nat /\ x # 0 /\ x - 1 \in Nat
  OBVIOUS
<1>3. <<x - 1, x>> \in OpToRel(<, Nat)
  BY <1>2 DEF OpToRel
<1>4. x - 1 \in S
  BY <1>1, <1>2, <1>3
<1> QED BY <1>2, <1>4

(* g sums the first numbers of w. *)
Sums(g, w, n) ==
  /\ g \in [0 .. n -> Int]
  /\ g[0] = 0
  /\ \A i \in 1 .. n : g[i] = g[i - 1] + w[i].net

LEMMA SumsExist ==
  ASSUME NEW w \in Seq(Trades)
  PROVE  \E g : Sums(g, w, Len(w))
<1> DEFINE S == {n \in Nat : n <= Len(w) => \E g : Sums(g, w, n)}
<1>1. 0 \in S
  <2>1. Sums([i \in 0 .. 0 |-> 0], w, 0)
    BY DEF Sums
  <2> QED BY <2>1
<1>2. ASSUME NEW n \in Nat, n \in S
      PROVE  n + 1 \in S
  <2> SUFFICES ASSUME n + 1 <= Len(w) PROVE \E g : Sums(g, w, n + 1)
    OBVIOUS
  <2>1. PICK g : Sums(g, w, n)
    BY <1>2
  <2>2. w[n + 1].net \in Int
    <3>1. w[n + 1] \in Trades
      OBVIOUS
    <3> QED BY <3>1 DEF Trades
  <2> DEFINE h == [i \in 0 .. n + 1 |-> IF i <= n THEN g[i] ELSE g[n] + w[n + 1].net]
  <2>3. Sums(h, w, n + 1)
    BY <2>1, <2>2 DEF Sums
  <2> QED BY <2>3
<1>3. Nat \subseteq S
  <2> HIDE DEF S
  <2> QED BY <1>1, <1>2, Induction
<1> QED BY <1>3

LEMMA SumsAgree ==
  ASSUME NEW w, NEW v, NEW n \in Nat, NEW g, NEW h, NEW m \in Nat, n <= m,
         Sums(g, w, n), Sums(h, v, m), \A i \in 1 .. n : w[i] = v[i]
  PROVE  g[n] = h[n]
<1> DEFINE S == {i \in Nat : i <= n => g[i] = h[i]}
<1>1. 0 \in S
  BY DEF Sums
<1>2. ASSUME NEW i \in Nat, i \in S
      PROVE  i + 1 \in S
  <2> SUFFICES ASSUME i + 1 <= n PROVE g[i + 1] = h[i + 1]
    OBVIOUS
  <2>1. /\ g[i] = h[i] /\ w[i + 1] = v[i + 1]
        /\ i + 1 \in 1 .. n /\ i + 1 \in 1 .. m /\ (i + 1) - 1 = i
    BY <1>2
  <2> QED BY <2>1 DEF Sums
<1>3. Nat \subseteq S
  <2> HIDE DEF S
  <2> QED BY <1>1, <1>2, Induction
<1> QED BY <1>3

LEMMA EarnedIsTheSum ==
  ASSUME NEW w \in Seq(Trades)
  PROVE  \E g : Sums(g, w, Len(w)) /\ Earned(w) = g[Len(w)]
<1> DEFINE step(g) == [n \in 0 .. Len(w) |-> IF n = 0 THEN 0 ELSE g[n - 1] + w[n].net]
           sum == CHOOSE g : g = step(g)
<1>1. \E g : g = step(g)
  <2>1. PICK g : Sums(g, w, Len(w))
    BY SumsExist
  <2>2. g = step(g)
    BY <2>1 DEF Sums
  <2> QED BY <2>2
<1>2. sum = step(sum)
  BY <1>1
<1>3. Earned(w) = sum[Len(w)]
  BY DEF Earned
<1>4. PICK g : Sums(g, w, Len(w))
  BY SumsExist
<1>5. \A n \in 0 .. Len(w) : sum[n] = g[n]
  <2> HIDE DEF sum
  <2> DEFINE S == {n \in Nat : n <= Len(w) => sum[n] = g[n]}
  <2>1. 0 \in S
    BY <1>2, <1>4 DEF Sums
  <2>2. ASSUME NEW n \in Nat, n \in S
        PROVE  n + 1 \in S
    <3> SUFFICES ASSUME n + 1 <= Len(w) PROVE sum[n + 1] = g[n + 1]
      OBVIOUS
    <3>1. sum[n] = g[n] /\ n + 1 \in 1 .. Len(w) /\ (n + 1) - 1 = n /\ n + 1 # 0
      BY <2>2
    <3>2. sum[n + 1] = sum[n] + w[n + 1].net
      BY <1>2, <3>1
    <3> QED BY <1>4, <3>1, <3>2 DEF Sums
  <2>3. Nat \subseteq S
    <3> HIDE DEF S
    <3> QED BY <2>1, <2>2, Induction
  <2> QED BY <2>3
<1>6. Len(w) \in 0 .. Len(w)
  OBVIOUS
<1> HIDE DEF sum
<1> QED BY <1>3, <1>4, <1>5, <1>6

LEMMA EarnedNothing == Earned(<<>>) = 0
<1>1. <<>> \in Seq(Trades) /\ Len(<<>>) = 0
  OBVIOUS
<1>2. PICK g : Sums(g, <<>>, 0) /\ Earned(<<>>) = g[0]
  BY <1>1, EarnedIsTheSum
<1> QED BY <1>2 DEF Sums

LEMMA EarnedAppend ==
  ASSUME NEW w \in Seq(Trades), NEW trade \in Trades
  PROVE  Earned(Append(w, trade)) = Earned(w) + trade.net
<1> DEFINE v == Append(w, trade)
           n == Len(w)
<1>1. v \in Seq(Trades) /\ Len(v) = n + 1 /\ n \in Nat /\ v[n + 1] = trade
      /\ \A i \in 1 .. n : w[i] = v[i]
  OBVIOUS
<1>2. PICK g : Sums(g, w, n) /\ Earned(w) = g[n]
  BY EarnedIsTheSum
<1> HIDE DEF v
<1>3. PICK h : Sums(h, v, n + 1) /\ Earned(v) = h[n + 1]
  BY <1>1, EarnedIsTheSum
<1> HIDE DEF n
<1>4. g[n] = h[n]
  BY <1>1, <1>2, <1>3, SumsAgree
<1>5. h[n + 1] = h[n] + trade.net
  BY <1>1, <1>3 DEF Sums
<1> QED BY <1>2, <1>3, <1>4, <1>5 DEF v

-----------------------------------------------------------------------------
(* What a division gives back.                                             *)

LEMMA Division ==
  ASSUME NEW x \in Int, NEW d \in Nat \ {0}
  PROVE  x \div d \in Int /\ d * (x \div d) <= x /\ x < d * (x \div d) + d
<1>1. x \div d \in Int
  OBVIOUS
<1>2. x = d * (x \div d) + (x % d) /\ x % d \in 0 .. d - 1
  OBVIOUS
<1> QED BY <1>1, <1>2, ProductType

-----------------------------------------------------------------------------
(* The invariant of the account.                                           *)

(* The times of a set between two times. *)
Between(S, from, to) == {u \in S : from < u /\ u <= to}

ClockInv ==
  /\ account.last = processed
  /\ account.peak >= worth
  /\ lifecycle = "OPEN" => account.position # NoPosition
  /\ lifecycle = "FLAT" => account.position = NoPosition

(* The trade was held for the bars of S after its entry. *)
Counted(trade, S) == trade.held = Cardinality(Between(S, trade.entered, trade.left))

HeldInv ==
  /\ \A k \in DOMAIN account.trades :
       account.trades[k].left <= processed /\ Counted(account.trades[k], accepted)
  /\ account.position # NoPosition =>
       /\ account.position.since <= processed
       /\ account.held = Cardinality(Between(accepted, account.position.since, processed))

(* How far the stop is on the losing side of the entry. *)
AtRisk(p) == IF p.side = "LONG" THEN p.entry - levels.stop ELSE levels.stop - p.entry

(* The levels of an open position are those it was sized for, and the loss  *)
(* at its stop is within the budget, up to the rounding of the quantity.    *)
SizedInv ==
  account.position # NoPosition =>
    LET p == account.position
    IN  /\ AtRisk(p) > 0
        /\ p.quantity > 0
        /\ levels.target = (IF p.side = "LONG" THEN p.entry + 2 * AtRisk(p) ELSE p.entry - 2 * AtRisk(p))
        /\ 200 * (AtRisk(p) * p.quantity) <= 2 * (account.balance * RiskPct) + 100 * AtRisk(p)

AccountInv == AccountTypeOK /\ ClockInv /\ HeldInv /\ SizedInv

-----------------------------------------------------------------------------
(* Counting the bars of a position.                                        *)

LEMMA BetweenOneMore ==
  ASSUME NEW now \in Nat, NEW S \in SUBSET (1 .. now), NEW t \in Nat, now < t,
         NEW from \in Nat, from <= now
  PROVE  /\ Cardinality(Between(S, from, now)) \in Nat
         /\ Cardinality(Between(S \cup {t}, from, t)) = Cardinality(Between(S, from, now)) + 1
         /\ \A to \in Nat : to <= now => Between(S \cup {t}, from, to) = Between(S, from, to)
<1>1. IsFiniteSet(Between(S, from, now)) /\ Cardinality(Between(S, from, now)) \in Nat
  <2>1. IsFiniteSet(1 .. now)
    BY FS_Interval
  <2>2. Between(S, from, now) \subseteq 1 .. now
    BY DEF Between
  <2> QED BY <2>1, <2>2, FS_Subset, FS_CardinalityType
<1>2. Between(S \cup {t}, from, t) = Between(S, from, now) \cup {t}
  <2>1. \A u \in S : u \in Nat /\ u <= now
    OBVIOUS
  <2>2. from < t /\ t <= t
    OBVIOUS
  <2>3. \A u \in S : u <= t /\ (from < u /\ u <= t <=> from < u /\ u <= now)
    BY <2>1
  <2> QED BY <2>2, <2>3 DEF Between
<1>3. t \notin Between(S, from, now)
  BY DEF Between
<1>4. Cardinality(Between(S, from, now) \cup {t}) = Cardinality(Between(S, from, now)) + 1
  BY <1>1, <1>3, FS_AddElement
<1>5. \A to \in Nat : to <= now => Between(S \cup {t}, from, to) = Between(S, from, to)
  BY DEF Between
<1> QED BY <1>1, <1>2, <1>4, <1>5

LEMMA BetweenNothing ==
  ASSUME NEW t \in Nat, NEW S \in SUBSET Nat
  PROVE  Cardinality(Between(S, t, t)) = 0
<1>1. Between(S, t, t) = {}
  <2>1. \A u \in S : ~ (t < u /\ u <= t)
    OBVIOUS
  <2> QED BY <2>1 DEF Between
<1> QED BY <1>1, FS_EmptySet

(* What an accepted bar does to the clock and to the counts of the trades   *)
(* that were closed before.                                                *)
LEMMA AcceptKeeps ==
  ASSUME AccountInv, NEW t \in Times, processed < t, NEW a \in Accounts, Accept(t, a),
         a.peak >= account.peak, a.peak >= Equity(a), a.last = t
  PROVE  /\ processed' = t /\ account' = a /\ worth' \in Int /\ worth' <= a.peak
         /\ accepted' = accepted \cup {t} /\ accepted' \in SUBSET (1 .. processed')
         /\ processed' \in 0 .. MaxBar
         /\ \A k \in DOMAIN account.trades :
              account.trades[k].left <= t /\ Counted(account.trades[k], accepted')
         /\ account.position # NoPosition =>
              Cardinality(Between(accepted', account.position.since, t)) = account.held + 1
<1>1. /\ processed' = t /\ account' = a /\ accepted' = accepted \cup {t}
      /\ worth' = (IF Equity(a) > worth THEN Equity(a) ELSE worth)
  BY DEF Accept
<1>2. Equity(a) \in Int /\ a.peak \in Int /\ account.peak \in Int /\ worth \in Int
  BY EquityType DEF Accounts, AccountInv, AccountTypeOK
<1>3. worth' \in Int /\ worth' <= a.peak
  BY <1>1, <1>2 DEF AccountInv, ClockInv
<1>4. /\ accepted \in SUBSET (1 .. processed) /\ processed \in Nat /\ t \in Nat /\ MaxBar \in Nat
      /\ Times \subseteq Nat
  BY AccountAssumption DEF AccountInv, AccountTypeOK, Times
<1>5. accepted' \in SUBSET (1 .. t) /\ t \in 0 .. MaxBar
  BY <1>1, <1>4 DEF Times
<1>6. ASSUME NEW k \in DOMAIN account.trades
      PROVE  account.trades[k].left <= t /\ Counted(account.trades[k], accepted')
  <2>1. account.trades[k] \in Trades
    BY DEF AccountInv, AccountTypeOK, Accounts
  <2> DEFINE w == account.trades[k]
  <2>2. w.left \in Nat /\ w.entered \in Nat
    BY <1>4, <2>1 DEF Trades
  <2>3. w.left <= processed /\ Counted(w, accepted)
    BY DEF AccountInv, HeldInv
  <2> HIDE DEF w
  <2>4. Between(accepted \cup {t}, w.entered, w.left) = Between(accepted, w.entered, w.left)
    BY <1>4, <2>2, <2>3 DEF Between
  <2>5. w.left <= t /\ Counted(w, accepted')
    BY <1>1, <1>4, <2>2, <2>3, <2>4 DEF Counted
  <2> QED BY <2>5 DEF w
<1>7. ASSUME account.position # NoPosition
      PROVE  Cardinality(Between(accepted', account.position.since, t)) = account.held + 1
  <2>1. account.position.since \in Nat
    BY <1>4, <1>7 DEF AccountInv, AccountTypeOK, Accounts, Positions
  <2>2. /\ account.position.since <= processed
        /\ account.held = Cardinality(Between(accepted, account.position.since, processed))
    BY <1>7 DEF AccountInv, HeldInv
  <2> QED BY <1>1, <1>4, <2>1, <2>2, BetweenOneMore
<1> QED BY <1>1, <1>3, <1>5, <1>6, <1>7

-----------------------------------------------------------------------------
(* The steps of the account.                                               *)

LEMMA ExitPriceType ==
  ASSUME AccountTypeOK, NEW b \in PriceBars
  PROVE  ExitPrice(b) \in Int
BY DEF AccountTypeOK, ExitPrice

(* A bar of the market has an integer close. *)
LEMMA CloseType ==
  ASSUME NEW b \in PriceBars
  PROVE  b.close \in Int
BY AccountAssumption

LEMMA InitAccountInv ==
  ASSUME AccountInit
  PROVE  AccountInv
<1>1. InitialBalance \in Int /\ MaxBar \in Nat
  BY AccountAssumption
<1>2. account \in Accounts
  <2>1. <<>> \in Seq(Trades) /\ 0 \in 0 .. MaxBar
    BY <1>1
  <2> QED BY <1>1, <2>1 DEF AccountInit, Accounts
<1>3. account.position = NoPosition /\ account.last = 0 /\ account.peak = InitialBalance
      /\ account.trades = <<>>
  BY DEF AccountInit
<1>4. AccountTypeOK
  BY <1>1, <1>2 DEF AccountInit, AccountTypeOK, NoLevels
<1>5. ClockInv
  BY <1>1, <1>3 DEF AccountInit, ClockInv
<1>6. HeldInv
  BY <1>3 DEF HeldInv
<1>7. SizedInv
  BY <1>3 DEF SizedInv
<1> QED BY <1>4, <1>5, <1>6, <1>7 DEF AccountInv

LEMMA AccountStutters ==
  ASSUME AccountInv, UNCHANGED accountVars
  PROVE  AccountInv'
BY DEF AccountInv, accountVars, AccountTypeOK, ClockInv, HeldInv, SizedInv, AtRisk

LEMMA RejectKeeps ==
  ASSUME AccountInv, NEW t, RejectTime(t)
  PROVE  AccountInv'
<1>1. AccountTypeOK' /\ ClockInv'
  BY DEF AccountInv, AccountTypeOK, ClockInv, RejectTime, Halt
<1>2. HeldInv'
  BY DEF AccountInv, HeldInv, RejectTime, Halt
<1>3. SizedInv'
  BY DEF AccountInv, SizedInv, AtRisk, RejectTime, Halt
<1> QED BY <1>1, <1>2, <1>3 DEF AccountInv

LEMMA RecoverKeeps ==
  ASSUME AccountInv, Recover
  PROVE  /\ AccountInv' /\ account'.balance = account.balance
         /\ account'.position = account.position
<1> DEFINE a == RefreshPeak(account)
<1>1. account \in Accounts
  BY DEF AccountInv, AccountTypeOK
<1>2. /\ a \in Accounts /\ a.peak >= account.peak
      /\ a.balance = account.balance /\ a.position = account.position
      /\ a.held = account.held /\ a.last = account.last /\ a.trades = account.trades
  BY <1>1, RefreshPeakKeeps
<1>3. /\ account' = a
      /\ lifecycle' = (IF account.position = NoPosition THEN "FLAT" ELSE "OPEN")
      /\ UNCHANGED <<levels, processed, worth, accepted>>
  BY DEF Recover
<1> HIDE DEF a
<1>4. AccountTypeOK'
  BY <1>2, <1>3 DEF AccountInv, AccountTypeOK
<1>5. ClockInv'
  <2>1. a.peak \in Int /\ account.peak \in Int /\ worth \in Int
    BY <1>1, <1>2 DEF Accounts, AccountInv, AccountTypeOK
  <2> QED BY <1>2, <1>3, <2>1 DEF AccountInv, ClockInv
<1>6. HeldInv'
  BY <1>2, <1>3 DEF AccountInv, HeldInv
<1>7. SizedInv'
  BY <1>2, <1>3 DEF AccountInv, SizedInv, AtRisk
<1> QED BY <1>2, <1>3, <1>4, <1>5, <1>6, <1>7 DEF AccountInv

LEMMA KeepKeeps ==
  ASSUME AccountInv, NEW t \in Times, NEW b \in PriceBars, NEW signal, KeepOnBar(t, b, signal)
  PROVE  /\ AccountInv' /\ account'.balance = account.balance
         /\ account'.position = account.position
<1> DEFINE a == Mark(account, b.close, t)
<1>1. account \in Accounts /\ processed < t /\ account.last # t
  BY AccountAssumption DEF AccountInv, AccountTypeOK, ClockInv, KeepOnBar, Times
<1>2. /\ a \in Accounts /\ a.peak >= account.peak /\ a.peak >= Equity(a)
      /\ a.balance = account.balance /\ a.position = account.position
      /\ a.held = (IF account.position = NoPosition THEN account.held ELSE account.held + 1)
      /\ a.last = t /\ a.trades = account.trades
  BY <1>1, CloseType, MarkKeeps
<1>3. Accept(t, a) /\ UNCHANGED <<levels, lifecycle>>
  BY DEF KeepOnBar
<1> HIDE DEF a
<1>4. /\ processed' = t /\ account' = a /\ worth' \in Int /\ worth' <= a.peak
      /\ accepted' \in SUBSET (1 .. processed') /\ processed' \in 0 .. MaxBar
      /\ \A k \in DOMAIN account.trades :
           account.trades[k].left <= t /\ Counted(account.trades[k], accepted')
      /\ account.position # NoPosition =>
           Cardinality(Between(accepted', account.position.since, t)) = account.held + 1
  BY <1>1, <1>2, <1>3, AcceptKeeps
<1>5. AccountTypeOK'
  BY <1>2, <1>3, <1>4 DEF AccountInv, AccountTypeOK
<1>6. ClockInv'
  <2>1. a.peak \in Int
    BY <1>2 DEF Accounts
  <2> QED BY <1>2, <1>3, <1>4, <2>1 DEF AccountInv, ClockInv
<1>7. HeldInv'
  <2>1. ASSUME account.position # NoPosition
        PROVE  account.position.since <= t
    <3>1. account.position.since <= processed /\ account.position.since \in Nat
      BY <1>1, <2>1, AccountAssumption DEF AccountInv, HeldInv, Accounts, Positions, Times
    <3> QED BY <1>1, <3>1, AccountAssumption DEF Times, AccountInv, AccountTypeOK
  <2> QED BY <1>2, <1>4, <2>1 DEF HeldInv
<1>8. SizedInv'
  BY <1>2, <1>3, <1>4 DEF AccountInv, SizedInv, AtRisk
<1> QED BY <1>2, <1>4, <1>5, <1>6, <1>7, <1>8 DEF AccountInv

LEMMA CloseKeeps ==
  ASSUME AccountInv, NEW t \in Times, NEW b \in PriceBars, CloseOnBar(t, b)
  PROVE  /\ AccountInv' /\ account'.position = NoPosition /\ account.position # NoPosition
         /\ account'.balance = account.balance + Net(account, ExitPrice(b))
         /\ Net(account, ExitPrice(b)) \in Int
<1> DEFINE m == Mark(account, b.close, t)
           a == ClosePosition(m, ExitPrice(b), t)
           trade == [net |-> Net(m, ExitPrice(b)), held |-> m.held,
                     entered |-> m.position.since, left |-> t]
<1>1. /\ account \in Accounts /\ processed < t /\ account.last # t
      /\ account.position # NoPosition
  BY AccountAssumption DEF AccountInv, AccountTypeOK, ClockInv, CloseOnBar, Times
<1>2. /\ m \in Accounts /\ m.peak >= account.peak
      /\ m.balance = account.balance /\ m.position = account.position
      /\ m.held = account.held + 1 /\ m.last = t /\ m.trades = account.trades
  BY <1>1, CloseType, MarkKeeps
<1>3. Accept(t, a) /\ levels' = NoLevels /\ lifecycle' = "FLAT"
  BY DEF CloseOnBar
<1>4. ExitPrice(b) \in Int
  BY ExitPriceType DEF AccountInv
<1> HIDE DEF m
<1>5. /\ a \in Accounts /\ Net(m, ExitPrice(b)) \in Int
      /\ a.peak >= m.peak /\ a.peak >= Equity(a)
      /\ a.balance = m.balance + Net(m, ExitPrice(b))
      /\ a.position = NoPosition /\ a.last = t
      /\ a.trades = Append(m.trades, trade)
  BY <1>1, <1>2, <1>4, ClosePositionKeeps
<1>6. Net(m, ExitPrice(b)) = Net(account, ExitPrice(b))
  BY <1>2 DEF Net
<1> HIDE DEF a
<1>7. a.peak >= account.peak
  BY <1>1, <1>2, <1>5 DEF Accounts
<1>8. /\ processed' = t /\ account' = a /\ worth' \in Int /\ worth' <= a.peak
      /\ accepted' \in SUBSET (1 .. processed') /\ processed' \in 0 .. MaxBar
      /\ \A k \in DOMAIN account.trades :
           account.trades[k].left <= t /\ Counted(account.trades[k], accepted')
      /\ Cardinality(Between(accepted', account.position.since, t)) = account.held + 1
  BY <1>1, <1>3, <1>5, <1>7, AcceptKeeps
<1>9. AccountTypeOK'
  BY <1>3, <1>5, <1>8 DEF AccountInv, AccountTypeOK, NoLevels
<1>10. ClockInv'
  <2>1. a.peak \in Int
    BY <1>5 DEF Accounts
  <2> QED BY <1>3, <1>5, <1>8, <2>1 DEF ClockInv
<1>11. HeldInv'
  <2>1. trade.left <= t /\ Counted(trade, accepted')
    <3>1. t \in Int
      BY AccountAssumption DEF Times
    <3> QED BY <1>2, <1>8, <3>1 DEF Counted
  <2> HIDE DEF trade
  <2>2. m.trades \in Seq(Trades)
    BY <1>2 DEF Accounts
  <2>3. ASSUME NEW k \in DOMAIN a.trades
        PROVE  \/ a.trades[k] = trade
               \/ k \in DOMAIN m.trades /\ a.trades[k] = m.trades[k]
    <3> DEFINE w == m.trades
    <3>1. w \in Seq(Trades) /\ k \in DOMAIN Append(w, trade)
      BY <1>5, <2>2
    <3> HIDE DEF w
    <3>2. k \in 1 .. Len(w) + 1 /\ Len(w) \in Nat /\ DOMAIN w = 1 .. Len(w)
      BY <3>1
    <3>3. Append(w, trade)[k] = (IF k = Len(w) + 1 THEN trade ELSE w[k])
      BY <3>1, <3>2
    <3>4. \/ Append(w, trade)[k] = trade
          \/ k \in DOMAIN w /\ Append(w, trade)[k] = w[k]
      BY <3>2, <3>3
    <3> QED BY <1>5, <3>4 DEF w
  <2>4. \A k \in DOMAIN a.trades : a.trades[k].left <= t /\ Counted(a.trades[k], accepted')
    BY <1>2, <1>8, <2>1, <2>3
  <2> QED BY <1>5, <1>8, <2>4 DEF HeldInv
<1>12. SizedInv'
  BY <1>5, <1>8 DEF SizedInv
<1> QED BY <1>1, <1>2, <1>5, <1>6, <1>8, <1>9, <1>10, <1>11, <1>12 DEF AccountInv

(* The quantity never risks more than the budget and half a unit of it.    *)
LEMMA QuantityFits ==
  ASSUME AccountTypeOK, NEW signal \in Signals, signal.entry # signal.stop
  PROVE  /\ Apart(signal) \in Nat \ {0}
         /\ Quantity(signal) \in Int
         /\ 200 * (Apart(signal) * Quantity(signal)) <= 2 * (account.balance * RiskPct) + 100 * Apart(signal)
<1> DEFINE d == Apart(signal)
           m == account.balance * RiskPct
<1>1. signal.entry \in Nat /\ signal.stop \in Nat
  BY AccountAssumption
<1>2. d \in Nat \ {0}
  BY <1>1 DEF Apart
<1>3. account.balance \in Int /\ RiskPct \in Int
  BY AccountAssumption DEF AccountTypeOK, Accounts
<1>4. m \in Int /\ 2 * account.balance * RiskPct = 2 * m
  BY <1>3, ProductType
<1> HIDE DEF d, m
<1>5. Quantity(signal) = (2 * m + 100 * d) \div (200 * d)
  BY <1>4 DEF Quantity, d
<1>6. 200 * d \in Nat \ {0} /\ 2 * m + 100 * d \in Int
  BY <1>2, <1>4
<1>7. Quantity(signal) \in Int /\ (200 * d) * Quantity(signal) <= 2 * m + 100 * d
  BY <1>5, <1>6, Division
<1> HIDE DEF Quantity
<1>8. (200 * d) * Quantity(signal) = 200 * (d * Quantity(signal))
  BY <1>2, <1>7
<1> QED BY <1>2, <1>7, <1>8 DEF d, m

LEMMA EnterKeeps ==
  ASSUME AccountInv, NEW t \in Times, NEW b \in PriceBars, NEW signal \in Signals,
         EnterOnBar(t, b, signal), PlanIsSound(signal)
  PROVE  /\ AccountInv' /\ account'.balance = account.balance
         /\ account.position = NoPosition /\ account'.position # NoPosition
<1> DEFINE m == Mark(account, b.close, t)
           p == [side |-> signal.action, quantity |-> Quantity(signal),
                 entry |-> signal.entry, since |-> t]
           a == OpenPosition(m, signal.action, Quantity(signal), signal.entry, t)
<1>1. /\ account \in Accounts /\ processed < t /\ account.last # t
      /\ account.position = NoPosition
  BY AccountAssumption DEF AccountInv, AccountTypeOK, ClockInv, EnterOnBar, Times
<1>2. /\ m \in Accounts /\ m.peak >= account.peak
      /\ m.balance = account.balance /\ m.trades = account.trades
  BY <1>1, CloseType, MarkKeeps
<1>3. /\ Accept(t, a) /\ lifecycle' = "OPEN"
      /\ levels' = [stop |-> signal.stop, target |-> Target(signal)]
      /\ signal.action \in {"LONG", "SHORT"} /\ signal.entry # signal.stop
      /\ Quantity(signal) > 0
  BY DEF EnterOnBar
<1>4. signal.entry \in Nat /\ signal.stop \in Nat
  BY AccountAssumption
<1>5. /\ Apart(signal) \in Nat \ {0} /\ Quantity(signal) \in Nat
      /\ 200 * (Apart(signal) * Quantity(signal)) <= 2 * (account.balance * RiskPct) + 100 * Apart(signal)
  BY <1>3, QuantityFits DEF AccountInv
<1> HIDE DEF m
<1>6. /\ a \in Accounts
      /\ a.peak >= m.peak /\ a.peak >= Equity(a)
      /\ a.balance = m.balance /\ a.position = p
      /\ a.held = 0 /\ a.last = t /\ a.trades = m.trades
  BY <1>2, <1>3, <1>4, <1>5, OpenPositionKeeps
<1> HIDE DEF a
<1>7. a.peak >= account.peak
  BY <1>1, <1>2, <1>6 DEF Accounts
<1>8. /\ processed' = t /\ account' = a /\ worth' \in Int /\ worth' <= a.peak
      /\ accepted' \in SUBSET (1 .. processed') /\ processed' \in 0 .. MaxBar
      /\ \A k \in DOMAIN account.trades :
           account.trades[k].left <= t /\ Counted(account.trades[k], accepted')
  BY <1>1, <1>3, <1>6, <1>7, AcceptKeeps
<1>9. p \in Positions
  BY <1>3, <1>4, <1>5 DEF Positions
<1>10. p # NoPosition
  BY <1>9, AccountAssumption
<1>11. AccountTypeOK'
  <2>1. Target(signal) \in Int
    BY <1>4, <1>5 DEF Target
  <2> QED BY <1>3, <1>4, <1>6, <1>8, <2>1 DEF AccountInv, AccountTypeOK
<1>12. ClockInv'
  <2>1. a.peak \in Int
    BY <1>6 DEF Accounts
  <2> QED BY <1>3, <1>6, <1>8, <1>10, <2>1 DEF ClockInv
<1>13. t \in Nat /\ accepted' \in SUBSET Nat
  BY <1>8, AccountAssumption DEF Times
<1>14. HeldInv'
  <2>1. p.since = t /\ t <= t
    BY <1>13
  <2>2. Cardinality(Between(accepted', t, t)) = 0
    BY <1>13, BetweenNothing
  <2> HIDE DEF p
  <2> QED BY <1>2, <1>6, <1>8, <2>1, <2>2 DEF HeldInv
<1>15. SizedInv'
  <2>1. (IF p.side = "LONG" THEN p.entry - levels'.stop ELSE levels'.stop - p.entry) = Apart(signal)
    BY <1>3, <1>4 DEF Apart, PlanIsSound
  <2>2. /\ p.quantity = Quantity(signal) /\ p.side = signal.action /\ p.entry = signal.entry
        /\ levels'.target = Target(signal)
    BY <1>3
  <2> HIDE DEF p
  <2>3. AtRisk(account.position)' = Apart(signal)
    BY <1>6, <1>8, <2>1 DEF AtRisk
  <2>4. 200 * (Apart(signal) * p.quantity) <= 2 * (account'.balance * RiskPct) + 100 * Apart(signal)
    BY <1>2, <1>5, <1>6, <1>8, <2>2
  <2>5. levels'.target = (IF p.side = "LONG" THEN p.entry + 2 * Apart(signal) ELSE p.entry - 2 * Apart(signal))
    BY <2>2 DEF Target
  <2>6. Apart(signal) > 0 /\ p.quantity > 0 /\ account'.position = p
    BY <1>3, <1>5, <1>6, <1>8, <2>2
  <2> QED BY <2>3, <2>4, <2>5, <2>6 DEF SizedInv
<1> QED BY <1>1, <1>2, <1>6, <1>8, <1>10, <1>11, <1>12, <1>14, <1>15 DEF AccountInv

-----------------------------------------------------------------------------
(* The kill switch.                                                        *)

(* A switch that does not halt is within each of its limits.               *)
SwitchSound(s) ==
  /\ s \in Switches
  /\ s.start > 0 /\ s.peak > 0 /\ s.equity > 0 /\ s.weekPeak > 0
  /\ ~s.halted =>
       /\ ~Reaches(Larger(s.start - s.equity, s.lost), MaxDailyLoss, s.start)
       /\ ~Reaches(s.peak - s.equity, MaxDrawdown, s.peak)
       /\ ~Reaches(Larger(s.weekPeak - s.equity, s.weekLost), MaxWeekly, s.weekPeak)
       /\ s.losses < MaxLosses

LEMMA ProductPositive ==
  ASSUME NEW x \in Int, NEW y \in Int, x > 0, y > 0
  PROVE  x * y > 0
  OBVIOUS

(* No loss is below every limit. *)
LEMMA NoLossIsAllowed ==
  ASSUME NEW pct \in 1 .. 100, NEW start \in Int, start > 0
  PROVE  ~Reaches(0, pct, start)
<1>1. pct * start > 0 /\ pct * start \in Int
  BY ProductPositive, ProductType
<1> QED BY <1>1 DEF Reaches

LEMMA LimitTypes ==
  /\ MaxDailyLoss \in 1 .. 100 /\ MaxDrawdown \in 1 .. 100 /\ MaxWeekly \in 1 .. 100
  /\ RiskPerTrade \in 1 .. 100 /\ MaxTradeDaily \in 1 .. 100 /\ MaxOpenRisk \in 1 .. 100
  /\ MaxLosses \in Nat \ {0} /\ MaxPositions \in Nat \ {0}
  /\ MinQuantity \in Nat /\ MaxQuantity \in Nat \ {0} /\ MinQuantity <= MaxQuantity
BY LimitsAssumption DEF ValidLimits

LEMMA NewSessionSound ==
  ASSUME NEW equity \in Int, equity > 0, NEW now \in Nat
  PROVE  LET s == NewSession(equity, now)
         IN  /\ SwitchSound(s) /\ s.lost = 0 /\ s.losses = 0 /\ s.start = equity
             /\ s.week = now /\ ~s.halted
<1> DEFINE s == NewSession(equity, now)
<1>1. /\ s \in Switches /\ s.start = equity /\ s.peak = equity /\ s.equity = equity
      /\ s.weekPeak = equity /\ s.lost = 0 /\ s.losses = 0 /\ s.weekLost = 0
      /\ s.week = now /\ s.halted = FALSE
  BY DEF NewSession, Switches
<1> HIDE DEF s
<1>2. equity - equity = 0 /\ Larger(0, 0) = 0
  BY DEF Larger
<1>3. /\ ~Reaches(0, MaxDailyLoss, equity) /\ ~Reaches(0, MaxDrawdown, equity)
      /\ ~Reaches(0, MaxWeekly, equity)
  BY LimitTypes, NoLossIsAllowed
<1>4. SwitchSound(s)
  BY <1>1, <1>2, <1>3, LimitTypes DEF SwitchSound
<1> QED BY <1>1, <1>4 DEF s

LEMMA UpdateEquitySound ==
  ASSUME NEW s, SwitchSound(s), NEW equity \in Int, equity > 0, NEW now \in Nat
  PROVE  LET u == UpdateEquity(s, equity, now)
         IN  /\ SwitchSound(u) /\ u.lost = s.lost /\ u.losses = s.losses /\ u.start = s.start
             /\ u.week = now
<1> DEFINE weekPeak == IF s.week = now THEN Larger(s.weekPeak, equity) ELSE equity
           weekLost == IF s.week = now THEN s.weekLost ELSE 0
           peak     == Larger(s.peak, equity)
           breached == \/ Reaches(Larger(s.start - equity, s.lost), MaxDailyLoss, s.start)
                       \/ Reaches(peak - equity, MaxDrawdown, peak)
                       \/ Reaches(Larger(weekPeak - equity, weekLost), MaxWeekly, weekPeak)
           u == UpdateEquity(s, equity, now)
<1>1. /\ s \in Switches /\ s.start \in Int /\ s.peak \in Int /\ s.weekPeak \in Int
      /\ s.lost \in Nat /\ s.losses \in Nat /\ s.weekLost \in Nat /\ s.halted \in BOOLEAN
      /\ s.start > 0 /\ s.peak > 0 /\ s.weekPeak > 0
  BY DEF SwitchSound, Switches
<1>2. /\ weekPeak \in Int /\ weekPeak > 0 /\ weekLost \in Nat /\ peak \in Int /\ peak > 0
  BY <1>1 DEF Larger
<1>3. u = [s EXCEPT !.peak = peak, !.equity = equity, !.halted = s.halted \/ breached,
                    !.weekPeak = weekPeak, !.week = now, !.weekLost = weekLost]
  BY DEF UpdateEquity
<1>4. breached \in BOOLEAN
  BY DEF Reaches
<1> HIDE DEF weekPeak, weekLost, peak, breached, u
<1>5. /\ u \in Switches /\ u.start = s.start /\ u.peak = peak /\ u.equity = equity
      /\ u.lost = s.lost /\ u.losses = s.losses
  BY <1>1, <1>2, <1>3, <1>4 DEF Switches
<1>6. /\ u.halted = (s.halted \/ breached)
      /\ u.weekPeak = weekPeak /\ u.week = now /\ u.weekLost = weekLost
  BY <1>1, <1>3 DEF Switches
<1>7. ~u.halted => ~s.halted /\ ~breached
  BY <1>6
<1>8. ~s.halted => s.losses < MaxLosses
  BY DEF SwitchSound
<1>9. SwitchSound(u)
  BY <1>1, <1>2, <1>5, <1>6, <1>7, <1>8 DEF SwitchSound, breached
<1> QED BY <1>5, <1>6, <1>9 DEF u

(* The streak after a trade. *)
Streak(n, pnl) == IF pnl < 0 THEN n + 1 ELSE IF pnl > 0 THEN 0 ELSE n

LEMMA RecordClosedTradeSound ==
  ASSUME NEW s, SwitchSound(s), NEW pnl \in Int, NEW now \in Nat
  PROVE  LET u == RecordClosedTrade(s, pnl, now)
         IN  /\ SwitchSound(u) /\ u.lost = s.lost + Larger(0, -pnl) /\ u.start = s.start
             /\ u.losses = Streak(IF s.week = now THEN s.losses ELSE 0, pnl)
             /\ u.week = now
<1> DEFINE loss     == Larger(0, -pnl)
           weekPeak == IF s.week = now THEN s.weekPeak ELSE s.equity
           weekLost == (IF s.week = now THEN s.weekLost ELSE 0) + loss
           losses   == Streak(IF s.week = now THEN s.losses ELSE 0, pnl)
           breached == \/ losses >= MaxLosses
                       \/ Reaches(s.lost + loss, MaxDailyLoss, s.start)
                       \/ Reaches(Larger(weekPeak - s.equity, weekLost), MaxWeekly, weekPeak)
           u == RecordClosedTrade(s, pnl, now)
<1>1. /\ s \in Switches /\ s.start \in Int /\ s.peak \in Int /\ s.weekPeak \in Int /\ s.equity \in Int
      /\ s.lost \in Nat /\ s.losses \in Nat /\ s.weekLost \in Nat /\ s.halted \in BOOLEAN
      /\ s.start > 0 /\ s.peak > 0 /\ s.weekPeak > 0 /\ s.equity > 0
  BY DEF SwitchSound, Switches
<1>2. /\ loss \in Nat /\ s.lost + loss \in Nat /\ weekPeak \in Int /\ weekPeak > 0
      /\ weekLost \in Nat /\ losses \in Nat
  BY <1>1 DEF Larger, Streak
<1>3. u = [s EXCEPT !.lost = s.lost + loss, !.losses = losses, !.halted = s.halted \/ breached,
                    !.weekPeak = weekPeak, !.week = now, !.weekLost = weekLost]
  BY DEF RecordClosedTrade, Streak
<1>4. breached \in BOOLEAN
  BY <1>2, LimitTypes DEF Reaches
<1> HIDE DEF weekPeak, weekLost, losses, loss, breached, u
<1>5. /\ u \in Switches /\ u.start = s.start /\ u.peak = s.peak /\ u.equity = s.equity
      /\ u.lost = s.lost + loss /\ u.losses = losses
  BY <1>1, <1>2, <1>3, <1>4 DEF Switches
<1>6. /\ u.halted = (s.halted \/ breached)
      /\ u.weekPeak = weekPeak /\ u.week = now /\ u.weekLost = weekLost
  BY <1>1, <1>3 DEF Switches
<1>7. ASSUME ~u.halted
      PROVE  /\ ~Reaches(Larger(u.start - u.equity, u.lost), MaxDailyLoss, u.start)
             /\ ~Reaches(u.peak - u.equity, MaxDrawdown, u.peak)
             /\ ~Reaches(Larger(u.weekPeak - u.equity, u.weekLost), MaxWeekly, u.weekPeak)
             /\ u.losses < MaxLosses
  <2>1. ~s.halted /\ ~breached
    BY <1>6, <1>7
  <2>2. ~Reaches(s.lost + loss, MaxDailyLoss, s.start) /\ losses < MaxLosses
    BY <1>2, <2>1, LimitTypes DEF breached
  <2>3. ~Reaches(Larger(weekPeak - s.equity, weekLost), MaxWeekly, weekPeak)
    BY <2>1 DEF breached
  <2>4. ~Reaches(Larger(s.start - s.equity, s.lost), MaxDailyLoss, s.start)
        /\ ~Reaches(s.peak - s.equity, MaxDrawdown, s.peak)
    BY <2>1 DEF SwitchSound
  <2>5. Larger(u.start - u.equity, u.lost) \in {Larger(s.start - s.equity, s.lost), s.lost + loss}
    BY <1>1, <1>2, <1>5 DEF Larger
  <2> QED BY <1>5, <1>6, <2>2, <2>3, <2>4, <2>5
<1>8. SwitchSound(u)
  BY <1>1, <1>2, <1>5, <1>6, <1>7 DEF SwitchSound
<1> QED BY <1>5, <1>6, <1>8 DEF u, loss, losses

-----------------------------------------------------------------------------
(* The invariant of the desk.                                              *)

DeskTypeOK ==
  /\ week \in Nat
  /\ base \in Int
  /\ run \in Nat /\ weekRun \in Nat

(* At most one trade is unreported, and none while a position is open.     *)
ReportInv ==
  /\ unreported = <<>> \/ \E pnl \in Int : unreported = <<pnl>>
  /\ account.position # NoPosition => unreported = <<>>

(* The loss of a trade the kill switch was not told. *)
Pending == IF unreported = <<>> THEN 0 ELSE Larger(0, -Head(unreported))

(* The kill switch knows all the session lost but the trade to report.     *)
LossInv == base - account.balance <= risk.lost + Pending

DeskInv ==
  /\ AccountInv
  /\ DeskTypeOK
  /\ SwitchSound(risk)
  /\ StreakIsARun
  /\ ReportInv
  /\ LossInv
  /\ NoPositionBeyondTheLimits

(* A smaller loss reaches no limit a larger one does not reach. *)
LEMMA ReachesMonotone ==
  ASSUME NEW x \in Int, NEW y \in Int, x <= y, NEW pct \in Int, NEW start \in Int,
         ~Reaches(y, pct, start)
  PROVE  ~Reaches(x, pct, start)
<1>1. pct * start \in Int
  BY ProductType
<1> QED BY <1>1 DEF Reaches

LEMMA BalanceType ==
  ASSUME AccountTypeOK
  PROVE  account.balance \in Int
BY DEF AccountTypeOK, Accounts

LEMMA InitDeskInv ==
  ASSUME Init
  PROVE  DeskInv
<1>1. AccountInv
  BY InitAccountInv DEF Init
<1>2. InitialBalance \in Int /\ InitialBalance > 0
  BY AccountAssumption
<1>3. SwitchSound(risk) /\ risk.lost = 0 /\ risk.losses = 0 /\ risk.start = InitialBalance
  BY <1>2, NewSessionSound DEF Init
<1>4. account.balance = InitialBalance /\ account.position = NoPosition
  BY DEF Init, AccountInit
<1>5. DeskTypeOK /\ StreakIsARun /\ ReportInv
  BY <1>2, <1>3, <1>4 DEF Init, DeskTypeOK, StreakIsARun, ReportInv
<1>6. LossInv
  BY <1>2, <1>3, <1>4 DEF Init, LossInv, Pending
<1>7. NoPositionBeyondTheLimits
  BY <1>4 DEF NoPositionBeyondTheLimits
<1> QED BY <1>1, <1>3, <1>5, <1>6, <1>7 DEF DeskInv

(* A signal enters only when the kill switch allows it. *)
LEMMA EnteredBelowTheLimits ==
  ASSUME DeskInv, unreported = <<>>, ~risk.halted
  PROVE  ~Reaches(base - account.balance, MaxDailyLoss, risk.start) /\ weekRun < MaxLosses
<1>1. /\ risk.start \in Int /\ risk.equity \in Int /\ risk.lost \in Int /\ risk.losses \in Nat
      /\ ~Reaches(Larger(risk.start - risk.equity, risk.lost), MaxDailyLoss, risk.start)
      /\ risk.losses < MaxLosses
  BY DEF DeskInv, SwitchSound, Switches
<1>2. base - account.balance \in Int /\ base - account.balance <= risk.lost
  BY <1>1, BalanceType DEF DeskInv, AccountInv, DeskTypeOK, LossInv, Pending
<1>3. base - account.balance <= Larger(risk.start - risk.equity, risk.lost)
      /\ Larger(risk.start - risk.equity, risk.lost) \in Int
  BY <1>1, <1>2 DEF Larger
<1>4. ~Reaches(base - account.balance, MaxDailyLoss, risk.start)
  <2> DEFINE x == base - account.balance
             y == Larger(risk.start - risk.equity, risk.lost)
  <2>1. x \in Int /\ y \in Int /\ x <= y /\ ~Reaches(y, MaxDailyLoss, risk.start)
    BY <1>1, <1>2, <1>3
  <2>2. MaxDailyLoss \in Int
    BY LimitTypes
  <2> HIDE DEF x, y
  <2>3. ~Reaches(x, MaxDailyLoss, risk.start)
    BY <1>1, <2>1, <2>2, ReachesMonotone
  <2> QED BY <2>3 DEF x
<1>5. weekRun < MaxLosses
  BY <1>1, LimitTypes DEF DeskInv, DeskTypeOK, StreakIsARun
<1> QED BY <1>4, <1>5

(* What a bar does to the account, by its cases. *)
LEMMA BarCases ==
  ASSUME AccountInv, NEW t \in Times, NEW b \in PriceBars, NEW signal \in Signals, Bar(t, b, signal)
  PROVE  /\ AccountInv'
         /\ UNCHANGED <<risk, base, run, weekRun, week, sessions>>
         /\ \/ /\ CloseOnBar(t, b)
               /\ account.position # NoPosition /\ account'.position = NoPosition
               /\ account'.balance = account.balance + Net(account, ExitPrice(b))
               /\ Net(account, ExitPrice(b)) \in Int
               /\ unreported' = <<account'.balance - account.balance>>
            \/ /\ UNCHANGED unreported /\ account'.balance = account.balance
               /\ account'.position = account.position
            \/ /\ UNCHANGED unreported /\ account'.balance = account.balance
               /\ EnterOnBar(t, b, signal) /\ Approved(signal)
               /\ unreported = <<>> /\ ~risk.halted
<1> DEFINE passed == IF signal.action # "WAIT" /\ unreported = <<>> /\ Approved(signal) THEN signal ELSE Waits
<1>1. UNCHANGED <<risk, base, run, weekRun, week, sessions>>
  BY DEF Bar
<1>2. \/ CloseOnBar(t, b) /\ unreported' = <<account'.balance - account.balance>>
      \/ UNCHANGED unreported /\ KeepOnBar(t, b, passed)
      \/ UNCHANGED unreported /\ EnterOnBar(t, b, passed)
      \/ UNCHANGED unreported /\ RejectTime(t)
  BY DEF Bar
<1> HIDE DEF passed
<1>3. CASE CloseOnBar(t, b) /\ unreported' = <<account'.balance - account.balance>>
  BY <1>1, <1>3, CloseKeeps
<1>4. CASE UNCHANGED unreported /\ KeepOnBar(t, b, passed)
  BY <1>1, <1>4, KeepKeeps
<1>5. CASE UNCHANGED unreported /\ EnterOnBar(t, b, passed)
  <2>1. passed.action \in {"LONG", "SHORT"}
    BY <1>5 DEF EnterOnBar
  <2>2. passed = signal /\ unreported = <<>> /\ Approved(signal)
    BY <2>1 DEF passed, Waits
  <2>3. PlanIsSound(signal) /\ ~risk.halted
    BY <2>2 DEF Approved, TradeGuard, Evaluate
  <2> QED BY <1>1, <1>5, <2>2, <2>3, EnterKeeps
<1>6. CASE UNCHANGED unreported /\ RejectTime(t)
  <2>1. account' = account
    BY <1>6 DEF RejectTime
  <2> QED BY <1>1, <1>6, <2>1, RejectKeeps
<1> QED BY <1>2, <1>3, <1>4, <1>5, <1>6

LEMMA BarKeepsDesk ==
  ASSUME DeskInv, NEW t \in Times, NEW b \in PriceBars, NEW signal \in Signals, Bar(t, b, signal)
  PROVE  DeskInv'
<1>1. AccountInv
  BY DEF DeskInv
<1>2. AccountInv' /\ UNCHANGED <<risk, base, run, weekRun, week, sessions>>
  BY <1>1, BarCases
<1>3. DeskTypeOK' /\ SwitchSound(risk)' /\ StreakIsARun'
  BY <1>2 DEF DeskInv, DeskTypeOK, StreakIsARun
<1>4. CASE /\ account.position # NoPosition /\ account'.position = NoPosition
           /\ account'.balance = account.balance + Net(account, ExitPrice(b))
           /\ Net(account, ExitPrice(b)) \in Int
           /\ unreported' = <<account'.balance - account.balance>>
  <2> DEFINE net == Net(account, ExitPrice(b))
  <2>1. account.balance \in Int /\ base \in Int /\ risk.lost \in Int
    BY <1>1, BalanceType DEF AccountInv, DeskInv, DeskTypeOK, SwitchSound, Switches
  <2> HIDE DEF net
  <2>2. unreported' = <<net>> /\ net \in Int /\ Head(unreported') = net /\ unreported' # <<>>
    BY <1>4, <2>1 DEF net
  <2>3. ReportInv'
    BY <1>4, <2>2 DEF ReportInv
  <2>4. base - account.balance <= risk.lost
    BY <1>4, <2>1 DEF DeskInv, LossInv, ReportInv, Pending
  <2>5. LossInv'
    BY <1>2, <1>4, <2>1, <2>2, <2>4 DEF LossInv, Pending, Larger, net
  <2>6. NoPositionBeyondTheLimits'
    BY <1>4 DEF NoPositionBeyondTheLimits
  <2> QED BY <1>2, <1>3, <2>3, <2>5, <2>6 DEF DeskInv
<1>5. CASE /\ UNCHANGED unreported /\ account'.balance = account.balance
           /\ account'.position = account.position
  <2>1. ReportInv' /\ LossInv'
    BY <1>2, <1>5 DEF DeskInv, ReportInv, LossInv, Pending
  <2>2. NoPositionBeyondTheLimits'
    BY <1>2, <1>5 DEF DeskInv, NoPositionBeyondTheLimits
  <2> QED BY <1>2, <1>3, <2>1, <2>2 DEF DeskInv
<1>6. CASE /\ UNCHANGED unreported /\ account'.balance = account.balance
           /\ unreported = <<>> /\ ~risk.halted
  <2>1. ReportInv' /\ LossInv'
    BY <1>2, <1>6 DEF DeskInv, ReportInv, LossInv, Pending
  <2>2. NoPositionBeyondTheLimits'
    BY <1>2, <1>6, EnteredBelowTheLimits DEF NoPositionBeyondTheLimits
  <2> QED BY <1>2, <1>3, <2>1, <2>2 DEF DeskInv
<1> QED BY <1>1, <1>4, <1>5, <1>6, BarCases

LEMMA ReportEquityKeeps ==
  ASSUME DeskInv, ReportEquity
  PROVE  DeskInv'
<1>1. Equity(account) \in Int /\ Equity(account) > 0
  BY EquityType DEF DeskInv, AccountInv, AccountTypeOK, ReportEquity
<1>2. week \in Nat
  BY DEF DeskInv, DeskTypeOK
<1>3. /\ risk' = UpdateEquity(risk, Equity(account), week)
      /\ weekRun' = (IF risk.week = week THEN weekRun ELSE 0)
      /\ UNCHANGED <<accountVars, unreported, base, run, week, sessions>>
  BY DEF ReportEquity
<1>4. /\ SwitchSound(risk)' /\ risk'.lost = risk.lost /\ risk'.losses = risk.losses
      /\ risk'.start = risk.start
  BY <1>1, <1>2, <1>3, UpdateEquitySound DEF DeskInv
<1>5. AccountInv' /\ account' = account
  BY <1>3, AccountStutters DEF DeskInv, accountVars
<1>6. weekRun' \in Nat /\ weekRun' <= weekRun /\ weekRun \in Nat /\ run \in Nat /\ risk.losses \in Nat
  BY <1>3 DEF DeskInv, DeskTypeOK, SwitchSound, Switches
<1>7. DeskTypeOK' /\ StreakIsARun'
  BY <1>3, <1>4, <1>6 DEF DeskInv, DeskTypeOK, StreakIsARun
<1>8. ReportInv' /\ LossInv'
  BY <1>3, <1>4, <1>5 DEF DeskInv, ReportInv, LossInv, Pending
<1>9. NoPositionBeyondTheLimits'
  BY <1>3, <1>4, <1>5, <1>6, LimitTypes DEF DeskInv, NoPositionBeyondTheLimits
<1> QED BY <1>4, <1>5, <1>7, <1>8, <1>9 DEF DeskInv

LEMMA ReportTradeKeeps ==
  ASSUME DeskInv, ReportTrade
  PROVE  DeskInv'
<1>1. PICK pnl \in Int : unreported = <<pnl>>
  BY DEF DeskInv, ReportInv, ReportTrade
<1>2. Head(unreported) = pnl /\ Tail(unreported) = <<>> /\ unreported # <<>>
  BY <1>1
<1>3. /\ unreported' = <<>>
      /\ risk' = RecordClosedTrade(risk, pnl, week)
      /\ run' = Streak(run, pnl)
      /\ weekRun' = Streak(IF risk.week = week THEN weekRun ELSE 0, pnl)
      /\ UNCHANGED <<accountVars, base, week, sessions>>
  BY <1>2 DEF ReportTrade, Streak
<1>4. week \in Nat
  BY DEF DeskInv, DeskTypeOK
<1>5. /\ SwitchSound(risk)' /\ risk'.lost = risk.lost + Larger(0, -pnl) /\ risk'.start = risk.start
      /\ risk'.losses = Streak(IF risk.week = week THEN risk.losses ELSE 0, pnl)
  BY <1>3, <1>4, RecordClosedTradeSound DEF DeskInv
<1>6. AccountInv' /\ account' = account /\ account.position = NoPosition
  BY <1>2, <1>3, AccountStutters DEF DeskInv, ReportInv, accountVars
<1>7. DeskTypeOK' /\ StreakIsARun'
  <2>1. /\ weekRun \in Nat /\ run \in Nat /\ risk.losses \in Nat
        /\ weekRun <= risk.losses /\ risk.losses <= run
    BY DEF DeskInv, DeskTypeOK, SwitchSound, Switches, StreakIsARun
  <2> QED BY <1>3, <1>4, <1>5, <2>1 DEF DeskInv, DeskTypeOK, StreakIsARun, Streak
<1>8. ReportInv'
  BY <1>3 DEF ReportInv
<1>9. LossInv'
  <2>1. account.balance \in Int /\ base \in Int /\ risk.lost \in Int
    BY BalanceType DEF AccountInv, DeskInv, DeskTypeOK, SwitchSound, Switches
  <2>2. base - account.balance <= risk.lost + Larger(0, -pnl)
    BY <1>2 DEF DeskInv, LossInv, Pending
  <2>3. Pending' = 0 /\ Larger(0, -pnl) \in Int
    BY <1>3 DEF Pending, Larger
  <2> QED BY <1>3, <1>5, <1>6, <2>1, <2>2, <2>3 DEF LossInv
<1>10. NoPositionBeyondTheLimits'
  BY <1>6 DEF NoPositionBeyondTheLimits
<1> QED BY <1>5, <1>6, <1>7, <1>8, <1>9, <1>10 DEF DeskInv

(* A new session forgets the losses and starts from the balance.           *)
LEMMA SessionKeeps ==
  ASSUME DeskInv, NEW equity \in Int, BeginSession(equity), AccountInv', week' = week,
         account'.balance = account.balance, account'.position = account.position,
         unreported' \in {unreported, <<>>}
  PROVE  DeskInv'
<1>1. /\ equity > 0 /\ risk' = NewSession(equity, week) /\ base' = account.balance
      /\ run' = 0 /\ weekRun' = 0
  BY DEF BeginSession
<1>2. week \in Nat
  BY DEF DeskInv, DeskTypeOK
<1>3. SwitchSound(risk)' /\ risk'.lost = 0 /\ risk'.losses = 0 /\ risk'.start = equity
  BY <1>1, <1>2, NewSessionSound
<1>4. account.balance \in Int
  BY BalanceType DEF DeskInv, AccountInv
<1>5. DeskTypeOK' /\ StreakIsARun'
  BY <1>1, <1>2, <1>3, <1>4 DEF DeskTypeOK, StreakIsARun
<1>6. ReportInv'
  BY DEF DeskInv, ReportInv
<1>7. Pending' \in Nat
  BY <1>6 DEF ReportInv, Pending, Larger
<1>8. base' - account'.balance = 0
  BY <1>1, <1>4
<1>9. LossInv'
  BY <1>3, <1>7, <1>8 DEF LossInv
<1>10. NoPositionBeyondTheLimits'
  <2>1. ~Reaches(0, MaxDailyLoss, equity)
    BY <1>1, LimitTypes, NoLossIsAllowed
  <2>2. ~Reaches(base' - account'.balance, MaxDailyLoss, risk'.start) /\ weekRun' < MaxLosses
    BY <1>1, <1>3, <1>8, <2>1, LimitTypes
  <2> QED BY <2>2 DEF NoPositionBeyondTheLimits
<1> QED BY <1>3, <1>5, <1>6, <1>9, <1>10 DEF DeskInv

LEMMA ResetKeeps ==
  ASSUME DeskInv, Reset
  PROVE  DeskInv'
<1>1. BeginSession(Equity(account)) /\ UNCHANGED <<accountVars, unreported, week>>
  BY DEF Reset
<1>2. AccountInv' /\ account' = account
  BY <1>1, AccountStutters DEF DeskInv, accountVars
<1>3. Equity(account) \in Int
  BY EquityType DEF DeskInv, AccountInv, AccountTypeOK
<1> QED BY <1>1, <1>2, <1>3, SessionKeeps

LEMMA RestartKeeps ==
  ASSUME DeskInv, Restart
  PROVE  DeskInv'
<1>1. BeginSession(InitialBalance) /\ Recover /\ unreported' = <<>> /\ UNCHANGED week
  BY DEF Restart
<1>2. /\ AccountInv' /\ account'.balance = account.balance
      /\ account'.position = account.position
  BY <1>1, RecoverKeeps DEF DeskInv
<1>3. InitialBalance \in Int
  BY AccountAssumption
<1> QED BY <1>1, <1>2, <1>3, SessionKeeps

LEMMA NewWeekKeeps ==
  ASSUME DeskInv, NewWeek
  PROVE  DeskInv'
<1>1. AccountInv' /\ account' = account
  BY AccountStutters DEF DeskInv, accountVars, NewWeek
<1>2. week' \in Nat /\ UNCHANGED <<risk, unreported, base, run, weekRun>>
  BY DEF DeskInv, DeskTypeOK, NewWeek, deskVars
<1> QED BY <1>1, <1>2 DEF DeskInv, DeskTypeOK, StreakIsARun, ReportInv, LossInv, Pending,
                         NoPositionBeyondTheLimits

LEMMA StepKeepsDesk ==
  ASSUME DeskInv, [Next]_vars
  PROVE  DeskInv'
<1>1. ASSUME NEW t \in Times, NEW b \in PriceBars, NEW signal \in Signals, Bar(t, b, signal)
      PROVE  DeskInv'
  BY <1>1, BarKeepsDesk
<1>2. CASE ReportEquity
  BY <1>2, ReportEquityKeeps
<1>3. CASE ReportTrade
  BY <1>3, ReportTradeKeeps
<1>4. CASE NewWeek
  BY <1>4, NewWeekKeeps
<1>5. CASE Reset
  BY <1>5, ResetKeeps
<1>6. CASE Restart
  BY <1>6, RestartKeeps
<1>7. CASE UNCHANGED vars
  <2>1. AccountInv'
    BY <1>7, AccountStutters DEF DeskInv, vars
  <2> QED BY <1>7, <2>1 DEF DeskInv, DeskTypeOK, StreakIsARun, ReportInv, LossInv, Pending,
             NoPositionBeyondTheLimits, vars, deskVars, accountVars
<1> QED BY <1>1, <1>2, <1>3, <1>4, <1>5, <1>6, <1>7 DEF Next

(* The account and the kill switch keep the invariant of the desk. *)
THEOREM DeskIsInvariant == Spec => []DeskInv
<1>1. Init => DeskInv
  BY InitDeskInv
<1>2. DeskInv /\ [Next]_vars => DeskInv'
  BY StepKeepsDesk
<1> QED BY <1>1, <1>2, PTL DEF Spec

(* evaluate() reports the numbers the limits were compared with. *)
LEMMA AllowedWithinLimits ==
  ASSUME SwitchSound(risk)
  PROVE  AllowedIsWithinLimits
<1> SUFFICES ASSUME ~risk.halted
             PROVE  LET d == Evaluate(risk)
                    IN  /\ ~Reaches(d.daily.loss, MaxDailyLoss, d.daily.base)
                        /\ ~Reaches(d.total.loss, MaxDrawdown, d.total.base)
                        /\ ~Reaches(d.weekly.loss, MaxWeekly, d.weekly.base)
                        /\ risk.losses < MaxLosses
  BY DEF AllowedIsWithinLimits, Evaluate
<1>1. /\ risk.start \in Int /\ risk.equity \in Int /\ risk.peak \in Int /\ risk.weekPeak \in Int
      /\ risk.lost \in Nat /\ risk.weekLost \in Nat
      /\ risk.start > 0 /\ risk.peak > 0 /\ risk.weekPeak > 0
      /\ ~Reaches(Larger(risk.start - risk.equity, risk.lost), MaxDailyLoss, risk.start)
      /\ ~Reaches(risk.peak - risk.equity, MaxDrawdown, risk.peak)
      /\ ~Reaches(Larger(risk.weekPeak - risk.equity, risk.weekLost), MaxWeekly, risk.weekPeak)
      /\ risk.losses < MaxLosses
  BY DEF SwitchSound, Switches
<1>2. ~Reaches(0, MaxDrawdown, risk.peak)
  BY <1>1, LimitTypes, NoLossIsAllowed
<1>3. /\ Larger(Larger(0, risk.start - risk.equity), risk.lost) = Larger(risk.start - risk.equity, risk.lost)
      /\ Larger(Larger(0, risk.weekPeak - risk.equity), risk.weekLost)
           = Larger(risk.weekPeak - risk.equity, risk.weekLost)
      /\ Larger(0, risk.peak - risk.equity) \in {0, risk.peak - risk.equity}
  BY <1>1 DEF Larger
<1>4. ~Reaches(Larger(0, risk.peak - risk.equity), MaxDrawdown, risk.peak)
  BY <1>1, <1>2, <1>3
<1> QED BY <1>1, <1>3, <1>4 DEF Evaluate

(* The kill switch allows nothing beyond a limit, its streak is a run of    *)
(* losses, and no position is open beyond the loss or the run its session   *)
(* has, whatever the order of bars, reports, weeks, resets and restarts     *)
(* (portfolio_risk.py:97, 144).                                            *)
THEOREM KillSwitch == Spec => []KillSwitchHolds
<1>1. DeskInv => KillSwitchHolds
  BY AllowedWithinLimits DEF DeskInv, KillSwitchHolds
<1> QED BY <1>1, DeskIsInvariant, PTL

-----------------------------------------------------------------------------
(* What a trade costs.                                                     *)

(* The two ways a bar closes a position. *)
LEMMA ExitIsStopOrTarget ==
  ASSUME NEW b, ExitPrice(b) # 0
  PROVE  ExitPrice(b) \in {levels.stop, levels.target}
BY DEF ExitPrice

(* A close costs the distance to the stop, or earns twice as much, and the  *)
(* fee.                                                                    *)
LEMMA NetOfAnExit ==
  ASSUME AccountInv, account.position # NoPosition, NEW b, ExitPrice(b) # 0
  PROVE  LET p == account.position
         IN  /\ AtRisk(p) \in Nat \ {0} /\ p.quantity \in Nat \ {0} /\ AtRisk(p) * p.quantity \in Nat \ {0}
             /\ Fee * p.quantity \in Nat
             /\ Net(account, ExitPrice(b)) \in {- (AtRisk(p) * p.quantity) - Fee * p.quantity,
                                                2 * (AtRisk(p) * p.quantity) - Fee * p.quantity}
<1> DEFINE p == account.position
           r == AtRisk(p)
           q == p.quantity
<1>1. p \in Positions /\ levels.stop \in Int /\ levels.target \in Int
  BY DEF AccountInv, AccountTypeOK, Accounts
<1>2. q \in Nat \ {0} /\ p.entry \in Int /\ p.side \in {"LONG", "SHORT"}
  BY <1>1 DEF AccountInv, SizedInv, Positions
<1>3. r \in Nat \ {0}
  BY <1>1, <1>2 DEF AccountInv, SizedInv, AtRisk
<1>4. Fee \in Nat
  BY AccountAssumption
<1>5. Fee * q \in Nat
  BY <1>2, <1>4
<1>6. levels.target = (IF p.side = "LONG" THEN p.entry + 2 * r ELSE p.entry - 2 * r)
  BY DEF AccountInv, SizedInv
<1>7. levels.stop = (IF p.side = "LONG" THEN p.entry - r ELSE p.entry + r)
  BY <1>1, <1>2 DEF AtRisk
<1>8. Net(account, ExitPrice(b)) = q * (IF p.side = "LONG" THEN ExitPrice(b) - p.entry ELSE p.entry - ExitPrice(b)) - Fee * q
  BY DEF Net, Gain
<1> HIDE DEF p, r, q
<1>9. r * q \in Int /\ r * q > 0
  BY <1>2, <1>3, ProductPositive, ProductType
<1>10. q * (-r) = - (r * q) /\ q * (2 * r) = 2 * (r * q)
  BY <1>2, <1>3
<1>11. (IF p.side = "LONG" THEN ExitPrice(b) - p.entry ELSE p.entry - ExitPrice(b)) \in {-r, 2 * r}
  BY <1>2, <1>3, <1>6, <1>7, ExitIsStopOrTarget
<1>12. Net(account, ExitPrice(b)) \in {- (r * q) - Fee * q, 2 * (r * q) - Fee * q}
  BY <1>8, <1>10, <1>11
<1>13. r * q \in Nat \ {0}
  BY <1>9
<1> QED BY <1>2, <1>3, <1>5, <1>12, <1>13 DEF p, r, q

LEMMA StepIsBudgeted ==
  ASSUME DeskInv, [Next]_vars, account'.balance < account.balance
  PROVE  LET p == account.position
             d == IF p.entry > levels.stop THEN p.entry - levels.stop ELSE levels.stop - p.entry
         IN  200 * (account.balance - account'.balance - Fee * p.quantity)
               <= 2 * RiskPct * account.balance + 100 * d
<1>1. account.balance \in Int
  BY BalanceType DEF DeskInv, AccountInv
<1>2. ~ (account'.balance = account.balance)
  BY <1>1
<1>3. PICK t \in Times, b \in PriceBars, signal \in Signals : Bar(t, b, signal)
  <2>1. CASE ReportEquity \/ ReportTrade \/ NewWeek \/ Reset \/ UNCHANGED vars
    <3>1. account' = account
      BY <2>1 DEF ReportEquity, ReportTrade, NewWeek, Reset, vars, accountVars
    <3> QED BY <1>2, <3>1
  <2>2. CASE Restart
    <3>1. account'.balance = account.balance
      BY <2>2, RecoverKeeps DEF DeskInv, Restart
    <3> QED BY <1>2, <3>1
  <2> QED BY <2>1, <2>2 DEF Next
<1>4. /\ CloseOnBar(t, b) /\ account.position # NoPosition
      /\ account'.balance = account.balance + Net(account, ExitPrice(b))
  BY <1>2, <1>3, BarCases DEF DeskInv
<1> DEFINE p == account.position
           x == AtRisk(p) * p.quantity
           f == Fee * p.quantity
           d == IF p.entry > levels.stop THEN p.entry - levels.stop ELSE levels.stop - p.entry
<1>5. /\ AtRisk(p) \in Nat \ {0} /\ x \in Nat \ {0} /\ f \in Nat
      /\ Net(account, ExitPrice(b)) \in {-x - f, 2 * x - f}
  BY <1>4, NetOfAnExit DEF DeskInv, CloseOnBar
<1>6. d = AtRisk(p)
  <2>1. p \in Positions /\ levels.stop \in Int
    BY <1>4 DEF DeskInv, AccountInv, AccountTypeOK, Accounts
  <2> QED BY <1>5, <2>1 DEF AtRisk, Positions
<1>7. 200 * x <= 2 * (account.balance * RiskPct) + 100 * AtRisk(p)
  BY <1>4 DEF DeskInv, AccountInv, SizedInv
<1>8. 2 * RiskPct * account.balance = 2 * (account.balance * RiskPct) /\ account.balance * RiskPct \in Int
  BY <1>1, AccountAssumption
<1> HIDE DEF x, f, d, p
<1>9. account.balance - account'.balance - f \in {x, -2 * x}
  BY <1>1, <1>4, <1>5
<1>10. 200 * (account.balance - account'.balance - f) <= 200 * x
  BY <1>5, <1>9
<1>11. 200 * (account.balance - account'.balance - f) <= 2 * RiskPct * account.balance + 100 * d
  BY <1>5, <1>6, <1>7, <1>8, <1>9, <1>10
<1> QED BY <1>11 DEF f, d, p

(* No trade costs more than the part of the balance its quantity was sized  *)
(* for, half a unit of rounding and its fee                                *)
(* (paper_runtime_engine.py, _enter and _check_exit).                      *)
THEOREM BudgetedLosses == Spec => LossIsBudgeted
<1>1. DeskInv /\ [Next]_vars =>
        [account'.balance < account.balance =>
           LET p == account.position
               d == IF p.entry > levels.stop THEN p.entry - levels.stop ELSE levels.stop - p.entry
           IN  200 * (account.balance - account'.balance - Fee * p.quantity)
                 <= 2 * RiskPct * account.balance + 100 * d]_vars
  BY StepIsBudgeted
<1> QED BY <1>1, DeskIsInvariant, PTL DEF Spec, LossIsBudgeted

-----------------------------------------------------------------------------
(* The size of one trade.                                                  *)

(* Every multiple that fits is at most the quotient. *)
LEMMA QuotientIsLargest ==
  ASSUME NEW x \in Int, NEW d \in Nat \ {0}, NEW n \in Int, n * d <= x
  PROVE  n <= x \div d
<1> DEFINE k == x \div d
<1>1. k \in Int /\ x < d * k + d
  BY Division
<1> HIDE DEF k
<1> SUFFICES ASSUME n >= k + 1 PROVE FALSE
  BY <1>1 DEF k
<1>2. (n - (k + 1)) * d >= 0
  BY <1>1
<1>3. (n - (k + 1)) * d = n * d - (d * k + d)
  BY <1>1
<1>4. n * d \in Int /\ d * k \in Int
  BY <1>1
<1> QED BY <1>1, <1>2, <1>3, <1>4

(* Whole steps of a budget: as large as any number of steps within it. *)
LEMMA WholeSteps ==
  ASSUME NEW budget \in Int, NEW unit \in Nat \ {0}, NEW step \in {1, 3}
  PROVE  LET q == (budget \div (step * unit)) * step
         IN  /\ q \in Int /\ q % step = 0 /\ q * unit <= budget
             /\ \A n \in Nat : (n * step) * unit <= budget => n * step <= q
<1> DEFINE k == budget \div (step * unit)
<1>1. step * unit \in Nat \ {0} /\ step \in Nat \ {0}
  OBVIOUS
<1>2. k \in Int /\ (step * unit) * k <= budget
  BY <1>1, Division
<1>3. \A n \in Nat : n * (step * unit) <= budget => n <= k
  BY <1>1, QuotientIsLargest
<1> HIDE DEF k
<1>4. k * step \in Int /\ (k * step) % step = 0
  <2>1. CASE step = 1
    BY <1>2, <2>1
  <2>2. CASE step = 3
    BY <1>2, <2>2
  <2> QED BY <2>1, <2>2
<1>5. (k * step) * unit = (step * unit) * k
  BY <1>1, <1>2
<1>6. ASSUME NEW n \in Nat, (n * step) * unit <= budget
      PROVE  n * step <= k * step
  <2>1. (n * step) * unit = n * (step * unit)
    BY <1>1
  <2>2. n <= k
    BY <1>3, <1>6, <2>1
  <2> QED BY <1>1, <1>2, <2>2
<1> QED BY <1>2, <1>4, <1>5, <1>6 DEF k

(* The quantity of evaluate_risk before its checks. *)
Capped(requested, entry, stop, step) ==
  LET sized == PositionSize(requested, entry, stop, step)
  IN  IF sized > MaxQuantity THEN (MaxQuantity \div step) * step ELSE sized

LEMMA CappedIsLargest ==
  ASSUME NEW requested \in Int, NEW entry \in Nat, NEW stop \in Nat, entry # stop, NEW step \in {1, 3}
  PROVE  LET q == Capped(requested, entry, stop, step)
             d == Distance(entry, stop)
         IN  /\ d \in Nat \ {0} /\ q \in Int /\ q % step = 0 /\ q <= MaxQuantity /\ q * d <= requested
             /\ \A n \in Nat : (n * step) * d <= requested /\ n * step <= MaxQuantity => n * step <= q
<1> DEFINE d == Distance(entry, stop)
           sized == PositionSize(requested, entry, stop, step)
           most == (MaxQuantity \div step) * step
           q == Capped(requested, entry, stop, step)
<1>1. d \in Nat \ {0}
  BY DEF Distance
<1> HIDE DEF d
<1>2. sized = (requested \div (step * d)) * step
  BY DEF PositionSize, d
<1> HIDE DEF sized
<1>3. /\ sized \in Int /\ sized % step = 0 /\ sized * d <= requested
      /\ \A n \in Nat : (n * step) * d <= requested => n * step <= sized
  BY <1>1, <1>2, WholeSteps
<1>4. MaxQuantity \in Int /\ step * 1 = step
  BY LimitTypes
<1>5. /\ most \in Int /\ most % step = 0 /\ most * 1 <= MaxQuantity
      /\ \A n \in Nat : (n * step) * 1 <= MaxQuantity => n * step <= most
  <2>1. most = (MaxQuantity \div (step * 1)) * step
    BY <1>4
  <2>2. 1 \in Nat \ {0}
    OBVIOUS
  <2> HIDE DEF most
  <2> QED BY <1>4, <2>1, <2>2, WholeSteps
<1>6. q = (IF sized > MaxQuantity THEN most ELSE sized)
  BY DEF Capped, sized
<1> HIDE DEF most, q
<1>7. most <= MaxQuantity /\ \A n \in Nat : n * step <= MaxQuantity => n * step <= most
  BY <1>5
<1>8. CASE sized > MaxQuantity
  <2>1. q = most /\ most <= sized
    BY <1>3, <1>4, <1>5, <1>6, <1>7, <1>8
  <2>2. most * d <= sized * d
    BY <1>1, <1>3, <1>5, <2>1
  <2>3. most * d \in Int /\ sized * d \in Int
    BY <1>1, <1>3, <1>5
  <2>4. most * d <= requested
    BY <1>3, <2>2, <2>3
  <2> QED BY <1>1, <1>3, <1>5, <1>7, <2>1, <2>4 DEF d, q
<1>9. CASE ~(sized > MaxQuantity)
  <2>1. q = sized /\ sized <= MaxQuantity
    BY <1>3, <1>4, <1>6, <1>9
  <2> QED BY <1>1, <1>3, <2>1 DEF d, q
<1> QED BY <1>8, <1>9

LEMMA SizeIsLargest ==
  ASSUME NEW equity \in Int, equity > 0, NEW entry \in Nat, NEW stop \in Nat, entry # stop,
         NEW open \in Nat, NEW step \in {1, 3}
  PROVE  LET e == EvaluateRisk(equity, entry, stop, 0, open, 0, step)
             fits(q) == LET amount == q * Distance(entry, stop)
                        IN  /\ amount <= (equity * RiskPerTrade) \div 100
                            /\ amount + open <= (equity * MaxOpenRisk) \div 100
                            /\ q <= MaxQuantity
         IN  /\ e.allowed => fits(e.quantity) /\ e.quantity % step = 0 /\ e.quantity >= MinQuantity
             /\ \A n \in 1 .. MaxQuantity :
                  fits(n * step) /\ n * step >= MinQuantity => e.allowed /\ e.quantity >= n * step
<1> DEFINE one == (equity * RiskPerTrade) \div 100
           all == (equity * MaxOpenRisk) \div 100
           remaining == all - open
           requested == Smaller(one, remaining)
           q == Capped(requested, entry, stop, step)
           d == Distance(entry, stop)
           amount == d * q
           refused == \/ Reaches(0, MaxTradeDaily, equity)
                      \/ 0 >= MaxPositions
                      \/ remaining <= 0
                      \/ q <= 0
                      \/ q < MinQuantity
                      \/ amount > requested
           e == EvaluateRisk(equity, entry, stop, 0, open, 0, step)
<1>1. one \in Int /\ all \in Int
  BY LimitTypes, ProductType
<1> HIDE DEF one, all
<1>2. remaining \in Int /\ requested \in Int /\ requested <= one /\ requested <= remaining
      /\ (requested = one \/ requested = remaining)
  BY <1>1 DEF Smaller
<1>3. e = (IF refused THEN Denied ELSE [allowed |-> TRUE, quantity |-> q, risk |-> amount])
  BY DEF EvaluateRisk, Capped, one, all
<1> HIDE DEF remaining, requested
<1>4. /\ d \in Nat \ {0} /\ q \in Int /\ q % step = 0 /\ q <= MaxQuantity /\ q * d <= requested
      /\ \A n \in Nat : (n * step) * d <= requested /\ n * step <= MaxQuantity => n * step <= q
  BY <1>2, CappedIsLargest
<1> HIDE DEF q, d
<1>5. ~Reaches(0, MaxTradeDaily, equity) /\ ~(0 >= MaxPositions)
  BY LimitTypes, NoLossIsAllowed
<1>6. amount = q * d /\ q * d \in Int
  BY <1>4
<1>7. refused <=> remaining <= 0 \/ q <= 0 \/ q < MinQuantity
  BY <1>2, <1>4, <1>5, <1>6
<1> HIDE DEF refused, amount, e
<1>8. ASSUME e.allowed
      PROVE  /\ e.quantity * d <= one /\ e.quantity * d + open <= all /\ e.quantity <= MaxQuantity
             /\ e.quantity % step = 0 /\ e.quantity >= MinQuantity
  <2>1. ~refused /\ e.quantity = q
    BY <1>3, <1>8 DEF Denied
  <2>2. q >= MinQuantity
    BY <1>4, <1>7, <2>1, LimitTypes
  <2>3. q * d <= one /\ q * d + open <= all
    BY <1>1, <1>2, <1>4, <1>6 DEF remaining
  <2> QED BY <1>4, <2>1, <2>2, <2>3
<1>9. ASSUME NEW n \in 1 .. MaxQuantity, n * step >= MinQuantity, (n * step) * d <= one,
             (n * step) * d + open <= all, n * step <= MaxQuantity
      PROVE  e.allowed /\ e.quantity >= n * step
  <2>1. n \in Nat /\ n * step \in Nat /\ n * step > 0
    BY LimitTypes
  <2>2. (n * step) * d \in Int /\ (n * step) * d > 0
    BY <1>4, <2>1, ProductPositive, ProductType
  <2>3. remaining > 0 /\ (n * step) * d <= requested
    BY <1>1, <1>2, <1>9, <2>2 DEF remaining
  <2>4. n * step <= q
    BY <1>4, <1>9, <2>1, <2>3
  <2>5. ~refused
    BY <1>2, <1>4, <1>7, <1>9, <2>1, <2>3, <2>4, LimitTypes
  <2> QED BY <1>3, <1>4, <2>1, <2>4, <2>5
<1> QED BY <1>8, <1>9 DEF e, d, one, all

(* evaluate_risk allows the largest size within the budget, the open risk   *)
(* and the largest order, and refuses only when no step fits: its last      *)
(* check never refuses (risk_engine.py:166).                               *)
THEOREM LargestSize == Spec => []LargestSizeInBudget
<1>1. ASSUME DeskInv
      PROVE  LargestSizeInBudget
  <2>1. risk.equity \in Int /\ risk.equity > 0
    BY <1>1 DEF DeskInv, SwitchSound, Switches
  <2>2. \A s \in Signals : s.entry \in Nat /\ s.stop \in Nat
    BY AccountAssumption
  <2>3. {0, 20, 60} \subseteq Nat
    OBVIOUS
  <2>4. ASSUME NEW signal \in {s \in Signals : s.entry # s.stop}, NEW open \in {0, 20, 60}, NEW step \in {1, 3}
        PROVE  LET d == EvaluateRisk(risk.equity, signal.entry, signal.stop, 0, open, 0, step)
                   fits(q) == LET amount == q * Distance(signal.entry, signal.stop)
                              IN  /\ amount <= (risk.equity * RiskPerTrade) \div 100
                                  /\ amount + open <= (risk.equity * MaxOpenRisk) \div 100
                                  /\ q <= MaxQuantity
               IN  /\ d.allowed => fits(d.quantity) /\ d.quantity % step = 0 /\ d.quantity >= MinQuantity
                   /\ \A n \in 1 .. MaxQuantity :
                        fits(n * step) /\ n * step >= MinQuantity => d.allowed /\ d.quantity >= n * step
    <3> DEFINE equity == risk.equity
               entry == signal.entry
               stop == signal.stop
    <3>1. /\ equity \in Int /\ equity > 0 /\ entry \in Nat /\ stop \in Nat /\ entry # stop
          /\ open \in Nat
      BY <2>1, <2>2, <2>3
    <3> HIDE DEF equity, entry, stop
    <3>2. LET d == EvaluateRisk(equity, entry, stop, 0, open, 0, step)
              fits(q) == LET amount == q * Distance(entry, stop)
                         IN  /\ amount <= (equity * RiskPerTrade) \div 100
                             /\ amount + open <= (equity * MaxOpenRisk) \div 100
                             /\ q <= MaxQuantity
          IN  /\ d.allowed => fits(d.quantity) /\ d.quantity % step = 0 /\ d.quantity >= MinQuantity
              /\ \A n \in 1 .. MaxQuantity :
                   fits(n * step) /\ n * step >= MinQuantity => d.allowed /\ d.quantity >= n * step
      BY <3>1, SizeIsLargest
    <3> QED BY <3>2 DEF equity, entry, stop
  <2> QED BY <2>4 DEF LargestSizeInBudget
<1> QED BY <1>1, DeskIsInvariant, PTL

-----------------------------------------------------------------------------
(* The account stays solvent.                                              *)

(* What the open position can cost is not the whole balance. *)
SolventInv ==
  /\ account.balance > 0
  /\ account.peak > 0
  /\ Earned(account.trades) = account.realized
  /\ account.position # NoPosition =>
       LET p == account.position
       IN  AtRisk(p) * p.quantity + Fee * p.quantity < account.balance

LEMMA InitSolvent ==
  ASSUME Init
  PROVE  SolventInv
<1>1. InitialBalance > 0
  BY AccountAssumption
<1>2. /\ account.balance = InitialBalance /\ account.peak = InitialBalance
      /\ account.trades = <<>> /\ account.realized = 0 /\ account.position = NoPosition
  BY DEF Init, AccountInit
<1> QED BY <1>1, <1>2, EarnedNothing DEF SolventInv

(* The accounts the engine makes have a higher peak. *)
LEMMA PeakStaysPositive ==
  ASSUME NEW a \in Accounts, NEW c \in Accounts, a.peak > 0, c.peak >= a.peak
  PROVE  c.peak > 0
BY DEF Accounts

(* A position of that size cannot cost the balance. *)
LEMMA SizeIsSolvent ==
  ASSUME NEW balance \in Int, balance > 0, NEW d \in Nat \ {0}, NEW quantity \in Int, quantity > 0,
         NEW pct \in Nat, NEW fee \in Nat,
         200 * (d * quantity) <= 2 * (balance * pct) + 100 * d,
         pct * (d + fee) < 50 * d
  PROVE  d * quantity + fee * quantity < balance
<1> DEFINE x == d * quantity
           m == balance * pct
           w == d + fee
           z == quantity * w
<1>1. x \in Int /\ m \in Int /\ w \in Nat \ {0} /\ z \in Int
  OBVIOUS
<1>2. x >= d
  <2>1. x - d = d * (quantity - 1)
    OBVIOUS
  <2> QED BY <2>1
<1>3. z = d * quantity + fee * quantity
  OBVIOUS
<1> HIDE DEF x, m, w, z
<1>4. 50 * x <= m
  BY <1>1, <1>2 DEF x, m
<1>5. (50 * x) * w <= m * w
  BY <1>1, <1>4
<1>6. m * w = balance * (pct * w) /\ pct * w \in Int
  BY <1>1 DEF m
<1>7. balance * (pct * w) < balance * (50 * d)
  BY <1>6 DEF w
<1>8. (50 * x) * w = z * (50 * d)
  BY <1>1 DEF x, z
<1>9. z * (50 * d) < balance * (50 * d)
  <2>1. (50 * x) * w \in Int /\ m * w \in Int /\ balance * (50 * d) \in Int
    BY <1>1
  <2> QED BY <1>5, <1>6, <1>7, <1>8, <2>1
<1>10. z < balance
  <2> SUFFICES ASSUME z >= balance PROVE FALSE
    BY <1>1
  <2>1. z * (50 * d) >= balance * (50 * d)
    BY <1>1
  <2>2. z * (50 * d) \in Int /\ balance * (50 * d) \in Int
    BY <1>1
  <2> QED BY <1>9, <2>1, <2>2
<1> QED BY <1>3, <1>10

LEMMA SolventStutters ==
  ASSUME SolventInv, UNCHANGED <<account, levels>>
  PROVE  SolventInv'
BY DEF SolventInv, AtRisk

LEMMA BarKeepsSolvent ==
  ASSUME SmallRisk, AccountInv, SolventInv,
         NEW t \in Times, NEW b \in PriceBars, NEW signal \in Signals, Bar(t, b, signal)
  PROVE  SolventInv'
<1> DEFINE m == Mark(account, b.close, t)
<1>1. account \in Accounts /\ account.balance \in Int
  BY DEF AccountInv, AccountTypeOK, Accounts
<1>2. ASSUME KeepOnBar(t, b, signal) \/ EnterOnBar(t, b, signal) \/ CloseOnBar(t, b) \/ KeepOnBar(t, b, Waits)
      PROVE  /\ account.last # t /\ m \in Accounts /\ m.peak >= account.peak
             /\ m.balance = account.balance /\ m.realized = account.realized
             /\ m.position = account.position /\ m.trades = account.trades
  <2>1. processed < t
    BY <1>2 DEF KeepOnBar, EnterOnBar, CloseOnBar
  <2>2. account.last # t
    BY <2>1, AccountAssumption DEF AccountInv, AccountTypeOK, ClockInv, Times
  <2> QED BY <1>1, <2>2, CloseType, MarkKeeps
<1>3. ASSUME NEW s, KeepOnBar(t, b, s), s \in {signal, Waits}
      PROVE  SolventInv'
  <2>1. account' = m /\ levels' = levels
    BY <1>3 DEF KeepOnBar, Accept
  <2>2. /\ m \in Accounts /\ m.peak >= account.peak
        /\ m.balance = account.balance /\ m.realized = account.realized
        /\ m.position = account.position /\ m.trades = account.trades
    BY <1>2, <1>3
  <2> HIDE DEF m
  <2>3. m.peak > 0
    BY <1>1, <2>2, PeakStaysPositive DEF SolventInv
  <2> QED BY <2>1, <2>2, <2>3 DEF SolventInv, AtRisk
<1>4. ASSUME EnterOnBar(t, b, signal), PlanIsSound(signal)
      PROVE  SolventInv'
  <2> DEFINE p == [side |-> signal.action, quantity |-> Quantity(signal), entry |-> signal.entry, since |-> t]
             a == OpenPosition(m, signal.action, Quantity(signal), signal.entry, t)
  <2>1. AccountInv' /\ account'.position # NoPosition /\ account'.balance = account.balance
    BY <1>4, EnterKeeps
  <2>2. m \in Accounts /\ m.peak >= account.peak /\ m.balance = account.balance
        /\ m.realized = account.realized /\ m.trades = account.trades
    BY <1>2, <1>4
  <2>3. /\ signal.action \in {"LONG", "SHORT"} /\ signal.entry # signal.stop /\ Quantity(signal) > 0
        /\ account' = a /\ levels' = [stop |-> signal.stop, target |-> Target(signal)]
        /\ signal.entry \in Nat /\ signal.stop \in Nat
    BY <1>4, AccountAssumption DEF EnterOnBar, Accept
  <2>4. /\ Apart(signal) \in Nat \ {0} /\ Quantity(signal) \in Int
        /\ 200 * (Apart(signal) * Quantity(signal)) <= 2 * (account.balance * RiskPct) + 100 * Apart(signal)
    BY <2>3, QuantityFits DEF AccountInv
  <2> HIDE DEF m
  <2>5. /\ a \in Accounts /\ a.peak >= m.peak /\ a.realized = m.realized /\ a.position = p
        /\ a.trades = m.trades
    BY <2>2, <2>3, <2>4, OpenPositionKeeps
  <2> HIDE DEF a
  <2>6. a.peak > 0
    BY <1>1, <2>2, <2>5, PeakStaysPositive DEF SolventInv
  <2>7. Apart(signal) * Quantity(signal) + Fee * Quantity(signal) < account.balance
    <3>1. RiskPct * (Apart(signal) + Fee) < 50 * Apart(signal)
      BY <1>4 DEF SmallRisk
    <3>2. RiskPct \in Nat /\ Fee \in Nat /\ account.balance > 0
      BY AccountAssumption DEF SolventInv
    <3> HIDE DEF Apart, Quantity
    <3> QED BY <1>1, <2>3, <2>4, <3>1, <3>2, SizeIsSolvent
  <2>8. (IF p.side = "LONG" THEN p.entry - levels'.stop ELSE levels'.stop - p.entry) = Apart(signal)
        /\ p.quantity = Quantity(signal)
    BY <1>4, <2>3 DEF Apart, PlanIsSound
  <2> HIDE DEF p
  <2>9. AtRisk(account.position)' = Apart(signal) /\ account'.position.quantity = Quantity(signal)
    BY <2>3, <2>5, <2>8 DEF AtRisk
  <2>10. account'.balance > 0 /\ Earned(account'.trades) = account'.realized /\ account'.peak > 0
    BY <2>1, <2>2, <2>3, <2>5, <2>6 DEF SolventInv
  <2> QED BY <2>1, <2>7, <2>9, <2>10 DEF SolventInv
<1>5. ASSUME CloseOnBar(t, b)
      PROVE  SolventInv'
  <2> DEFINE price == ExitPrice(b)
             a == ClosePosition(m, price, t)
             trade == [net |-> Net(m, price), held |-> m.held, entered |-> m.position.since, left |-> t]
             p == account.position
             x == AtRisk(p) * p.quantity
             f == Fee * p.quantity
  <2>1. /\ account'.position = NoPosition /\ account.position # NoPosition
        /\ account'.balance = account.balance + Net(account, price)
        /\ account' = a /\ AccountInv'
    BY <1>5, CloseKeeps DEF CloseOnBar, Accept
  <2>2. /\ m \in Accounts /\ m.peak >= account.peak /\ m.position = account.position
        /\ m.realized = account.realized /\ m.trades = account.trades
    BY <1>2, <1>5
  <2>3. price \in Int /\ price # 0
    BY <1>5, ExitPriceType DEF AccountInv, CloseOnBar
  <2>4. x \in Nat \ {0} /\ f \in Nat /\ Net(account, price) \in {-x - f, 2 * x - f}
    BY <1>5, <2>1, NetOfAnExit DEF CloseOnBar
  <2>5. x + f < account.balance /\ account.balance > 0
    BY <2>1 DEF SolventInv
  <2> HIDE DEF m, x, f, p, price
  <2>6. account'.balance > 0
    BY <1>1, <2>1, <2>4, <2>5
  <2>7. /\ a \in Accounts /\ Net(m, price) \in Int /\ a.peak >= m.peak
        /\ a.realized = m.realized + Net(m, price) /\ a.trades = Append(m.trades, trade)
    BY <2>1, <2>2, <2>3, ClosePositionKeeps
  <2>8. a.peak > 0
    BY <1>1, <2>2, <2>7, PeakStaysPositive DEF SolventInv
  <2>9. m.position \in Positions
    BY <2>1, <2>2 DEF Accounts
  <2>10. trade \in Trades /\ trade.net = Net(m, price)
    <3> DEFINE net == Net(m, price)
    <3>1. net \in Int
      BY <2>7
    <3> HIDE DEF net
    <3>2. m.held \in Nat /\ m.position.since \in Times
      BY <2>2, <2>9 DEF Accounts, Positions
    <3>3. [net |-> net, held |-> m.held, entered |-> m.position.since, left |-> t] \in Trades
      BY <3>1, <3>2 DEF Trades
    <3> QED BY <3>3 DEF net
  <2> HIDE DEF trade, a
  <2>11. m.trades \in Seq(Trades)
    BY <2>2 DEF Accounts
  <2>12. Earned(a.trades) = a.realized
    BY <2>2, <2>7, <2>10, <2>11, EarnedAppend DEF SolventInv
  <2> QED BY <2>1, <2>6, <2>8, <2>12 DEF SolventInv
<1>6. CASE RejectTime(t)
  BY <1>6, SolventStutters DEF RejectTime, Halt
<1> DEFINE passed == IF signal.action # "WAIT" /\ unreported = <<>> /\ Approved(signal) THEN signal ELSE Waits
<1>7. CloseOnBar(t, b) \/ KeepOnBar(t, b, passed) \/ EnterOnBar(t, b, passed) \/ RejectTime(t)
  BY DEF Bar
<1>8. passed \in {signal, Waits}
  OBVIOUS
<1>9. ASSUME EnterOnBar(t, b, passed)
      PROVE  EnterOnBar(t, b, signal) /\ PlanIsSound(signal)
  <2>1. passed # Waits
    BY <1>9 DEF EnterOnBar, Waits
  <2> QED BY <1>9, <2>1 DEF Approved
<1> HIDE DEF passed
<1> QED BY <1>3, <1>4, <1>5, <1>6, <1>7, <1>8, <1>9

LEMMA StepKeepsSolvent ==
  ASSUME SmallRisk, DeskInv, SolventInv, [Next]_vars
  PROVE  SolventInv'
<1>1. ASSUME NEW t \in Times, NEW b \in PriceBars, NEW signal \in Signals, Bar(t, b, signal)
      PROVE  SolventInv'
  BY <1>1, BarKeepsSolvent DEF DeskInv
<1>2. CASE ReportEquity \/ ReportTrade \/ NewWeek \/ Reset \/ UNCHANGED vars
  <2>1. UNCHANGED <<account, levels>>
    BY <1>2 DEF ReportEquity, ReportTrade, NewWeek, Reset, vars, accountVars
  <2> QED BY <2>1, SolventStutters
<1>3. CASE Restart
  <2>1. account \in Accounts
    BY DEF DeskInv, AccountInv, AccountTypeOK
  <2>2. account' = RefreshPeak(account) /\ levels' = levels
    BY <1>3 DEF Restart, Recover
  <2>3. LET r == account'
        IN  /\ r \in Accounts /\ r.peak >= account.peak
            /\ r.balance = account.balance /\ r.realized = account.realized
            /\ r.position = account.position /\ r.trades = account.trades
    BY <2>1, <2>2, RefreshPeakKeeps
  <2>4. account'.peak > 0
    BY <2>1, <2>3, PeakStaysPositive DEF SolventInv
  <2> QED BY <2>2, <2>3, <2>4 DEF SolventInv, AtRisk
<1> QED BY <1>1, <1>2, <1>3 DEF Next

(* The peak the account knows is as high as every equity it had after a     *)
(* bar, and each trade was held for the bars accepted after its entry       *)
(* (paper_accounting.py, mark and close_position).                         *)
THEOREM AccountCounts == Spec => [](DrawdownIsNotUnderstated /\ HeldCountsBars)
<1>1. ASSUME DeskInv
      PROVE  DrawdownIsNotUnderstated /\ HeldCountsBars
  <2>1. DrawdownIsNotUnderstated
    BY <1>1 DEF DeskInv, AccountInv, ClockInv, DrawdownIsNotUnderstated
  <2>2. HeldCountsBars
    BY <1>1 DEF DeskInv, AccountInv, ClockInv, HeldInv, Counted, Between, HeldCountsBars
  <2> QED BY <2>1, <2>2
<1> QED BY <1>1, DeskIsInvariant, PTL

(* So it never loses, while the risk of a trade is small, what makes its    *)
(* checkpoint one that from_state restores: a balance, a peak and a ledger  *)
(* that adds up.                                                           *)
THEOREM AccountSound ==
  ASSUME SmallRisk
  PROVE  Spec => []AccountIsSound
<1>1. Init => SolventInv
  BY InitSolvent
<1>2. DeskInv /\ SolventInv /\ [Next]_vars => SolventInv'
  BY StepKeepsSolvent
<1>3. SolventInv => CheckpointIsRestorable
  BY DEF SolventInv, CheckpointIsRestorable, Restorable
<1>4. DrawdownIsNotUnderstated /\ HeldCountsBars /\ CheckpointIsRestorable => AccountIsSound
  BY DEF AccountIsSound
<1> QED BY <1>1, <1>2, <1>3, <1>4, DeskIsInvariant, AccountCounts, PTL DEF Spec
=============================================================================
