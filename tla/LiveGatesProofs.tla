--------------------------- MODULE LiveGatesProofs ---------------------------
(***************************************************************************)
(* Proofs about LiveGates and LiveSizing, for any number of operators and  *)
(* processes, any equities, contracts and limits.  First the arithmetic of *)
(* the sizing; then each invariant on top of the types: first that every   *)
(* step keeps it, then the theorem.                                        *)
(***************************************************************************)
EXTENDS LiveSizing, FiniteSetTheorems, TLAPS

-----------------------------------------------------------------------------
(* The size of an order.  Products are compared factor by factor.          *)

LEMMA Product ==
  ASSUME NEW x \in Int, NEW y \in Int
  PROVE  /\ x * y \in Int
         /\ x >= 0 /\ y >= 0 => x * y >= 0
         /\ x > 0 /\ y > 0 => x * y > 0
  OBVIOUS

LEMMA ProductGrows ==
  ASSUME NEW x \in Int, NEW y \in Int, NEW z \in Nat
  PROVE  /\ x <= y => x * z <= y * z
         /\ x < y /\ z > 0 => x * z < y * z
<1>1. (y - x) * z = y * z - x * z /\ (y - x) * z \in Int /\ x * z \in Int /\ y * z \in Int
  OBVIOUS
<1>2. /\ y - x >= 0 => (y - x) * z >= 0
      /\ y - x > 0 /\ z > 0 => (y - x) * z > 0
  BY Product
<1> QED BY <1>1, <1>2

LEMMA Quotient ==
  ASSUME NEW x \in Nat, NEW d \in Nat \ {0}
  PROVE  /\ x \div d \in Nat /\ x % d \in 0 .. d - 1
         /\ x = d * (x \div d) + (x % d)
         /\ d * (x \div d) <= x /\ x < d * ((x \div d) + 1)
<1> DEFINE q == x \div d
<1>1. q \in Nat /\ x % d \in 0 .. d - 1 /\ x = d * q + (x % d)
  OBVIOUS
<1> HIDE DEF q
<1>2. d * (q + 1) = d * q + d /\ d * q \in Int
  BY <1>1
<1> QED BY <1>1, <1>2 DEF q

LEMMA WholeMultiple ==
  ASSUME NEW k \in Nat, NEW d \in Nat \ {0}
  PROVE  (d * k) % d = 0
<1> DEFINE x == d * k
           q == x \div d
           r == x % d
<1>1. x \in Nat
  BY Product
<1> HIDE DEF x
<1>2. q \in Nat /\ r \in 0 .. d - 1 /\ x = d * q + r
  BY <1>1, Quotient
<1> HIDE DEF q, r
<1>3. d * (k - q) = r
  <2>1. d * (k - q) = d * k - d * q /\ d * k \in Int /\ d * q \in Int
    BY <1>2
  <2> QED BY <1>2, <2>1 DEF x
<1>4. CASE k - q >= 1
  <2>1. d * (k - q) >= d * 1
    <3>1. 1 * d <= (k - q) * d
      BY <1>2, <1>4, ProductGrows
    <3> QED BY <1>2, <3>1
  <2> QED BY <1>2, <1>3, <2>1
<1>5. CASE k - q <= -1
  <2>1. (k - q) * d <= (-1) * d
    BY <1>2, <1>5, ProductGrows
  <2> QED BY <1>2, <1>3, <2>1
<1>6. CASE k - q = 0
  <2>1. d * (k - q) = 0
    BY <1>2, <1>6
  <2> QED BY <1>3, <2>1 DEF r, x
<1> QED BY <1>2, <1>4, <1>5, <1>6

(* round is within half of what it rounds, and exact on a multiple.        *)
LEMMA RoundedIs ==
  ASSUME NEW a \in Nat, NEW b \in Nat \ {0}
  PROVE  /\ Rounded(a, b) \in Nat
         /\ 2 * (b * Rounded(a, b)) <= 2 * a + b
         /\ 2 * a <= 2 * (b * Rounded(a, b)) + b
         /\ a % b = 0 => b * Rounded(a, b) = a
<1> DEFINE q == a \div b
           r == a % b
<1>1. q \in Nat /\ r \in 0 .. b - 1 /\ a = b * q + r
  BY Quotient
<1>2. Rounded(a, b) = IF 2 * r > b \/ (2 * r = b /\ q % 2 = 1) THEN q + 1 ELSE q
  BY DEF Rounded
<1>3. r = a % b
  OBVIOUS
<1> HIDE DEF q, r
<1>4. b * (q + 1) = b * q + b /\ b * q \in Int
  BY <1>1
<1> DEFINE m == b * q
<1>5. m \in Int /\ b * (q + 1) = m + b /\ a = m + r /\ b * q = m
  BY <1>1, <1>4
<1> HIDE DEF m
<1>6. CASE Rounded(a, b) = q
  <2>1. 2 * r <= b
    BY <1>1, <1>2, <1>6
  <2> QED BY <1>1, <1>3, <1>5, <1>6, <2>1
<1>7. CASE Rounded(a, b) = q + 1
  <2>1. 2 * r >= b
    BY <1>1, <1>2, <1>7
  <2>2. r # 0
    BY <1>1, <2>1
  <2> QED BY <1>1, <1>3, <1>5, <1>7, <2>1, <2>2
<1> QED BY <1>2, <1>6, <1>7

(* The cents of a cost k, at q units a tenth of a cent, against a budget w. *)
LEMMA CentsOfCost ==
  ASSUME NEW k \in Nat, NEW q \in Nat \ {0}, NEW w \in Nat
  PROVE  /\ Rounded(k, q * 10) * 1000 <= w => k * 100 <= (w + 1 * 500) * q
         /\ Rounded(k, q * 10) * 1000 > w => k * 100 > (w + (-1) * 500) * q
<1> DEFINE n == Rounded(k, q * 10)
           b == q * 10
<1>1. b \in Nat \ {0} /\ b = 10 * q
  OBVIOUS
<1>2. n \in Nat /\ 2 * (b * n) <= 2 * k + b /\ 2 * k <= 2 * (b * n) + b
  <2> HIDE DEF b
  <2>1. /\ Rounded(k, b) \in Nat /\ 2 * (b * Rounded(k, b)) <= 2 * k + b
        /\ 2 * k <= 2 * (b * Rounded(k, b)) + b
    BY <1>1, RoundedIs
  <2> QED BY <2>1 DEF b
<1> HIDE DEF n
<1> DEFINE m == n * q
           v == w * q
<1>3. m \in Nat /\ v \in Nat /\ b * n = 10 * m
  BY <1>1, <1>2, Product
<1>4. /\ (w + 1 * 500) * q = v + 500 * q
      /\ (w + (-1) * 500) * q = v - 500 * q
  OBVIOUS
<1>5. (n * 1000) * q = 1000 * m
  BY <1>2
<1>6. n * 1000 <= w => 1000 * m <= v
  BY <1>2, <1>5, ProductGrows
<1>7. n * 1000 > w => 1000 * m > v
  BY <1>2, <1>5, ProductGrows
<1> HIDE DEF m, v, b
<1>8. n * 1000 <= w => k * 100 <= v + 500 * q
  BY <1>1, <1>2, <1>3, <1>6
<1>9. n * 1000 > w => k * 100 > v - 500 * q
  BY <1>1, <1>2, <1>3, <1>7
<1> QED BY <1>4, <1>8, <1>9 DEF n

LEMMA ContractTypes ==
  ASSUME NEW c \in Contracts
  PROVE  /\ c.tickValue \in Nat \ {0} /\ c.tickSize \in Nat \ {0} /\ c.min \in Nat \ {0}
         /\ c.max \in Nat \ {0} /\ c.step \in Nat \ {0} /\ c.min <= c.max /\ c.min % c.step = 0
         /\ PerCost(c) \in Nat \ {0} /\ PerCost(c) = 300 * c.tickSize
         /\ RiskFraction \in 1 .. 100 /\ DailyFraction \in 1 .. 100 /\ CurrencyLimit \in Nat
<1>1. /\ c.tickValue \in Nat \ {0} /\ c.tickSize \in Nat \ {0} /\ c.min \in Nat \ {0}
      /\ c.max \in Nat \ {0} /\ c.step \in Nat \ {0} /\ c.min <= c.max /\ c.min % c.step = 0
  BY ForexAssumption DEF ValidContract
<1> DEFINE t == c.tickSize
<1>2. PerCost(c) = t * 3 * 100
  BY DEF PerCost, PerPoint
<1>3. t \in Nat \ {0}
  BY <1>1
<1> HIDE DEF t
<1>4. t * 3 * 100 = 300 * t
  BY <1>3
<1> QED BY <1>1, <1>2, <1>3, <1>4, ForexAssumption DEF ValidForexLimits, t

LEMMA CostType ==
  ASSUME NEW c \in Contracts, NEW distance \in Nat, NEW volume \in Nat
  PROVE  Cost(c, distance, volume) \in Nat
<1>1. c.tickValue \in Nat
  BY ContractTypes
<1>2. distance * c.tickValue \in Nat
  BY <1>1, Product
<1> QED BY <1>2, Product DEF Cost

LEMMA CostGrows ==
  ASSUME NEW c \in Contracts, NEW distance \in Nat, NEW v \in Nat, NEW w \in Nat, v <= w
  PROVE  Cost(c, distance, v) <= Cost(c, distance, w)
<1> DEFINE u == distance * c.tickValue
<1>1. u \in Nat
  BY ContractTypes, Product
<1> HIDE DEF u
<1>2. v * u <= w * u /\ v * u = u * v /\ w * u = u * w
  BY <1>1, ProductGrows
<1> QED BY <1>2 DEF Cost, u

(* A distance of whole points: the steps of LotSize are the last that fit. *)
LEMMA SizeOfWholePoints ==
  ASSUME NEW c \in Contracts, NEW balance \in Nat, NEW distance \in Nat \ {0}, distance % PerPoint = 0
  PROVE  \E q \in Nat : /\ LotSize(c, balance, distance) = c.step * q
                        /\ ~Above(c, balance, distance, c.step * q, 0)
                        /\ Above(c, balance, distance, c.step * (q + 1), 0)
<1> DEFINE points == Rounded(distance, PerPoint)
           w      == balance * RiskFraction
           budget == w * c.tickSize
           u      == points * c.tickValue
           cost   == u * c.step
           q      == budget \div cost
<1>1. points \in Nat \ {0} /\ distance = 3 * points
  <2>1. points \in Nat /\ 3 * points = distance
    BY RoundedIs DEF PerPoint
  <2> QED BY <2>1
<1>2. c.tickValue \in Nat \ {0} /\ c.tickSize \in Nat \ {0} /\ c.step \in Nat \ {0} /\ RiskFraction \in Nat
  BY ContractTypes
<1>3. LotSize(c, balance, distance) = c.step * q
  BY <1>1 DEF LotSize
<1> HIDE DEF points
<1>4. w \in Nat /\ budget \in Nat /\ u \in Nat \ {0} /\ cost \in Nat \ {0}
  <2>1. w \in Nat
    BY <1>2, Product
  <2>2. u \in Nat \ {0}
    BY <1>1, <1>2, Product
  <2> HIDE DEF w, u
  <2> QED BY <1>2, <2>1, <2>2, Product
<1>5. q \in Nat /\ cost * q <= budget /\ budget < cost * (q + 1)
  <2> HIDE DEF budget, cost
  <2> QED BY <1>4, Quotient
<1>6. ASSUME NEW k \in Nat
      PROVE  Above(c, balance, distance, c.step * k, 0) <=> cost * k > budget
  <2> DEFINE n == cost * k
  <2>1. n \in Nat
    BY <1>4, Product
  <2>2. Cost(c, distance, c.step * k) = 3 * n
    <3> DEFINE s == c.step
               t == c.tickValue
    <3>1. s \in Nat /\ t \in Nat /\ points \in Nat /\ k \in Nat
      BY <1>1, <1>2
    <3>2. Cost(c, distance, s * k) = ((3 * points) * t) * (s * k) /\ n = ((points * t) * s) * k
      BY <1>1 DEF Cost
    <3> HIDE DEF s, t, n
    <3> DEFINE a == points * t
    <3>3. a \in Nat /\ (3 * points) * t = 3 * a
      BY <3>1, Product
    <3> HIDE DEF a
    <3>4. (3 * a) * (s * k) = 3 * (a * (s * k)) /\ (a * s) * k = a * (s * k)
      BY <3>1, <3>3
    <3> QED BY <3>2, <3>3, <3>4 DEF a, s
  <2>3. (w + 0 * 500) * PerCost(c) = 300 * budget
    <3> DEFINE t == c.tickSize
    <3>1. t \in Nat /\ PerCost(c) = 300 * t /\ budget = w * t
      BY ContractTypes
    <3> HIDE DEF t, w, budget
    <3>2. (w + 0 * 500) * (300 * t) = 300 * (w * t)
      BY <1>4, <3>1
    <3> QED BY <3>1, <3>2
  <2>4. Above(c, balance, distance, c.step * k, 0) <=> (3 * n) * 100 > 300 * budget
    BY <2>2, <2>3 DEF Above
  <2> HIDE DEF n, budget
  <2>5. (3 * n) * 100 > 300 * budget <=> n > budget
    BY <1>4, <2>1
  <2> QED BY <2>4, <2>5 DEF n
<1> HIDE DEF q, cost, budget
<1>7. q + 1 \in Nat /\ budget < cost * (q + 1) /\ ~(cost * q > budget)
  <2> DEFINE n == cost * q
             m == cost * (q + 1)
  <2>1. n \in Nat /\ m \in Nat /\ n <= budget /\ budget < m /\ q + 1 \in Nat
    BY <1>4, <1>5, Product
  <2> HIDE DEF n, m
  <2>2. ~(n > budget)
    BY <1>4, <2>1
  <2> QED BY <2>1, <2>2 DEF n, m
<1>8. ~Above(c, balance, distance, c.step * q, 0)
  BY <1>5, <1>6, <1>7
<1>9. Above(c, balance, distance, c.step * (q + 1), 0)
  <2> DEFINE k == q + 1
  <2>1. k \in Nat /\ budget < cost * k /\ cost * k \in Int
    BY <1>4, <1>7, Product
  <2> HIDE DEF k
  <2>2. Above(c, balance, distance, c.step * k, 0)
    BY <1>4, <1>6, <2>1
  <2> QED BY <2>2 DEF k
<1> QED BY <1>3, <1>5, <1>8, <1>9

LEMMA SizeIsWholeSteps ==
  ASSUME NEW c \in Contracts, NEW balance \in Nat, NEW distance \in Nat
  PROVE  LotSize(c, balance, distance) \in Nat /\ LotSize(c, balance, distance) % c.step = 0
<1> DEFINE points == Rounded(distance, PerPoint)
           w      == balance * RiskFraction
           budget == w * c.tickSize
           u      == points * c.tickValue
           cost   == u * c.step
           q      == budget \div cost
<1>1. points \in Nat /\ c.tickValue \in Nat \ {0} /\ c.tickSize \in Nat /\ c.step \in Nat \ {0} /\ RiskFraction \in Nat
  <2>1. points \in Nat
    BY RoundedIs DEF PerPoint
  <2> HIDE DEF points
  <2> QED BY <2>1, ContractTypes
<1>2. LotSize(c, balance, distance) = IF points = 0 THEN 0 ELSE c.step * q
  BY DEF LotSize
<1> HIDE DEF points
<1>3. CASE points = 0
  BY <1>1, <1>2, <1>3
<1>4. CASE points # 0
  <2>1. w \in Nat /\ u \in Nat \ {0}
    BY <1>1, <1>4, Product
  <2> HIDE DEF w, u
  <2>2. budget \in Nat /\ cost \in Nat \ {0}
    BY <1>1, <2>1, Product
  <2> HIDE DEF budget, cost
  <2>3. q \in Nat
    BY <2>2, Quotient
  <2> DEFINE s == c.step
             l == s * q
  <2>4. s \in Nat \ {0}
    BY <1>1
  <2> HIDE DEF q, s
  <2>5. l \in Nat /\ l % s = 0
    BY <2>3, <2>4, Product, WholeMultiple
  <2>6. LotSize(c, balance, distance) = l
    BY <1>2, <1>4 DEF s
  <2> QED BY <2>5, <2>6 DEF s
<1> QED BY <1>3, <1>4

LEMMA PositionsCount ==
  ASSUME NEW active \in Actives, NEW currency
  PROVE  Positions(active, currency) \in Nat
<1> DEFINE S == {k \in DOMAIN active : currency # "" /\ currency \in {active[k][1], active[k][2]}}
<1>1. IsFiniteSet(1 .. Len(active)) /\ S \subseteq 1 .. Len(active)
  <2>1. Len(active) \in Nat /\ DOMAIN active = 1 .. Len(active)
    BY ForexAssumption
  <2>2. IsFiniteSet(1 .. Len(active))
    BY <2>1, FS_Interval
  <2>3. S \subseteq DOMAIN active
    OBVIOUS
  <2> QED BY <2>1, <2>2, <2>3
<1>2. IsFiniteSet(S)
  BY <1>1, FS_Subset
<1> QED BY <1>2, FS_CardinalityType DEF Positions

(* Whatever the account, the order of the broker's contract fits. *)
THEOREM EveryLotFits ==
  ASSUME NEW balance \in Nat \ {0}
  PROVE  LotIsWhatFits(balance)
<1> SUFFICES ASSUME NEW c \in Contracts, NEW distance \in Distances, NEW active \in Actives, NEW lost \in {0, 40}
             PROVE  LET d         == EvaluateForexRisk(c, balance, distance, lost, active)
                        fitting   == Smaller(LotSize(c, balance, distance), c.max)
                        above(volume, halves) == Above(c, balance, distance, volume, halves)
                        held(leg) == Positions(active, leg) + 1
                        whole     == distance % PerPoint = 0
                    IN  /\ d.allowed =>
                             /\ ~above(d.lots, 1)
                             /\ d.lots \in c.min .. c.max
                             /\ d.lots = c.max \/ d.lots % c.step = 0
                             /\ whole /\ d.lots + c.step <= c.max => above(d.lots + c.step, 0)
                             /\ Len(active) < OpenLimit /\ lost * 100 < balance * DailyFraction
                             /\ "" \notin {c.legs[1], c.legs[2]} =>
                                  held(c.legs[1]) <= CurrencyLimit /\ held(c.legs[2]) <= CurrencyLimit
                        /\ d.why = "size" /\ whole => above(c.min, 0)
                        /\ d.why = "budget" /\ whole => above(fitting, -1) /\ ~above(fitting, 0)
  BY DEF LotIsWhatFits
<1> DEFINE d     == EvaluateForexRisk(c, balance, distance, lost, active)
           size  == LotSize(c, balance, distance)
           lots  == Smaller(size, c.max)
           k     == Cost(c, distance, lots)
           w     == balance * RiskFraction
           cents == Rounded(k, PerCost(c) * 10)
           daily == balance * DailyFraction
           room  == /\ ~(lost * 100 >= daily) /\ ~(\E i \in DOMAIN active : active[i] = c.legs)
                    /\ ~(Len(active) >= OpenLimit) /\ ExposureOk(c.legs, active)
           whole == distance % PerPoint = 0
           above(volume, halves) == Above(c, balance, distance, volume, halves)
<1>1. /\ c.tickValue \in Nat \ {0} /\ c.tickSize \in Nat \ {0} /\ c.min \in Nat \ {0}
      /\ c.max \in Nat \ {0} /\ c.step \in Nat \ {0} /\ c.min <= c.max /\ c.min % c.step = 0
      /\ PerCost(c) \in Nat \ {0} /\ RiskFraction \in Nat /\ DailyFraction \in Nat /\ CurrencyLimit \in Nat
  BY ContractTypes
<1>2. distance \in Nat \ {0} /\ Len(active) \in Nat /\ OpenLimit \in Nat /\ lost \in Nat
  BY ForexAssumption DEF ValidForexLimits
<1>3. size \in Nat /\ size % c.step = 0
  BY <1>2, SizeIsWholeSteps
<1>4. lots \in Nat /\ lots <= c.max /\ lots <= size /\ (lots = size \/ lots = c.max)
  <2> HIDE DEF size
  <2> QED BY <1>1, <1>3 DEF Smaller
<1>5. w \in Nat /\ daily \in Nat
  BY <1>1, Product
<1>6. k \in Nat
  <2> HIDE DEF lots
  <2> QED BY <1>2, <1>4, CostType
(* The decision, case by case. *)
<1>7. /\ d.allowed => d.lots = lots /\ room /\ ~(size < c.min) /\ ~(cents * 1000 > w)
      /\ d.why = "size" => size < c.min
      /\ d.why = "budget" => cents * 1000 > w
  <2> DEFINE over == cents * 1000 > w
             under == size < c.min
             lose == lost * 100 >= daily
             full == Len(active) >= OpenLimit
             same == \E i \in DOMAIN active : active[i] = c.legs
             legs == ExposureOk(c.legs, active)
  <2>2. d = IF lose THEN Refused("daily loss") ELSE IF same THEN Refused("open")
            ELSE IF full THEN Refused("positions") ELSE IF ~legs THEN Refused("currency")
            ELSE IF under THEN Refused("size") ELSE IF over THEN Refused("budget")
            ELSE [allowed |-> TRUE, why |-> "passed", lots |-> lots]
    BY DEF EvaluateForexRisk
  <2> HIDE DEF d, size, lots, cents, w, daily, over, under, lose, full, same, legs
  <2>3. \/ lose /\ d = Refused("daily loss")
        \/ same /\ d = Refused("open")
        \/ full /\ d = Refused("positions")
        \/ ~legs /\ d = Refused("currency")
        \/ under /\ d = Refused("size")
        \/ over /\ d = Refused("budget")
        \/ /\ ~lose /\ ~same /\ ~full /\ legs /\ ~under /\ ~over
           /\ d = [allowed |-> TRUE, why |-> "passed", lots |-> lots]
    BY <2>2, Zenon
  <2>4. /\ d.allowed => ~lose /\ ~same /\ ~full /\ legs /\ ~under /\ ~over /\ d.lots = lots
        /\ d.why = "size" => under
        /\ d.why = "budget" => over
    <3>1. \A why : LET r == Refused(why) IN r.allowed = FALSE /\ r.why = why
      BY DEF Refused
    <3>2. LET r == [allowed |-> TRUE, why |-> "passed", lots |-> lots]
          IN  r.allowed = TRUE /\ r.why = "passed" /\ r.lots = lots
      OBVIOUS
    <3> QED BY <2>3, <3>1, <3>2, Zenon
  <2> QED BY <2>4 DEF over, under, lose, full, same, legs
<1> HIDE DEF d, daily
<1>8. /\ cents * 1000 <= w => ~above(lots, 1)
      /\ cents * 1000 > w => above(lots, -1)
  <2>1. /\ cents * 1000 <= w => k * 100 <= (w + 1 * 500) * PerCost(c)
        /\ cents * 1000 > w => k * 100 > (w + (-1) * 500) * PerCost(c)
    <3> HIDE DEF k, w
    <3> QED BY <1>1, <1>5, <1>6, CentsOfCost
  <2>2. /\ above(lots, 1) <=> k * 100 > (w + 1 * 500) * PerCost(c)
        /\ above(lots, -1) <=> k * 100 > (w + (-1) * 500) * PerCost(c)
    BY DEF Above
  <2> DEFINE a == k * 100
             b == (w + 1 * 500) * PerCost(c)
  <2>3. a \in Int /\ b \in Int
    BY <1>1, <1>5, <1>6, Product
  <2> HIDE DEF a, b
  <2>4. a <= b => ~(a > b)
    BY <2>3
  <2> QED BY <2>1, <2>2, <2>4 DEF a, b
<1>9. ASSUME NEW v \in Nat, NEW x \in Nat, v <= x
      PROVE  above(v, 0) => above(x, 0)
  <2> DEFINE i == Cost(c, distance, v)
             j == Cost(c, distance, x)
             b == (balance * RiskFraction + 0 * 500) * PerCost(c)
  <2>1. i \in Nat /\ j \in Nat /\ i <= j
    BY <1>2, <1>9, CostType, CostGrows
  <2>2. w + 0 * 500 \in Nat
    BY <1>5
  <2>3. b \in Nat
    <3> HIDE DEF w
    <3> QED BY <1>1, <2>2, Product DEF w
  <2>4. (above(v, 0) <=> i * 100 > b) /\ (above(x, 0) <=> j * 100 > b)
    BY DEF Above
  <2> HIDE DEF i, j, b
  <2> QED BY <2>1, <2>3, <2>4
<1> HIDE DEF cents, w, k
<1>10. ASSUME whole
       PROVE  \E q \in Nat : /\ size = c.step * q /\ ~above(size, 0) /\ above(size + c.step, 0)
                             /\ \A n \in Nat : n % c.step = 0 /\ n > size => n >= size + c.step
  <2>1. PICK q \in Nat : /\ size = c.step * q /\ ~above(c.step * q, 0) /\ above(c.step * (q + 1), 0)
    BY <1>2, <1>10, SizeOfWholePoints
  <2> DEFINE s == c.step
  <2>2. s \in Nat \ {0}
    BY <1>1
  <2> HIDE DEF s, size, above
  <2>3. s * (q + 1) = s * q + s
    BY <2>2
  <2>4. ASSUME NEW n \in Nat, n % s = 0, n > s * q
        PROVE  n >= s * q + s
    <3> DEFINE m == n \div s
    <3>1. m \in Nat /\ n = s * m
      BY <2>2, <2>4, Quotient
    <3> HIDE DEF m
    <3>2. CASE m >= q + 1
      <4>1. (q + 1) * s <= m * s
        BY <2>2, <3>1, <3>2, ProductGrows
      <4> QED BY <2>2, <2>3, <3>1, <4>1
    <3>3. CASE m <= q
      <4>1. m * s <= q * s
        BY <2>2, <3>1, <3>3, ProductGrows
      <4>2. s * m \in Int /\ s * q \in Int /\ s * m = m * s /\ s * q = q * s
        BY <2>2, <3>1
      <4> QED BY <2>4, <3>1, <4>1, <4>2
    <3> QED BY <3>1, <3>2, <3>3
  <2> QED BY <2>1, <2>3, <2>4 DEF s
<1> HIDE DEF size, lots, above, whole
<1>11. ASSUME d.allowed
       PROVE  /\ ~above(d.lots, 1)
              /\ d.lots \in c.min .. c.max
              /\ d.lots = c.max \/ d.lots % c.step = 0
              /\ whole /\ d.lots + c.step <= c.max => above(d.lots + c.step, 0)
  <2>1. /\ d.lots = lots /\ ~(size < c.min) /\ ~(cents * 1000 > w) /\ cents * 1000 <= w
    <3>1. cents \in Nat
      <4> DEFINE b == PerCost(c) * 10
      <4>1. b \in Nat \ {0}
        BY <1>1
      <4> HIDE DEF b
      <4> QED BY <1>6, <4>1, RoundedIs DEF cents, b
    <3> QED BY <1>5, <1>7, <1>11, <3>1
  <2>2. lots \in c.min .. c.max
    BY <1>1, <1>3, <1>4, <2>1
  <2>3. ASSUME whole, lots + c.step <= c.max
        PROVE  above(lots + c.step, 0)
    <3>1. lots = size
      BY <1>1, <1>4, <2>3
    <3> QED BY <1>10, <2>3, <3>1
  <2> QED BY <1>3, <1>4, <1>8, <2>1, <2>2, <2>3
<1>12. ASSUME d.allowed
       PROVE  /\ Len(active) < OpenLimit /\ lost * 100 < balance * DailyFraction
              /\ "" \notin {c.legs[1], c.legs[2]} =>
                   /\ Positions(active, c.legs[1]) + 1 <= CurrencyLimit
                   /\ Positions(active, c.legs[2]) + 1 <= CurrencyLimit
  <2>1. room
    BY <1>7, <1>12
  <2>2. Len(active) < OpenLimit
    BY <1>2, <2>1
  <2>3. lost * 100 < balance * DailyFraction
    <3>1. lost * 100 \in Nat
      BY <1>2
    <3> QED BY <1>5, <2>1, <3>1 DEF daily
  <2>4. ASSUME "" \notin {c.legs[1], c.legs[2]}
        PROVE  /\ Positions(active, c.legs[1]) + 1 <= CurrencyLimit
               /\ Positions(active, c.legs[2]) + 1 <= CurrencyLimit
    <3>1. Positions(active, c.legs[1]) < CurrencyLimit /\ Positions(active, c.legs[2]) < CurrencyLimit
      BY <2>1, <2>4 DEF ExposureOk
    <3> QED BY <1>1, <3>1, PositionsCount
  <2> QED BY <2>2, <2>3, <2>4
<1>13. ASSUME d.why = "size", whole
       PROVE  above(c.min, 0)
  <2>1. size < c.min
    BY <1>7, <1>13
  <2>2. above(size + c.step, 0) /\ size + c.step <= c.min /\ size + c.step \in Nat
    BY <1>1, <1>3, <1>10, <1>13, <2>1
  <2> QED BY <1>1, <1>9, <2>2
<1>14. ASSUME d.why = "budget", whole
       PROVE  above(lots, -1) /\ ~above(lots, 0)
  <2>1. above(lots, -1)
    BY <1>7, <1>8, <1>14
  <2>2. ~above(size, 0)
    BY <1>10, <1>14
  <2> QED BY <1>3, <1>4, <1>9, <2>1, <2>2
<1> QED BY <1>11, <1>12, <1>13, <1>14 DEF d, lots, size, above, whole

-----------------------------------------------------------------------------

USE GatesAssumption, FilesAssumption

-----------------------------------------------------------------------------
(* Types.                                                                  *)

(* A process that checks or trades has a snapshot.                         *)
HeldInv == \A p \in Procs : pc[p] \in {"check", "stale", "trading"} => snapshot[p] # Nothing

TypeInv == GatesTypeOK /\ HeldInv

(* The values a file or a snapshot is compared with are none of its own.   *)
LEMMA Values ==
  /\ Nothing \notin Control /\ Nothing \notin Snapshot
  /\ NoFile \notin Control /\ Damaged \notin Control
  /\ NoFile \notin Baseline /\ Damaged \notin Baseline
  /\ Days \subseteq Nat /\ \A e \in Equities : e \in Nat /\ e > 0
BY DEF Days

(* What a readable control file says is a number and a state.              *)
LEMMA ReadControlType ==
  ASSUME control \in Control \cup {NoFile}
  PROVE  ReadControl.generation \in Nat
BY Values DEF ReadControl, Control

(* What the verdict of a check leaves behind.                              *)
LEMMA ConcludeTypes ==
  ASSUME TypeInv, NEW p \in Procs, NEW starting \in Equities,
         snapshot[p] \in Snapshot, Conclude(p, starting)
  PROVE  /\ pc' \in [Procs -> {"down", "check", "stale", "waiting", "cycle", "trading"}]
         /\ snapshot' \in [Procs -> Snapshot \cup {Nothing}]
         /\ late' \in [Procs -> Nat]
         /\ HeldInv'
<1>. USE DEF TypeInv, GatesTypeOK
<1>1. snapshot[p].then \in {"waiting", "trading"}
  BY DEF Snapshot
<1>2. pc' \in [Procs -> {"down", "check", "stale", "waiting", "cycle", "trading"}]
  BY <1>1 DEF Conclude
<1>3. snapshot' \in [Procs -> Snapshot \cup {Nothing}]
  BY DEF Conclude
<1>4. late' \in [Procs -> Nat]
  BY DEF Conclude
<1>5. HeldInv'
  BY <1>1, Values DEF Conclude, HeldInv
<1>. QED  BY <1>2, <1>3, <1>4, <1>5

(* Every step keeps the types.                                             *)
LEMMA TypeStep ==
  ASSUME TypeInv, [Next]_vars
  PROVE  TypeInv'
<1>. USE DEF TypeInv, GatesTypeOK
<1>1. ASSUME NEW o \in Operators, EndSet(o) PROVE TypeInv'
  <2>1. control' \in Control /\ last' \in Commands /\ setting' \in [Operators -> Control \cup {Nothing}]
    BY <1>1, Values DEF EndSet, Control
  <2>. QED  BY <1>1, <2>1 DEF EndSet, HeldInv
<1>2. ASSUME NEW o \in Operators, NEW state \in Commands, BeginSet(o, state) PROVE TypeInv'
  <2>1. ReadControl.generation \in Nat
    BY <1>2, ReadControlType DEF BeginSet
  <2>2. [state |-> state, generation |-> ReadControl.generation + 1] \in Control
    BY <2>1 DEF Control
  <2>3. setting' \in [Operators -> Control \cup {Nothing}] /\ mixed' \in BOOLEAN
    BY <1>2, <2>2 DEF BeginSet
  <2>. QED  BY <1>2, <2>3 DEF BeginSet, processVars, HeldInv
<1>3. ASSUME NEW p \in Procs, NEW then \in {"waiting", "trading"}, TakeSnapshot(p, then)
      PROVE  TypeInv'
  <2>1. [date |-> day, equity |-> equity, then |-> then] \in Snapshot
    BY DEF Snapshot
  <2>2. snapshot' \in [Procs -> Snapshot \cup {Nothing}] /\ crossed' \in BOOLEAN
    BY <1>3, <2>1 DEF TakeSnapshot
  <2>3. HeldInv'
    BY <1>3, <2>1, Values DEF TakeSnapshot, HeldInv
  <2>. QED  BY <1>3, <2>2, <2>3 DEF TakeSnapshot, operatorVars
<1>4. ASSUME NEW p \in Procs, BeginCycle(p) PROVE TypeInv'
  BY <1>4 DEF BeginCycle, operatorVars, HeldInv
<1>5. ASSUME NEW p \in Procs, LoadBaseline(p) PROVE TypeInv'
  <2>1. snapshot[p] \in Snapshot
    BY <1>5 DEF LoadBaseline, HeldInv
  <2>2. CASE breaker # NoFile /\ breaker.date = snapshot[p].date
    <3>1. breaker.starting \in Equities /\ Conclude(p, breaker.starting)
      BY <1>5, <2>2 DEF LoadBaseline, Baseline
    <3>. QED  BY <1>5, <2>1, <3>1, ConcludeTypes DEF LoadBaseline, operatorVars
  <2>3. CASE ~(breaker # NoFile /\ breaker.date = snapshot[p].date)
    <3>1. HeldInv'
      BY <1>5, <2>3 DEF LoadBaseline, HeldInv
    <3>. QED  BY <1>5, <2>3, <3>1 DEF LoadBaseline, operatorVars
  <2>. QED  BY <2>2, <2>3
<1>6. ASSUME NEW p \in Procs, SaveBaseline(p) PROVE TypeInv'
  <2>1. snapshot[p] \in Snapshot
    BY <1>6 DEF SaveBaseline, HeldInv
  <2>2. snapshot[p].equity \in Equities /\ snapshot[p].date \in Days
    BY <2>1 DEF Snapshot
  <2>3. breaker' \in Baseline
    BY <1>6, <2>2 DEF SaveBaseline, Baseline
  <2>4. saves' \in [Days -> Equities \cup {Nothing}]
    BY <1>6, <2>2 DEF SaveBaseline
  <2>5. Conclude(p, snapshot[p].equity)
    BY <1>6 DEF SaveBaseline
  <2>. QED  BY <1>6, <2>1, <2>2, <2>3, <2>4, <2>5, ConcludeTypes DEF SaveBaseline, operatorVars
<1>7. ASSUME NEW p \in Procs, EndCycle(p) \/ Refuse(p) \/ Stop(p) PROVE TypeInv'
  <2>1. pc' \in [Procs -> {"down", "check", "stale", "waiting", "cycle", "trading"}]
    BY <1>7 DEF EndCycle, Refuse, Stop
  <2>2. snapshot' \in [Procs -> Snapshot \cup {Nothing}] /\ stops' \in Nat
    BY <1>7 DEF EndCycle, Refuse, Stop, Forget
  <2>3. HeldInv'
    BY <1>7 DEF EndCycle, Refuse, Stop, Forget, HeldInv
  <2>. QED  BY <1>7, <2>1, <2>2, <2>3 DEF EndCycle, Refuse, Stop, operatorVars
<1>8. CASE NextDay
  BY <1>8 DEF NextDay, operatorVars, processVars, HeldInv, Days
<1>9. ASSUME NEW e \in Equities, MoveEquity(e) PROVE TypeInv'
  BY <1>9 DEF MoveEquity, operatorVars, processVars, HeldInv
<1>10. CASE DamageControl \/ DamageBreaker
  BY <1>10 DEF DamageControl, DamageBreaker, operatorVars, processVars, HeldInv
<1>11. CASE UNCHANGED vars
  BY <1>11 DEF vars, operatorVars, processVars, HeldInv
<1>. QED  BY <1>1, <1>2, <1>3, <1>4, <1>5, <1>6, <1>7, <1>8, <1>9, <1>10, <1>11
          DEF Next, Start, ReadAccount

(* The types hold in every state.                                          *)
LEMMA Types == Spec => []TypeInv
<1>1. Init => TypeInv
  <2> SUFFICES ASSUME Init PROVE TypeInv
    OBVIOUS
  <2>1. MaxDay \in Nat /\ 0 \in Days
    BY DEF Days
  <2>. QED  BY <2>1 DEF Init, TypeInv, GatesTypeOK, HeldInv
<1>. QED  BY <1>1, TypeStep, PTL DEF Spec

(* Type correctness of the two gates.                                      *)
THEOREM TypeCorrect == Spec => []GatesTypeOK
<1>1. TypeInv => GatesTypeOK
  BY DEF TypeInv
<1>. QED  BY <1>1, Types, PTL

-----------------------------------------------------------------------------
(* The control file.                                                       *)

(* Unless calls of set overlapped or the file was damaged, at most one is  *)
(* on its way, it will write the next generation, and the file holds what  *)
(* the last one wrote.                                                     *)
SerialInv ==
  ~mixed /\ damages = 0 =>
    /\ control # Damaged
    /\ ReadControl.state = last
    /\ ReadControl.generation = sets
    /\ \A o \in Operators : setting[o] # Nothing =>
         /\ setting[o].generation = sets + 1
         /\ \A q \in Operators : setting[q] # Nothing => q = o

(* Every step keeps it.                                                    *)
LEMMA SerialStep ==
  ASSUME TypeInv, SerialInv, [Next]_vars
  PROVE  SerialInv'
<1>. USE DEF TypeInv, GatesTypeOK
<1>1. ASSUME NEW o \in Operators, EndSet(o) PROVE SerialInv'
  <2> SUFFICES ASSUME ~mixed', damages' = 0 PROVE SerialInv'
    BY DEF SerialInv
  <2>1. ~mixed /\ damages = 0 /\ setting[o] \in Control
    BY <1>1 DEF EndSet
  <2>2. setting[o].generation = sets + 1 /\ \A q \in Operators : setting[q] # Nothing => q = o
    BY <1>1, <2>1 DEF EndSet, SerialInv
  <2>3. control' = setting[o] /\ control' # NoFile /\ control' # Damaged
    BY <1>1, <2>1, Values DEF EndSet
  <2>4. ReadControl' = setting[o]
    BY <2>3 DEF ReadControl
  <2>5. \A q \in Operators : setting'[q] = Nothing
    BY <1>1, <2>2 DEF EndSet
  <2>. QED  BY <1>1, <2>2, <2>3, <2>4, <2>5 DEF EndSet, SerialInv
<1>2. ASSUME NEW o \in Operators, NEW state \in Commands, BeginSet(o, state) PROVE SerialInv'
  <2> SUFFICES ASSUME ~mixed', damages' = 0 PROVE SerialInv'
    BY DEF SerialInv
  <2>1. ~mixed /\ damages = 0 /\ \A q \in Operators : setting[q] = Nothing
    BY <1>2 DEF BeginSet
  <2>2. ReadControl' = ReadControl /\ control' = control /\ sets' = sets /\ last' = last
    BY <1>2 DEF BeginSet, ReadControl
  <2>3. \A q \in Operators : setting'[q] =
          IF q = o THEN [state |-> state, generation |-> ReadControl.generation + 1] ELSE Nothing
    BY <1>2, <2>1 DEF BeginSet
  <2>. QED  BY <2>1, <2>2, <2>3 DEF SerialInv
<1>3. CASE UNCHANGED <<control, setting, sets, last, mixed, damages>>
  <2>1. ReadControl' = ReadControl
    BY <1>3 DEF ReadControl
  <2>. QED  BY <1>3, <2>1 DEF SerialInv
<1>4. CASE DamageControl \/ DamageBreaker
  BY <1>4 DEF DamageControl, DamageBreaker, SerialInv
<1>. QED  BY <1>1, <1>2, <1>3, <1>4 DEF Next, vars, operatorVars, Start, TakeSnapshot, BeginCycle, ReadAccount,
             LoadBaseline, SaveBaseline, EndCycle, Refuse, Stop, NextDay, MoveEquity

(* ControlFileIsSerial: only commands that overlap can lose a generation   *)
(* or leave another state than the last command set.                       *)
THEOREM SerialCommands == Spec => []ControlFileIsSerial
<1>1. Init => SerialInv
  BY Values DEF Init, SerialInv, ReadControl
<1>2. SerialInv => ControlFileIsSerial
  BY DEF SerialInv, ControlFileIsSerial
<1>. QED  BY <1>1, <1>2, SerialStep, Types, PTL DEF Spec

-----------------------------------------------------------------------------
(* A state other than RUN.                                                 *)

(* The readable file holds the last state set; a process that has traded   *)
(* since it was another than RUN is neither in a cycle nor checks for one. *)
StopInv ==
  /\ control # Damaged => ReadControl.state = last
  /\ \A p \in Procs : late[p] # 0 =>
       /\ late[p] = 1
       /\ last # "RUN"
       /\ pc[p] # "cycle"
       /\ pc[p] \in {"check", "stale"} => snapshot[p].then = "waiting"

(* Only the verdict of a check for a cycle counts a late cycle.            *)
LEMMA ConcludeStop ==
  ASSUME TypeInv, StopInv, NEW p \in Procs, NEW starting \in Equities,
         pc[p] \in {"check", "stale"}, Conclude(p, starting), last' = last, control' = control
  PROVE  StopInv'
<1>. USE DEF TypeInv, GatesTypeOK
<1>1. ReadControl' = ReadControl
  BY DEF ReadControl
<1>2. snapshot[p] \in Snapshot /\ snapshot[p].then \in {"waiting", "trading"}
  BY DEF HeldInv, Snapshot
<1>3. ASSUME NEW q \in Procs, q # p
      PROVE  pc'[q] = pc[q] /\ snapshot'[q] = snapshot[q] /\ late'[q] = late[q]
  BY <1>3 DEF Conclude
<1>4. pc'[p] \in {"down", "waiting", "trading"}
  BY <1>2 DEF Conclude
<1>5. late'[p] # 0 => late'[p] = 1 /\ last # "RUN"
  BY <1>2 DEF Conclude, StopInv
<1>. QED  BY <1>1, <1>3, <1>4, <1>5 DEF StopInv

(* Every step keeps it.                                                    *)
LEMMA StopStep ==
  ASSUME TypeInv, StopInv, [Next]_vars
  PROVE  StopInv'
<1>. USE DEF TypeInv, GatesTypeOK
<1>1. ASSUME NEW o \in Operators, EndSet(o) PROVE StopInv'
  <2>1. control' = setting[o] /\ control' # NoFile /\ last' = setting[o].state
    BY <1>1, Values DEF EndSet
  <2>2. \A p \in Procs : late'[p] = 0
    BY <1>1 DEF EndSet
  <2>. QED  BY <2>1, <2>2 DEF StopInv, ReadControl
<1>2. ASSUME NEW o \in Operators, NEW state \in Commands, BeginSet(o, state) PROVE StopInv'
  BY <1>2 DEF BeginSet, processVars, StopInv, ReadControl
<1>3. ASSUME NEW p \in Procs, Start(p) PROVE StopInv'
  BY <1>3 DEF Start, TakeSnapshot, operatorVars, StopInv, ReadControl
<1>4. ASSUME NEW p \in Procs, BeginCycle(p) PROVE StopInv'
  <2>1. late[p] = 0
    BY <1>4 DEF BeginCycle, StopInv
  <2>. QED  BY <1>4, <2>1 DEF BeginCycle, operatorVars, StopInv, ReadControl
<1>5. ASSUME NEW p \in Procs, ReadAccount(p) PROVE StopInv'
  <2>1. late[p] = 0
    BY <1>5 DEF ReadAccount, StopInv
  <2>. QED  BY <1>5, <2>1 DEF ReadAccount, TakeSnapshot, operatorVars, StopInv, ReadControl
<1>6. ASSUME NEW p \in Procs, LoadBaseline(p) PROVE StopInv'
  <2>1. CASE breaker # NoFile /\ breaker.date = snapshot[p].date
    <3>1. breaker.starting \in Equities /\ Conclude(p, breaker.starting)
      BY <1>6, <2>1 DEF LoadBaseline, Baseline
    <3>. QED  BY <1>6, <3>1, ConcludeStop DEF LoadBaseline, operatorVars
  <2>2. CASE ~(breaker # NoFile /\ breaker.date = snapshot[p].date)
    BY <1>6, <2>2 DEF LoadBaseline, operatorVars, StopInv, ReadControl
  <2>. QED  BY <2>1, <2>2
<1>7. ASSUME NEW p \in Procs, SaveBaseline(p) PROVE StopInv'
  <2>1. snapshot[p].equity \in Equities
    BY <1>7 DEF SaveBaseline, HeldInv, Snapshot
  <2>. QED  BY <1>7, <2>1, ConcludeStop DEF SaveBaseline, operatorVars
<1>8. ASSUME NEW p \in Procs, EndCycle(p) \/ Refuse(p) \/ Stop(p) PROVE StopInv'
  <2>1. pc'[p] \notin {"cycle", "check", "stale"}
    BY <1>8 DEF EndCycle, Refuse, Stop
  <2>2. \A q \in Procs : q # p => pc'[q] = pc[q] /\ snapshot'[q] = snapshot[q]
    BY <1>8 DEF EndCycle, Refuse, Stop, Forget
  <2>3. control' = control /\ last' = last /\ late' = late
    BY <1>8 DEF EndCycle, Refuse, Stop, operatorVars
  <2>. QED  BY <2>1, <2>2, <2>3 DEF StopInv, ReadControl
<1>9. CASE DamageControl
  BY <1>9 DEF DamageControl, processVars, StopInv
<1>10. CASE UNCHANGED <<control, last, pc, snapshot, late>>
  BY <1>10 DEF StopInv, ReadControl
<1>. QED  BY <1>1, <1>2, <1>3, <1>4, <1>5, <1>6, <1>7, <1>8, <1>9, <1>10
          DEF Next, vars, operatorVars, processVars, NextDay, MoveEquity, DamageBreaker

(* StopEndsAfterOneCycle: after a state other than RUN was set, a process  *)
(* trades in at most the cycle it had begun, whatever it crashes into.     *)
THEOREM StopTakesOneCycle == Spec => []StopEndsAfterOneCycle
<1>1. Init => StopInv
  <2> SUFFICES ASSUME Init PROVE StopInv
    OBVIOUS
  <2>. QED  BY Values DEF Init, StopInv, ReadControl
<1>2. TypeInv /\ StopInv => StopEndsAfterOneCycle
  <2> SUFFICES ASSUME TypeInv, StopInv, NEW p \in Procs PROVE late[p] <= 1
    BY DEF StopEndsAfterOneCycle
  <2>. QED  BY DEF StopInv
<1>. QED  BY <1>1, <1>2, StopStep, Types, PTL DEF Spec

-----------------------------------------------------------------------------
(* The circuit breaker.                                                    *)

(* Unless checks overlapped: one process checks at a time, it sees all     *)
(* days that have a baseline, and finds none of its own day when it is     *)
(* about to save one; a readable file holds the first baseline of its day  *)
(* and no day after it has one; a process trades within its limit.         *)
BreakerInv ==
  ~crossed =>
    /\ \A p, q \in Procs : Checking(p) /\ Checking(q) => p = q
    /\ \A d \in Days : saves[d] # Nothing =>
         /\ d <= day
         /\ \A p \in Procs : Checking(p) => d <= snapshot[p].date
         /\ breaker # NoFile /\ (breaker # Damaged => d <= breaker.date)
    /\ \A p \in Procs : pc[p] = "stale" => saves[snapshot[p].date] = Nothing
    /\ breaker \notin {NoFile, Damaged} => saves[breaker.date] = breaker.starting
    /\ \A p \in Procs : pc[p] = "trading" =>
         /\ saves[snapshot[p].date] # Nothing
         /\ WithinLimit(saves[snapshot[p].date], snapshot[p].equity)
    /\ \A p \in Procs : pc[p] \in {"check", "stale", "trading"} => snapshot[p].date <= day

(* The verdict of a check against the first baseline of the day.           *)
LEMMA ConcludeBreaker ==
  ASSUME TypeInv, NEW p \in Procs, NEW starting \in Equities,
         pc[p] \in {"check", "stale"}, Conclude(p, starting), saves'[snapshot[p].date] = starting
  PROVE  /\ \A q \in Procs : q # p => pc'[q] = pc[q] /\ snapshot'[q] = snapshot[q]
         /\ pc'[p] \in {"down", "waiting", "trading"}
         /\ pc'[p] = "trading" => /\ snapshot'[p] = snapshot[p]
                                  /\ saves'[snapshot[p].date] # Nothing
                                  /\ WithinLimit(saves'[snapshot[p].date], snapshot[p].equity)
<1>. USE DEF TypeInv, GatesTypeOK
<1>1. snapshot[p] \in Snapshot /\ snapshot[p].then \in {"waiting", "trading"}
  BY DEF HeldInv, Snapshot
<1>2. \A q \in Procs : q # p => pc'[q] = pc[q] /\ snapshot'[q] = snapshot[q]
  BY DEF Conclude
<1>3. pc'[p] \in {"down", "waiting", "trading"}
  BY <1>1 DEF Conclude
<1>4. pc'[p] = "trading" => snapshot'[p] = snapshot[p] /\ WithinLimit(starting, snapshot[p].equity)
  BY <1>1 DEF Conclude
<1>. QED  BY <1>2, <1>3, <1>4

(* Every step keeps it.                                                    *)
LEMMA BreakerStep ==
  ASSUME TypeInv, BreakerInv, [Next]_vars
  PROVE  BreakerInv'
<1>. USE DEF TypeInv, GatesTypeOK
<1> SUFFICES ASSUME ~crossed' PROVE BreakerInv'
  BY DEF BreakerInv
<1>1. ASSUME NEW p \in Procs, NEW then \in {"waiting", "trading"}, TakeSnapshot(p, then),
             pc[p] \in {"down", "cycle"}
      PROVE  BreakerInv'
  <2>1. ~crossed /\ \A q \in Procs : ~Checking(q)
    BY <1>1 DEF TakeSnapshot
  <2>2. \A q \in Procs : /\ pc'[q] = IF q = p THEN "check" ELSE pc[q]
                         /\ q # p => snapshot'[q] = snapshot[q]
    BY <1>1 DEF TakeSnapshot
  <2>3. snapshot'[p].date = day
    BY <1>1 DEF TakeSnapshot
  <2>4. breaker' = breaker /\ saves' = saves /\ day' = day
    BY <1>1 DEF TakeSnapshot
  <2>. USE DEF Checking
  <2>5. \A q, r \in Procs : Checking(q)' /\ Checking(r)' => q = r
    BY <2>1, <2>2
  <2>6. \A d \in Days : saves'[d] # Nothing =>
          /\ d <= day'
          /\ \A q \in Procs : Checking(q)' => d <= snapshot'[q].date
          /\ breaker' # NoFile /\ (breaker' # Damaged => d <= breaker'.date)
    BY <2>1, <2>2, <2>3, <2>4 DEF BreakerInv
  <2>7. \A q \in Procs : pc'[q] = "stale" => saves'[snapshot'[q].date] = Nothing
    BY <2>1, <2>2, <2>4 DEF BreakerInv
  <2>8. \A q \in Procs : pc'[q] = "trading" =>
          /\ saves'[snapshot'[q].date] # Nothing
          /\ WithinLimit(saves'[snapshot'[q].date], snapshot'[q].equity)
    BY <2>1, <2>2, <2>4 DEF BreakerInv
  <2>9. \A q \in Procs : pc'[q] \in {"check", "stale", "trading"} => snapshot'[q].date <= day'
    BY <2>1, <2>2, <2>3, <2>4 DEF BreakerInv, Days
  <2>. QED  BY <2>1, <2>4, <2>5, <2>6, <2>7, <2>8, <2>9 DEF BreakerInv
<1>2. ASSUME NEW p \in Procs, LoadBaseline(p) PROVE BreakerInv'
  <2>. USE DEF Checking
  <2>1. ~crossed /\ breaker' = breaker /\ saves' = saves /\ day' = day
    BY <1>2 DEF LoadBaseline
  <2>2. snapshot[p] \in Snapshot /\ snapshot[p].date \in Days /\ Checking(p)
    BY <1>2 DEF LoadBaseline, HeldInv, Snapshot
  <2>3. CASE breaker # NoFile /\ breaker.date = snapshot[p].date
    <3>1. breaker \in Baseline /\ breaker.starting \in Equities /\ Conclude(p, breaker.starting)
      BY <1>2, <2>3 DEF LoadBaseline, Baseline
    <3>2. saves'[snapshot[p].date] = breaker.starting
      BY <1>2, <2>1, <2>3 DEF LoadBaseline, BreakerInv
    <3>3. /\ \A q \in Procs : q # p => pc'[q] = pc[q] /\ snapshot'[q] = snapshot[q]
          /\ pc'[p] \in {"down", "waiting", "trading"}
          /\ pc'[p] = "trading" => /\ snapshot'[p] = snapshot[p]
                                   /\ saves'[snapshot[p].date] # Nothing
                                   /\ WithinLimit(saves'[snapshot[p].date], snapshot[p].equity)
      BY <1>2, <3>1, <3>2, ConcludeBreaker DEF LoadBaseline
    <3>. HIDE DEF TypeInv, GatesTypeOK
    <3>. QED  BY <2>1, <2>2, <3>3 DEF BreakerInv
  <2>4. CASE ~(breaker # NoFile /\ breaker.date = snapshot[p].date)
    <3>1. snapshot' = snapshot /\ \A q \in Procs : pc'[q] = IF q = p THEN "stale" ELSE pc[q]
      BY <1>2, <2>4 DEF LoadBaseline
    <3>2. saves[snapshot[p].date] = Nothing
      <4> SUFFICES ASSUME saves[snapshot[p].date] # Nothing PROVE FALSE
        OBVIOUS
      <4>1. breaker # NoFile /\ breaker # Damaged /\ snapshot[p].date <= breaker.date
        BY <1>2, <2>1, <2>2 DEF LoadBaseline, BreakerInv
      <4>2. breaker \in Baseline /\ breaker.date \in Days /\ saves[breaker.date] = breaker.starting
        BY <4>1, <2>1 DEF Baseline, BreakerInv
      <4>3. saves[breaker.date] # Nothing
        BY <4>2 DEF Baseline
      <4>4. breaker.date <= snapshot[p].date
        BY <2>1, <2>2, <4>2, <4>3 DEF BreakerInv
      <4>5. breaker.date \in Int /\ snapshot[p].date \in Int
        BY <2>2, <4>2 DEF Days
      <4>6. breaker.date = snapshot[p].date
        BY <4>1, <4>4, <4>5
      <4>. QED  BY <2>4, <4>1, <4>6
    <3>. HIDE DEF TypeInv, GatesTypeOK
    <3>. QED  BY <2>1, <2>2, <3>1, <3>2 DEF BreakerInv
  <2>. QED  BY <2>3, <2>4
<1>3. ASSUME NEW p \in Procs, SaveBaseline(p) PROVE BreakerInv'
  <2>. USE DEF Checking
  <2>. DEFINE s == snapshot[p]
  <2>1. ~crossed /\ day' = day /\ pc[p] = "stale" /\ Checking(p)
    BY <1>3 DEF SaveBaseline
  <2>2. s \in Snapshot /\ s.date \in Days /\ s.equity \in Equities /\ s.date <= day
    BY <2>1 DEF HeldInv, Snapshot, BreakerInv
  <2>3. saves[s.date] = Nothing /\ \A q \in Procs : Checking(q) => q = p
    BY <2>1 DEF BreakerInv
  <2>4. /\ saves'[s.date] = s.equity
        /\ \A d \in Days : d # s.date => saves'[d] = saves[d]
    BY <1>3, <2>2, <2>3 DEF SaveBaseline
  <2>5. breaker' = [date |-> s.date, starting |-> s.equity] /\ breaker' \in Baseline
    BY <1>3, <2>2 DEF SaveBaseline, Baseline
  <2>6. Conclude(p, s.equity)
    BY <1>3 DEF SaveBaseline
  <2>7. /\ \A q \in Procs : q # p => pc'[q] = pc[q] /\ snapshot'[q] = snapshot[q]
        /\ pc'[p] \in {"down", "waiting", "trading"}
        /\ pc'[p] = "trading" => /\ snapshot'[p] = s
                                 /\ saves'[s.date] # Nothing
                                 /\ WithinLimit(saves'[s.date], s.equity)
    BY <2>1, <2>2, <2>4, <2>6, ConcludeBreaker
  <2>8. \A q \in Procs : ~Checking(q)'
    BY <2>3, <2>7
  <2>9. breaker' # NoFile /\ breaker' # Damaged
    BY <2>5, Values
  <2>10. \A d \in Days : saves[d] # Nothing => d <= s.date /\ d <= day
    BY <2>1 DEF BreakerInv
  <2>11. \A d \in Days : saves'[d] # Nothing => d <= s.date /\ d <= day
    BY <2>2, <2>4, <2>10, Values
  <2>12. ASSUME NEW q \in Procs, pc'[q] = "trading"
         PROVE  /\ saves'[snapshot'[q].date] # Nothing
                /\ WithinLimit(saves'[snapshot'[q].date], snapshot'[q].equity)
                /\ snapshot'[q].date <= day
    <3>1. CASE q = p
      BY <2>2, <2>7, <2>12, <3>1
    <3>2. CASE q # p
      <4>1. pc[q] = "trading" /\ snapshot'[q] = snapshot[q]
        BY <2>7, <2>12, <3>2
      <4>2. saves[snapshot[q].date] # Nothing /\ snapshot[q].date \in Days /\ snapshot[q].date <= day
        BY <2>1, <4>1 DEF BreakerInv, HeldInv, Snapshot
      <4>3. saves'[snapshot[q].date] = saves[snapshot[q].date]
        BY <2>3, <2>4, <4>2
      <4>4. WithinLimit(saves[snapshot[q].date], snapshot[q].equity)
        BY <2>1, <4>1 DEF BreakerInv
      <4>. QED  BY <4>1, <4>2, <4>3, <4>4
    <3>. QED  BY <3>1, <3>2
  <2>13. saves'[breaker'.date] = breaker'.starting
    BY <2>4, <2>5
  <2>. HIDE DEF TypeInv, GatesTypeOK
  <2>. QED  BY <2>1, <2>5, <2>8, <2>9, <2>11, <2>12, <2>13 DEF BreakerInv
<1>4. ASSUME NEW p \in Procs, BeginCycle(p) PROVE BreakerInv'
  BY <1>4 DEF BeginCycle, BreakerInv, Checking
<1>5. ASSUME NEW p \in Procs, EndCycle(p) \/ Refuse(p) \/ Stop(p) PROVE BreakerInv'
  <2>1. pc'[p] \in {"waiting", "down"} /\ crossed' = crossed /\ breaker' = breaker /\ saves' = saves /\ day' = day
    BY <1>5 DEF EndCycle, Refuse, Stop
  <2>2. \A q \in Procs : q # p => pc'[q] = pc[q] /\ snapshot'[q] = snapshot[q]
    BY <1>5 DEF EndCycle, Refuse, Stop, Forget
  <2>. HIDE DEF TypeInv, GatesTypeOK
  <2>. QED  BY <2>1, <2>2 DEF BreakerInv, Checking
<1>6. CASE NextDay
  <2>1. \A d \in Days : d <= day => d <= day'
    BY <1>6, Values DEF NextDay
  <2>2. \A p \in Procs : pc[p] \in {"check", "stale", "trading"} => snapshot[p].date \in Days
    BY DEF HeldInv, Snapshot
  <2>3. /\ crossed' = crossed /\ breaker' = breaker /\ saves' = saves /\ pc' = pc /\ snapshot' = snapshot
    BY <1>6 DEF NextDay, processVars
  <2>. HIDE DEF TypeInv, GatesTypeOK
  <2>. QED  BY <2>1, <2>2, <2>3 DEF BreakerInv, Checking
<1>7. CASE DamageBreaker
  BY <1>7, Values DEF DamageBreaker, BreakerInv, Checking
<1>8. CASE UNCHANGED <<crossed, breaker, saves, pc, snapshot, day>>
  BY <1>8 DEF BreakerInv, Checking
<1>. QED  BY <1>1, <1>2, <1>3, <1>4, <1>5, <1>6, <1>7, <1>8
          DEF Next, vars, operatorVars, processVars, Start, ReadAccount, BeginSet, EndSet, MoveEquity, DamageControl

(* DrawdownEndsTrading: unless checks overlapped, no process trades at an  *)
(* equity a limit below the first one that was checked on its day.         *)
THEOREM NoTradeBelowTheLimit == Spec => []DrawdownEndsTrading
<1>1. Init => BreakerInv
  BY DEF Init, BreakerInv, Checking
<1>2. BreakerInv => DrawdownEndsTrading
  BY DEF BreakerInv, DrawdownEndsTrading
<1>. QED  BY <1>1, <1>2, BreakerStep, Types, PTL DEF Spec

-----------------------------------------------------------------------------
(* The orders of the cycles.                                               *)

(* Every order a cycle sends fits the equity its snapshot judged it by      *)
(* (live_runtime.py:275), for every account, contract, distance and limit. *)
THEOREM EveryOrderFits == Spec => []OrderIsWhatFits
<1>1. TypeInv => OrderIsWhatFits
  <2> SUFFICES ASSUME TypeInv, NEW p \in Procs, pc[p] = "trading", NEW size \in Sizes
               PROVE  Fitting[snapshot[p].equity * size]
    BY DEF OrderIsWhatFits
  <2> DEFINE e       == snapshot[p].equity
             balance == e * size
  <2>1. snapshot[p] \in Snapshot
    BY DEF TypeInv, GatesTypeOK, HeldInv
  <2>2. e \in Equities
    BY <2>1 DEF Snapshot
  <2> HIDE DEF e
  <2>3. balance \in Balances
    BY <2>2, SizesAssumption
  <2> HIDE DEF balance
  <2>4. balance \in Nat \ {0}
    BY <2>3, ForexAssumption
  <2>5. LotIsWhatFits(balance)
    BY <2>4, EveryLotFits
  <2>6. Fitting[balance]
    BY <2>3, <2>5 DEF Fitting
  <2> QED BY <2>6 DEF balance, e
<1>. QED  BY <1>1, Types, PTL
=============================================================================
