------------------------------ MODULE ForexRisk ------------------------------
(***************************************************************************)
(* The size of a live order and the checks before it                       *)
(* (strategy/forex_risk.py), as operators.  Money is counted in tenths of  *)
(* a cent, volume in hundredths of a lot, prices in thirds of a point, so  *)
(* that no distance lies halfway between two points.                       *)
(***************************************************************************)
EXTENDS Integers, Sequences, FiniteSets

CONSTANTS
  Contracts,     \* ForexSymbolContract: legs, tickValue, tickSize, min, max, step
  Balances,      \* equities of the account
  Distances,     \* distances of entry and stop
  Actives,       \* sequences of the legs of the open positions
  RiskFraction,  \* risk_per_trade_fraction, in percent
  DailyFraction, \* max_daily_loss_fraction, likewise
  OpenLimit,     \* max_open_positions
  CurrencyLimit  \* max_positions_per_currency

PerPoint == 3

(* What ForexSymbolContract and ForexRiskLimits accept, of a broker whose   *)
(* smallest volume is a number of its steps.                                *)
ValidContract(c) ==
  /\ {c.tickValue, c.tickSize, c.min, c.max, c.step} \subseteq Nat \ {0}
  /\ c.min <= c.max /\ c.min % c.step = 0

ValidForexLimits ==
  /\ {RiskFraction, DailyFraction} \subseteq 1 .. 100
  /\ OpenLimit \in Nat \ {0} /\ CurrencyLimit \in Nat \ {0}

ASSUME ForexAssumption ==
  /\ ValidForexLimits
  /\ \A c \in Contracts : ValidContract(c)
  /\ Balances \subseteq Nat \ {0} /\ Distances \subseteq Nat \ {0}
  /\ \A active \in Actives : Len(active) \in Nat /\ DOMAIN active = 1 .. Len(active)

-----------------------------------------------------------------------------

Smaller(a, b) == IF a < b THEN a ELSE b

(* round: to the nearest, and to the even one of two. *)
Rounded(a, b) == LET q == a \div b
                     r == a % b
                 IN  IF 2 * r > b \/ (2 * r = b /\ q % 2 = 1) THEN q + 1 ELSE q

Positions(active, currency) ==
  Cardinality({k \in DOMAIN active : currency # "" /\ currency \in {active[k][1], active[k][2]}})

(* Fault: only the base currency is looked at. *)
ExposureOfBase(legs, active) == Positions(active, legs[1]) < CurrencyLimit

(* check_currency_exposure; a symbol without two legs is not checked.       *)
ExposureOk(legs, active) ==
  \/ "" \in {legs[1], legs[2]}
  \/ \A leg \in {legs[1], legs[2]} : Positions(active, leg) < CurrencyLimit

(* What volume costs between entry and stop, times the size of a tick and   *)
(* the hundred parts of a lot.                                              *)
Cost(c, distance, volume) == distance * c.tickValue * volume
PerCost(c) == c.tickSize * PerPoint * 100

(* Fault: the steps are rounded up. *)
LotSizeUp(c, balance, distance) ==
  LET points == Rounded(distance, PerPoint)
      budget == balance * RiskFraction * c.tickSize
      cost   == points * c.tickValue * c.step
  IN  IF points = 0 THEN 0 ELSE c.step * ((budget + cost - 1) \div cost)

(* calculate_forex_lot_size: the distance is rounded to points, the volume  *)
(* down to steps.                                                           *)
LotSize(c, balance, distance) ==
  LET points == Rounded(distance, PerPoint)
      budget == balance * RiskFraction * c.tickSize
      cost   == points * c.tickValue * c.step
  IN  IF points = 0 THEN 0 ELSE c.step * (budget \div cost)

Refused(why) == [allowed |-> FALSE, why |-> why, lots |-> 0]

(* evaluate_forex_risk: the cost of the size, in cents, against the budget. *)
EvaluateForexRisk(c, balance, distance, lost, active) ==
  LET fitting == LotSize(c, balance, distance)
      lots    == Smaller(fitting, c.max)
      cents   == Rounded(Cost(c, distance, lots), PerCost(c) * 10)
  IN  IF lost * 100 >= balance * DailyFraction THEN Refused("daily loss")
      ELSE IF \E k \in DOMAIN active : active[k] = c.legs THEN Refused("open")
      ELSE IF Len(active) >= OpenLimit THEN Refused("positions")
      ELSE IF ~ExposureOk(c.legs, active) THEN Refused("currency")
      ELSE IF fitting < c.min THEN Refused("size")
      ELSE IF cents * 1000 > balance * RiskFraction THEN Refused("budget")
      ELSE [allowed |-> TRUE, why |-> "passed", lots |-> lots]

-----------------------------------------------------------------------------

(* The exact cost is above the budget by more than a number of half cents.  *)
Above(c, balance, distance, volume, halves) ==
  Cost(c, distance, volume) * 100
    > (balance * RiskFraction + halves * 500) * PerCost(c)

(* A position that is allowed costs at its stop at most the budget and the  *)
(* half cent of the rounding, has a volume the broker takes, and stays      *)
(* within the limits of the positions it was judged against; the next step  *)
(* would not have fitted.  At a distance of whole points a size is refused  *)
(* only when the smallest volume costs more than the budget, or the one     *)
(* that fits is rounded above it (forex_risk.py:143, 202).                  *)
LotIsWhatFits(balance) ==
  \A c \in Contracts, distance \in Distances, active \in Actives, lost \in {0, 40} :
    LET d         == EvaluateForexRisk(c, balance, distance, lost, active)
        fitting   == Smaller(LotSize(c, balance, distance), c.max)
        above(volume, halves) == Above(c, balance, distance, volume, halves)
        held(leg) == Positions(active, leg) + 1
        whole     == distance % PerPoint = 0
    IN  /\ d.allowed =>
             /\ ~above(d.lots, 1)
             /\ d.lots \in c.min .. c.max
             /\ d.lots = c.max \/ d.lots % c.step = 0
             /\ whole /\ d.lots + c.step <= c.max => above(d.lots + c.step, 0)
             /\ Len(active) < OpenLimit /\ lost * 100 < balance * DailyFraction
             /\ "" \notin {c.legs[1], c.legs[2]} =>
                  held(c.legs[1]) <= CurrencyLimit /\ held(c.legs[2]) <= CurrencyLimit
        /\ d.why = "size" /\ whole => above(c.min, 0)
        /\ d.why = "budget" /\ whole => above(fitting, -1) /\ ~above(fitting, 0)
=============================================================================
