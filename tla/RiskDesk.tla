------------------------------ MODULE RiskDesk -------------------------------
(***************************************************************************)
(* A paper account behind the risk limits: PaperAccount trades, and        *)
(* whoever drives it asks the kill switch and the sizing of PortfolioRisk  *)
(* before it passes a signal on, as the risk provider of                   *)
(* scripts/run_paper_runtime.py does, and reports equity and closed trades *)
(* to the kill switch at moments of its choice.  It enters only when every *)
(* closed trade is reported.                                               *)
(***************************************************************************)
EXTENDS PaperAccount, PortfolioRisk, FiniteSets

CONSTANTS
  MaxWeek,      \* bound: weeks of a behaviour
  MaxSessions   \* bound: sessions, by reset_session or by a restart

ASSUME DeskAssumption == MaxWeek \in Nat /\ MaxSessions \in Nat \ {0}

VARIABLES
  risk,         \* the state of PortfolioRiskController
  week,         \* the week of the clock
  unreported,   \* profits of closed trades the kill switch was not told
  \* history
  base,         \* the balance when the session of the kill switch began
  run,          \* reported losses in a row in the session
  weekRun,      \* those of them in the week the kill switch knows
  sessions

deskVars == <<risk, unreported, base, run, weekRun>>
vars == <<accountVars, deskVars, week, sessions>>

Init ==
  /\ AccountInit
  /\ week = 0
  /\ risk = NewSession(InitialBalance, 0)
  /\ unreported = <<>>
  /\ base = InitialBalance
  /\ run = 0 /\ weekRun = 0
  /\ sessions = 1

-----------------------------------------------------------------------------

(* risk_provider: the size is a matter of the equity the kill switch knows. *)
RiskDecision(signal) ==
  EvaluateRisk(risk.equity, signal.entry, signal.stop, 0, 0,
               IF account.position = NoPosition THEN 0 ELSE 1, 1)

(* A signal that passes the plan, the kill switch and the guard. *)
Approved(signal) ==
  /\ PlanIsSound(signal)
  /\ TradeGuard(signal, Evaluate(risk), RiskDecision(signal), account.position # NoPosition)

Waits == [action |-> "WAIT", entry |-> 0, stop |-> 0]

(* A completed bar. *)
Bar(t, b, signal) ==
  LET passed == IF signal.action # "WAIT" /\ unreported = <<>> /\ Approved(signal) THEN signal ELSE Waits
  IN  /\ \/ CloseOnBar(t, b) /\ unreported' = <<account'.balance - account.balance>>
         \/ /\ KeepOnBar(t, b, passed) \/ EnterOnBar(t, b, passed) \/ RejectTime(t)
            /\ UNCHANGED unreported
      /\ UNCHANGED <<risk, base, run, weekRun, week, sessions>>

(* update_equity raises when nothing is left. *)
ReportEquity ==
  /\ Equity(account) > 0
  /\ risk' = UpdateEquity(risk, Equity(account), week)
  /\ weekRun' = (IF risk.week = week THEN weekRun ELSE 0)
  /\ UNCHANGED <<accountVars, unreported, base, run, week, sessions>>

ReportTrade ==
  LET pnl   == Head(unreported)
      so(n) == IF pnl < 0 THEN n + 1 ELSE IF pnl > 0 THEN 0 ELSE n
  IN  /\ unreported # <<>>
      /\ unreported' = Tail(unreported)
      /\ risk' = RecordClosedTrade(risk, pnl, week)
      /\ run' = so(run)
      /\ weekRun' = so(IF risk.week = week THEN weekRun ELSE 0)
      /\ UNCHANGED <<accountVars, base, week, sessions>>

NewWeek ==
  /\ week < MaxWeek
  /\ week' = week + 1
  /\ UNCHANGED <<accountVars, deskVars, sessions>>

BeginSession(equity) ==
  /\ sessions < MaxSessions
  /\ equity > 0
  /\ sessions' = sessions + 1
  /\ risk' = NewSession(equity, week)
  /\ base' = account.balance
  /\ run' = 0 /\ weekRun' = 0

(* A human resets the session at the equity of the account. *)
Reset == /\ BeginSession(Equity(account))
         /\ UNCHANGED <<accountVars, unreported, week>>

(* A new process: the account comes from its checkpoint, the kill switch is *)
(* new and knows the initial balance only.                                  *)
Restart == /\ BeginSession(InitialBalance)
           /\ Recover
           /\ unreported' = <<>>
           /\ UNCHANGED week

Next ==
  \/ \E t \in Times, b \in PriceBars, signal \in Signals : t <= processed + 2 /\ Bar(t, b, signal)
  \/ ReportEquity
  \/ ReportTrade
  \/ NewWeek
  \/ Reset
  \/ Restart

Spec == Init /\ [][Next]_vars

-----------------------------------------------------------------------------

(* A kill switch that allows the next position is below every limit, in all *)
(* orders of reports, weeks and sessions (portfolio_risk.py:97, 144).       *)
AllowedIsWithinLimits ==
  LET d == Evaluate(risk)
  IN  d.allowed => /\ ~Reaches(d.daily.loss, MaxDailyLoss, d.daily.base)
                   /\ ~Reaches(d.total.loss, MaxDrawdown, d.total.base)
                   /\ ~Reaches(d.weekly.loss, MaxWeekly, d.weekly.base)
                   /\ risk.losses < MaxLosses

(* The streak the kill switch counts is a run of losses: at least those of  *)
(* the week it knows, at most those of the session.                         *)
StreakIsARun == weekRun <= risk.losses /\ risk.losses <= run

(* A position is open only while the loss its session has realized is below *)
(* the daily limit and its run of losses this week below the limit.         *)
NoPositionBeyondTheLimits ==
  account.position # NoPosition =>
    /\ ~Reaches(base - account.balance, MaxDailyLoss, risk.start)
    /\ weekRun < MaxLosses

(* A trade never costs more than the part of the balance it was sized for,  *)
(* the rounding of its quantity and its fee.                                *)
LossIsBudgeted ==
  [][account'.balance < account.balance =>
       LET p == account.position
           d == IF p.entry > levels.stop THEN p.entry - levels.stop ELSE levels.stop - p.entry
       IN  200 * (account.balance - account'.balance - Fee * p.quantity)
             <= 2 * RiskPct * account.balance + 100 * d]_vars

(* The account knows a peak as high as every equity it had after a bar, so  *)
(* its drawdown is never understated (paper_accounting.py:205).             *)
DrawdownIsNotUnderstated == account.peak >= worth

(* A trade was held for the bars the engine accepted after its entry.       *)
HeldCountsBars ==
  LET held(from, to) == Cardinality({u \in accepted : from < u /\ u <= to})
  IN  /\ \A k \in DOMAIN account.trades :
           account.trades[k].held = held(account.trades[k].entered, account.trades[k].left)
      /\ account.position # NoPosition /\ lifecycle = "OPEN" =>
           account.held = held(account.position.since, processed)

(* Every stop is wide enough, or the part of the balance a trade risks       *)
(* small enough, that a trade and its fee cost less than the balance.       *)
SmallRisk ==
  \A s \in Signals : PlanIsSound(s) => RiskPct * (Apart(s) + Fee) < 50 * Apart(s)

(* Whatever the engine has written, a new process can restore, where         *)
(* SmallRisk holds.                                                        *)
CheckpointIsRestorable == Restorable(account)

(* evaluate_risk gives the largest size that fits, and one whenever one     *)
(* step fits: its last check (risk_engine.py:166) never refuses.            *)
LargestSizeInBudget ==
  \A signal \in {s \in Signals : s.entry # s.stop}, open \in {0, 20, 60}, step \in {1, 3} :
    LET d == EvaluateRisk(risk.equity, signal.entry, signal.stop, 0, open, 0, step)
        fits(q) == LET amount == q * Distance(signal.entry, signal.stop)
                   IN  /\ amount <= (risk.equity * RiskPerTrade) \div 100
                       /\ amount + open <= (risk.equity * MaxOpenRisk) \div 100
                       /\ q <= MaxQuantity
    IN  /\ d.allowed => fits(d.quantity) /\ d.quantity % step = 0 /\ d.quantity >= MinQuantity
        /\ \A n \in 1 .. MaxQuantity :
             fits(n * step) /\ n * step >= MinQuantity => d.allowed /\ d.quantity >= n * step

(* The kill switch knows what the session lost: it allows nothing beyond a  *)
(* limit, its streak is a run of losses, no position is open beyond either. *)
KillSwitchHolds == AllowedIsWithinLimits /\ StreakIsARun /\ NoPositionBeyondTheLimits

(* The account knows what it was worth and how long a trade was held, and   *)
(* what it writes can be restored.                                          *)
AccountIsSound == DrawdownIsNotUnderstated /\ HeldCountsBars /\ CheckpointIsRestorable
=============================================================================
