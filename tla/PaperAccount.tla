---------------------------- MODULE PaperAccount -----------------------------
(***************************************************************************)
(* The money of the continuous paper engine: the account of                *)
(* strategy/paper_accounting.py as PaperRuntimeEngine                      *)
(* (strategy/paper_runtime_engine.py) moves it with every completed bar,   *)
(* from the size of the position to its stop or target.  Failures of the   *)
(* checkpoint and of the simulated broker are those of PaperRuntimeEngine; *)
(* here a restart finds the checkpoint of the last bar.                    *)
(***************************************************************************)
EXTENDS Integers, Sequences

CONSTANTS
  InitialBalance,   \* initial_balance
  RiskPct,          \* risk_fraction of the engine, in percent
  Fee,              \* fee_per_unit
  MaxBar,           \* bound: completed bars
  TextRank,         \* TextRank[t]: where the text of the t-th time sorts
  PriceBars,        \* bars the market can make: low, high and close
  Signals,          \* signals of a bar: action, entry and stop
  NoPosition        \* the account is flat

Times == 1 .. MaxBar

(* A position of the account. *)
Positions == [side : {"LONG", "SHORT"}, quantity : Nat, entry : Nat, since : Times]

ASSUME AccountAssumption ==
  /\ InitialBalance \in Nat \ {0} /\ RiskPct \in 1 .. 100 /\ Fee \in Nat /\ MaxBar \in Nat
  /\ TextRank \in [Times -> Nat]
  /\ \A t, u \in Times : TextRank[t] = TextRank[u] => t = u
  /\ \A b \in PriceBars : b \in [low : Nat \ {0}, high : Nat, close : Nat] /\ b.low <= b.close /\ b.close <= b.high
  /\ \A s \in Signals : s \in [action : {"WAIT", "LONG", "SHORT"}, entry : Nat, stop : Nat]
  /\ NoPosition \notin Positions

VARIABLES
  account,     \* balance, realized, peak, position, held, mark, last and trades
  levels,      \* _exit_levels
  lifecycle,   \* FLAT, OPEN or HALT
  processed,   \* last_processed_bar_time
  worth,       \* history: the highest equity after a bar the engine accepted
  accepted     \* history: the times of those bars

accountVars == <<account, levels, lifecycle, processed, worth, accepted>>

NoLevels == [stop |-> 0, target |-> 0]

AccountInit ==
  /\ account = [balance |-> InitialBalance, realized |-> 0, peak |-> InitialBalance,
                position |-> NoPosition, held |-> 0, mark |-> 0, last |-> 0, trades |-> <<>>]
  /\ levels = NoLevels
  /\ lifecycle = "FLAT"
  /\ processed = 0
  /\ worth = InitialBalance
  /\ accepted = {}

-----------------------------------------------------------------------------
(* paper_accounting.py.  Time 0 stands for no time.                        *)

Gain(position, price) ==
  position.quantity * (IF position.side = "LONG" THEN price - position.entry ELSE position.entry - price)

(* snapshot: the position at its mark. *)
Equity(a) == a.balance + (IF a.position = NoPosition THEN 0 ELSE Gain(a.position, a.mark))

(* _refresh_peak. *)
RefreshPeak(a) == IF Equity(a) > a.peak THEN [a EXCEPT !.peak = Equity(a)] ELSE a

OpenPosition(a, side, quantity, entry, t) ==
  RefreshPeak([a EXCEPT !.position = [side |-> side, quantity |-> quantity, entry |-> entry, since |-> t],
                        !.last = t, !.held = 0, !.mark = entry])

(* The account compares the texts of the times. *)
Later(a, t) == IF a.last = 0 THEN TRUE ELSE TextRank[t] >= TextRank[a.last]

(* Fault: the peak is not looked at. *)
MarkUnseen(a, price, t) ==
  [a EXCEPT !.held = IF a.position = NoPosition THEN @ ELSE @ + 1, !.last = t, !.mark = price]

(* mark: a time it knows is only looked at. *)
Mark(a, price, t) ==
  IF a.last = t THEN a
  ELSE RefreshPeak([a EXCEPT !.held = IF a.position = NoPosition THEN @ ELSE @ + 1,
                             !.last = t, !.mark = price])

ClosePosition(a, price, t) ==
  LET p   == a.position
      net == Gain(p, price) - Fee * p.quantity
  IN  RefreshPeak([a EXCEPT !.balance = @ + net, !.realized = @ + net, !.position = NoPosition,
                            !.last = t, !.held = 0, !.mark = price,
                            !.trades = Append(@, [net |-> net, held |-> a.held, entered |-> p.since,
                                                  left |-> t])])

(* What the trades of the ledger earned together. *)
Earned(trades) ==
  LET sum[n \in 0 .. Len(trades)] == IF n = 0 THEN 0 ELSE sum[n - 1] + trades[n].net
  IN  sum[Len(trades)]

(* from_state takes a state export_state wrote when its balance is positive *)
(* and its ledger adds up.                                                  *)
Restorable(a) == a.balance > 0 /\ a.peak > 0 /\ Earned(a.trades) = a.realized

-----------------------------------------------------------------------------
(* paper_runtime_engine.py.                                                *)

(* Fault: a stop is filled at the close of the bar. *)
ExitPriceAtClose(b) ==
  LET long == account.position.side = "LONG"
      stopped == IF long THEN b.low <= levels.stop ELSE b.high >= levels.stop
      reached == IF long THEN b.high >= levels.target ELSE b.low <= levels.target
  IN  IF stopped THEN b.close ELSE IF reached THEN levels.target ELSE 0

(* _check_exit: the stop before the target; 0 when the bar reaches neither. *)
ExitPrice(b) ==
  LET long == account.position.side = "LONG"
      stopped == IF long THEN b.low <= levels.stop ELSE b.high >= levels.stop
      reached == IF long THEN b.high >= levels.target ELSE b.low <= levels.target
  IN  IF stopped THEN levels.stop ELSE IF reached THEN levels.target ELSE 0

Apart(signal) == IF signal.entry > signal.stop THEN signal.entry - signal.stop ELSE signal.stop - signal.entry

(* The quantity of _enter, rounded to the nearest unit. *)
Quantity(signal) == (2 * account.balance * RiskPct + 100 * Apart(signal)) \div (200 * Apart(signal))

Target(signal) == IF signal.action = "LONG" THEN signal.entry + 2 * Apart(signal)
                  ELSE signal.entry - 2 * Apart(signal)

Halt ==
  /\ lifecycle' = "HALT"
  /\ UNCHANGED <<levels, processed, worth, accepted>>

(* A bar the engine accepted. *)
Accept(t, a) ==
  /\ account' = a
  /\ processed' = t
  /\ worth' = (IF Equity(a) > worth THEN Equity(a) ELSE worth)
  /\ accepted' = accepted \cup {t}

(* process_bar of a time after the last one processed, with a running       *)
(* engine.  An account that refuses the time halts it.                      *)
RejectTime(t) ==
  /\ lifecycle # "HALT" /\ processed < t
  /\ ~Later(account, t)
  /\ UNCHANGED account
  /\ Halt

(* The bar closes the position. *)
CloseOnBar(t, b) ==
  /\ lifecycle = "OPEN" /\ processed < t
  /\ Later(account, t)
  /\ ExitPrice(b) # 0
  /\ Accept(t, ClosePosition(Mark(account, b.close, t), ExitPrice(b), t))
  /\ levels' = NoLevels
  /\ lifecycle' = "FLAT"

(* The bar leaves the position, or the engine stays flat: no signal, or one *)
(* whose entry and stop are not apart.                                      *)
KeepOnBar(t, b, signal) ==
  /\ lifecycle # "HALT" /\ processed < t
  /\ Later(account, t)
  /\ IF lifecycle = "OPEN" THEN ExitPrice(b) = 0
     ELSE signal.action = "WAIT" \/ signal.entry = signal.stop
  /\ Accept(t, Mark(account, b.close, t))
  /\ UNCHANGED <<levels, lifecycle>>

(* _enter.  A quantity that rounds to zero is a case of PaperRuntimeEngine. *)
EnterOnBar(t, b, signal) ==
  /\ lifecycle = "FLAT" /\ processed < t
  /\ Later(account, t)
  /\ signal.action \in {"LONG", "SHORT"} /\ signal.entry # signal.stop
  /\ Quantity(signal) > 0
  /\ Accept(t, OpenPosition(Mark(account, b.close, t), signal.action, Quantity(signal), signal.entry, t))
  /\ levels' = [stop |-> signal.stop, target |-> Target(signal)]
  /\ lifecycle' = "OPEN"

(* A new process: recover, then start. *)
Recover ==
  /\ Restorable(account)
  /\ account' = RefreshPeak(account)
  /\ lifecycle' = (IF account.position = NoPosition THEN "FLAT" ELSE "OPEN")
  /\ UNCHANGED <<levels, processed, worth, accepted>>
=============================================================================
