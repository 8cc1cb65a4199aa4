---------------------------- MODULE PaperSession -----------------------------
(***************************************************************************)
(* The closed-bar research session (strategy/paper_session.py): a monitor, *)
(* the paper engine that holds one position (paper.py) and the in-memory   *)
(* journal (journal.py).  process_once is one step: nothing else touches   *)
(* its objects while it runs, but it can stop halfway with an exception.   *)
(***************************************************************************)
EXTENDS RealtimeMonitor, SequencesExt

CONSTANT
  StopBuffer   \* stop_buffer of the paper engine, 0 unless it is given

ASSUME SessionAssumption == StopBuffer \in Nat

VARIABLES
  pending,   \* _pending_signal: its bar, 0 for none
  position,  \* the paper engine's position, or Flat
  closed,    \* the closed positions, in order
  journal,   \* the journal's events
  seen,      \* history variable: the bars processed, in order
  refusals   \* history variable: the bars on which the risk plan was refused

sessionVars == <<pending, position, closed, journal, seen, refusals>>

Flat == [id |-> 0]

SessionInit ==
  /\ pending = 0
  /\ position = Flat
  /\ closed = <<>>
  /\ journal = <<>>
  /\ seen = <<>>
  /\ refusals = {}

-----------------------------------------------------------------------------

(* Fault: on_bar looks at the target first. *)
OnBarTargetFirst(p, n) ==
  [p EXCEPT !.held = @ + 1, !.exit = n,
            !.outcome = IF HitTarget(p.plan, bars[n], 0) THEN "WIN"
                        ELSE IF HitStop(p.plan, bars[n], 0) THEN "LOSS" ELSE "OPEN"]

(* on_bar: the position after bar n. *)
OnBar(p, n) ==
  [p EXCEPT !.held = @ + 1, !.exit = n,
            !.outcome = IF HitStop(p.plan, bars[n], 0) THEN "LOSS"
                        ELSE IF HitTarget(p.plan, bars[n], 0) THEN "WIN" ELSE "OPEN"]

(* The stop of a signal: the edge of its zone less the buffer. *)
SessionStop(d) == IF d.action = "LONG" THEN d.edge - StopBuffer ELSE d.edge + StopBuffer

(* open_from_signal: the position the signal of bar s opens on bar n. *)
Opened(id, s, n) ==
  LET d == bars[s].decision
  IN  [id |-> id, signal |-> s, bar |-> n, held |-> 0, outcome |-> "OPEN", exit |-> n,
       plan |-> BuildRiskPlan(d.action, EntryPrice(bars[n].open, d.action, Cost), SessionStop(d))]

Event(type, p, n) == <<[type |-> type, id |-> p.id, bar |-> n]>>

(* The signal that waits for the next bar. *)
NextPending(n, free) == IF free /\ bars[n].decision.action # "WAIT" THEN n ELSE 0

(* Fault: the open is journaled before the risk plan is built. *)
JournalOpenFirst(n, exited, held, attempt, opened, p) ==
  journal \o Event("SIGNAL", Flat, n)
          \o (IF exited THEN Event("CLOSE", held, n) ELSE <<>>)
          \o (IF attempt THEN Event("OPEN", p, n) ELSE <<>>)

JournalOf(n, exited, held, attempt, opened, p) ==
  journal \o Event("SIGNAL", Flat, n)
          \o (IF exited THEN Event("CLOSE", held, n) ELSE <<>>)
          \o (IF opened THEN Event("OPEN", p, n) ELSE <<>>)

(* process_once on the latest bar: an open position meets it, the pending   *)
(* signal fills at its open if there is room, and its own signal waits if   *)
(* there still is.  A bar that opens beyond the stop makes build_risk_plan  *)
(* raise: the pending signal is gone and that of the bar never waits.       *)
ProcessOnce ==
  LET n       == Len(bars)
      held    == IF position = Flat THEN Flat ELSE OnBar(position, n)
      exited  == position # Flat /\ held.outcome # "OPEN"
      free    == position = Flat \/ exited
      attempt == pending # 0 /\ free
      p       == IF attempt THEN Opened(Len(closed') + 1, pending, n) ELSE Flat
      refused == attempt /\ Refused(p.plan)
      opened  == attempt /\ ~refused
  IN  /\ Accept
      /\ closed' = IF exited THEN Append(closed, held) ELSE closed
      /\ position' = IF opened THEN p ELSE IF free THEN Flat ELSE held
      /\ pending' = IF refused THEN 0 ELSE NextPending(n, free /\ ~opened)
      /\ journal' = JournalOf(n, exited, held, attempt, opened, p)
      /\ seen' = Append(seen, n)
      /\ refusals' = IF refused THEN refusals \cup {n} ELSE refusals

(* The evaluation raises after the guard has moved on: the bar is lost. *)
EvaluationFails ==
  /\ Accept
  /\ UNCHANGED sessionVars

-----------------------------------------------------------------------------

(* A waiting signal belongs to the last processed bar and to no open        *)
(* position, so it can only fill on the next bar the session processes.     *)
PendingIsFresh == pending # 0 => /\ position = Flat
                                /\ seen # <<>>
                                /\ pending = Last(seen)

(* A closed trade of the session is what simulate_exit makes of its plan    *)
(* and the bars the session processed after the entry, and the outcome      *)
(* label of the same bars contradicts it only by not deciding a bar that    *)
(* touches both levels.                                                     *)
ClosedTradeIsReplayable ==
  \A i \in DOMAIN closed :
    LET t    == closed[i]
        exit == SimulateExit(t.plan, CandlesAfter(seen, t.bar))
    IN  /\ t.outcome = exit.outcome /\ t.held = exit.held
        /\ t.held <= MaxHold =>
             LabelOutcome(t.plan, CandlesAfter(seen, t.bar)) \in
               (IF t.outcome = "LOSS" THEN {"LOSS", "AMBIGUOUS"} ELSE {"WIN"})

(* The journal tells the session: one signal per bar in the order of the    *)
(* bars, and opens and closes that alternate, are numbered in order and     *)
(* leave open exactly the position the engine holds.                        *)
TradeEvents(events, n) == Cardinality({i \in 1 .. n : events[i].type # "SIGNAL"})

JournalTellsTheSession ==
  LET count == TradeEvents(journal, Len(journal))
  IN  /\ \A i, j \in DOMAIN journal :
           i < j /\ journal[i].type = "SIGNAL" /\ journal[j].type = "SIGNAL" =>
             journal[i].bar < journal[j].bar
      /\ \A i \in DOMAIN journal :
           journal[i].type # "SIGNAL" =>
             /\ journal[i].type = (IF TradeEvents(journal, i) % 2 = 1 THEN "OPEN" ELSE "CLOSE")
             /\ journal[i].id = (TradeEvents(journal, i) + 1) \div 2
      /\ (position = Flat) <=> (count % 2 = 0)
      /\ Len(closed) = count \div 2

(* Without costs, and as long as both decide the same, the session follows  *)
(* the backtest that enters at the next open.  Both decide the same on a    *)
(* bar when the supervisor filtered no signal, the two windows of candles   *)
(* gave the same one, and the adaptive buffer was the stop_buffer.  When    *)
(* that holds of every bar, the session processed every bar, no bar opened  *)
(* beyond a stop and no bar that closed a trade carried a signal of its     *)
(* own, which the session takes and the backtest passes over, the closed    *)
(* trades of the session are the first ones of the backtest, its position   *)
(* is the trade that comes next, and without a position there is no other.  *)
TradeOf(t) == [signal |-> t.signal, dir |-> t.plan.dir, entry |-> t.plan.entry, refused |-> FALSE,
               outcome |-> t.outcome, held |-> t.held, resume |-> t.bar + 1 + t.held]

AtNextOpen == [next |-> TRUE, model |-> NoModel]

DecidesTheSame(d) == /\ d.action = d.tested.action
                     /\ d.action # "WAIT" => SessionStop(d) = d.tested.stop

SessionFollowsBacktest ==
  /\ Cost = 0
  /\ \A i \in DOMAIN bars : DecidesTheSame(bars[i].decision)
  /\ seen = [i \in 1 .. Len(bars) |-> i]
  /\ refusals = {}
  /\ \A i \in DOMAIN closed : /\ bars[closed[i].exit].decision.action = "WAIT"
                              /\ closed[i].held <= MaxHold
  => LET trades == TradesOf(RunBacktest(bars, 1, Len(bars), AtNextOpen, DOMAIN bars))
     IN  /\ IsPrefix([i \in DOMAIN closed |-> TradeOf(closed[i])], trades)
         /\ position # Flat /\ position.held <= MaxHold =>
              trades[Len(closed) + 1] = TradeOf(position)
         /\ position = Flat => Len(trades) = Len(closed)

-----------------------------------------------------------------------------
(* The certificate of parity of the recorded bars (certify_three_way_parity).*)

AtReference == [next |-> FALSE, model |-> NoModel]

(* The bars the backtest decides on, from its first, and those the replayed *)
(* monitor decides on, from bar first.                                     *)
Decided == LET turns == RunBacktest(bars, 1, Len(bars), AtReference, DOMAIN bars)
           IN  [k \in DOMAIN turns |-> turns[k].bar]

Replayed(first) == [k \in 1 .. Len(bars) - first + 1 |-> first + k - 1]

Ordered(stream) == \A i, j \in DOMAIN stream : i < j => stream[i] < stream[j]

(* The records of a bar: action, entry and stop reference. *)
SameRecord(d) == <<d.action, d.entry, d.stop>> = <<d.tested.action, d.tested.entry, d.tested.stop>>

StreamsAgree(first) ==
  /\ Ordered(Decided) /\ Ordered(Replayed(first))
  /\ ToSet(Decided) = ToSet(Replayed(first))
  /\ \A i \in ToSet(Decided) \cap ToSet(Replayed(first)) : SameRecord(bars[i].decision)

(* The paper engine, fed with the decisions of the replay, halts at the     *)
(* first signal: the decisions name no symbol.                             *)
PaperConsumes(first) == \A i \in ToSet(Replayed(first)) : bars[i].decision.action = "WAIT"

Certified(first) == /\ ToSet(Decided) \cap ToSet(Replayed(first)) # {}
                    /\ StreamsAgree(first)
                    /\ PaperConsumes(first)

(* A record is certified only if both decided to wait on every bar of it,   *)
(* with the same references, and the replay began where the backtest did,   *)
(* which the replays of the code never do: the backtest begins after 32     *)
(* candles, they after 102 or more.  So no record is ever certified.        *)
CertifiedOnlyInSilence ==
  \A first \in DOMAIN bars :
    Certified(first) <=> /\ first = 1
                         /\ \A i \in DOMAIN bars : /\ bars[i].decision.action = "WAIT"
                                                   /\ SameRecord(bars[i].decision)

(* Execution costs never improve a trade: for the plan of every signal, the *)
(* simulation with spread, slippage and bid or ask touches earns no more    *)
(* than the one without.                                                    *)
Gain(plan, exit) == CASE exit.outcome = "WIN" -> plan.risk * RewardRisk
                      [] exit.outcome = "LOSS" -> 0 - plan.risk
                      [] OTHER -> 0

CostsNeverHelp ==
  \A i \in 1 .. Len(bars) - 1, cost \in Costs :
    LET d      == Tested(bars, i)
        plan   == BuildRiskPlan(d.action, EntryPrice(bars[i + 1].open, d.action, cost), d.stop)
        future == SubSeq(bars, i + 2, Len(bars))
    IN  d.action # "WAIT" /\ ~Refused(plan) =>
          SimulateRealisticExit(plan, future, cost).gain <= Gain(plan, SimulateExit(plan, future))
=============================================================================
