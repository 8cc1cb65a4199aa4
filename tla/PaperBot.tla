------------------------------ MODULE PaperBot -------------------------------
(***************************************************************************)
(* The paper mode of the bot (scripts/run_bot.py, _run_paper) for one      *)
(* symbol: a cycle evaluates the latest bar, asks the feed again for the   *)
(* bar to process, which may be a later one by then, hands it to the       *)
(* continuous engine with the signal of the cycle before, and keeps the    *)
(* signal of this one for the next.  A failure anywhere in the cycle is    *)
(* logged and the loop goes on.                                            *)
(*                                                                         *)
(* The engine (paper_runtime_engine.py) is its price side here: it fills   *)
(* at the signal's own entry reference and closes at the stop or target.   *)
(* Its files and failure modes are in PaperRuntimeEngine; here they never  *)
(* fail, so a restart recovers the engine as it was.                       *)
(***************************************************************************)
EXTENDS RealtimeMonitor

CONSTANT
  MaxRestarts    \* bound: restarts of the bot

ASSUME BotAssumption == MaxRestarts \in Nat

VARIABLES
  evaluated,   \* the bar whose evaluation this cycle holds, 0 between cycles
  waiting,     \* pending[symbol]: the bar of the kept signal, 0 for none
  last,        \* last_processed_bar_time of the engine
  held,        \* the account's position with its exit levels, or NoPosition
  settled,     \* history variable: the positions closed, in order
  accepted,    \* history variable: the bars the engine accepted, in order
  restarts

botVars == <<evaluated, waiting, last, held, settled, accepted, restarts>>

NoPosition == [signal |-> 0]

BotInit ==
  /\ evaluated = 0
  /\ waiting = 0
  /\ last = 0
  /\ held = NoPosition
  /\ settled = <<>>
  /\ accepted = <<>>
  /\ restarts = 0

-----------------------------------------------------------------------------
(* process_bar of the engine.                                              *)

(* _enter: the target is twice the distance of the references. *)
Entered(s, n) ==
  LET d    == bars[s].decision
      risk == IF d.stop < d.entry THEN d.entry - d.stop ELSE d.stop - d.entry
  IN  [signal |-> s, bar |-> n, exit |-> n,
       plan |-> [dir |-> d.action, entry |-> d.entry, stop |-> d.stop, risk |-> risk,
                 target |-> IF d.action = "LONG" THEN d.entry + 2 * risk
                                                 ELSE d.entry - 2 * risk]]

(* _check_exit *)
Exits(p, n) == HitStop(p.plan, bars[n], 0) \/ HitTarget(p.plan, bars[n], 0)

(* The engine meets bar n with the signal of bar s. *)
ProcessBar(n, s) ==
  IF n <= last
  THEN UNCHANGED <<last, held, settled, accepted>>
  ELSE LET exits  == held # NoPosition /\ Exits(held, n)
           enters == held = NoPosition /\ s # 0 /\ bars[s].decision.action # "WAIT"
       IN  /\ last' = n
           /\ accepted' = Append(accepted, n)
           /\ settled' = IF exits THEN Append(settled, [held EXCEPT !.exit = n]) ELSE settled
           /\ held' = IF exits THEN NoPosition ELSE IF enters THEN Entered(s, n) ELSE held

-----------------------------------------------------------------------------
(* The loop of _run_paper.                                                 *)

(* evaluate_once returns an evaluation. *)
Evaluate ==
  /\ evaluated = 0
  /\ Accept
  /\ evaluated' = Len(bars)
  /\ UNCHANGED <<waiting, last, held, settled, accepted, restarts>>

(* It raises after the guard has moved on, or the second fetch fails. *)
CycleFailsBeforeProcessing ==
  /\ \/ evaluated = 0 /\ Accept
     \/ evaluated # 0 /\ UNCHANGED <<bars, cursor>>
  /\ evaluated' = 0
  /\ UNCHANGED <<waiting, last, held, settled, accepted, restarts>>

(* Fault: the signal of this cycle acts on the bar it was made on. *)
ProcessAndKeepNow ==
  /\ evaluated # 0
  /\ ProcessBar(Len(bars), evaluated)
  /\ waiting' = 0
  /\ evaluated' = 0
  /\ UNCHANGED <<bars, cursor, restarts>>

(* The engine meets the latest bar with the kept signal, which is popped,   *)
(* and the signal of this cycle is kept.                                    *)
ProcessAndKeep ==
  /\ evaluated # 0
  /\ ProcessBar(Len(bars), waiting)
  /\ waiting' = evaluated
  /\ evaluated' = 0
  /\ UNCHANGED <<bars, cursor, restarts>>

(* Fault: the kept signal is read and not popped. *)
ProcessThenFailUnpopped ==
  /\ evaluated # 0
  /\ ProcessBar(Len(bars), waiting)
  /\ evaluated' = 0
  /\ UNCHANGED <<bars, cursor, waiting, restarts>>

(* Writing the event of the result fails: the kept signal is gone, and so   *)
(* is that of this cycle.                                                   *)
ProcessThenFail ==
  /\ evaluated # 0
  /\ ProcessBar(Len(bars), waiting)
  /\ waiting' = 0
  /\ evaluated' = 0
  /\ UNCHANGED <<bars, cursor, restarts>>

(* The bot starts again: the engine is recovered, the monitor and the kept  *)
(* signal are new.                                                          *)
Restart ==
  /\ restarts < MaxRestarts
  /\ restarts' = restarts + 1
  /\ cursor' = 0
  /\ waiting' = 0
  /\ evaluated' = 0
  /\ UNCHANGED <<bars, last, held, settled, accepted>>

-----------------------------------------------------------------------------

Positions == IF held = NoPosition THEN settled ELSE Append(settled, held)

(* A signal opens at most one position, whatever fails and however often    *)
(* the bot restarts, and the bar of the fill is later than the bar of the   *)
(* signal.                                                                  *)
SignalActsOnceAndLater ==
  \A i \in DOMAIN Positions :
    /\ Positions[i].signal < Positions[i].bar
    /\ \A j \in DOMAIN Positions : j # i => Positions[j].signal # Positions[i].signal

(* A position is closed by the first bar after its entry that the engine    *)
(* met and that touches its stop or its target.                             *)
ExitIsFirstTouch ==
  \A i \in DOMAIN Positions :
    LET p    == Positions[i]
        exit == SimulateExit(p.plan, CandlesAfter(accepted, p.bar))
    IN  IF i \in DOMAIN settled
        THEN exit.outcome # "OPEN" /\ After(accepted, p.bar)[exit.held] = p.exit
        ELSE exit.outcome = "OPEN"
=============================================================================
