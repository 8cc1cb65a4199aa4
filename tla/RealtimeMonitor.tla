--------------------------- MODULE RealtimeMonitor ---------------------------
(***************************************************************************)
(* The feed of closed bars of one symbol and the monitor that polls it     *)
(* (strategy/realtime.py, realtime_guard.py, feed_integrity.py).  A poll   *)
(* looks only at the latest closed bar; the guard moves its cursor to that *)
(* bar before the strategy evaluates it.  A feed that lags by a bar is     *)
(* refused as stale, which changes nothing.                                *)
(***************************************************************************)
EXTENDS TradeSimulation

CONSTANTS
  Candles,    \* candles the market can make: open, high, low, close
  Decisions,  \* what can be decided at a close, live and in the backtest
  MaxBars     \* bound: closed bars of a behaviour

(* validate_feed_batch lets such candles through. *)
ValidCandle(c) ==
  /\ c \in [open : Int, high : Int, low : Int, close : Int]
  /\ {c.open, c.close} \subseteq c.low .. c.high

(* The references of a signal are prices, its stop on the losing side. *)
OnItsSide(d) == /\ d.action # "WAIT" => d.entry > 0 /\ d.stop > 0
                /\ d.action = "LONG" => d.stop < d.entry
                /\ d.action = "SHORT" => d.stop > d.entry

ASSUME MonitorAssumption ==
  /\ MaxBars \in Nat \ {0}
  /\ \A c \in Candles : ValidCandle(c)
  /\ Decisions \subseteq [action : {"WAIT", "LONG", "SHORT"}, entry : Int, stop : Int, edge : Int,
                          tested : [action : {"WAIT", "LONG", "SHORT"}, entry : Int, stop : Int]]
  /\ \A d \in Decisions : OnItsSide(d) /\ OnItsSide(d.tested)

VARIABLES
  bars,    \* the closed bars, each with the decision on the candles up to it
  cursor   \* _last_evaluated: the last bar the guard accepted, 0 at first

MonitorInit ==
  /\ bars = <<>>
  /\ cursor = 0

(* A bar closes, and what is decided on it is fixed, for all is a function  *)
(* of the candles: by evaluate_once on its window of them, when its         *)
(* supervisor lets the signal through (action, entry and stop reference,    *)
(* and the edge of the zone), and by run_backtest (tested).  The two look   *)
(* at different candles, so neither fixes the other.                       *)
CloseBar(c, d) ==
  /\ Len(bars) < MaxBars
  /\ bars' = Append(bars, [open |-> c.open, high |-> c.high, low |-> c.low, close |-> c.close,
                           decision |-> d])
  /\ UNCHANGED cursor

(* Of the bars a program met, in order: those after bar n, and their        *)
(* candles.                                                                *)
After(met, n) == LET at == CHOOSE k \in DOMAIN met : met[k] = n
                 IN  [k \in 1 .. Len(met) - at |-> met[at + k]]

CandlesAfter(met, n) == [k \in DOMAIN After(met, n) |-> bars[After(met, n)[k]]]

(* Fault: the guard only looks. *)
AcceptWithoutCursor ==
  /\ Len(bars) > cursor
  /\ UNCHANGED <<bars, cursor>>

(* accept: the latest bar is new. *)
Accept ==
  /\ Len(bars) > cursor
  /\ cursor' = Len(bars)
  /\ UNCHANGED bars
=============================================================================
