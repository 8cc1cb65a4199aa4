----------------------------- MODULE MarketStore ------------------------------
(***************************************************************************)
(* The broker market data of one symbol and timeframe on its way to the    *)
(* web: the bridges that read a MetaTrader terminal                        *)
(* (live/mt5_market_bridge.py, mt5/AriatradingBridge.mq5), the requests on *)
(* their way to /api/mt5/ingest, and the Durable Object that keeps the     *)
(* latest payload (worker/mt5_market.js).                                  *)
(*                                                                         *)
(* A candle is the number of its bar.  A payload is the newest completed   *)
(* bar, the forming bar, the order of its completed candles and the time   *)
(* it was made.  The fingerprint of the completed candles is their newest  *)
(* bar: a completed candle does not change any more.                       *)
(***************************************************************************)
EXTENDS Naturals, FiniteSets

CONSTANTS
  Publishers,   \* the bridges that run: "python", "expert_advisor"
  BarTicks,     \* clock ticks of a bar
  MaxAge,       \* MAX_AGE_SECONDS in ticks
  MaxClock,     \* bound: ticks of a behaviour
  MaxPayloads   \* bound: payloads published in a behaviour

ASSUME MarketAssumption == /\ Publishers \subseteq {"python", "expert_advisor"}
                           /\ BarTicks \in Nat \ {0}
                           /\ MaxAge \in Nat
                           /\ MaxClock \in Nat
                           /\ MaxPayloads \in Nat

VARIABLES
  clock,     \* the time, the same for the bridges and the worker
  reading,   \* the Python bridge: the newest completed bar it has read
  net,       \* payloads on their way
  digesting, \* ingests that have compared and not yet written
  store,     \* what the Durable Object keeps
  published  \* payloads published so far; bound, and their number

marketVars == <<clock, reading, net, digesting, store, published>>

Empty == [n |-> 0, last |-> 0, live |-> 0, oldFirst |-> TRUE, at |-> 0]

(* The forming bar; history before the behaviour has completed bar 1. *)
Forming == 2 + clock \div BarTicks

Bars == 1 .. 2 + MaxClock \div BarTicks

Payloads == [n : 1 .. MaxPayloads, last : Bars, live : Bars, oldFirst : BOOLEAN,
             at : 0 .. MaxClock]

(* An ingest: its payload, and the number of the payload it compared with. *)
Ingests == [payload : Payloads, base : 0 .. MaxPayloads]

NotReading == 0

MarketInit ==
  /\ clock = 0
  /\ reading = NotReading
  /\ net = {}
  /\ digesting = {}
  /\ store = Empty
  /\ published = 0

-----------------------------------------------------------------------------
(* The bridges.                                                            *)

Publish(last, oldFirst) ==
  /\ published < MaxPayloads
  /\ published' = published + 1
  /\ net' = net \cup {[n |-> published + 1, last |-> last, live |-> Forming,
                       oldFirst |-> oldFirst, at |-> clock]}

(* market_payload reads the completed bars ...                             *)
ReadCompleted ==
  /\ "python" \in Publishers
  /\ reading = NotReading
  /\ reading' = Forming - 1
  /\ UNCHANGED <<clock, net, digesting, store, published>>

(* ... and then, in a call of its own, the forming bar.  publish_loop      *)
(* hands the payload to urlopen, and goes on when it is answered, refused  *)
(* or timed out: the request may still be on its way.                      *)
ReadLiveAndPush ==
  /\ reading # NotReading
  /\ Forming > reading
  /\ Publish(reading, TRUE)
  /\ reading' = NotReading
  /\ UNCHANGED <<clock, digesting, store>>

(* The expert advisor copies all bars in one call, as a series: the newest *)
(* first, and writes the completed ones in that order.                     *)
PushSeries ==
  /\ "expert_advisor" \in Publishers
  /\ Publish(Forming - 1, FALSE)
  /\ UNCHANGED <<clock, reading, digesting, store>>

(* A request gets lost. *)
Lose(m) ==
  /\ m \in net
  /\ net' = net \ {m}
  /\ UNCHANGED <<clock, reading, digesting, store, published>>

Tick ==
  /\ clock < MaxClock
  /\ clock' = clock + 1
  /\ UNCHANGED <<reading, net, digesting, store, published>>

-----------------------------------------------------------------------------
(* The Durable Object.                                                     *)

Stale(at) == clock - at > MaxAge

(* validatePayload: completed candles strictly chronological, the live     *)
(* candle newer than all of them, a recent payload.                        *)
Chronological(m) == m.oldFirst
Separated(m) == m.last < m.live
ValidPayload(m) == Chronological(m) /\ Separated(m) /\ ~Stale(m.at)

(* Fault: no comparison with what is stored. *)
AcceptsAny(m) == TRUE

OutOfOrder(m) == m.live < store.live

AcceptsPayload(m) == ~OutOfOrder(m)

(* ingest compares the payload with the stored one and awaits the digest   *)
(* of its candles, during which the object handles other requests.         *)
IngestCompare(m) ==
  /\ m \in net
  /\ ValidPayload(m)
  /\ AcceptsPayload(m)
  /\ net' = net \ {m}
  /\ digesting' = digesting \cup {[payload |-> m, base |-> store.n]}
  /\ UNCHANGED <<clock, reading, store, published>>

(* 400 for an invalid payload, 409 for one that is older than the stored. *)
IngestRefused(m) ==
  /\ m \in net
  /\ ~ValidPayload(m) \/ ~AcceptsPayload(m)
  /\ net' = net \ {m}
  /\ UNCHANGED <<clock, reading, digesting, store, published>>

IngestPut(g) ==
  /\ g \in digesting
  /\ digesting' = digesting \ {g}
  /\ store' = g.payload
  /\ UNCHANGED <<clock, reading, net, published>>

(* What a GET reads: nothing, stale data and a payload whose candles are   *)
(* not in order are answered with 503.                                     *)
Served == store # Empty /\ ~Stale(store.at) /\ Chronological(store) /\ Separated(store)

MarketNext ==
  \/ ReadCompleted \/ ReadLiveAndPush \/ PushSeries \/ Tick
  \/ \E m \in net : Lose(m) \/ IngestCompare(m) \/ IngestRefused(m)
  \/ \E g \in digesting : IngestPut(g)

-----------------------------------------------------------------------------

MarketTypeOK ==
  /\ clock \in 0 .. MaxClock
  /\ reading \in Bars \cup {NotReading}
  /\ net \subseteq Payloads
  /\ digesting \subseteq Ingests
  /\ store \in Payloads \cup {Empty}
  /\ published \in 0 .. MaxPayloads

=============================================================================
