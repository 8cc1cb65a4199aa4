------------------------------ MODULE WebSignal -------------------------------
(***************************************************************************)
(* The signal path of the web application on the market store: the feed    *)
(* guard of the Worker's isolates (worker/realtime_feed_guard.js), the     *)
(* /api/signal handler (worker/signal_parity_v2.js), and the pages that    *)
(* poll /api/market and /api/signal (Webaria/live-market.js).              *)
(*                                                                         *)
(* A request is a step of its own wherever its handler or the page awaits: *)
(* the answer of the store, the digest of the event identity, the answer   *)
(* of the Worker.                                                          *)
(***************************************************************************)
EXTENDS MarketStore

CONSTANTS
  Pages,        \* browser pages that show market and strategy
  Overlaps,     \* polls of one page that can be in flight together
  Calls,        \* requests of the paper runtime page
  Isolates,     \* isolates of the Worker
  MaxRestarts   \* bound: isolates that lose their memory

Polls == Pages \X Overlaps
PageOf(k) == k[1]

Requests == Polls \cup Calls

ASSUME SignalAssumption == Polls \cap Calls = {} /\ MaxRestarts \in Nat

VARIABLES
  cursor,    \* lastEvaluated of each isolate
  req,       \* requests to /api/signal, and the polls they belong to
  page,      \* what each page shows, and (history) if its last poll began during another
  restarts,
  evaluated, \* history variable: evaluations of each bar since an isolate started
  raced      \* history variable: an isolate accepted a bar after its cursor had moved

signalVars == <<cursor, req, page, restarts, evaluated, raced>>

NoBar == 0

Answers == [kind : {"none", "signal", "no_update", "error"}, bar : Bars \cup {NoBar}]
NoAnswer == [kind |-> "none", bar |-> NoBar]

Idle == [pc |-> "idle", shown |-> NoBar, snap |-> NoBar, isolate |-> "none",
         base |-> NoBar, answer |-> NoAnswer]

SignalInit ==
  /\ cursor = [i \in Isolates |-> NoBar]
  /\ req = [k \in Requests |-> Idle]
  /\ page = [p \in Pages |-> [candles |-> NoBar, signal |-> NoAnswer, live |-> FALSE,
                         overlapped |-> FALSE]]
  /\ restarts = 0
  /\ evaluated = [i \in Isolates |-> [b \in Bars |-> 0]]
  /\ raced = [i \in Isolates |-> FALSE]

guardVars == <<cursor, restarts, evaluated, raced>>

Answered(r, kind, b) == [r EXCEPT !.pc = "answered", !.answer = [kind |-> kind, bar |-> b]]

-----------------------------------------------------------------------------
(* /api/signal.                                                            *)

(* The page has shown the market, or another client asks: the handler gets *)
(* its own snapshot from the store.                                        *)
ReadSnapshot(k) ==
  /\ req[k].pc = IF k \in Polls THEN "shown" ELSE "idle"
  /\ req' = [req EXCEPT ![k] = IF Served THEN [@ EXCEPT !.pc = "read", !.snap = store.last]
                                         ELSE Answered(@, "error", NoBar)]
  /\ UNCHANGED <<guardVars, page>>

(* validateRealtimeFeed: the age of the latest bar, counted from its open. *)
InFuture(b) == clock + 2 * BarTicks < b * BarTicks
TooOld(b) == clock > b * BarTicks
FeedOk(b) == ~InFuture(b) /\ ~TooOld(b)

(* Fault: the cursor is not asked. *)
NeverDuplicate(i, b) == FALSE

DuplicateOrOld(i, b) == b <= cursor[i]

(* Isolate i rejects the snapshot, knows its latest bar, or evaluates it.  *)
RejectFeed(k) ==
  /\ req[k].pc = "read"
  /\ ~FeedOk(req[k].snap)
  /\ req' = [req EXCEPT ![k] = Answered(@, "error", NoBar)]
  /\ UNCHANGED <<guardVars, page>>

NoUpdate(k, i) ==
  /\ req[k].pc = "read"
  /\ FeedOk(req[k].snap)
  /\ DuplicateOrOld(i, req[k].snap)
  /\ req' = [req EXCEPT ![k] = Answered(@, "no_update", @.snap)]
  /\ UNCHANGED <<guardVars, page>>

Evaluate(k, i) ==
  /\ req[k].pc = "read"
  /\ FeedOk(req[k].snap)
  /\ ~DuplicateOrOld(i, req[k].snap)
  /\ req' = [req EXCEPT ![k].pc = "evaluating", ![k].isolate = i, ![k].base = cursor[i]]
  /\ UNCHANGED <<guardVars, page>>

(* acceptRealtimeFeed, after the digest of the event identity. *)
AcceptBar(k) ==
  /\ req[k].pc = "evaluating"
  /\ LET i == req[k].isolate
         b == req[k].snap
     IN /\ cursor' = [cursor EXCEPT ![i] = b]
        /\ evaluated' = [evaluated EXCEPT ![i][b] = @ + 1]
        /\ raced' = [raced EXCEPT ![i] = @ \/ cursor[i] # req[k].base]
        /\ req' = [req EXCEPT ![k] = Answered(@, "signal", b)]
  /\ UNCHANGED <<page, restarts>>

(* The isolate is replaced; its requests in flight end with an error. *)
Restart(i) ==
  /\ restarts < MaxRestarts
  /\ restarts' = restarts + 1
  /\ cursor' = [cursor EXCEPT ![i] = NoBar]
  /\ evaluated' = [evaluated EXCEPT ![i] = [b \in Bars |-> 0]]
  /\ raced' = [raced EXCEPT ![i] = FALSE]
  /\ req' = [k \in Requests |-> IF req[k].pc = "evaluating" /\ req[k].isolate = i
                                THEN Answered(req[k], "error", NoBar) ELSE req[k]]
  /\ UNCHANGED page

-----------------------------------------------------------------------------
(* A page: poll.                                                           *)

Unavailable(p) == page' = [page EXCEPT ![p].live = FALSE]

InFlight(p) == {k \in Polls : PageOf(k) = p /\ req[k].pc # "idle"}

(* The answer of /api/market: its candles and price are shown at once.     *)
(* setInterval starts a poll whether or not the one before has ended.      *)
ShowMarket(k) ==
  /\ k \in Polls
  /\ req[k].pc = "idle"
  /\ Served
  /\ page' = [page EXCEPT ![PageOf(k)].candles = store.last,
                          ![PageOf(k)].overlapped = InFlight(PageOf(k)) # {}]
  /\ req' = [req EXCEPT ![k] = [Idle EXCEPT !.pc = "shown", !.shown = store.last]]
  /\ UNCHANGED guardVars

MarketUnavailable(k) ==
  /\ k \in Polls
  /\ req[k].pc = "idle"
  /\ ~Served
  /\ Unavailable(PageOf(k))
  /\ UNCHANGED <<guardVars, req>>

(* Fault: the fingerprints of chart and signal are not compared. *)
NeverMixed(k) == FALSE

(* The answer of /api/signal is for another snapshot than the poll's. *)
Mixed(k) == req[k].answer.bar # req[k].shown

(* What becomes the page's signal: a repeated bar keeps the one shown for  *)
(* it.                                                                     *)
ShownSignal(k) ==
  LET shown == page[PageOf(k)].signal
      answer == req[k].answer
  IN IF answer.kind = "no_update" /\ shown.bar = answer.bar THEN shown ELSE answer

ShowSignal(k) ==
  /\ k \in Polls
  /\ req[k].pc = "answered"
  /\ IF req[k].answer.kind = "error" \/ Mixed(k)
     THEN Unavailable(PageOf(k))
     ELSE page' = [page EXCEPT ![PageOf(k)].signal = ShownSignal(k),
                               ![PageOf(k)].live = TRUE]
  /\ req' = [req EXCEPT ![k] = Idle]
  /\ UNCHANGED guardVars

-----------------------------------------------------------------------------

(* The handler of /api/signal after it has its snapshot. *)
HandleSignal(k) ==
  \/ RejectFeed(k) \/ AcceptBar(k)
  \/ \E i \in Isolates : NoUpdate(k, i) \/ Evaluate(k, i)

PollNext(k) == ShowMarket(k) \/ MarketUnavailable(k) \/ ReadSnapshot(k) \/ ShowSignal(k)

SignalNext ==
  \/ \E k \in Requests : HandleSignal(k)
  \/ \E k \in Polls : PollNext(k)
  \/ \E i \in Isolates : Restart(i)

webVars == <<marketVars, signalVars>>

WebInit == MarketInit /\ SignalInit

WebNext == \/ MarketNext /\ UNCHANGED signalVars
           \/ SignalNext /\ UNCHANGED marketVars

WebSpec == WebInit /\ [][WebNext]_webVars

-----------------------------------------------------------------------------

RequestStates ==
  [pc : {"idle", "shown", "read", "evaluating", "answered"},
   shown : Bars \cup {NoBar}, snap : Bars \cup {NoBar},
   isolate : Isolates \cup {"none"}, base : Bars \cup {NoBar}, answer : Answers]

PageStates == [candles : Bars \cup {NoBar}, signal : Answers, live : BOOLEAN,
               overlapped : BOOLEAN]

SignalTypeOK ==
  /\ cursor \in [Isolates -> Bars \cup {NoBar}]
  /\ req \in [Requests -> RequestStates]
  /\ page \in [Pages -> PageStates]
  /\ restarts \in 0 .. MaxRestarts
  /\ evaluated \in [Isolates -> [Bars -> Nat]]
  /\ raced \in [Isolates -> BOOLEAN]

WebTypeOK == MarketTypeOK /\ SignalTypeOK

(* The Durable Object goes back to an older forming bar only through an    *)
(* ingest that was overtaken between its comparison and its write.         *)
OlderOnlyWhenOvertaken ==
  [][store'.live < store.live
     => \E g \in digesting : store' = g.payload /\ g.base # store.n]_webVars

(* An isolate whose requests have not raced evaluates a bar once.  (Two    *)
(* requests that pass the guard before either is accepted both evaluate.)  *)
EvaluatedOnceUnlessRaced ==
  \A i \in Isolates : ~raced[i] => \A b \in Bars : /\ evaluated[i][b] <= 1
                                                   /\ evaluated[i][b] = 1 => b <= cursor[i]

(* A page that says LIVE between two polls shows the candles and the       *)
(* signal of one snapshot, whatever the bridges have pushed meanwhile.  (A *)
(* poll that ends after the next one has begun shows its signal beside the *)
(* candles of the next.)                                                   *)
LiveIsOneSnapshot ==
  \A p \in Pages :
    page[p].live /\ InFlight(p) = {} /\ ~page[p].overlapped
    => page[p].signal.bar = page[p].candles

=============================================================================
