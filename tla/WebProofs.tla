------------------------------ MODULE WebProofs ------------------------------
(***************************************************************************)
(* Proofs about the market store, the signal path and the paper page: when *)
(* the store goes back to older data, how often an isolate evaluates a bar *)
(* and what a page that says LIVE shows, for every number of bridges,      *)
(* payloads, pages, polls, clients and isolates; and at the end the page's *)
(* own paper runtime.                                                      *)
(***************************************************************************)
EXTENDS BrowserRuntime, TLAPS

USE SignalAssumption, MarketAssumption

-----------------------------------------------------------------------------
(* Bars.                                                                   *)

(* A later time is not in an earlier bar. *)
LEMMA DivMonotone ==
  ASSUME NEW a \in Nat, NEW b \in Nat, NEW d \in Nat \ {0}, a <= b
  PROVE  a \div d <= b \div d
<1> DEFINE qa == a \div d
           qb == b \div d
<1>1. qa \in Nat /\ qb \in Nat
  OBVIOUS
<1>2. d * qa <= a /\ b < d * qb + d
  <2>1. a = d * qa + (a % d) /\ a % d \in 0 .. d - 1
    OBVIOUS
  <2>2. b = d * qb + (b % d) /\ b % d \in 0 .. d - 1
    OBVIOUS
  <2> QED BY <2>1, <2>2, <1>1
<1>3. SUFFICES ASSUME qa > qb PROVE FALSE
  BY <1>1
<1>4. \E e \in Nat : qa = qb + 1 + e
  <2>1. qa - qb - 1 \in Nat /\ qa = qb + 1 + (qa - qb - 1)
    BY <1>1, <1>3
  <2> QED BY <2>1
<1>5. PICK e \in Nat : qa = qb + 1 + e
  BY <1>4
<1>6. d * qa = d * qb + d + d * e
  BY <1>1, <1>5
<1>7. d * e \in Nat /\ d * qb \in Nat /\ d * qa \in Nat
  BY <1>1
<1> HIDE DEF qa, qb
<1> QED BY <1>2, <1>6, <1>7

(* Bars are numbered from 1.                                               *)
LEMMA BarNumbers == Bars \subseteq Nat \ {0} /\ NoBar \notin Bars
<1>1. MaxClock \div BarTicks \in Nat
  OBVIOUS
<1>2. Bars \subseteq Nat \ {0}
  BY <1>1 DEF Bars
<1> QED BY <1>2 DEF NoBar

(* The forming bar and the newest completed one are bars.                  *)
LEMMA FormingBar ==
  ASSUME clock \in 0 .. MaxClock
  PROVE  Forming \in Bars /\ Forming - 1 \in Bars
<1> DEFINE now == clock \div BarTicks
           end == MaxClock \div BarTicks
<1>1. now \in Nat /\ end \in Nat
  OBVIOUS
<1>2. now <= end
  BY DivMonotone
<1>3. Forming = 2 + now /\ Bars = 1 .. 2 + end
  BY DEF Forming, Bars
<1> HIDE DEF now, end
<1> QED BY <1>1, <1>2, <1>3

-----------------------------------------------------------------------------
(* Types.                                                                  *)

(* What is shown, read and compared by number is a number. *)
LEMMA PayloadTypes ==
  /\ \A m \in Payloads : m.n \in Nat \ {0} /\ m.last \in Bars /\ m.live \in Nat
  /\ Empty.n = 0 /\ Empty.live = 0
  /\ Empty \notin Payloads
<1>1. \A m \in Payloads : m.n \in Nat \ {0} /\ m.last \in Bars /\ m.live \in Nat
  <2> TAKE m \in Payloads
  <2>1. m.n \in 1 .. MaxPayloads /\ m.last \in Bars /\ m.live \in Bars
    BY DEF Payloads
  <2>2. m.n \in Nat \ {0}
    BY <2>1
  <2>3. m.live \in Nat
    BY <2>1, BarNumbers
  <2> QED BY <2>1, <2>2, <2>3
<1>2. Empty.n = 0 /\ Empty.live = 0
  BY DEF Empty
<1> QED BY <1>1, <1>2

(* The market keeps its types.                                             *)
LEMMA MarketTypeStep ==
  ASSUME MarketTypeOK, MarketNext
  PROVE  MarketTypeOK'
<1> USE DEF MarketTypeOK
<1>1. Forming \in Bars /\ Forming - 1 \in Bars
  BY FormingBar
<1>2. ASSUME NEW last \in Bars, NEW oldFirst \in BOOLEAN, Publish(last, oldFirst)
      PROVE  net' \subseteq Payloads /\ published' \in 0 .. MaxPayloads
  <2>1. [n |-> published + 1, last |-> last, live |-> Forming,
         oldFirst |-> oldFirst, at |-> clock] \in Payloads
    BY <1>1, <1>2 DEF Publish, Payloads
  <2> QED BY <1>2, <2>1 DEF Publish
<1>3. CASE ReadCompleted
  BY <1>1, <1>3 DEF ReadCompleted
<1>4. CASE ReadLiveAndPush
  BY <1>2, <1>4 DEF ReadLiveAndPush, NotReading
<1>5. CASE PushSeries
  BY <1>1, <1>2, <1>5 DEF PushSeries
<1>6. CASE Tick
  BY <1>6 DEF Tick
<1>7. ASSUME NEW m \in net, Lose(m) \/ IngestCompare(m) \/ IngestRefused(m)
      PROVE  MarketTypeOK'
  <2>1. [payload |-> m, base |-> store.n] \in Ingests
    BY PayloadTypes DEF Ingests, Payloads, Empty
  <2> QED BY <1>7, <2>1 DEF Lose, IngestCompare, IngestRefused
<1>8. ASSUME NEW g \in digesting, IngestPut(g) PROVE MarketTypeOK'
  BY <1>8 DEF IngestPut, Ingests
<1> QED BY <1>3, <1>4, <1>5, <1>6, <1>7, <1>8 DEF MarketNext

(* What is served is the newest completed bar of a payload. *)
LEMMA ServedBar ==
  ASSUME MarketTypeOK, Served
  PROVE  store.last \in Bars
BY PayloadTypes DEF MarketTypeOK, Served

(* A handler answers with what it has read.                                *)
LEMMA AnsweredType ==
  ASSUME NEW r \in RequestStates, NEW kind \in {"none", "signal", "no_update", "error"},
         NEW b \in Bars \cup {NoBar}
  PROVE  Answered(r, kind, b) \in RequestStates
BY DEF Answered, RequestStates, Answers

(* It reads a snapshot.                                                    *)
LEMMA ReadType ==
  ASSUME NEW r \in RequestStates, NEW b \in Bars \cup {NoBar}
  PROVE  [r EXCEPT !.pc = "read", !.snap = b] \in RequestStates
BY DEF RequestStates

(* It takes the snapshot to an isolate.                                    *)
LEMMA EvaluateType ==
  ASSUME NEW r \in RequestStates, NEW i \in Isolates, NEW b \in Bars \cup {NoBar}
  PROVE  [r EXCEPT !.pc = "evaluating", !.isolate = i, !.base = b] \in RequestStates
BY DEF RequestStates

(* Counting once more keeps a function of counts.                          *)
LEMMA CountType ==
  ASSUME NEW S, NEW f \in [S -> Nat], NEW b
  PROVE  [f EXCEPT ![b] = f[b] + 1] \in [S -> Nat]
<1>1. ASSUME NEW x \in S PROVE [f EXCEPT ![b] = f[b] + 1][x] \in Nat
  <2>1. CASE x = b
    BY <1>1, <2>1
  <2>2. CASE x # b
    BY <1>1, <2>2
  <2> QED BY <2>1, <2>2
<1> QED BY <1>1

(* A poll or a client asks the store and keeps the types.                  *)
LEMMA ReadSnapshotType ==
  ASSUME MarketTypeOK, SignalTypeOK, NEW k \in Requests, ReadSnapshot(k)
  PROVE  SignalTypeOK'
<1> USE DEF SignalTypeOK
<1>1. CASE Served
  <2>1. [req[k] EXCEPT !.pc = "read", !.snap = store.last] \in RequestStates
    BY <1>1, ServedBar, ReadType
  <2>2. req' \in [Requests -> RequestStates]
    BY <1>1, <2>1 DEF ReadSnapshot
  <2> QED BY <2>2 DEF ReadSnapshot, guardVars
<1>2. CASE ~Served
  <2>1. req' = [req EXCEPT ![k] = Answered(req[k], "error", NoBar)]
    BY <1>2 DEF ReadSnapshot
  <2>2. req' \in [Requests -> RequestStates]
    BY <2>1, AnsweredType
  <2> QED BY <2>2 DEF ReadSnapshot, guardVars
<1> QED BY <1>1, <1>2

(* Every step of the signal path keeps the types.                          *)
LEMMA SignalTypeStep ==
  ASSUME MarketTypeOK, SignalTypeOK, SignalNext
  PROVE  SignalTypeOK'
<1> USE DEF SignalTypeOK
<1>1. \A k \in Polls : k \in Requests /\ PageOf(k) \in Pages
  BY DEF Polls, Requests, PageOf
<1>2. ASSUME NEW k \in Requests, RejectFeed(k) PROVE SignalTypeOK'
  <2>1. req' = [req EXCEPT ![k] = Answered(req[k], "error", NoBar)]
    BY <1>2 DEF RejectFeed
  <2>2. req' \in [Requests -> RequestStates]
    BY <2>1, AnsweredType
  <2> QED BY <1>2, <2>2 DEF RejectFeed, guardVars
<1>3. ASSUME NEW k \in Requests, AcceptBar(k) PROVE SignalTypeOK'
  <2> DEFINE i == req[k].isolate
             b == req[k].snap
  <2>1. b \in Bars \cup {NoBar} /\ i \in Isolates \cup {"none"}
    BY DEF RequestStates
  <2>2. Answered(req[k], "signal", b) \in RequestStates
    BY <2>1, AnsweredType
  <2>3. req' \in [Requests -> RequestStates]
    BY <1>3, <2>2 DEF AcceptBar
  <2>4. cursor' \in [Isolates -> Bars \cup {NoBar}]
    BY <1>3, <2>1 DEF AcceptBar
  <2>5. evaluated' \in [Isolates -> [Bars -> Nat]]
    <3>1. evaluated' = [evaluated EXCEPT ![i] = [evaluated[i] EXCEPT ![b] = evaluated[i][b] + 1]]
      BY <1>3 DEF AcceptBar
    <3> HIDE DEF b, i
    <3> QED BY <3>1, CountType
  <2>6. raced' \in [Isolates -> BOOLEAN]
    BY <1>3 DEF AcceptBar
  <2> QED BY <1>3, <2>3, <2>4, <2>5, <2>6 DEF AcceptBar
<1>4. ASSUME NEW k \in Requests, NEW i \in Isolates, NoUpdate(k, i) PROVE SignalTypeOK'
  <2>1. req' = [req EXCEPT ![k] = Answered(req[k], "no_update", req[k].snap)]
    BY <1>4 DEF NoUpdate
  <2>2. req' \in [Requests -> RequestStates]
    BY <2>1, AnsweredType DEF RequestStates
  <2> QED BY <1>4, <2>2 DEF NoUpdate, guardVars
<1>5. ASSUME NEW k \in Requests, NEW i \in Isolates, Evaluate(k, i) PROVE SignalTypeOK'
  <2>1. req' \in [Requests -> RequestStates]
    <3>1. req' = [req EXCEPT ![k] = [req[k] EXCEPT !.pc = "evaluating", !.isolate = i,
                                                   !.base = cursor[i]]]
      BY <1>5 DEF Evaluate
    <3> QED BY <3>1, EvaluateType
  <2> QED BY <1>5, <2>1 DEF Evaluate, guardVars
<1>6. ASSUME NEW k \in Polls, ShowMarket(k) PROVE SignalTypeOK'
  <2>1. store.last \in Bars
    BY <1>6, ServedBar DEF ShowMarket
  <2>2. [Idle EXCEPT !.pc = "shown", !.shown = store.last] \in RequestStates
    BY <2>1 DEF Idle, RequestStates, Answers, NoAnswer
  <2>3. req' \in [Requests -> RequestStates]
    BY <1>6, <2>2 DEF ShowMarket
  <2>4. page' \in [Pages -> PageStates]
    BY <1>1, <1>6, <2>1 DEF ShowMarket, PageStates
  <2> QED BY <1>6, <2>3, <2>4 DEF ShowMarket, guardVars
<1>7. ASSUME NEW k \in Polls, MarketUnavailable(k) PROVE SignalTypeOK'
  BY <1>1, <1>7 DEF MarketUnavailable, Unavailable, guardVars, PageStates
<1>8. ASSUME NEW k \in Requests, ReadSnapshot(k) PROVE SignalTypeOK'
  BY <1>8, ReadSnapshotType
<1>9. ASSUME NEW k \in Polls, ShowSignal(k) PROVE SignalTypeOK'
  <2>1. ShownSignal(k) \in Answers
    BY <1>1 DEF ShownSignal, RequestStates, PageStates
  <2>2. page' \in [Pages -> PageStates]
    <3>1. CASE page' = [page EXCEPT ![PageOf(k)].live = FALSE]
      BY <1>1, <3>1 DEF PageStates
    <3>2. CASE page' = [page EXCEPT ![PageOf(k)].signal = ShownSignal(k),
                                    ![PageOf(k)].live = TRUE]
      BY <1>1, <2>1, <3>2 DEF PageStates
    <3> QED BY <1>9, <3>1, <3>2 DEF ShowSignal, Unavailable
  <2>3. Idle \in RequestStates
    BY DEF Idle, RequestStates, Answers, NoAnswer
  <2>4. req' \in [Requests -> RequestStates]
    BY <1>9, <2>3 DEF ShowSignal
  <2> QED BY <1>9, <2>2, <2>4 DEF ShowSignal, guardVars
<1>10. ASSUME NEW i \in Isolates, Restart(i) PROVE SignalTypeOK'
  <2>1. \A k \in Requests : Answered(req[k], "error", NoBar) \in RequestStates
    BY AnsweredType
  <2>2. req' \in [Requests -> RequestStates]
    BY <1>10, <2>1 DEF Restart
  <2> QED BY <1>10, <2>2 DEF Restart
<1> QED BY <1>1, <1>2, <1>3, <1>4, <1>5, <1>6, <1>7, <1>8, <1>9, <1>10
        DEF SignalNext, HandleSignal, PollNext

(* Every step keeps the types. *)
LEMMA TypeStep ==
  ASSUME WebTypeOK, [WebNext]_webVars
  PROVE  WebTypeOK'
<1> USE DEF WebTypeOK
<1>2. CASE MarketNext /\ UNCHANGED signalVars
  BY <1>2, MarketTypeStep DEF signalVars, SignalTypeOK
<1>3. CASE SignalNext /\ UNCHANGED marketVars
  <2>1. MarketTypeOK'
    BY <1>3 DEF marketVars, MarketTypeOK
  <2>2. SignalTypeOK'
    BY <1>3, SignalTypeStep
  <2> QED BY <2>1, <2>2
<1>4. CASE UNCHANGED webVars
  BY <1>4 DEF webVars, marketVars, signalVars, MarketTypeOK, SignalTypeOK
<1> QED BY <1>2, <1>3, <1>4 DEF WebNext

(* So do the initial states.                                               *)
LEMMA WebTypesAtStart == WebInit => WebTypeOK
<1>1. Idle \in RequestStates
  BY DEF Idle, RequestStates, Answers, NoAnswer
<1> QED BY <1>1, BarNumbers DEF WebInit, MarketInit, SignalInit, WebTypeOK, MarketTypeOK,
                               NotReading, NoAnswer, Answers, SignalTypeOK, PageStates

(* The state holds what it is typed to hold: bars of the calendar, answers *)
(* of the handler, numbered payloads.                                      *)
THEOREM WebTypesAreRight == WebSpec => []WebTypeOK
<1>1. WebInit => WebTypeOK
  BY WebTypesAtStart
<1>2. WebTypeOK /\ [WebNext]_webVars => WebTypeOK'
  BY TypeStep
<1> QED BY <1>1, <1>2, PTL DEF WebSpec

-----------------------------------------------------------------------------
(* The store.                                                              *)

(* A payload on its way has never been stored, nor compared with: its      *)
(* number is its own.                                                      *)
WaitingInv ==
  /\ store.n <= published
  /\ \A m \in net : /\ m.n <= published /\ m.n # store.n
                    /\ \A o \in net : o.n = m.n => o = m
                    /\ \A g \in digesting : g.base # m.n /\ g.payload.n # m.n

(* So has a payload whose ingest is under way; an ingest whose base is     *)
(* still stored is not older than it.                                      *)
DigestInv ==
  \A g \in digesting :
    /\ g.payload.n <= published /\ g.payload.n # store.n /\ g.base <= published
    /\ \A h \in digesting : g.base # h.payload.n /\ (g.payload.n = h.payload.n => g = h)
    /\ g.base = store.n => g.payload.live >= store.live

StoreInv == WaitingInv /\ DigestInv

(* The numbers the invariant compares.                                     *)
LEMMA StoreTypes ==
  ASSUME MarketTypeOK
  PROVE  /\ published \in Nat /\ store.n \in Nat /\ store.live \in Nat
         /\ \A m \in net : m \in Payloads /\ m.n \in Nat /\ m.live \in Nat
         /\ \A g \in digesting : /\ g.payload \in Payloads /\ g.payload.n \in Nat
                                 /\ g.payload.live \in Nat /\ g.base \in Nat
                                 /\ g = [payload |-> g.payload, base |-> g.base]
<1> USE DEF MarketTypeOK
<1>1. published \in Nat
  OBVIOUS
<1>2. store.n \in Nat /\ store.live \in Nat
  BY PayloadTypes
<1>3. \A m \in net : m \in Payloads /\ m.n \in Nat /\ m.live \in Nat
  BY PayloadTypes
<1>4. \A g \in digesting : g.payload \in Payloads /\ g.base \in Nat
                           /\ g = [payload |-> g.payload, base |-> g.base]
  BY DEF Ingests
<1> QED BY <1>1, <1>2, <1>3, <1>4, PayloadTypes

(* A new payload has a number of its own.                                  *)
LEMMA PublishKeepsStore ==
  ASSUME MarketTypeOK, StoreInv, NEW last, NEW oldFirst, Publish(last, oldFirst),
         UNCHANGED <<digesting, store>>
  PROVE  StoreInv'
<1> DEFINE new == [n |-> published + 1, last |-> last, live |-> Forming,
                   oldFirst |-> oldFirst, at |-> clock]
<1>1. net' = net \cup {new} /\ new.n = published + 1 /\ published' = published + 1
  BY DEF Publish
<1>2. UNCHANGED <<digesting, store>>
  OBVIOUS
<1> HIDE DEF new
<1>3. WaitingInv'
  BY <1>1, <1>2, StoreTypes DEF StoreInv, WaitingInv, DigestInv
<1>4. DigestInv'
  BY <1>1, <1>2, StoreTypes DEF StoreInv, DigestInv
<1> QED BY <1>3, <1>4 DEF StoreInv

(* Every step of the market keeps what is waiting apart from the store.    *)
LEMMA StoreStep ==
  ASSUME MarketTypeOK, StoreInv, MarketNext
  PROVE  StoreInv'
<1>1. CASE ReadCompleted \/ Tick
  BY <1>1 DEF ReadCompleted, Tick, StoreInv, WaitingInv, DigestInv
<1>2. CASE ReadLiveAndPush
  BY <1>2, PublishKeepsStore DEF ReadLiveAndPush
<1>3. CASE PushSeries
  BY <1>3, PublishKeepsStore DEF PushSeries
<1>4. ASSUME NEW m \in net, Lose(m) \/ IngestRefused(m) PROVE StoreInv'
  <2>1. net' = net \ {m} /\ UNCHANGED <<digesting, store, published>>
    BY <1>4 DEF Lose, IngestRefused
  <2> QED BY <2>1 DEF StoreInv, WaitingInv, DigestInv
<1>5. ASSUME NEW m \in net, IngestCompare(m) PROVE StoreInv'
  <2> DEFINE new == [payload |-> m, base |-> store.n]
  <2>1. /\ net' = net \ {m} /\ digesting' = digesting \cup {new}
        /\ UNCHANGED <<store, published>>
    BY <1>5 DEF IngestCompare
  <2>2. new.payload = m /\ new.base = store.n
    OBVIOUS
  <2>3. m.live >= store.live
    BY <1>5, StoreTypes DEF IngestCompare, AcceptsPayload, OutOfOrder
  <2> HIDE DEF new
  <2>4. WaitingInv'
    BY <2>1, <2>2, StoreTypes DEF StoreInv, WaitingInv, DigestInv
  <2>5. DigestInv'
    BY <2>1, <2>2, <2>3, StoreTypes DEF StoreInv, WaitingInv, DigestInv
  <2> QED BY <2>4, <2>5 DEF StoreInv
<1>6. ASSUME NEW g \in digesting, IngestPut(g) PROVE StoreInv'
  <2>1. /\ digesting' = digesting \ {g} /\ store' = g.payload
        /\ UNCHANGED <<net, published>>
    BY <1>6 DEF IngestPut
  <2>2. WaitingInv'
    BY <2>1, StoreTypes DEF StoreInv, WaitingInv, DigestInv
  <2>3. DigestInv'
    BY <2>1, StoreTypes DEF StoreInv, WaitingInv, DigestInv
  <2> QED BY <2>2, <2>3 DEF StoreInv
<1> QED BY <1>1, <1>2, <1>3, <1>4, <1>5, <1>6 DEF MarketNext

(* The Durable Object goes back to an older forming bar only when an       *)
(* ingest writes that was overtaken between its comparison and its write   *)
(* (worker/mt5_market.js, ingest).                                         *)
THEOREM OlderDataOnlyWhenOvertaken == WebSpec => OlderOnlyWhenOvertaken
<1>1. WebInit => StoreInv
  BY PayloadTypes DEF WebInit, MarketInit, StoreInv, WaitingInv, DigestInv
<1>2. ASSUME WebTypeOK, StoreInv, [WebNext]_webVars PROVE StoreInv'
  <2>1. CASE MarketNext
    BY <1>2, <2>1, StoreStep DEF WebTypeOK
  <2>2. CASE UNCHANGED marketVars
    BY <1>2, <2>2 DEF marketVars, StoreInv, WaitingInv, DigestInv
  <2> QED BY <1>2, <2>1, <2>2 DEF WebNext, webVars
<1>3. ASSUME WebTypeOK, StoreInv, [WebNext]_webVars
      PROVE  [store'.live < store.live
               => \E g \in digesting : store' = g.payload /\ g.base # store.n]_webVars
  <2>1. SUFFICES ASSUME store'.live < store.live
                 PROVE  \E g \in digesting : store' = g.payload /\ g.base # store.n
    OBVIOUS
  <2>2. store.live \in Nat
    BY <1>3, StoreTypes DEF WebTypeOK
  <2>3. PICK g \in digesting : IngestPut(g)
    <3>1. store' # store
      BY <2>1, <2>2
    <3>2. MarketNext
      BY <1>3, <3>1 DEF WebNext, webVars, marketVars
    <3> QED BY <3>1, <3>2 DEF MarketNext, ReadCompleted, ReadLiveAndPush, PushSeries, Tick,
                              Lose, IngestCompare, IngestRefused
  <2>4. store' = g.payload
    BY <2>3 DEF IngestPut
  <2>5. g.base # store.n
    BY <1>3, <2>1, <2>2, <2>4, StoreTypes DEF WebTypeOK, StoreInv, DigestInv
  <2> QED BY <2>4, <2>5
<1> QED BY <1>1, <1>2, <1>3, WebTypesAreRight, PTL DEF WebSpec, OlderOnlyWhenOvertaken

-----------------------------------------------------------------------------
(* The isolates.                                                           *)

(* A request that evaluates has a bar newer than the cursor was when it    *)
(* passed the guard.                                                       *)
EvaluatingInv ==
  \A k \in Requests : req[k].pc = "evaluating" => req[k].base < req[k].snap

(* The numbers of a request and of an isolate.                             *)
LEMMA SignalTypes ==
  ASSUME SignalTypeOK
  PROVE  /\ \A k \in Requests : /\ req[k] \in RequestStates
                                /\ req[k].snap \in Bars \cup {NoBar} /\ req[k].snap \in Nat
                                /\ req[k].base \in Nat
         /\ \A i \in Isolates : /\ cursor[i] \in Nat
                                /\ \A b \in Bars : evaluated[i][b] \in Nat
<1> USE DEF SignalTypeOK
<1>1. \A b \in Bars \cup {NoBar} : b \in Nat
  BY BarNumbers DEF NoBar
<1>2. \A k \in Requests : /\ req[k] \in RequestStates
                         /\ req[k].snap \in Bars \cup {NoBar}
                         /\ req[k].base \in Bars \cup {NoBar}
  BY DEF RequestStates
<1>3. \A i \in Isolates : /\ cursor[i] \in Bars \cup {NoBar}
                         /\ \A b \in Bars : evaluated[i][b] \in Nat
  OBVIOUS
<1> QED BY <1>1, <1>2, <1>3

(* The steps of a poll and of a handler that do not take a snapshot to an  *)
(* isolate: no request begins to evaluate.                                 *)
LEMMA OtherRequests ==
  ASSUME SignalTypeOK, EvaluatingInv, NEW k \in Requests, NEW r,
         req' = [req EXCEPT ![k] = r], r.pc # "evaluating"
  PROVE  EvaluatingInv'
BY DEF SignalTypeOK, EvaluatingInv

(* Every step keeps what an evaluation began with.                         *)
LEMMA EvaluatingStep ==
  ASSUME SignalTypeOK, EvaluatingInv, SignalNext
  PROVE  EvaluatingInv'
<1> USE DEF SignalTypeOK
<1>1. \A r, kind, b : Answered(r, kind, b).pc = "answered" \/ r \notin RequestStates
  BY DEF Answered, RequestStates
<1>2. \A k \in Polls : k \in Requests
  BY DEF Requests
<1>3. ASSUME NEW k \in Requests, RejectFeed(k) PROVE EvaluatingInv'
  <2>1. Answered(req[k], "error", NoBar).pc # "evaluating"
    BY <1>1
  <2> QED BY <1>3, <2>1, OtherRequests DEF RejectFeed
<1>4. ASSUME NEW k \in Requests, AcceptBar(k) PROVE EvaluatingInv'
  <2>1. Answered(req[k], "signal", req[k].snap).pc # "evaluating"
    BY <1>1
  <2> QED BY <1>4, <2>1, OtherRequests DEF AcceptBar
<1>5. ASSUME NEW k \in Requests, NEW i \in Isolates, NoUpdate(k, i) PROVE EvaluatingInv'
  <2>1. Answered(req[k], "no_update", req[k].snap).pc # "evaluating"
    BY <1>1
  <2> QED BY <1>5, <2>1, OtherRequests DEF NoUpdate
<1>6. ASSUME NEW k \in Requests, NEW i \in Isolates, Evaluate(k, i) PROVE EvaluatingInv'
  <2>1. cursor[i] < req[k].snap
    BY <1>6, SignalTypes DEF Evaluate, DuplicateOrOld
  <2>2. req' = [req EXCEPT ![k] = [req[k] EXCEPT !.pc = "evaluating", !.isolate = i,
                                                 !.base = cursor[i]]]
    BY <1>6 DEF Evaluate
  <2>3. req'[k].base = cursor[i] /\ req'[k].snap = req[k].snap
    BY <2>2, SignalTypes DEF RequestStates
  <2> QED BY <2>1, <2>2, <2>3 DEF EvaluatingInv
<1>7. ASSUME NEW k \in Polls, ShowMarket(k) PROVE EvaluatingInv'
  <2>1. [Idle EXCEPT !.pc = "shown", !.shown = store.last].pc # "evaluating"
    BY DEF Idle
  <2> QED BY <1>2, <1>7, <2>1, OtherRequests DEF ShowMarket
<1>8. ASSUME NEW k \in Polls, MarketUnavailable(k) PROVE EvaluatingInv'
  BY <1>8 DEF MarketUnavailable, EvaluatingInv
<1>9. ASSUME NEW k \in Polls, ReadSnapshot(k) PROVE EvaluatingInv'
  <2>1. Answered(req[k], "error", NoBar).pc # "evaluating"
    BY <1>1, <1>2
  <2>2. [req[k] EXCEPT !.pc = "read", !.snap = store.last].pc # "evaluating"
    BY <1>2 DEF RequestStates
  <2> QED BY <1>2, <1>9, <2>1, <2>2, OtherRequests DEF ReadSnapshot
<1>10. ASSUME NEW k \in Polls, ShowSignal(k) PROVE EvaluatingInv'
  <2>1. Idle.pc # "evaluating"
    BY DEF Idle
  <2> QED BY <1>2, <1>10, <2>1, OtherRequests DEF ShowSignal
<1>11. ASSUME NEW i \in Isolates, Restart(i) PROVE EvaluatingInv'
  <2>1. \A k \in Requests : req'[k] = req[k] \/ req'[k].pc # "evaluating"
    BY <1>1, <1>11 DEF Restart
  <2> QED BY <2>1 DEF EvaluatingInv
<1> QED BY <1>3, <1>4, <1>5, <1>6, <1>7, <1>8, <1>9, <1>10, <1>11
        DEF SignalNext, HandleSignal, PollNext

(* Only an isolate that accepts a bar or starts again changes what it has  *)
(* evaluated.                                                              *)
LEMMA EvaluatedStep ==
  ASSUME SignalTypeOK, EvaluatingInv, EvaluatedOnceUnlessRaced, SignalNext
  PROVE  EvaluatedOnceUnlessRaced'
<1> USE DEF SignalTypeOK
<1>1. CASE UNCHANGED guardVars
  BY <1>1 DEF guardVars, EvaluatedOnceUnlessRaced
<1>2. ASSUME NEW k \in Requests, AcceptBar(k) PROVE EvaluatedOnceUnlessRaced'
  <2> DEFINE a == req[k].isolate
             c == req[k].snap
  <2>1. /\ cursor' = [cursor EXCEPT ![a] = c]
        /\ evaluated' = [evaluated EXCEPT ![a] = [evaluated[a] EXCEPT ![c] = evaluated[a][c] + 1]]
        /\ raced' = [raced EXCEPT ![a] = raced[a] \/ cursor[a] # req[k].base]
    BY <1>2 DEF AcceptBar
  <2>2. req[k].base < c
    BY <1>2 DEF EvaluatingInv, AcceptBar
  <2>3. c \in Nat /\ \A b \in Bars : b \in Nat
    BY SignalTypes, BarNumbers
  <2> HIDE DEF a, c
  <2>4. SUFFICES ASSUME NEW i \in Isolates, ~raced'[i], NEW b \in Bars
                 PROVE  evaluated'[i][b] <= 1 /\ (evaluated'[i][b] = 1 => b <= cursor'[i])
    BY DEF EvaluatedOnceUnlessRaced
  <2>5. CASE i # a
    BY <2>1, <2>4, <2>5 DEF EvaluatedOnceUnlessRaced
  <2>6. CASE i = a
    <3>1. ~raced[i] /\ cursor[i] = req[k].base /\ cursor'[i] = c
      BY <2>1, <2>4, <2>6
    <3>2. evaluated[i][b] <= 1 /\ (evaluated[i][b] = 1 => b <= cursor[i])
      BY <3>1 DEF EvaluatedOnceUnlessRaced
    <3>3. evaluated[i][b] \in Nat /\ cursor[i] \in Nat
      BY SignalTypes
    <3>4. evaluated'[i] = [evaluated[i] EXCEPT ![c] = evaluated[i][c] + 1]
      BY <2>1, <2>6
    <3>5. CASE b = c
      <4>1. evaluated[i][b] = 0
        BY <2>2, <2>3, <3>1, <3>2, <3>3, <3>5
      <4>2. evaluated'[i][b] = 1
        BY <3>4, <3>5, <4>1
      <4> QED BY <2>3, <3>1, <3>5, <4>2
    <3>6. CASE b # c
      <4>1. evaluated'[i][b] = evaluated[i][b]
        BY <3>4, <3>6
      <4> QED BY <2>2, <2>3, <3>1, <3>2, <3>3, <4>1
    <3> QED BY <3>5, <3>6
  <2> QED BY <2>5, <2>6
<1>3. ASSUME NEW i \in Isolates, Restart(i) PROVE EvaluatedOnceUnlessRaced'
  <2>1. \A j \in Isolates \ {i} : /\ cursor'[j] = cursor[j] /\ raced'[j] = raced[j]
                                  /\ evaluated'[j] = evaluated[j]
    BY <1>3 DEF Restart
  <2>2. \A b \in Bars : evaluated'[i][b] = 0
    BY <1>3 DEF Restart
  <2> QED BY <2>1, <2>2 DEF EvaluatedOnceUnlessRaced
<1> QED BY <1>1, <1>2, <1>3
        DEF SignalNext, HandleSignal, PollNext, RejectFeed, NoUpdate, Evaluate, ShowMarket,
            MarketUnavailable, ReadSnapshot, ShowSignal

(* An isolate evaluates a bar once, until it starts again, unless two of   *)
(* its requests have raced past the guard                                  *)
(* (worker/realtime_feed_guard.js, validateRealtimeFeed and                *)
(* acceptRealtimeFeed).                                                    *)
THEOREM BarEvaluatedOnceUnlessRaced == WebSpec => []EvaluatedOnceUnlessRaced
<1> DEFINE Inv == EvaluatingInv /\ EvaluatedOnceUnlessRaced
<1>1. WebInit => Inv
  BY DEF WebInit, SignalInit, Idle, EvaluatingInv, EvaluatedOnceUnlessRaced
<1>2. ASSUME WebTypeOK, Inv, [WebNext]_webVars PROVE Inv'
  <2>1. CASE SignalNext
    BY <1>2, <2>1, EvaluatingStep, EvaluatedStep DEF WebTypeOK
  <2>2. CASE UNCHANGED signalVars
    BY <1>2, <2>2 DEF signalVars, EvaluatingInv, EvaluatedOnceUnlessRaced
  <2> QED BY <1>2, <2>1, <2>2 DEF WebNext, webVars
<1>3. Inv => EvaluatedOnceUnlessRaced
  OBVIOUS
<1> QED BY <1>1, <1>2, <1>3, WebTypesAreRight, PTL DEF WebSpec

-----------------------------------------------------------------------------
(* The pages.                                                              *)

(* A page whose last poll began alone has at most that poll in flight, and *)
(* shows its candles.                                                      *)
AloneInv ==
  \A k \in Polls :
    req[k].pc # "idle" /\ ~page[PageOf(k)].overlapped
    => /\ req[k].shown = page[PageOf(k)].candles
       /\ \A o \in Polls : PageOf(o) = PageOf(k) /\ req[o].pc # "idle" => o = k

PageInv == AloneInv /\ LiveIsOneSnapshot

(* A handler changes neither what a poll has shown nor that it is under    *)
(* way.                                                                    *)
LEMMA HandlerKeepsPage ==
  ASSUME PageInv, UNCHANGED page,
         \A k \in Polls : /\ req'[k].shown = req[k].shown
                         /\ (req'[k].pc = "idle" <=> req[k].pc = "idle")
  PROVE  PageInv'
<1>1. \A p \in Pages : InFlight(p)' = InFlight(p)
  BY DEF InFlight
<1>2. AloneInv'
  BY DEF PageInv, AloneInv
<1> QED BY <1>1, <1>2 DEF PageInv, LiveIsOneSnapshot

(* Every step keeps a page that polls one at a time on one snapshot.       *)
LEMMA PageStep ==
  ASSUME SignalTypeOK, PageInv, SignalNext
  PROVE  PageInv'
<1> USE DEF SignalTypeOK
<1>1. \A k \in Polls : /\ k \in Requests /\ PageOf(k) \in Pages
                      /\ req[k] \in RequestStates /\ page[PageOf(k)] \in PageStates
  BY DEF Polls, Requests, PageOf
<1>2. \A k \in Requests : \A kind, b :
        /\ Answered(req[k], kind, b).pc = "answered"
        /\ Answered(req[k], kind, b).shown = req[k].shown
  BY DEF Answered, RequestStates
<1>3. ASSUME NEW k \in Requests, NEW r, req' = [req EXCEPT ![k] = r], UNCHANGED page,
             req[k].pc # "idle" \/ k \notin Polls, r.pc # "idle", r.shown = req[k].shown
      PROVE  PageInv'
  BY <1>1, <1>3, HandlerKeepsPage
<1>4. ASSUME NEW k \in Requests, HandleSignal(k) PROVE PageInv'
  <2>1. ASSUME RejectFeed(k) PROVE PageInv'
    BY <1>2, <1>3, <2>1 DEF RejectFeed
  <2>2. ASSUME AcceptBar(k) PROVE PageInv'
    BY <1>2, <1>3, <2>2 DEF AcceptBar
  <2>3. ASSUME NEW i \in Isolates, NoUpdate(k, i) PROVE PageInv'
    BY <1>2, <1>3, <2>3 DEF NoUpdate
  <2>4. ASSUME NEW i \in Isolates, Evaluate(k, i) PROVE PageInv'
    <3> DEFINE r == [req[k] EXCEPT !.pc = "evaluating", !.isolate = i, !.base = cursor[i]]
    <3>1. req' = [req EXCEPT ![k] = r]
      BY <2>4 DEF Evaluate
    <3>2. r.pc # "idle" /\ r.shown = req[k].shown
      BY DEF RequestStates
    <3> HIDE DEF r
    <3> QED BY <1>3, <2>4, <3>1, <3>2 DEF Evaluate
  <2> QED BY <1>4, <2>1, <2>2, <2>3, <2>4 DEF HandleSignal
<1>5. ASSUME NEW k \in Polls, ReadSnapshot(k) PROVE PageInv'
  <2>1. CASE Served
    <3> DEFINE r == [req[k] EXCEPT !.pc = "read", !.snap = store.last]
    <3>1. req' = [req EXCEPT ![k] = r]
      BY <1>5, <2>1 DEF ReadSnapshot
    <3>2. r.pc # "idle" /\ r.shown = req[k].shown
      BY <1>1 DEF RequestStates
    <3> HIDE DEF r
    <3> QED BY <1>1, <1>3, <1>5, <3>1, <3>2 DEF ReadSnapshot
  <2>2. CASE ~Served
    <3> DEFINE r == Answered(req[k], "error", NoBar)
    <3>1. req' = [req EXCEPT ![k] = r] /\ req[k].pc = "shown" /\ UNCHANGED page
      BY <1>5, <2>2 DEF ReadSnapshot
    <3>2. r.pc # "idle" /\ r.shown = req[k].shown
      BY <1>1, <1>2
    <3> HIDE DEF r
    <3> QED BY <1>1, <1>3, <3>1, <3>2
  <2> QED BY <2>1, <2>2
<1>6. ASSUME NEW i \in Isolates, Restart(i) PROVE PageInv'
  <2>1. \A k \in Polls : /\ req'[k].shown = req[k].shown
                        /\ (req'[k].pc = "idle" <=> req[k].pc = "idle")
    <3> TAKE k \in Polls
    <3>1. CASE req[k].pc = "evaluating" /\ req[k].isolate = i
      <4>1. req'[k] = Answered(req[k], "error", NoBar)
        BY <1>1, <1>6, <3>1 DEF Restart
      <4>2. req'[k].pc = "answered" /\ req'[k].shown = req[k].shown
        BY <1>1, <1>2, <4>1
      <4> QED BY <3>1, <4>2
    <3>2. CASE ~(req[k].pc = "evaluating" /\ req[k].isolate = i)
      BY <1>1, <1>6, <3>2 DEF Restart
    <3> QED BY <3>1, <3>2
  <2>2. UNCHANGED page
    BY <1>6 DEF Restart
  <2> QED BY <2>1, <2>2, HandlerKeepsPage
<1>7. ASSUME NEW k \in Polls, ShowMarket(k) PROVE PageInv'
  <2> DEFINE p == PageOf(k)
  <2>1. req'[k].pc = "shown" /\ req'[k].shown = store.last
    BY <1>1, <1>7 DEF ShowMarket, Idle
  <2>2. \A o \in Polls \ {k} : req'[o] = req[o]
    BY <1>1, <1>7 DEF ShowMarket
  <2>3. /\ page'[p].candles = store.last
        /\ page'[p].overlapped = (InFlight(p) # {})
        /\ \A q \in Pages \ {p} : page'[q] = page[q]
    BY <1>1, <1>7 DEF ShowMarket, PageStates
  <2>4. \A q \in Pages \ {p} : InFlight(q)' = InFlight(q)
    BY <2>2 DEF InFlight
  <2>5. k \in InFlight(p)'
    BY <2>1 DEF InFlight
  <2>6. AloneInv'
    <3> SUFFICES ASSUME NEW j \in Polls, req'[j].pc # "idle", ~page'[PageOf(j)].overlapped
                 PROVE  /\ req'[j].shown = page'[PageOf(j)].candles
                        /\ \A o \in Polls : PageOf(o) = PageOf(j) /\ req'[o].pc # "idle" => o = j
      BY DEF AloneInv
    <3>1. CASE PageOf(j) = p
      <4>1. InFlight(p) = {}
        BY <2>3, <3>1
      <4>2. \A o \in Polls : PageOf(o) = p /\ req'[o].pc # "idle" => o = k
        BY <2>2, <4>1 DEF InFlight
      <4>3. j = k
        BY <3>1, <4>2
      <4> QED BY <2>1, <2>3, <4>2, <4>3
    <3>2. CASE PageOf(j) # p
      <4>1. \A o \in Polls : PageOf(o) = PageOf(j) => req'[o] = req[o]
        BY <2>2, <3>2
      <4>2. page'[PageOf(j)] = page[PageOf(j)]
        BY <1>1, <2>3, <3>2
      <4> QED BY <4>1, <4>2 DEF PageInv, AloneInv
    <3> QED BY <3>1, <3>2
  <2>7. LiveIsOneSnapshot'
    BY <2>3, <2>4, <2>5 DEF PageInv, LiveIsOneSnapshot
  <2> QED BY <2>6, <2>7 DEF PageInv
<1>8. ASSUME NEW k \in Polls, MarketUnavailable(k) PROVE PageInv'
  <2> DEFINE p == PageOf(k)
  <2>1. /\ page'[p].live = FALSE /\ page'[p].candles = page[p].candles
        /\ page'[p].overlapped = page[p].overlapped
        /\ \A q \in Pages \ {p} : page'[q] = page[q]
    BY <1>1, <1>8 DEF MarketUnavailable, Unavailable, PageStates
  <2>2. UNCHANGED req
    BY <1>8 DEF MarketUnavailable
  <2>3. \A q \in Pages : InFlight(q)' = InFlight(q)
    BY <2>2 DEF InFlight
  <2>4. AloneInv'
    BY <1>1, <2>1, <2>2 DEF PageInv, AloneInv
  <2>5. LiveIsOneSnapshot'
    BY <2>1, <2>3 DEF PageInv, LiveIsOneSnapshot
  <2> QED BY <2>4, <2>5 DEF PageInv
<1>9. ASSUME NEW k \in Polls, ShowSignal(k) PROVE PageInv'
  <2> DEFINE p == PageOf(k)
  <2>1. req'[k].pc = "idle" /\ \A o \in Polls \ {k} : req'[o] = req[o]
    BY <1>1, <1>9 DEF ShowSignal, Idle
  <2>2. req[k].pc = "answered"
    BY <1>9 DEF ShowSignal
  <2>3. /\ page'[p].candles = page[p].candles /\ page'[p].overlapped = page[p].overlapped
        /\ page'[p].live => page'[p].signal.bar = req[k].shown
        /\ \A q \in Pages \ {p} : page'[q] = page[q]
    <3>1. CASE req[k].answer.kind = "error" \/ Mixed(k)
      BY <1>1, <1>9, <3>1 DEF ShowSignal, Unavailable, PageStates
    <3>2. CASE ~(req[k].answer.kind = "error" \/ Mixed(k))
      <4>1. ShownSignal(k).bar = req[k].shown
        BY <3>2 DEF ShownSignal, Mixed
      <4>2. page' = [page EXCEPT ![p].signal = ShownSignal(k), ![p].live = TRUE]
        BY <1>9, <3>2 DEF ShowSignal
      <4> QED BY <1>1, <4>1, <4>2 DEF PageStates
    <3> QED BY <3>1, <3>2
  <2>4. \A q \in Pages \ {p} : InFlight(q)' = InFlight(q)
    BY <2>1 DEF InFlight
  <2>5. AloneInv'
    BY <1>1, <2>1, <2>3 DEF PageInv, AloneInv
  <2>6. ~page[p].overlapped => req[k].shown = page[p].candles
    BY <2>2 DEF PageInv, AloneInv
  <2>7. LiveIsOneSnapshot'
    BY <2>3, <2>4, <2>6 DEF PageInv, LiveIsOneSnapshot
  <2> QED BY <2>5, <2>7 DEF PageInv
<1> QED BY <1>4, <1>5, <1>6, <1>7, <1>8, <1>9 DEF SignalNext, PollNext

(* A page that says LIVE between two polls, the last of which began when   *)
(* none was under way, shows the candles and the signal of one snapshot    *)
(* (Webaria/live-market.js, poll).                                         *)
THEOREM LivePageShowsOneSnapshot == WebSpec => []LiveIsOneSnapshot
<1>1. WebInit => PageInv
  BY DEF WebInit, SignalInit, PageInv, AloneInv, LiveIsOneSnapshot, Idle, Polls, Requests, PageOf
<1>2. ASSUME WebTypeOK, PageInv, [WebNext]_webVars PROVE PageInv'
  <2>1. CASE SignalNext
    BY <1>2, <2>1, PageStep DEF WebTypeOK
  <2>2. CASE UNCHANGED signalVars
    BY <1>2, <2>2 DEF signalVars, PageInv, AloneInv, LiveIsOneSnapshot, InFlight
  <2> QED BY <1>2, <2>1, <2>2 DEF WebNext, webVars
<1>3. PageInv => LiveIsOneSnapshot
  BY DEF PageInv
<1> QED BY <1>1, <1>2, <1>3, WebTypesAreRight, PTL DEF WebSpec

-----------------------------------------------------------------------------
(* The paper runtime page, for every number of its calls, every set of     *)
(* signals and failure modes, every number of reloads and damages, and     *)
(* every store and isolates behind it.  The helpers of the page take a     *)
(* state and return one; what they keep is said by Sound, with a lemma for *)
(* each helper.                                                            *)


USE RuntimeAssumption

-----------------------------------------------------------------------------
(* What is sound.                                                          *)

(* A bar has one order of a kind; the position goes back to a fill. *)
SoundOrders(st) ==
  /\ \A o1, o2 \in st.orders : o1.kind = o2.kind /\ o1.bar = o2.bar => o1 = o2
  /\ st.position # NoBar
     => [kind |-> "entry", bar |-> st.position, status |-> "FILLED"] \in st.orders

(* A state object the page can have and keep. *)
SoundState(st) ==
  /\ st \in States
  /\ st.pending => st.halted /\ ~st.running
  /\ SoundOrders(st)

PageRecords == [now : States, saved : States \cup {Missing, Damaged}, polling : BOOLEAN]

(* The page with its checkpoint: what is kept can be loaded again. *)
Sound(s) ==
  /\ s \in PageRecords
  /\ SoundState(s.now)
  /\ s.saved \notin {Missing, Damaged} => SoundState(s.saved)

(* A helper that keeps the page sound, its processed bar, its orders and   *)
(* its halt. *)
Keeps(s, t) ==
  /\ Sound(t)
  /\ t.now.last = s.now.last
  /\ s.now.halted => t.now.halted
  /\ ~s.now.running => ~t.now.running
  /\ s.now.orders \subseteq t.now.orders

(* Helpers one after the other keep what each keeps.                       *)
LEMMA KeepsTransitive ==
  ASSUME NEW s, NEW t, NEW u, Keeps(s, t), Keeps(t, u)
  PROVE  Keeps(s, u)
BY DEF Keeps

(* No checkpoint that cannot be used looks like a state.                   *)
LEMMA Checkpoints ==
  /\ Missing \notin States /\ Damaged \notin States /\ Missing # Damaged
  /\ \A st \in States : st \notin {Missing, Damaged}
<1>1. "checkpoint" \in DOMAIN Missing /\ "checkpoint" \in DOMAIN Damaged
  BY DEF Missing, Damaged
<1>2. \A st \in States : "checkpoint" \notin DOMAIN st
  BY DEF States
<1>3. Missing # Damaged
  BY DEF Missing, Damaged
<1> QED BY <1>1, <1>2, <1>3

(* A new state object.                                                     *)
LEMMA FreshIsSound == SoundState(Fresh)
BY DEF SoundState, SoundOrders, Fresh, States, Lifecycles

-----------------------------------------------------------------------------
(* The helpers.                                                            *)

(* Put takes any sound state object.                                       *)
LEMMA PutKeeps ==
  ASSUME NEW s, Sound(s), NEW st, SoundState(st)
  PROVE  /\ Sound(Put(s, st)) /\ Put(s, st).now = st /\ Put(s, st).saved = s.saved
BY DEF Sound, Put, PageRecords, SoundState

(* The timer does not matter.                                              *)
LEMMA StopTimerKeeps ==
  ASSUME NEW s, Sound(s)
  PROVE  Sound(StopTimer(s)) /\ StopTimer(s).now = s.now
BY DEF Sound, StopTimer, PageRecords

(* The checkpoint is what the page knows, and trusted from then on.        *)
LEMMA PersistKeeps ==
  ASSUME NEW s, Sound(s)
  PROVE  Keeps(s, Persist(s)) /\ Persist(s).now = [s.now EXCEPT !.trusted = TRUE]
<1> DEFINE kept == [s.now EXCEPT !.trusted = TRUE]
<1>1. SoundState(kept) /\ kept.last = s.now.last /\ kept.halted = s.now.halted
      /\ kept.running = s.now.running /\ kept.orders = s.now.orders
  BY DEF Sound, SoundState, SoundOrders, States
<1>2. Persist(s) = [s EXCEPT !.now = kept, !.saved = kept]
  BY DEF Persist
<1> HIDE DEF kept
<1>3. Persist(s).now = kept /\ Persist(s).saved = kept /\ Persist(s) \in PageRecords
  BY <1>1, <1>2 DEF Sound, PageRecords, SoundState
<1>4. Keeps(s, Persist(s))
  BY <1>1, <1>3 DEF Keeps, Sound
<1> QED BY <1>3, <1>4 DEF kept

(* Halting what is sound once it is halted.                                *)
LEMMA HaltSound ==
  ASSUME NEW s, s \in PageRecords, s.saved \notin {Missing, Damaged} => SoundState(s.saved),
         SoundState([s.now EXCEPT !.running = FALSE, !.halted = TRUE, !.lifecycle = "HALT"])
  PROVE  /\ Sound(Halted(s))
         /\ Sound(Halt(s))
         /\ Halt(s).now.halted /\ ~Halt(s).now.running
         /\ Halt(s).now.last = s.now.last /\ Halt(s).now.orders = s.now.orders
         /\ Halt(s).now.position = s.now.position
<1> DEFINE st == [s.now EXCEPT !.running = FALSE, !.halted = TRUE, !.lifecycle = "HALT"]
<1>1. /\ st.halted /\ ~st.running /\ st.last = s.now.last /\ st.orders = s.now.orders
      /\ st.position = s.now.position
  BY DEF PageRecords, States
<1>2. Halted(s) = [s EXCEPT !.now = st]
  BY DEF Halted, Put
<1>3. SoundState(st)
  OBVIOUS
<1> HIDE DEF st
<1>4. Halted(s).now = st /\ Sound(Halted(s))
  BY <1>2, <1>3 DEF Sound, PageRecords, SoundState
<1>5. Sound(Persist(Halted(s))) /\ Persist(Halted(s)).now = [st EXCEPT !.trusted = TRUE]
  BY <1>4, PersistKeeps DEF Keeps
<1>6. Sound(Halt(s)) /\ Halt(s).now = [st EXCEPT !.trusted = TRUE]
  BY <1>5, StopTimerKeeps DEF Halt
<1> QED BY <1>1, <1>3, <1>4, <1>6 DEF SoundState, States

(* A state object is sound once it is halted if its orders are.            *)
LEMMA HaltedState ==
  ASSUME NEW st \in States, SoundOrders(st)
  PROVE  SoundState([st EXCEPT !.running = FALSE, !.halted = TRUE, !.lifecycle = "HALT"])
BY DEF SoundState, SoundOrders, States, Lifecycles

(* Halting a sound page.                                                   *)
LEMMA HaltKeeps ==
  ASSUME NEW s, Sound(s)
  PROVE  /\ Keeps(s, Halt(s)) /\ Halt(s).now.position = s.now.position
         /\ Halt(s).now.halted
         /\ Sound(Halted(s))
BY HaltSound, HaltedState DEF Sound, SoundState, Keeps

(* A page whose order waits is sound again when it has halted.             *)
LEMMA HaltWaiting ==
  ASSUME NEW s, Sound(s), NEW w \in PageRecords, w.saved = s.saved, SoundOrders(w.now),
         w.now.last = s.now.last, s.now.orders \subseteq w.now.orders,
         w.now.position = s.now.position
  PROVE  Keeps(s, Halt(w)) /\ Halt(w).now.position = s.now.position
<1>1. w.now \in States
  BY DEF PageRecords
<1>2. SoundState([w.now EXCEPT !.running = FALSE, !.halted = TRUE, !.lifecycle = "HALT"])
  BY <1>1, HaltedState
<1>3. w.saved \notin {Missing, Damaged} => SoundState(w.saved)
  BY DEF Sound
<1>4. /\ Sound(Halt(w)) /\ Halt(w).now.halted /\ ~Halt(w).now.running
      /\ Halt(w).now.last = w.now.last /\ Halt(w).now.orders = w.now.orders
      /\ Halt(w).now.position = w.now.position
  BY <1>2, <1>3, HaltSound
<1> QED BY <1>4 DEF Keeps

(* A transition moves the lifecycle, or halts.                             *)
LEMMA TransitionKeeps ==
  ASSUME NEW s, Sound(s), NEW next \in Lifecycles
  PROVE  Keeps(s, Transition(s, next)) /\ Transition(s, next).now.position = s.now.position
<1> DEFINE st == [s.now EXCEPT !.lifecycle = next]
<1>1. /\ SoundState(st) /\ st.last = s.now.last /\ st.halted = s.now.halted
      /\ st.running = s.now.running /\ st.orders = s.now.orders
      /\ st.position = s.now.position
  BY DEF Sound, SoundState, SoundOrders, States
<1>2. Transition(s, next) \in {s, Put(s, st), Halt(s)}
  BY DEF Transition
<1> HIDE DEF st
<1>3. Keeps(s, s)
  BY DEF Keeps
<1>4. Keeps(s, Put(s, st)) /\ Put(s, st).now.position = s.now.position
  BY <1>1, PutKeeps DEF Keeps
<1> QED BY <1>2, <1>3, <1>4, HaltKeeps

(* An order has one of four statuses.                                      *)
LEMMA Statuses ==
  ASSUME NEW mode
  PROVE  StatusOf(mode) \in {"FILLED", "REJECTED", "PARTIALLY_FILLED", "UNKNOWN"}
BY Zenon DEF StatusOf

(* An order without a known outcome halts before anything is done with it. *)
LEMMA CreateOrderKeeps ==
  ASSUME NEW s, Sound(s), NEW kind \in {"entry", "exit"}, NEW b \in Bars
  PROVE  /\ Keeps(s, CreateOrder(s, kind, b))
         /\ CreateOrder(s, kind, b).now.position = s.now.position
<1> DEFINE status == StatusOf(s.now.mode)
           order == [kind |-> kind, bar |-> b, status |-> status]
           st == [s.now EXCEPT !.orders = s.now.orders \cup {order}]
           wt == [st EXCEPT !.pending = TRUE]
           placed == Put(s, st)
           waits == Put(placed, wt)
<1>1. CASE KnownOrder(s, kind, b)
  BY <1>1 DEF CreateOrder, Keeps
<1>2. CASE ~KnownOrder(s, kind, b)
  <2>1. order \in Orders /\ order.kind = kind /\ order.bar = b
    BY Statuses DEF Orders
  <2> HIDE DEF order
  <2>2. /\ SoundState(st) /\ st.last = s.now.last /\ st.halted = s.now.halted
        /\ st.running = s.now.running /\ s.now.orders \subseteq st.orders
        /\ st.position = s.now.position
    <3>1. \A o \in s.now.orders : ~(o.kind = kind /\ o.bar = b)
      BY <1>2 DEF KnownOrder
    <3> QED BY <2>1, <3>1 DEF Sound, SoundState, SoundOrders, States
  <2>3. /\ wt \in States /\ SoundOrders(wt) /\ wt.last = s.now.last
        /\ s.now.orders \subseteq wt.orders /\ wt.position = s.now.position
    BY <2>2 DEF SoundState, SoundOrders, States
  <2> HIDE DEF st
  <2>4. /\ Keeps(s, placed) /\ placed.now = st /\ placed.saved = s.saved
        /\ placed.now.position = s.now.position
    BY <2>2, PutKeeps DEF Keeps
  <2> HIDE DEF wt
  <2>5. waits \in PageRecords /\ waits.now = wt /\ waits.saved = s.saved
    BY <2>3, <2>4 DEF Put, Keeps, Sound, PageRecords
  <2> HIDE DEF placed, waits
  <2>6. Keeps(s, Halt(waits)) /\ Halt(waits).now.position = s.now.position
    BY <2>3, <2>5, HaltWaiting
  <2>7. Keeps(s, Halt(Transition(waits, "UNKNOWN")))
        /\ Halt(Transition(waits, "UNKNOWN")).now.position = s.now.position
    <3> DEFINE un == [wt EXCEPT !.lifecycle = "UNKNOWN"]
    <3>1. Transition(waits, "UNKNOWN") \in {waits, Put(waits, un), Halt(waits)}
      BY <2>5 DEF Transition
    <3>2. /\ un \in States /\ SoundOrders(un) /\ un.last = s.now.last
          /\ s.now.orders \subseteq un.orders /\ un.position = s.now.position
      BY <2>3 DEF SoundOrders, States, Lifecycles
    <3> HIDE DEF un
    <3>3. Put(waits, un) \in PageRecords /\ Put(waits, un).now = un
          /\ Put(waits, un).saved = s.saved
      BY <2>5, <3>2 DEF Put, PageRecords
    <3>4. Keeps(s, Halt(Put(waits, un))) /\ Halt(Put(waits, un)).now.position = s.now.position
      BY <3>2, <3>3, HaltWaiting
    <3>5. Keeps(s, Halt(Halt(waits))) /\ Halt(Halt(waits)).now.position = s.now.position
      BY <2>6, HaltKeeps, KeepsTransitive DEF Keeps
    <3> QED BY <2>6, <3>1, <3>4, <3>5
  <2>8. CreateOrder(s, kind, b) \in {placed, Halt(waits), Halt(Transition(waits, "UNKNOWN"))}
    BY <1>2 DEF CreateOrder, placed, waits, st, wt, order, Put
  <2> QED BY <2>4, <2>6, <2>7, <2>8
<1> QED BY <1>1, <1>2

(* openPosition: the position goes back to a filled entry, and no halt is  *)
(* taken back.                                                             *)
LEMMA OpenPositionKeeps ==
  ASSUME NEW s, Sound(s), NEW b \in Bars
  PROVE  Keeps(s, OpenPosition(s, b))
<1> DEFINE before == Transition(Transition(s, "APPROVED"), "SUBMITTING")
           submitted == CreateOrder(before, "entry", b)
           known == Transition(submitted, "ACKNOWLEDGED")
           st == [known.now EXCEPT !.position = b, !.pending = FALSE]
<1>0. {"APPROVED", "SUBMITTING", "ACKNOWLEDGED", "OPEN"} \subseteq Lifecycles
  BY DEF Lifecycles
<1>1. Keeps(s, Transition(s, "APPROVED")) /\ Sound(Transition(s, "APPROVED"))
  BY <1>0, TransitionKeeps DEF Keeps
<1>2. Keeps(s, before) /\ Sound(before)
  BY <1>0, <1>1, TransitionKeeps, KeepsTransitive DEF Keeps
<1> HIDE DEF before
<1>3. Keeps(s, submitted) /\ Sound(submitted)
  BY <1>2, CreateOrderKeeps, KeepsTransitive DEF Keeps
<1> HIDE DEF submitted
<1>4. /\ Keeps(s, known) /\ Sound(known) /\ submitted.now.orders \subseteq known.now.orders
  BY <1>0, <1>3, TransitionKeeps, KeepsTransitive DEF Keeps
<1> HIDE DEF known
<1>5. CASE IsFilled(submitted, "entry", b)
  <2>1. [kind |-> "entry", bar |-> b, status |-> "FILLED"] \in known.now.orders
    BY <1>4, <1>5 DEF IsFilled
  <2>2. /\ SoundState(st) /\ st.last = known.now.last /\ st.halted = known.now.halted
        /\ st.running = known.now.running /\ st.orders = known.now.orders
    <3>1. known.now \in States /\ SoundState(known.now)
      BY <1>4 DEF Sound, SoundState
    <3>2. /\ st \in States /\ st.last = known.now.last /\ st.halted = known.now.halted
          /\ st.running = known.now.running /\ st.orders = known.now.orders
          /\ st.position = b /\ ~st.pending
      BY <3>1 DEF States
    <3> HIDE DEF st
    <3> QED BY <2>1, <3>1, <3>2 DEF SoundState, SoundOrders
  <2> HIDE DEF st
  <2>3. Keeps(known, Put(known, st)) /\ Sound(Put(known, st))
    BY <1>4, <2>2, PutKeeps DEF Keeps
  <2>4. Keeps(s, Transition(Put(known, st), "OPEN"))
    BY <1>0, <1>4, <2>3, TransitionKeeps, KeepsTransitive
  <2>5. OpenPosition(s, b) = Transition(Put(known, st), "OPEN")
    BY <1>5 DEF OpenPosition, before, submitted, known, st
  <2> QED BY <2>4, <2>5
<1>6. CASE ~IsFilled(submitted, "entry", b)
  BY <1>3, <1>6 DEF OpenPosition, before, submitted
<1> QED BY <1>5, <1>6

(* closePosition: the position is kept, or closed by an exit.              *)
LEMMA ClosePositionKeeps ==
  ASSUME NEW s, Sound(s), NEW b \in Bars
  PROVE  Keeps(s, ClosePosition(s, b))
<1> DEFINE before == Transition(Transition(s, "EXIT_PENDING"), "SUBMITTING")
           submitted == CreateOrder(before, "exit", b)
           st == [submitted.now EXCEPT !.position = NoBar, !.pending = FALSE]
           closed == Put(submitted, st)
           known == Transition(Transition(Transition(closed, "ACKNOWLEDGED"), "CLOSED"), "FLAT")
<1>0. {"EXIT_PENDING", "SUBMITTING", "ACKNOWLEDGED", "CLOSED", "FLAT"} \subseteq Lifecycles
  BY DEF Lifecycles
<1>1. Keeps(s, Transition(s, "EXIT_PENDING")) /\ Sound(Transition(s, "EXIT_PENDING"))
  BY <1>0, TransitionKeeps DEF Keeps
<1>2. Keeps(s, before) /\ Sound(before)
  BY <1>0, <1>1, TransitionKeeps, KeepsTransitive DEF Keeps
<1> HIDE DEF before
<1>3. Keeps(s, submitted) /\ Sound(submitted)
  BY <1>2, CreateOrderKeeps, KeepsTransitive DEF Keeps
<1> HIDE DEF submitted
<1>4. /\ SoundState(st) /\ st.last = submitted.now.last /\ st.halted = submitted.now.halted
      /\ st.running = submitted.now.running /\ st.orders = submitted.now.orders
  BY <1>3 DEF Sound, SoundState, SoundOrders, States
<1> HIDE DEF st
<1>5. Keeps(s, closed) /\ Sound(closed)
  BY <1>3, <1>4, PutKeeps, KeepsTransitive DEF Keeps
<1> HIDE DEF closed
<1>6. Keeps(s, Transition(closed, "ACKNOWLEDGED")) /\ Sound(Transition(closed, "ACKNOWLEDGED"))
  BY <1>0, <1>5, TransitionKeeps, KeepsTransitive DEF Keeps
<1>7. /\ Keeps(s, Transition(Transition(closed, "ACKNOWLEDGED"), "CLOSED"))
      /\ Sound(Transition(Transition(closed, "ACKNOWLEDGED"), "CLOSED"))
  BY <1>0, <1>6, TransitionKeeps, KeepsTransitive DEF Keeps
<1>8. Keeps(s, known)
  BY <1>0, <1>7, TransitionKeeps, KeepsTransitive
<1> HIDE DEF known
<1>9. ClosePosition(s, b) \in {known, submitted}
  BY DEF ClosePosition, known, closed, st, submitted, before
<1> QED BY <1>3, <1>8, <1>9

(* A bar is processed: nothing but it becomes the last one.                *)
LEMMA ProcessedKeeps ==
  ASSUME NEW s, Sound(s), NEW b \in Bars
  PROVE  Sound(Processed(s, b)) /\ Processed(s, b).now.last = b
<1> DEFINE st == [s.now EXCEPT !.last = b]
<1>1. SoundState(st) /\ st.last = b
  BY DEF Sound, SoundState, SoundOrders, States
<1>2. Processed(s, b) = Persist(Put(s, st))
  BY DEF Processed
<1> HIDE DEF st
<1>3. Sound(Put(s, st)) /\ Put(s, st).now = st
  BY <1>1, PutKeeps
<1>4. Keeps(Put(s, st), Persist(Put(s, st)))
  BY <1>3, PersistKeeps
<1> QED BY <1>1, <1>2, <1>3, <1>4 DEF Keeps

(* processCandle: only the bar it is called with becomes the last one.     *)
LEMMA ProcessKeeps ==
  ASSUME NEW s, Sound(s), NEW b \in Bars, NEW action, NEW exits \in BOOLEAN
  PROVE  Sound(Process(s, b, action, exits))
         /\ Process(s, b, action, exits).now.last \in {s.now.last, b}
<1>1. \A t : Sound(t) => Sound(TakeSignal(t, b, action)) /\ TakeSignal(t, b, action).now.last = b
  <2> SUFFICES ASSUME NEW t, Sound(t)
               PROVE  Sound(TakeSignal(t, b, action)) /\ TakeSignal(t, b, action).now.last = b
    OBVIOUS
  <2>1. Sound(Transition(t, "SIGNAL"))
    BY TransitionKeeps DEF Keeps, Lifecycles
  <2>2. Sound(OpenPosition(Transition(t, "SIGNAL"), b))
    BY <2>1, OpenPositionKeeps DEF Keeps
  <2> QED BY <2>1, <2>2, ProcessedKeeps DEF TakeSignal
<1>2. Sound(ClosePosition(s, b)) /\ ClosePosition(s, b).now.last = s.now.last
  BY ClosePositionKeeps DEF Keeps
<1>3. Sound(Halt(s)) /\ Halt(s).now.last = s.now.last
  BY HaltKeeps DEF Keeps
<1>4. Sound(Processed(s, b)) /\ Processed(s, b).now.last = b
  BY ProcessedKeeps
<1>5. Process(s, b, action, exits) \in {Halt(s), Processed(s, b), ClosePosition(s, b),
                                       TakeSignal(ClosePosition(s, b), b, action),
                                       TakeSignal(s, b, action)}
  BY DEF Process
<1> QED BY <1>1, <1>2, <1>3, <1>4, <1>5

-----------------------------------------------------------------------------
(* The checkpoint, and the orders that wait for their outcome.             *)

(* The checkpoint goes as far as the page, and has no order the page does  *)
(* not have.                                                               *)
Stored(s) ==
  /\ s.saved = Missing => s.now.last = NoBar
  /\ s.saved \notin {Missing, Damaged}
     => s.saved.last = s.now.last /\ s.saved.orders \subseteq s.now.orders

(* An order without a known outcome is pending and has halted the page. *)
Waits(st) == Unsettled(st) # {} => st.pending /\ st.halted /\ ~st.running

(* The same for the page and its checkpoint, which has these orders. *)
Waiting(s) ==
  /\ Waits(s.now)
  /\ s.saved = Missing => Unsettled(s.now) = {}
  /\ s.saved \notin {Missing, Damaged}
     => Waits(s.saved) /\ Unsettled(s.now) \subseteq s.saved.orders

(* Nothing waits, and then it goes on as it should.                        *)
Settled(s) == Waiting(s) /\ Unsettled(s.now) = {}

(* What a helper does to the orders and the checkpoint. *)
Advances(s, t, b) ==
  /\ Stored(t)
  /\ \A o \in t.now.orders \ s.now.orders : o.bar = b
  /\ Settled(s) => Waiting(t)

LEMMA UnsettledOrders ==
  ASSUME NEW st, NEW st2, st.orders = st2.orders
  PROVE  Unsettled(st) = Unsettled(st2)
BY DEF Unsettled

(* A page that has just kept its state.                                    *)
LEMMA JustKept ==
  ASSUME NEW t, t.now \in States, t.saved = t.now
  PROVE  Stored(t) /\ (Waits(t.now) => Waiting(t))
<1>1. t.saved \notin {Missing, Damaged}
  BY Checkpoints
<1>2. Unsettled(t.now) \subseteq t.saved.orders
  BY DEF Unsettled
<1> QED BY <1>1, <1>2 DEF Stored, Waiting

(* What the small helpers change.                                          *)
LEMMA PersistFields ==
  ASSUME NEW s \in PageRecords
  PROVE  LET t == Persist(s)
         IN /\ t \in PageRecords /\ t.saved = t.now /\ t.now.orders = s.now.orders
            /\ t.now.last = s.now.last /\ t.now.pending = s.now.pending
            /\ t.now.halted = s.now.halted /\ t.now.running = s.now.running
BY DEF Persist, PageRecords, States

LEMMA HaltFields ==
  ASSUME NEW s \in PageRecords
  PROVE  /\ Halt(s) \in PageRecords /\ Halt(s).saved = Halt(s).now
         /\ Halt(s).now.orders = s.now.orders /\ Halt(s).now.last = s.now.last
         /\ Halt(s).now.pending = s.now.pending
         /\ Halt(s).now.halted /\ ~Halt(s).now.running
<1> DEFINE st == [s.now EXCEPT !.running = FALSE, !.halted = TRUE, !.lifecycle = "HALT"]
           h == Halted(s)
           kept == Persist(h)
<1>1. /\ st \in States /\ st.halted /\ ~st.running /\ st.last = s.now.last
      /\ st.orders = s.now.orders /\ st.pending = s.now.pending
  BY DEF PageRecords, States, Lifecycles
<1>2. h = [s EXCEPT !.now = st]
  BY DEF Halted, Put
<1> HIDE DEF st
<1>3. h \in PageRecords /\ h.now = st
  BY <1>1, <1>2 DEF PageRecords
<1>4. Halt(s) = [kept EXCEPT !.polling = FALSE]
  BY DEF Halt, StopTimer
<1> HIDE DEF h
<1>5. /\ kept \in PageRecords /\ kept.saved = kept.now /\ kept.now.orders = st.orders
      /\ kept.now.last = st.last /\ kept.now.pending = st.pending
      /\ kept.now.halted = st.halted /\ kept.now.running = st.running
  BY <1>3, PersistFields
<1> HIDE DEF kept
<1>6. /\ Halt(s) \in PageRecords /\ Halt(s).now = kept.now /\ Halt(s).saved = kept.saved
  BY <1>4, <1>5 DEF PageRecords
<1> QED BY <1>1, <1>5, <1>6

(* Halting keeps the checkpoint right, and may begin a wait.               *)
LEMMA HaltAdvances ==
  ASSUME NEW s \in PageRecords
  PROVE  Stored(Halt(s)) /\ ((Unsettled(s.now) # {} => s.now.pending) => Waiting(Halt(s)))
<1>1. Halt(s).now \in States
  BY HaltFields DEF PageRecords
<1>2. Unsettled(Halt(s).now) = Unsettled(s.now)
  BY HaltFields, UnsettledOrders
<1>3. (Unsettled(s.now) # {} => s.now.pending) => Waits(Halt(s).now)
  BY <1>2, HaltFields DEF Waits
<1> QED BY <1>1, <1>3, HaltFields, JustKept

(* Putting a state object with the same orders and the same last bar.      *)
LEMMA PutAdvances ==
  ASSUME NEW s \in PageRecords, Stored(s), NEW st \in States,
         st.last = s.now.last, st.orders = s.now.orders
  PROVE  /\ Stored(Put(s, st))
         /\ Put(s, st) \in PageRecords /\ Put(s, st).now = st /\ Put(s, st).saved = s.saved
         /\ Waiting(s) /\ Waits(st) => Waiting(Put(s, st))
<1>1. Put(s, st) \in PageRecords /\ Put(s, st).now = st /\ Put(s, st).saved = s.saved
  BY DEF Put, PageRecords
<1>2. Unsettled(st) = Unsettled(s.now)
  BY UnsettledOrders
<1> HIDE DEF Put
<1> QED BY <1>1, <1>2 DEF Stored, Waiting

(* A transition changes no order and no pending flag.                      *)
LEMMA TransitionFields ==
  ASSUME NEW s \in PageRecords, NEW next \in Lifecycles
  PROVE  LET t == Transition(s, next)
         IN /\ t \in PageRecords /\ t.now.orders = s.now.orders
            /\ t.now.last = s.now.last /\ t.now.pending = s.now.pending
            /\ Stored(s) => Stored(t)
            /\ Waiting(s) => Waiting(t)
<1> DEFINE st == [s.now EXCEPT !.lifecycle = next]
           t == Transition(s, next)
<1>1. /\ st \in States /\ st.orders = s.now.orders /\ st.last = s.now.last
      /\ st.pending = s.now.pending /\ st.halted = s.now.halted /\ st.running = s.now.running
  BY DEF PageRecords, States
<1>2. t \in {s, Put(s, st), Halt(s)}
  BY DEF Transition
<1> HIDE DEF t, st
<1>3. Waits(s.now) => Waits(st)
  BY <1>1, UnsettledOrders DEF Waits
<1>4. CASE t = s
  BY <1>4 DEF t
<1>5. CASE t = Put(s, st)
  <2>1. t \in PageRecords /\ t.now = st /\ t.saved = s.saved
    BY <1>1, <1>5 DEF Put, PageRecords
  <2>2. Unsettled(st) = Unsettled(s.now)
    BY <1>1, UnsettledOrders
  <2>3. (Stored(s) => Stored(t)) /\ (Waiting(s) => Waiting(t))
    BY <1>1, <1>3, <2>1, <2>2 DEF Stored, Waiting
  <2> QED BY <1>1, <2>1, <2>3 DEF t
<1>6. CASE t = Halt(s)
  <2>1. Waiting(s) => (Unsettled(s.now) # {} => s.now.pending)
    BY DEF Waiting, Waits
  <2> QED BY <1>6, <2>1, HaltFields, HaltAdvances DEF t
<1> QED BY <1>2, <1>4, <1>5, <1>6

(* createOrder: the order is one of the bar, and one that is filled leaves *)
(* nothing to wait for.                                                    *)
LEMMA CreateOrderAdvances ==
  ASSUME NEW s \in PageRecords, Stored(s), NEW kind \in {"entry", "exit"}, NEW b \in Bars
  PROVE  LET t == CreateOrder(s, kind, b)
         IN /\ t \in PageRecords /\ t.now.last = s.now.last
            /\ Advances(s, t, b)
            /\ Settled(s) /\ IsFilled(t, kind, b) => Settled(t)
<1> DEFINE status == StatusOf(s.now.mode)
           order == [kind |-> kind, bar |-> b, status |-> status]
           st == [s.now EXCEPT !.orders = s.now.orders \cup {order}]
           placed == Put(s, st)
           wt == [placed.now EXCEPT !.pending = TRUE]
           waits == Put(placed, wt)
           moved == Transition(waits, "UNKNOWN")
           t == CreateOrder(s, kind, b)
<1>1. CASE KnownOrder(s, kind, b)
  <2>1. t = s
    BY <1>1 DEF CreateOrder
  <2> QED BY <2>1 DEF Advances, Settled
<1>2. CASE ~KnownOrder(s, kind, b)
  <2>1. t = IF status = "UNKNOWN" THEN Halt(moved)
            ELSE IF status = "PARTIALLY_FILLED" THEN Halt(waits)
            ELSE placed
    BY <1>2, Zenon DEF CreateOrder
  <2>2. /\ order \in Orders /\ order.kind = kind /\ order.bar = b /\ order.status = status
    BY Statuses DEF Orders
  <2> HIDE DEF status, t, order
  <2>3. /\ st \in States /\ st.last = s.now.last /\ st.orders = s.now.orders \cup {order}
    BY <2>2 DEF PageRecords, States
  <2> HIDE DEF st
  <2>4. placed \in PageRecords /\ placed.now = st /\ placed.saved = s.saved
    BY <2>3 DEF Put, PageRecords
  <2> HIDE DEF placed
  <2>5. /\ wt \in States /\ wt.last = s.now.last /\ wt.orders = s.now.orders \cup {order}
        /\ wt.pending
    BY <2>3, <2>4 DEF States
  <2> HIDE DEF wt
  <2>6. waits \in PageRecords /\ waits.now = wt
    BY <2>5, <2>4 DEF Put, PageRecords
  <2> HIDE DEF waits
  <2>7. /\ moved \in PageRecords /\ moved.now.orders = wt.orders
        /\ moved.now.last = wt.last /\ moved.now.pending
    BY <2>5, <2>6, TransitionFields DEF Lifecycles
  <2> HIDE DEF moved
  <2>8. \A o \in s.now.orders \cup {order} : o \in s.now.orders \/ o.bar = b
    BY <2>2
  <2>9. CASE status \in {"UNKNOWN", "PARTIALLY_FILLED"}
    <3>1. \E w \in {moved, waits} : t = Halt(w)
      BY <2>1, <2>9
    <3>2. PICK w \in {moved, waits} : t = Halt(w)
      BY <3>1
    <3>3. /\ w \in PageRecords /\ w.now.orders = s.now.orders \cup {order}
          /\ w.now.last = s.now.last /\ w.now.pending
      BY <2>5, <2>6, <2>7
    <3>4. /\ t \in PageRecords /\ t.now.orders = s.now.orders \cup {order}
          /\ t.now.last = s.now.last /\ Stored(t) /\ Waiting(t)
      BY <3>2, <3>3, HaltFields, HaltAdvances
    <3>5. ~IsFilled(t, kind, b)
      <4>1. [kind |-> kind, bar |-> b, status |-> "FILLED"] # order
        BY <2>2, <2>9
      <4>2. [kind |-> kind, bar |-> b, status |-> "FILLED"] \notin s.now.orders
        BY <1>2 DEF KnownOrder
      <4> QED BY <3>4, <4>1, <4>2 DEF IsFilled
    <3> QED BY <2>8, <3>4, <3>5 DEF Advances, t
  <2>10. CASE status \notin {"UNKNOWN", "PARTIALLY_FILLED"}
    <3>1. t = placed
      BY <2>1, <2>10
    <3>2. Stored(t)
      BY <2>3, <2>4, <3>1 DEF Stored
    <3>3. Unsettled(st) = Unsettled(s.now)
      BY <2>2, <2>3, <2>10 DEF Unsettled
    <3>4. Settled(s) => Settled(t)
      BY <2>3, <2>4, <3>1, <3>3 DEF Settled, Waiting, Waits
    <3>5. t.now.orders = s.now.orders \cup {order} /\ t.now.last = s.now.last /\ t \in PageRecords
      BY <2>3, <2>4, <3>1
    <3> QED BY <2>8, <3>2, <3>4, <3>5 DEF Advances, Settled, t
  <2> QED BY <2>9, <2>10
<1> QED BY <1>1, <1>2

(* openPosition. *)
LEMMA OpenPositionAdvances ==
  ASSUME NEW s \in PageRecords, Stored(s), NEW b \in Bars
  PROVE  LET t == OpenPosition(s, b)
         IN t \in PageRecords /\ t.now.last = s.now.last /\ Advances(s, t, b)
<1> DEFINE first == Transition(s, "APPROVED")
           before == Transition(first, "SUBMITTING")
           submitted == CreateOrder(before, "entry", b)
           known == Transition(submitted, "ACKNOWLEDGED")
           st == [known.now EXCEPT !.position = b, !.pending = FALSE]
           put == Put(known, st)
           t == OpenPosition(s, b)
<1>0. {"APPROVED", "SUBMITTING", "ACKNOWLEDGED", "OPEN"} \subseteq Lifecycles
  BY DEF Lifecycles
<1>1. t = IF IsFilled(submitted, "entry", b) THEN Transition(put, "OPEN") ELSE submitted
  BY DEF OpenPosition
<1> HIDE DEF t
<1>2. /\ first \in PageRecords /\ first.now.orders = s.now.orders /\ Stored(first)
      /\ first.now.last = s.now.last /\ (Waiting(s) => Waiting(first))
  BY <1>0, TransitionFields
<1> HIDE DEF first
<1>3. /\ before \in PageRecords /\ before.now.orders = s.now.orders /\ Stored(before)
      /\ before.now.last = s.now.last /\ (Waiting(s) => Waiting(before))
  BY <1>0, <1>2, TransitionFields
<1> HIDE DEF before
<1>4. Settled(s) => Settled(before)
  BY <1>3, UnsettledOrders DEF Settled
<1>5. /\ submitted \in PageRecords /\ submitted.now.last = s.now.last
      /\ Advances(before, submitted, b)
      /\ Settled(before) /\ IsFilled(submitted, "entry", b) => Settled(submitted)
  BY <1>3, CreateOrderAdvances
<1> HIDE DEF submitted
<1>6. CASE ~IsFilled(submitted, "entry", b)
  BY <1>1, <1>3, <1>4, <1>5, <1>6 DEF Advances, t
<1>7. CASE IsFilled(submitted, "entry", b)
  <2>1. /\ known \in PageRecords /\ known.now.orders = submitted.now.orders /\ Stored(known)
        /\ known.now.last = s.now.last /\ (Waiting(submitted) => Waiting(known))
    BY <1>0, <1>5, TransitionFields DEF Advances
  <2>2. Settled(submitted) => Settled(known)
    BY <2>1, UnsettledOrders DEF Settled
  <2>3. st \in States /\ st.orders = known.now.orders /\ st.last = known.now.last
    BY <2>1 DEF PageRecords, States
  <2> HIDE DEF known, st
  <2>4. Settled(known) => Waits(st)
    BY <2>3, UnsettledOrders DEF Settled, Waits
  <2>5. /\ put \in PageRecords /\ Stored(put) /\ put.now = st
        /\ Waiting(known) /\ Waits(st) => Waiting(put)
    BY <2>1, <2>3, PutAdvances
  <2> HIDE DEF put
  <2>6. /\ t \in PageRecords /\ t.now.orders = st.orders /\ t.now.last = st.last /\ Stored(t)
        /\ Waiting(put) => Waiting(t)
    BY <1>0, <1>1, <1>7, <2>5, TransitionFields
  <2>7. Settled(s) => Waiting(t)
    BY <1>4, <1>5, <1>7, <2>2, <2>4, <2>5, <2>6 DEF Settled
  <2> QED BY <1>3, <1>5, <2>1, <2>3, <2>6, <2>7 DEF Advances, t
<1> QED BY <1>6, <1>7

(* closePosition: a position is closed only when nothing waits.            *)
LEMMA ClosePositionAdvances ==
  ASSUME NEW s, Sound(s), Stored(s), NEW b \in Bars, s.now.position # NoBar
  PROVE  LET t == ClosePosition(s, b)
         IN /\ t \in PageRecords /\ t.now.last = s.now.last /\ Advances(s, t, b)
            /\ Settled(s) /\ t.now.position = NoBar => Settled(t)
<1> DEFINE first == Transition(s, "EXIT_PENDING")
           before == Transition(first, "SUBMITTING")
           submitted == CreateOrder(before, "exit", b)
           st == [submitted.now EXCEPT !.position = NoBar, !.pending = FALSE]
           closed == Put(submitted, st)
           t1 == Transition(closed, "ACKNOWLEDGED")
           t2 == Transition(t1, "CLOSED")
           known == Transition(t2, "FLAT")
           t == ClosePosition(s, b)
<1>0. {"EXIT_PENDING", "SUBMITTING", "ACKNOWLEDGED", "CLOSED", "FLAT"} \subseteq Lifecycles
  BY DEF Lifecycles
<1>1. t = IF IsFilled(submitted, "exit", b) /\ ~submitted.now.halted THEN known ELSE submitted
  BY DEF ClosePosition
<1> HIDE DEF t
<1>2. /\ first \in PageRecords /\ first.now.orders = s.now.orders /\ Stored(first)
      /\ first.now.last = s.now.last /\ (Waiting(s) => Waiting(first))
      /\ Sound(first) /\ first.now.position = s.now.position
  BY <1>0, TransitionFields, TransitionKeeps DEF Sound, Keeps
<1> HIDE DEF first
<1>3. /\ before \in PageRecords /\ before.now.orders = s.now.orders /\ Stored(before)
      /\ before.now.last = s.now.last /\ (Waiting(s) => Waiting(before))
      /\ Sound(before) /\ before.now.position = s.now.position
  BY <1>0, <1>2, TransitionFields, TransitionKeeps DEF Keeps
<1> HIDE DEF before
<1>4. Settled(s) => Settled(before)
  BY <1>3, UnsettledOrders DEF Settled
<1>5. /\ submitted \in PageRecords /\ submitted.now.last = s.now.last
      /\ Advances(before, submitted, b)
      /\ Settled(before) /\ IsFilled(submitted, "exit", b) => Settled(submitted)
      /\ submitted.now.position = s.now.position
  BY <1>3, CreateOrderAdvances, CreateOrderKeeps
<1> HIDE DEF submitted
<1>6. CASE t = submitted
  BY <1>3, <1>4, <1>5, <1>6 DEF Advances, t
<1>7. CASE IsFilled(submitted, "exit", b) /\ t = known
  <2>1. st \in States /\ st.orders = submitted.now.orders /\ st.last = submitted.now.last
    BY <1>5 DEF PageRecords, States
  <2> HIDE DEF st
  <2>2. Settled(submitted) => Waits(st)
    BY <2>1, UnsettledOrders DEF Settled, Waits
  <2>3. /\ closed \in PageRecords /\ Stored(closed) /\ closed.now = st
        /\ Waiting(submitted) /\ Waits(st) => Waiting(closed)
    BY <1>5, <2>1, PutAdvances DEF Advances
  <2> HIDE DEF closed
  <2>4. /\ t1 \in PageRecords /\ t1.now.orders = st.orders /\ t1.now.last = st.last
        /\ Stored(t1) /\ (Waiting(closed) => Waiting(t1))
    BY <1>0, <2>3, TransitionFields
  <2> HIDE DEF t1
  <2>5. /\ t2 \in PageRecords /\ t2.now.orders = st.orders /\ t2.now.last = st.last
        /\ Stored(t2) /\ (Waiting(closed) => Waiting(t2))
    BY <1>0, <2>4, TransitionFields
  <2> HIDE DEF t2
  <2>6. /\ t \in PageRecords /\ t.now.orders = st.orders /\ t.now.last = st.last
        /\ Stored(t) /\ (Waiting(closed) => Waiting(t))
    BY <1>0, <1>7, <2>5, TransitionFields
  <2>7. Settled(s) => Settled(t)
    <3>1. Unsettled(t.now) = Unsettled(submitted.now)
      BY <2>1, <2>6, UnsettledOrders
    <3> QED BY <1>4, <1>5, <1>7, <2>2, <2>3, <2>6, <3>1 DEF Settled
  <2> QED BY <1>3, <1>5, <2>1, <2>6, <2>7 DEF Advances, Settled, t
<1> QED BY <1>1, <1>6, <1>7

(* A bar is processed: the checkpoint is what the page knows.              *)
LEMMA ProcessedAdvances ==
  ASSUME NEW s \in PageRecords, NEW b \in Bars
  PROVE  LET t == Processed(s, b)
         IN /\ Stored(t) /\ t.now.orders = s.now.orders
            /\ Waits(s.now) => Waiting(t)
<1> DEFINE st == [s.now EXCEPT !.last = b]
           put == Put(s, st)
           t == Processed(s, b)
<1>1. /\ st \in States /\ st.orders = s.now.orders /\ st.pending = s.now.pending
      /\ st.halted = s.now.halted /\ st.running = s.now.running
  BY DEF PageRecords, States
<1>2. t = Persist(put)
  BY DEF Processed
<1> HIDE DEF st, t
<1>3. put \in PageRecords /\ put.now = st
  BY <1>1 DEF Put, PageRecords
<1> HIDE DEF put
<1>4. /\ t \in PageRecords /\ t.saved = t.now /\ t.now.orders = s.now.orders
      /\ t.now.pending = s.now.pending /\ t.now.halted = s.now.halted
      /\ t.now.running = s.now.running
  BY <1>1, <1>2, <1>3, PersistFields
<1>5. t.now \in States
  BY <1>4 DEF PageRecords
<1>6. Waits(s.now) => Waits(t.now)
  BY <1>4, UnsettledOrders DEF Waits
<1> QED BY <1>4, <1>5, <1>6, JustKept DEF t

(* processCandle: new orders are of the bar it is called with.             *)
LEMMA ProcessAdvances ==
  ASSUME NEW s, Sound(s), Stored(s), NEW b \in Bars, NEW action, NEW exits \in BOOLEAN
  PROVE  Advances(s, Process(s, b, action, exits), b)
<1> DEFINE closing == ClosePosition(s, b)
           t == Process(s, b, action, exits)
<1>0. s \in PageRecords
  BY DEF Sound
<1>1. ASSUME NEW u \in PageRecords, Stored(u)
      PROVE  Advances(u, TakeSignal(u, b, action), b)
  <2> DEFINE signalled == Transition(u, "SIGNAL")
             opened == OpenPosition(signalled, b)
  <2>1. TakeSignal(u, b, action) \in {Processed(u, b), Processed(signalled, b), Processed(opened, b)}
    BY DEF TakeSignal
  <2>2. /\ signalled \in PageRecords /\ signalled.now.orders = u.now.orders
        /\ Stored(signalled) /\ (Waiting(u) => Waiting(signalled))
    BY <1>1, TransitionFields DEF Lifecycles
  <2> HIDE DEF signalled
  <2>3. Settled(u) => Settled(signalled)
    BY <2>2, UnsettledOrders DEF Settled
  <2>4. opened \in PageRecords /\ Advances(signalled, opened, b)
    BY <2>2, OpenPositionAdvances
  <2> HIDE DEF opened
  <2>5. ASSUME NEW w \in {u, signalled, opened}
        PROVE  Advances(u, Processed(w, b), b)
    <3>1. w \in PageRecords /\ (\A o \in w.now.orders \ u.now.orders : o.bar = b)
          /\ (Settled(u) => Waiting(w))
      BY <2>2, <2>3, <2>4, <2>5 DEF Advances, Settled
    <3> QED BY <3>1, ProcessedAdvances DEF Advances, Waiting
  <2> QED BY <2>1, <2>5
<1>2. CASE s.now.position # NoBar
  <2>1. /\ closing \in PageRecords /\ Advances(s, closing, b)
        /\ Settled(s) /\ closing.now.position = NoBar => Settled(closing)
    BY <1>2, ClosePositionAdvances
  <2>2. \/ t \in {Halt(s), Processed(s, b), closing}
        \/ closing.now.position = NoBar /\ t = TakeSignal(closing, b, action)
    BY <1>2 DEF Process
  <2> HIDE DEF closing, t
  <2>3. Advances(s, Halt(s), b)
    <3>1. Settled(s) => Waiting(Halt(s))
      BY <1>0, HaltAdvances DEF Settled
    <3> QED BY <1>0, <3>1, HaltFields, HaltAdvances DEF Advances
  <2>4. Advances(s, Processed(s, b), b)
    BY <1>0, ProcessedAdvances DEF Advances, Settled, Waiting
  <2>5. CASE closing.now.position = NoBar /\ t = TakeSignal(closing, b, action)
    <3>1. Advances(closing, t, b)
      BY <1>1, <2>1, <2>5 DEF Advances
    <3>2. Settled(s) => Waiting(t)
      BY <2>1, <2>5, <3>1 DEF Advances
    <3>3. \A o \in t.now.orders \ s.now.orders : o.bar = b
      BY <2>1, <3>1 DEF Advances
    <3>4. Stored(t)
      BY <3>1 DEF Advances
    <3> QED BY <3>2, <3>3, <3>4 DEF Advances, t
  <2> QED BY <2>1, <2>2, <2>3, <2>4, <2>5 DEF t
<1>3. CASE s.now.position = NoBar
  <2>1. t = TakeSignal(s, b, action)
    BY <1>3 DEF Process
  <2> QED BY <1>0, <1>1, <2>1
<1> QED BY <1>2, <1>3

-----------------------------------------------------------------------------
(* The page.                                                               *)

BrowserInv ==
  /\ MarketTypeOK /\ SignalTypeOK
  /\ Sound(rt) /\ Stored(rt)
  /\ overlapped \in BOOLEAN
  /\ reloads \in 0 .. MaxReloads /\ damages \in 0 .. MaxDamages

(* What a step does to the last bar and the orders: it goes on, or begins  *)
(* anew.                                                                   *)
Forward ==
  /\ rt'.now.last >= rt.now.last
  /\ \A o \in rt'.now.orders \ rt.now.orders : o.bar > rt.now.last

Anew == ResetPage \/ (Reload /\ rt.saved = Damaged)

(* The steps of the store and of the handlers leave the page alone.        *)
LEMMA WorldStep ==
  ASSUME BrowserInv, UNCHANGED <<rt, reloads, damages>>, overlapped' \in BOOLEAN,
         \/ MarketNext /\ UNCHANGED signalVars
         \/ SignalNext /\ UNCHANGED marketVars
         \/ \E k \in Requests : ReadSnapshot(k) /\ UNCHANGED marketVars
         \/ UNCHANGED webVars
  PROVE  BrowserInv'
<1>1. /\ Sound(rt)' /\ Stored(rt)'
      /\ (reloads \in 0 .. MaxReloads /\ damages \in 0 .. MaxDamages)'
  BY DEF BrowserInv
<1>2. MarketTypeOK' \/ ~UNCHANGED marketVars
  BY DEF BrowserInv, MarketTypeOK, marketVars
<1>3. SignalTypeOK' \/ ~UNCHANGED signalVars
  BY DEF BrowserInv, SignalTypeOK, signalVars
<1>4. CASE MarketNext /\ UNCHANGED signalVars
  BY <1>1, <1>3, <1>4, MarketTypeStep DEF BrowserInv
<1>5. CASE SignalNext /\ UNCHANGED marketVars
  BY <1>1, <1>2, <1>5, SignalTypeStep DEF BrowserInv
<1>6. CASE \E k \in Requests : ReadSnapshot(k) /\ UNCHANGED marketVars
  BY <1>1, <1>2, <1>6, ReadSnapshotType DEF BrowserInv
<1>7. CASE UNCHANGED webVars
  BY <1>1, <1>2, <1>3, <1>7 DEF BrowserInv, webVars
<1> QED BY <1>4, <1>5, <1>6, <1>7

(* A call ends: its request is forgotten.                                  *)
LEMMA CallEnds ==
  ASSUME BrowserInv, NEW k \in Requests, req' = [req EXCEPT ![k] = Idle],
         UNCHANGED marketVars, UNCHANGED <<guardVars, page, overlapped, reloads, damages>>,
         Sound(rt'), Stored(rt')
  PROVE  BrowserInv'
<1>1. Idle \in RequestStates
  BY DEF Idle, RequestStates, Answers, NoAnswer
<1>2. SignalTypeOK'
  BY <1>1 DEF BrowserInv, SignalTypeOK, guardVars
<1>3. MarketTypeOK'
  BY DEF BrowserInv, MarketTypeOK, marketVars
<1>4. Sound(rt)' /\ Stored(rt)'
  OBVIOUS
<1> QED BY <1>2, <1>3, <1>4 DEF BrowserInv

(* A bar is a number, and no bar is the number before all of them.         *)
LEMMA BarIsNumber ==
  ASSUME NEW b \in Bars \cup {NoBar}
  PROVE  b \in Nat /\ (b > 0 => b \in Bars)
BY BarNumbers DEF NoBar

(* The bar of an answer that is newer than another is a bar.               *)
LEMMA NewBar ==
  ASSUME BrowserInv, NEW k \in Requests, Newer(req[k].answer.bar)
  PROVE  /\ req[k].answer.bar \in Bars
         /\ req[k].answer.bar > rt.now.last
         /\ req[k].answer.bar \in Nat /\ rt.now.last \in Nat
<1>1. req[k].answer.bar \in Bars \cup {NoBar}
  BY DEF BrowserInv, SignalTypeOK, RequestStates, Answers
<1>2. rt.now.last \in Bars \cup {NoBar}
  BY DEF BrowserInv, Sound, PageRecords, States
<1> QED BY <1>1, <1>2, BarIsNumber DEF Newer

(* A step of a call of processCandle.                                      *)
LEMMA CallStep ==
  ASSUME BrowserInv, NEW k \in Calls, RuntimeCall(k), UNCHANGED marketVars
  PROVE  BrowserInv' /\ Forward
<1> USE DEF BrowserInv, Forward
<1>1. k \in Requests
  BY DEF Requests
<1>2. rt.now.last \in Nat
  <2>1. rt.now.last \in Bars \cup {NoBar}
    BY DEF Sound, PageRecords, States
  <2> QED BY <2>1, BarIsNumber
<1>3. CASE BeginCall(k)
  <2>1. overlapped' \in BOOLEAN
    BY <1>3 DEF BeginCall
  <2>2. BrowserInv'
    BY <1>1, <1>3, <2>1, WorldStep DEF BeginCall
  <2> QED BY <1>2, <1>3, <2>2 DEF BeginCall
<1>4. CASE FeedFails(k)
  <2>1. /\ Sound(rt') /\ Stored(rt') /\ rt'.now.last = rt.now.last
        /\ rt'.now.orders = rt.now.orders
    BY <1>4, HaltKeeps, HaltFields, HaltAdvances DEF FeedFails, Keeps, Sound
  <2>2. req' = [req EXCEPT ![k] = Idle] /\ UNCHANGED <<guardVars, page, overlapped, reloads, damages>>
    BY <1>4 DEF FeedFails
  <2>3. BrowserInv'
    BY <1>1, <2>1, <2>2, CallEnds
  <2> QED BY <1>2, <2>1, <2>3
<1>5. CASE RepeatedBar(k)
  <2>1. rt' \in {Persist(rt), Halt(rt)} /\ rt \in PageRecords
    BY <1>5 DEF RepeatedBar, Sound
  <2>4. /\ Sound(rt') /\ rt'.now.last = rt.now.last /\ rt'.now.orders = rt.now.orders
    <3>1. CASE rt' = Persist(rt)
      <4>1. Keeps(rt, rt') /\ rt'.now.orders = rt.now.orders
        BY <2>1, <3>1, PersistKeeps, PersistFields
      <4> QED BY <4>1 DEF Keeps
    <3>2. CASE rt' = Halt(rt)
      <4>1. Keeps(rt, rt') /\ rt'.now.orders = rt.now.orders
        BY <2>1, <3>2, HaltKeeps, HaltFields
      <4> QED BY <4>1 DEF Keeps
    <3> QED BY <2>1, <3>1, <3>2
  <2>5. Stored(rt')
    <3>1. rt' = Persist(rt) => rt'.saved = rt'.now /\ rt'.now \in States
      BY <2>1, PersistFields DEF PageRecords
    <3> QED BY <2>1, <3>1, JustKept, HaltAdvances
  <2>2. req' = [req EXCEPT ![k] = Idle] /\ UNCHANGED <<guardVars, page, overlapped, reloads, damages>>
    BY <1>5 DEF RepeatedBar
  <2>3. BrowserInv'
    BY <1>1, <2>2, <2>4, <2>5, CallEnds
  <2> QED BY <1>2, <2>3, <2>4
<1>6. ASSUME NEW action \in Actions, NEW exits \in BOOLEAN, ProcessBar(k, action, exits)
      PROVE  BrowserInv' /\ Forward
  <2> DEFINE b == req[k].answer.bar
  <2>1. b \in Bars /\ b > rt.now.last /\ b \in Nat
    BY <1>1, <1>6, NewBar DEF ProcessBar
  <2>2. rt' = Process(rt, b, action, exits)
    BY <1>6 DEF ProcessBar
  <2> HIDE DEF b
  <2>3. Sound(rt') /\ rt'.now.last \in {rt.now.last, b}
    BY <2>1, <2>2, ProcessKeeps
  <2>6. Stored(rt') /\ \A o \in rt'.now.orders \ rt.now.orders : o.bar = b
    BY <2>1, <2>2, ProcessAdvances DEF Advances
  <2>4. req' = [req EXCEPT ![k] = Idle] /\ UNCHANGED <<guardVars, page, overlapped, reloads, damages>>
    BY <1>6 DEF ProcessBar
  <2>5. BrowserInv'
    BY <1>1, <2>3, <2>4, <2>6, CallEnds
  <2> QED BY <1>2, <2>1, <2>3, <2>5, <2>6
<1> QED BY <1>3, <1>4, <1>5, <1>6 DEF RuntimeCall

(* The operator's buttons keep the processed bar, but for the reset.       *)
LEMMA ButtonKeeps ==
  ASSUME Sound(rt), NEW mode \in FailureModes \cup {"NONE"},
         StartPage \/ StopPage \/ RecoverPage \/ InjectFailure(mode) \/ Damage
  PROVE  Sound(rt') /\ rt'.now.last = rt.now.last
<1>1. CASE StartPage
  <2> DEFINE configured == Persist(rt)
             st == [configured.now EXCEPT !.running = TRUE]
             running == Put(configured, st)
             next == IF rt.now.position # NoBar THEN "OPEN" ELSE "FLAT"
             moved == Persist(Transition(running, next))
  <2>1. Sound(configured) /\ configured.now = [rt.now EXCEPT !.trusted = TRUE]
    BY PersistKeeps DEF Keeps
  <2>2. CASE rt.now.halted
    <3>1. rt' = configured
      BY <1>1, <2>2 DEF StartPage
    <3> QED BY <2>1, <3>1, PersistKeeps DEF Keeps
  <2>3. CASE ~rt.now.halted
    <3>1. SoundState(st) /\ st.last = rt.now.last
      BY <2>1, <2>3 DEF Sound, SoundState, SoundOrders, States
    <3>2. rt' = [moved EXCEPT !.polling = TRUE]
      BY <1>1, <2>3 DEF StartPage
    <3>3. next \in Lifecycles
      BY DEF Lifecycles
    <3> HIDE DEF st, configured, next
    <3>4. Sound(running) /\ running.now.last = rt.now.last
      BY <2>1, <3>1, PutKeeps
    <3> HIDE DEF running
    <3>5. Sound(Transition(running, next)) /\ Transition(running, next).now.last = rt.now.last
      BY <3>3, <3>4, TransitionKeeps DEF Keeps
    <3>6. Sound(moved) /\ moved.now.last = rt.now.last
      BY <3>5, PersistKeeps DEF Keeps
    <3> HIDE DEF moved
    <3> QED BY <3>2, <3>6 DEF Sound, PageRecords
  <2> QED BY <2>2, <2>3
<1>2. CASE StopPage
  <2> DEFINE st == [rt.now EXCEPT !.running = FALSE]
  <2>1. SoundState(st) /\ st.last = rt.now.last
    BY DEF Sound, SoundState, SoundOrders, States
  <2>2. rt' = StopTimer(Persist(Put(rt, st)))
    BY <1>2 DEF StopPage
  <2> HIDE DEF st
  <2>3. Sound(Put(rt, st)) /\ Put(rt, st).now.last = rt.now.last
    BY <2>1, PutKeeps
  <2>4. Sound(Persist(Put(rt, st))) /\ Persist(Put(rt, st)).now.last = rt.now.last
    BY <2>3, PersistKeeps DEF Keeps
  <2> QED BY <2>2, <2>4, StopTimerKeeps
<1>3. CASE RecoverPage
  <2>1. Sound(Halted(rt)) /\ Halted(rt).now.last = rt.now.last
    <3>1. Halted(rt).now = [rt.now EXCEPT !.running = FALSE, !.halted = TRUE, !.lifecycle = "HALT"]
      BY DEF Sound, PageRecords, Halted, Put
    <3> QED BY <3>1, HaltKeeps DEF Sound, SoundState, States
  <2>2. Sound(Persist(Halted(rt))) /\ Persist(Halted(rt)).now.last = rt.now.last
    BY <2>1, PersistKeeps DEF Keeps
  <2>3. CASE rt.now.trusted /\ ~rt.now.pending
    <3> DEFINE st == [rt.now EXCEPT !.running = FALSE, !.halted = FALSE,
                        !.lifecycle = IF rt.now.position # NoBar THEN "OPEN" ELSE "FLAT"]
    <3>1. SoundState(st) /\ st.last = rt.now.last
      BY <2>3 DEF Sound, SoundState, SoundOrders, States, Lifecycles
    <3>2. rt' = StopTimer(Persist(Put(rt, st)))
      BY <1>3, <2>3 DEF RecoverPage, Resumed
    <3> HIDE DEF st
    <3>3. Sound(Put(rt, st)) /\ Put(rt, st).now.last = rt.now.last
      BY <3>1, PutKeeps
    <3>4. Sound(Persist(Put(rt, st))) /\ Persist(Put(rt, st)).now.last = rt.now.last
      BY <3>3, PersistKeeps DEF Keeps
    <3> QED BY <3>2, <3>4, StopTimerKeeps
  <2>4. CASE ~(rt.now.trusted /\ ~rt.now.pending)
    <3>1. rt' \in {StopTimer(Halted(rt)), StopTimer(Persist(Halted(rt)))}
      BY <1>3, <2>4 DEF RecoverPage
    <3> QED BY <2>1, <2>2, <3>1, StopTimerKeeps
  <2> QED BY <2>3, <2>4
<1>4. CASE InjectFailure(mode)
  <2> DEFINE st == [rt.now EXCEPT !.mode = mode]
  <2>1. SoundState(st) /\ st.last = rt.now.last
    BY DEF Sound, SoundState, SoundOrders, States
  <2>2. rt' = Persist(Put(rt, st))
    BY <1>4 DEF InjectFailure
  <2> HIDE DEF st
  <2>3. Sound(Put(rt, st)) /\ Put(rt, st).now.last = rt.now.last
    BY <2>1, PutKeeps
  <2> QED BY <2>2, <2>3, PersistKeeps DEF Keeps
<1>5. CASE Damage
  BY <1>5 DEF Damage, Sound, PageRecords
<1> QED BY <1>1, <1>2, <1>3, <1>4, <1>5

(* The timer stops, and what was kept stays kept.                          *)
LEMMA StopTimerFields ==
  ASSUME NEW s \in PageRecords
  PROVE  /\ StopTimer(s).now = s.now /\ StopTimer(s).saved = s.saved
         /\ Stored(s) => Stored(StopTimer(s))
         /\ Waiting(s) => Waiting(StopTimer(s))
<1>1. StopTimer(s).now = s.now /\ StopTimer(s).saved = s.saved
  BY DEF StopTimer, PageRecords
<1> HIDE DEF StopTimer
<1> QED BY <1>1 DEF Stored, Waiting

(* A state object is put and kept.                                         *)
LEMMA KeepAdvances ==
  ASSUME NEW s \in PageRecords, NEW st \in States
  PROVE  /\ Persist(Put(s, st)) \in PageRecords
         /\ Stored(Persist(Put(s, st)))
         /\ Persist(Put(s, st)).now.orders = st.orders
         /\ Persist(Put(s, st)).now.last = st.last
         /\ Waits(st) => Waiting(Persist(Put(s, st)))
<1> DEFINE put == Put(s, st)
           t == Persist(put)
<1>1. put \in PageRecords /\ put.now = st
  BY DEF Put, PageRecords
<1> HIDE DEF put
<1>2. /\ t \in PageRecords /\ t.saved = t.now /\ t.now.orders = st.orders /\ t.now.last = st.last
      /\ t.now.pending = st.pending /\ t.now.halted = st.halted /\ t.now.running = st.running
  BY <1>1, PersistFields
<1> HIDE DEF t
<1>3. t.now \in States /\ (Waits(st) => Waits(t.now))
  BY <1>2, UnsettledOrders DEF PageRecords, Waits
<1> QED BY <1>2, <1>3, JustKept DEF t, put

(* The operator's buttons change no order, and no wait ends by them.       *)
LEMMA ButtonAdvances ==
  ASSUME Sound(rt), Stored(rt), NEW mode \in FailureModes \cup {"NONE"},
         StartPage \/ StopPage \/ RecoverPage \/ InjectFailure(mode) \/ Damage
  PROVE  /\ Stored(rt') /\ rt'.now.orders = rt.now.orders
         /\ Waiting(rt) => Waiting(rt')
<1>0. rt \in PageRecords /\ rt.now \in States
  BY DEF Sound, PageRecords
<1>1. CASE StartPage
  <2> DEFINE configured == Persist(rt)
             st == [configured.now EXCEPT !.running = TRUE]
             running == Put(configured, st)
             next == IF rt.now.position # NoBar THEN "OPEN" ELSE "FLAT"
             moved == Transition(running, next)
             kept == Persist(moved)
  <2>1. /\ configured \in PageRecords /\ configured.saved = configured.now
        /\ configured.now \in States
        /\ configured.now.orders = rt.now.orders /\ configured.now.pending = rt.now.pending
        /\ configured.now.halted = rt.now.halted /\ configured.now.running = rt.now.running
    BY <1>0, PersistFields DEF PageRecords
  <2>2. Waiting(rt) => Waits(configured.now)
    BY <2>1, UnsettledOrders DEF Waiting, Waits
  <2>3. CASE rt.now.halted
    <3>1. rt' = configured
      BY <1>1, <2>3 DEF StartPage
    <3> HIDE DEF configured
    <3> QED BY <2>1, <2>2, <3>1, JustKept
  <2>4. CASE ~rt.now.halted
    <3>1. st \in States /\ st.orders = rt.now.orders
      BY <2>1 DEF States
    <3>2. rt' = [kept EXCEPT !.polling = TRUE]
      BY <1>1, <2>4 DEF StartPage
    <3>3. next \in Lifecycles
      BY DEF Lifecycles
    <3> HIDE DEF st, configured, next
    <3>4. running \in PageRecords /\ running.now = st
      BY <2>1, <3>1 DEF Put, PageRecords
    <3> HIDE DEF running
    <3>5. moved \in PageRecords /\ moved.now.orders = rt.now.orders
      BY <3>1, <3>3, <3>4, TransitionFields
    <3> HIDE DEF moved
    <3>6. kept \in PageRecords /\ kept.saved = kept.now /\ kept.now.orders = rt.now.orders
      BY <3>5, PersistFields
    <3> HIDE DEF kept
    <3>7. /\ rt'.now \in States /\ rt'.saved = rt'.now /\ rt'.now.orders = rt.now.orders
      BY <3>2, <3>6 DEF PageRecords
    <3>8. Waiting(rt) => Waits(rt'.now)
      BY <2>4, <3>7, UnsettledOrders DEF Waiting, Waits
    <3> QED BY <3>7, <3>8, JustKept
  <2> QED BY <2>3, <2>4
<1>2. ASSUME NEW st \in States, st.orders = rt.now.orders, Waiting(rt) => Waits(st),
             rt' \in {Persist(Put(rt, st)), StopTimer(Persist(Put(rt, st)))}
      PROVE  /\ Stored(rt') /\ rt'.now.orders = rt.now.orders
             /\ Waiting(rt) => Waiting(rt')
  <2> DEFINE t == Persist(Put(rt, st))
  <2>1. /\ t \in PageRecords /\ Stored(t) /\ t.now.orders = rt.now.orders
        /\ Waiting(rt) => Waiting(t)
    BY <1>0, <1>2, KeepAdvances
  <2>2. rt' \in {t, StopTimer(t)}
    BY <1>2
  <2> HIDE DEF t
  <2> QED BY <2>1, <2>2, StopTimerFields
<1>3. CASE StopPage
  <2> DEFINE st == [rt.now EXCEPT !.running = FALSE]
  <2>1. /\ st \in States /\ st.orders = rt.now.orders /\ st.pending = rt.now.pending
        /\ st.halted = rt.now.halted /\ ~st.running
    BY <1>0 DEF States
  <2>2. rt' = StopTimer(Persist(Put(rt, st)))
    BY <1>3 DEF StopPage
  <2> HIDE DEF st
  <2>3. Waiting(rt) => Waits(st)
    BY <2>1, UnsettledOrders DEF Waiting, Waits
  <2> QED BY <1>2, <2>1, <2>2, <2>3
<1>4. CASE RecoverPage
  <2> DEFINE st == [rt.now EXCEPT !.running = FALSE, !.halted = TRUE, !.lifecycle = "HALT"]
             re == [rt.now EXCEPT !.running = FALSE, !.halted = FALSE,
                      !.lifecycle = IF rt.now.position # NoBar THEN "OPEN" ELSE "FLAT"]
  <2>1. /\ st \in States /\ st.orders = rt.now.orders /\ st.pending = rt.now.pending
        /\ st.halted /\ ~st.running /\ st.last = rt.now.last
    BY <1>0 DEF States, Lifecycles
  <2>2. re \in States /\ re.orders = rt.now.orders
    BY <1>0 DEF States, Lifecycles
  <2>3. Halted(rt) = Put(rt, st) /\ Resumed = Put(rt, re)
    BY DEF Halted, Resumed
  <2> HIDE DEF st, re
  <2>4. Waiting(rt) => Waits(st)
    BY <2>1, UnsettledOrders DEF Waiting, Waits
  <2>5. CASE ~rt.now.trusted
    <3>1. rt' = StopTimer(Put(rt, st))
      BY <1>4, <2>3, <2>5 DEF RecoverPage
    <3>2. /\ Put(rt, st) \in PageRecords /\ Stored(Put(rt, st)) /\ Put(rt, st).now = st
          /\ Waiting(rt) => Waiting(Put(rt, st))
      BY <1>0, <2>1, <2>4, PutAdvances
    <3> QED BY <2>1, <3>1, <3>2, StopTimerFields
  <2>6. CASE rt.now.trusted /\ rt.now.pending
    <3>1. rt' = StopTimer(Persist(Put(rt, st)))
      BY <1>4, <2>3, <2>6 DEF RecoverPage
    <3> QED BY <1>2, <2>1, <2>4, <3>1
  <2>7. CASE rt.now.trusted /\ ~rt.now.pending
    <3>1. rt' = StopTimer(Persist(Put(rt, re)))
      BY <1>4, <2>3, <2>7 DEF RecoverPage
    <3>2. Waiting(rt) => Waits(re)
      BY <2>2, <2>7, UnsettledOrders DEF Waiting, Waits
    <3> QED BY <1>2, <2>2, <3>1, <3>2
  <2> QED BY <2>5, <2>6, <2>7
<1>5. CASE InjectFailure(mode)
  <2> DEFINE st == [rt.now EXCEPT !.mode = mode]
  <2>1. /\ st \in States /\ st.orders = rt.now.orders /\ st.pending = rt.now.pending
        /\ st.halted = rt.now.halted /\ st.running = rt.now.running
    BY <1>0 DEF States
  <2>2. rt' = Persist(Put(rt, st))
    BY <1>5 DEF InjectFailure
  <2> HIDE DEF st
  <2>3. Waiting(rt) => Waits(st)
    BY <2>1, UnsettledOrders DEF Waiting, Waits
  <2> QED BY <1>2, <2>1, <2>2, <2>3
<1>6. CASE Damage
  <2>1. rt'.now = rt.now /\ rt'.saved = Damaged
    BY <1>0, <1>6 DEF Damage, PageRecords
  <2> QED BY <2>1, Checkpoints DEF Stored, Waiting
<1> QED BY <1>1, <1>3, <1>4, <1>5, <1>6

(* A reset leaves a new page.                                              *)
LEMMA ResetSound ==
  ASSUME Sound(rt), ResetPage
  PROVE  Sound(rt') /\ Stored(rt') /\ Waiting(rt') /\ rt'.now.orders = {}
<1>0. rt \in PageRecords /\ Fresh \in States /\ Fresh.orders = {}
  BY FreshIsSound DEF Sound, SoundState, Fresh
<1>1. Sound(Put(rt, Fresh))
  BY FreshIsSound, PutKeeps
<1>2. Sound(Persist(Put(rt, Fresh)))
  BY <1>1, PersistKeeps DEF Keeps
<1>3. Waits(Fresh)
  BY <1>0 DEF Waits, Unsettled
<1>4. rt' = StopTimer(Persist(Put(rt, Fresh)))
  BY DEF ResetPage
<1> QED BY <1>0, <1>2, <1>3, <1>4, KeepAdvances, StopTimerKeeps, StopTimerFields

(* What a reload finds is sound, or halts the page.                        *)
LEMMA ReloadStep ==
  ASSUME BrowserInv, Reload, UNCHANGED marketVars
  PROVE  /\ BrowserInv' /\ (Forward \/ Anew)
         /\ rt'.now.orders \subseteq rt.now.orders
         /\ Waiting(rt) => Waiting(rt')
<1> USE DEF BrowserInv
<1>1. SoundState(Loaded(rt.saved))
  <2>1. CASE rt.saved = Missing
    BY <2>1, FreshIsSound DEF Loaded
  <2>2. CASE rt.saved = Damaged
    <3>1. Loaded(rt.saved) = [Fresh EXCEPT !.halted = TRUE, !.lifecycle = "HALT", !.trusted = FALSE]
      BY <2>2, Checkpoints DEF Loaded
    <3> QED BY <3>1 DEF SoundState, SoundOrders, Fresh, States, Lifecycles
  <2>3. CASE rt.saved \notin {Missing, Damaged}
    BY <2>3 DEF Loaded, Sound
  <2> QED BY <2>1, <2>2, <2>3
<1>2. Sound(rt')
  <2>1. Sound(StopTimer(rt))
    BY StopTimerKeeps
  <2>2. rt' = Put(StopTimer(rt), Loaded(rt.saved))
    BY DEF Reload
  <2> QED BY <1>1, <2>1, <2>2, PutKeeps
<1>7. rt'.now = Loaded(rt.saved) /\ rt'.saved = rt.saved
  <2>1. StopTimer(rt) \in PageRecords /\ StopTimer(rt).saved = rt.saved
    BY StopTimerKeeps, StopTimerFields DEF Sound
  <2> QED BY <2>1 DEF Reload, Put, PageRecords
<1>8. /\ Stored(rt') /\ (Forward \/ Anew) /\ rt'.now.orders \subseteq rt.now.orders
      /\ (Waiting(rt) => Waiting(rt'))
  <2>0. rt.now.last \in Nat
    <3>1. rt.now.last \in Bars \cup {NoBar}
      BY DEF Sound, PageRecords, States
    <3> QED BY <3>1, BarIsNumber
  <2>1. CASE rt.saved = Missing
    <3>1. rt'.now = Fresh /\ rt'.saved = Missing
      BY <1>7, <2>1 DEF Loaded
    <3>2. rt'.now.orders = {} /\ rt'.now.last = NoBar /\ rt.now.last = NoBar
      BY <2>1, <3>1 DEF Fresh, Stored
    <3>3. Unsettled(rt'.now) = {}
      BY <3>2 DEF Unsettled
    <3> QED BY <2>0, <3>1, <3>2, <3>3, Checkpoints DEF Stored, Waiting, Waits, Forward
  <2>2. CASE rt.saved = Damaged
    <3>1. /\ rt'.now = [Fresh EXCEPT !.halted = TRUE, !.lifecycle = "HALT", !.trusted = FALSE]
          /\ rt'.saved = Damaged
      BY <1>7, <2>2, Checkpoints DEF Loaded
    <3>2. rt'.now.orders = {}
      BY <3>1 DEF Fresh
    <3>3. Unsettled(rt'.now) = {}
      BY <3>2 DEF Unsettled
    <3> QED BY <2>2, <3>1, <3>2, <3>3, Checkpoints DEF Stored, Waiting, Waits, Anew
  <2>3. CASE rt.saved \notin {Missing, Damaged}
    <3>1. rt'.now = rt.saved /\ rt'.saved = rt.saved
      BY <1>7, <2>3 DEF Loaded
    <3>2. rt.saved.last = rt.now.last /\ rt.saved.orders \subseteq rt.now.orders
      BY <2>3 DEF Stored
    <3>3. rt'.now.last = rt.now.last /\ rt'.now.orders \subseteq rt.now.orders
      BY <3>1, <3>2
    <3>4. Forward
      BY <2>0, <3>3 DEF Forward
    <3>5. Stored(rt')
      BY <2>3, <3>1 DEF Stored
    <3>6. Waiting(rt) => Waiting(rt')
      BY <2>3, <3>1 DEF Waiting, Unsettled
    <3> QED BY <3>3, <3>4, <3>5, <3>6
  <2> QED BY <2>1, <2>2, <2>3
<1>3. Idle \in RequestStates
  BY DEF Idle, RequestStates, Answers, NoAnswer
<1>4. SignalTypeOK'
  BY <1>3 DEF SignalTypeOK, Reload, guardVars
<1>5. MarketTypeOK'
  BY DEF MarketTypeOK, marketVars
<1>6. (reloads \in 0 .. MaxReloads /\ damages \in 0 .. MaxDamages)' /\ overlapped' = overlapped
  BY DEF Reload
<1>9. Sound(rt)' /\ Stored(rt)'
  BY <1>2, <1>8
<1> QED BY <1>4, <1>5, <1>6, <1>8, <1>9

(* Every step keeps the invariant and goes on, but for a reset and a       *)
(* reload of a damaged checkpoint.                                         *)
LEMMA BrowserStep ==
  ASSUME BrowserInv, [BrowserNext]_browserVars
  PROVE  BrowserInv' /\ (Forward \/ Anew)
<1>1. rt.now.last \in Nat
  <2>1. rt.now.last \in Bars \cup {NoBar}
    BY DEF BrowserInv, Sound, PageRecords, States
  <2> QED BY <2>1, BarIsNumber
<1>2. ASSUME UNCHANGED runtimeVars
      PROVE  Forward /\ UNCHANGED <<rt, reloads, damages>> /\ overlapped' \in BOOLEAN
  BY <1>1, <1>2 DEF runtimeVars, Forward, BrowserInv
<1>3. CASE MarketNext /\ UNCHANGED <<signalVars, runtimeVars>>
  BY <1>2, <1>3, WorldStep
<1>4. CASE /\ (\E k \in Requests : HandleSignal(k)) \/ (\E i \in Isolates : Restart(i))
           /\ UNCHANGED <<marketVars, runtimeVars>>
  <2>1. SignalNext
    BY <1>4 DEF SignalNext
  <2> QED BY <1>2, <1>4, <2>1, WorldStep
<1>5. ASSUME NEW k \in Calls, RuntimeCall(k), UNCHANGED marketVars
      PROVE  BrowserInv' /\ Forward
  BY <1>5, CallStep
<1>6. ASSUME NEW mode \in FailureModes \cup {"NONE"},
             StartPage \/ StopPage \/ RecoverPage \/ InjectFailure(mode) \/ Damage,
             UNCHANGED marketVars
      PROVE  BrowserInv' /\ Forward
  <2>1. Sound(rt') /\ rt'.now.last = rt.now.last
    BY <1>6, ButtonKeeps DEF BrowserInv
  <2>4. Stored(rt') /\ rt'.now.orders = rt.now.orders
    BY <1>6, ButtonAdvances DEF BrowserInv
  <2>5. Forward
    BY <1>1, <2>1, <2>4 DEF Forward
  <2>2. UNCHANGED <<guardVars, page, req, overlapped, reloads>> /\ damages' \in 0 .. MaxDamages
    BY <1>6 DEF StartPage, StopPage, RecoverPage, InjectFailure, Damage, operatorVars, BrowserInv
  <2>3. SignalTypeOK' /\ MarketTypeOK'
    BY <1>6, <2>2 DEF BrowserInv, SignalTypeOK, MarketTypeOK, guardVars, marketVars
  <2>6. Sound(rt)' /\ Stored(rt)'
    BY <2>1, <2>4
  <2> QED BY <2>2, <2>3, <2>5, <2>6 DEF BrowserInv
<1>7. CASE ResetPage /\ UNCHANGED marketVars
  <2>1. Sound(rt)' /\ Stored(rt)'
    BY <1>7, ResetSound DEF BrowserInv
  <2>2. UNCHANGED <<guardVars, page, req, overlapped, reloads, damages>>
    BY <1>7 DEF ResetPage, operatorVars
  <2>3. SignalTypeOK' /\ MarketTypeOK'
    BY <1>7, <2>2 DEF BrowserInv, SignalTypeOK, MarketTypeOK, guardVars, marketVars
  <2> QED BY <1>7, <2>1, <2>2, <2>3 DEF BrowserInv, Anew
<1>8. CASE Reload /\ UNCHANGED marketVars
  BY <1>8, ReloadStep
<1>9. CASE UNCHANGED browserVars
  BY <1>2, <1>9, WorldStep DEF browserVars
<1>10. ASSUME RuntimeNext, UNCHANGED marketVars
       PROVE  BrowserInv' /\ (Forward \/ Anew)
  <2>1. CASE \E k \in Calls : RuntimeCall(k)
    BY <1>5, <1>10, <2>1
  <2>2. CASE StartPage \/ StopPage \/ RecoverPage \/ Damage
    <3>1. "NONE" \in FailureModes \cup {"NONE"}
      OBVIOUS
    <3> QED BY <1>6, <1>10, <2>2, <3>1
  <2>3. CASE \E mode \in FailureModes : InjectFailure(mode)
    BY <1>6, <1>10, <2>3
  <2>4. CASE ResetPage \/ Reload
    BY <1>7, <1>8, <1>10, <2>4
  <2> QED BY <1>10, <2>1, <2>2, <2>3, <2>4 DEF RuntimeNext
<1> QED BY <1>3, <1>4, <1>9, <1>10 DEF BrowserNext

(* The invariant of the page and of what is behind it.                     *)
THEOREM Invariance == BrowserSpec => []BrowserInv
<1>1. BrowserInit => BrowserInv
  <2> SUFFICES ASSUME BrowserInit PROVE BrowserInv
    OBVIOUS
  <2>1. MarketTypeOK /\ SignalTypeOK
    BY WebTypesAtStart DEF BrowserInit, WebTypeOK
  <2>2. Sound(rt) /\ Stored(rt)
    BY FreshIsSound, Checkpoints
    DEF BrowserInit, RuntimeInit, Sound, PageRecords, SoundState, Stored, Fresh
  <2>3. overlapped = FALSE /\ reloads = 0 /\ damages = 0
    BY DEF BrowserInit, RuntimeInit
  <2>4. reloads \in 0 .. MaxReloads /\ damages \in 0 .. MaxDamages
    BY <2>3, RuntimeAssumption
  <2>5. overlapped \in BOOLEAN
    BY <2>3
  <2> QED BY <2>1, <2>2, <2>4, <2>5 DEF BrowserInv
<1>2. BrowserInv /\ [BrowserNext]_browserVars => BrowserInv'
  BY BrowserStep
<1> QED BY <1>1, <1>2, PTL DEF BrowserSpec

(* Calls that do not overlap: one at a time, and none once an order waits  *)
(* for its outcome.                                                        *)
OneCall ==
  /\ Waiting(rt)
  /\ \A j, k \in Calls : req[j].pc # "idle" /\ req[k].pc # "idle" => j = k
  /\ Unsettled(rt.now) # {} => \A k \in Calls : req[k].pc = "idle"

WaitInv == overlapped \/ OneCall

(* A handler does not end a call, and begins none.                         *)
LEMMA CallsStay ==
  ASSUME SignalTypeOK,
         (\E k \in Requests : HandleSignal(k)) \/ (\E i \in Isolates : Restart(i))
  PROVE  \A c \in Calls : req'[c].pc = "idle" <=> req[c].pc = "idle"
<1> SUFFICES ASSUME NEW c \in Calls PROVE req'[c].pc = "idle" <=> req[c].pc = "idle"
  OBVIOUS
<1>0. \A k \in Requests : \A kind, b : Answered(req[k], kind, b).pc = "answered"
  BY DEF Answered, RequestStates, SignalTypeOK
<1>1. c \in Requests /\ req \in [Requests -> RequestStates]
  BY DEF Requests, SignalTypeOK
<1>2. ASSUME NEW k \in Requests, NEW r, req' = [req EXCEPT ![k] = r],
             req[k].pc # "idle", r.pc # "idle"
      PROVE  req'[c].pc = "idle" <=> req[c].pc = "idle"
  BY <1>1, <1>2
<1>3. ASSUME NEW k \in Requests, HandleSignal(k)
      PROVE  req'[c].pc = "idle" <=> req[c].pc = "idle"
  <2>1. CASE RejectFeed(k)
    BY <1>0, <1>2, <2>1 DEF RejectFeed
  <2>2. CASE AcceptBar(k)
    BY <1>0, <1>2, <2>2 DEF AcceptBar
  <2>3. ASSUME NEW i \in Isolates, NoUpdate(k, i)
        PROVE  req'[c].pc = "idle" <=> req[c].pc = "idle"
    BY <1>0, <1>2, <2>3 DEF NoUpdate
  <2>4. ASSUME NEW i \in Isolates, Evaluate(k, i)
        PROVE  req'[c].pc = "idle" <=> req[c].pc = "idle"
    <3> DEFINE r == [req[k] EXCEPT !.pc = "evaluating", !.isolate = i, !.base = cursor[i]]
    <3>1. req' = [req EXCEPT ![k] = r] /\ req[k].pc = "read"
      BY <2>4 DEF Evaluate
    <3>2. r.pc # "idle"
      BY <1>1 DEF RequestStates
    <3> HIDE DEF r
    <3> QED BY <1>2, <3>1, <3>2
  <2> QED BY <1>3, <2>1, <2>2, <2>3, <2>4 DEF HandleSignal
<1>4. ASSUME NEW i \in Isolates, Restart(i)
      PROVE  req'[c].pc = "idle" <=> req[c].pc = "idle"
  <2>1. CASE req[c].pc = "evaluating" /\ req[c].isolate = i
    <3>1. req'[c] = Answered(req[c], "error", NoBar)
      BY <1>1, <1>4, <2>1 DEF Restart
    <3> QED BY <1>0, <1>1, <2>1, <3>1
  <2>2. CASE ~(req[c].pc = "evaluating" /\ req[c].isolate = i)
    BY <1>1, <1>4, <2>2 DEF Restart
  <2> QED BY <2>1, <2>2
<1> QED BY <1>3, <1>4

(* A call ends: no other was under way.                                    *)
LEMMA CallLeaves ==
  ASSUME SignalTypeOK, OneCall, NEW k \in Calls, req[k].pc # "idle",
         req' = [req EXCEPT ![k] = Idle], Waiting(rt')
  PROVE  OneCall'
<1>1. Calls \subseteq Requests /\ req \in [Requests -> RequestStates] /\ Idle.pc = "idle"
  BY DEF Requests, SignalTypeOK, Idle
<1>2. \A c \in Calls : req'[c].pc = "idle"
  BY <1>1 DEF OneCall
<1>3. Waiting(rt)'
  OBVIOUS
<1> QED BY <1>2, <1>3 DEF OneCall

(* Every step keeps an order waiting, until calls overlap.                 *)
LEMMA WaitStep ==
  ASSUME BrowserInv, WaitInv, [BrowserNext]_browserVars
  PROVE  WaitInv'
<1>0. CASE overlapped
  <2>1. overlapped'
    BY <1>0 DEF BrowserNext, browserVars, runtimeVars, RuntimeNext, RuntimeCall, BeginCall,
                FeedFails, RepeatedBar, ProcessBar, StartPage, StopPage, RecoverPage,
                ResetPage, Reload, Damage, InjectFailure, operatorVars
  <2> QED BY <2>1 DEF WaitInv
<1>1. CASE ~overlapped
  <2>0. OneCall /\ Sound(rt) /\ Stored(rt) /\ SignalTypeOK /\ rt \in PageRecords
    BY <1>1 DEF WaitInv, BrowserInv, Sound
  <2>1. ASSUME UNCHANGED rt, \A c \in Calls : req'[c].pc = "idle" <=> req[c].pc = "idle"
        PROVE  WaitInv'
    BY <2>0, <2>1 DEF WaitInv, OneCall
  <2>2. CASE MarketNext /\ UNCHANGED <<signalVars, runtimeVars>>
    BY <2>1, <2>2 DEF signalVars, runtimeVars
  <2>3. CASE /\ (\E k \in Requests : HandleSignal(k)) \/ (\E i \in Isolates : Restart(i))
             /\ UNCHANGED <<marketVars, runtimeVars>>
    BY <2>0, <2>1, <2>3, CallsStay DEF runtimeVars
  <2>4. CASE UNCHANGED browserVars
    BY <2>1, <2>4 DEF browserVars, webVars, signalVars, runtimeVars
  <2>5. ASSUME NEW k \in Calls, BeginCall(k) PROVE WaitInv'
    <3>1. rt' = rt /\ (overlapped' \/ UnderWay = {})
      BY <2>5 DEF BeginCall
    <3>2. \A c \in Calls \ {k} : req'[c] = req[c]
      BY <2>0, <2>5 DEF BeginCall, ReadSnapshot, SignalTypeOK, Requests
    <3>3. Unsettled(rt.now) = {}
      BY <2>0, <2>5 DEF BeginCall, OneCall, Waiting, Waits
    <3>4. UnderWay = {} => \A c \in Calls : req[c].pc = "idle"
      BY DEF UnderWay
    <3>5. UnderWay = {} => OneCall'
      BY <2>0, <3>1, <3>2, <3>3, <3>4 DEF OneCall
    <3> QED BY <3>1, <3>5 DEF WaitInv
  <2>6. ASSUME NEW k \in Calls,
               \/ FeedFails(k) \/ RepeatedBar(k)
               \/ \E action \in Actions, exits \in BOOLEAN : ProcessBar(k, action, exits)
        PROVE  WaitInv'
    <3>1. req[k].pc # "idle" /\ req' = [req EXCEPT ![k] = Idle]
      BY <2>6 DEF FeedFails, RepeatedBar, ProcessBar
    <3>2. Settled(rt)
      BY <2>0, <3>1 DEF OneCall, Settled
    <3>3. Waiting(Halt(rt))
      BY <2>0, <3>2, HaltAdvances DEF Settled
    <3>4. Waiting(Persist(rt))
      <4>1. /\ Persist(rt) \in PageRecords /\ Persist(rt).saved = Persist(rt).now
            /\ Persist(rt).now.orders = rt.now.orders
        BY <2>0, PersistFields
      <4>2. Persist(rt).now \in States
        BY <4>1 DEF PageRecords
      <4>3. Waits(Persist(rt).now)
        BY <3>2, <4>1, UnsettledOrders DEF Settled, Waits
      <4> QED BY <4>1, <4>2, <4>3, JustKept
    <3>5. ASSUME NEW action \in Actions, NEW exits \in BOOLEAN, ProcessBar(k, action, exits)
          PROVE  Waiting(rt')
      <4> DEFINE b == req[k].answer.bar
      <4>1. b \in Bars /\ rt' = Process(rt, b, action, exits)
        BY <3>5, NewBar DEF ProcessBar, Requests
      <4> HIDE DEF b
      <4>2. Advances(rt, rt', b)
        BY <2>0, <4>1, ProcessAdvances
      <4> QED BY <3>2, <4>2 DEF Advances
    <3>6. Waiting(rt')
      BY <2>6, <3>3, <3>4, <3>5 DEF FeedFails, RepeatedBar
    <3> QED BY <2>0, <3>1, <3>6, CallLeaves DEF WaitInv
  <2>7. ASSUME NEW mode \in FailureModes \cup {"NONE"},
               StartPage \/ StopPage \/ RecoverPage \/ InjectFailure(mode) \/ Damage
        PROVE  WaitInv'
    <3>1. rt'.now.orders = rt.now.orders /\ (Waiting(rt) => Waiting(rt'))
      BY <2>0, <2>7, ButtonAdvances
    <3>2. req' = req
      BY <2>7 DEF StartPage, StopPage, RecoverPage, InjectFailure, Damage, operatorVars
    <3>3. Unsettled(rt'.now) = Unsettled(rt.now)
      BY <3>1, UnsettledOrders
    <3> QED BY <2>0, <3>1, <3>2, <3>3 DEF WaitInv, OneCall, Waiting, Waits
  <2>8. CASE ResetPage
    <3>1. Waiting(rt') /\ rt'.now.orders = {} /\ req' = req
      BY <2>0, <2>8, ResetSound DEF ResetPage, operatorVars
    <3>2. Unsettled(rt'.now) = {}
      BY <3>1 DEF Unsettled
    <3> QED BY <2>0, <3>1, <3>2 DEF WaitInv, OneCall, Waiting, Waits
  <2>9. CASE Reload /\ UNCHANGED marketVars
    <3>1. Waiting(rt')
      BY <2>0, <2>9, ReloadStep DEF OneCall
    <3>2. \A c \in Calls : req'[c].pc = "idle"
      BY <2>9 DEF Reload, Idle, Requests
    <3>3. Waiting(rt)'
      BY <3>1
    <3> QED BY <3>2, <3>3 DEF WaitInv, OneCall
  <2>10. CASE RuntimeNext /\ UNCHANGED marketVars
    <3>1. CASE \E k \in Calls : RuntimeCall(k)
      BY <2>5, <2>6, <3>1 DEF RuntimeCall
    <3>2. CASE StartPage \/ StopPage \/ RecoverPage \/ Damage
      <4>1. "NONE" \in FailureModes \cup {"NONE"}
        OBVIOUS
      <4> QED BY <2>7, <3>2, <4>1
    <3>3. CASE \E mode \in FailureModes : InjectFailure(mode)
      BY <2>7, <3>3
    <3>4. CASE ResetPage \/ Reload
      BY <2>8, <2>9, <2>10, <3>4
    <3> QED BY <2>10, <3>1, <3>2, <3>3, <3>4 DEF RuntimeNext
  <2> QED BY <2>2, <2>3, <2>4, <2>10 DEF BrowserNext
<1> QED BY <1>0, <1>1

(* As long as no two calls have overlapped, an order without a known       *)
(* outcome is pending and keeps the page halted, through starts, stops,    *)
(* recoveries and reloads, and every checkpoint that can be read has it    *)
(* (Webaria/paper-runtime.js, createOrder, recover and load).              *)
THEOREM UnknownOrderKeepsHalted == BrowserSpec => []UnknownOrderHalts
<1>1. BrowserInit => WaitInv
  <2> SUFFICES ASSUME BrowserInit PROVE OneCall
    BY DEF WaitInv
  <2>1. rt.now.orders = {} /\ rt.saved = Missing
    BY DEF BrowserInit, RuntimeInit, Fresh
  <2>2. \A k \in Calls : req[k].pc = "idle"
    BY DEF BrowserInit, WebInit, SignalInit, Idle, Requests
  <2>3. Unsettled(rt.now) = {}
    BY <2>1 DEF Unsettled
  <2> QED BY <2>1, <2>2, <2>3 DEF OneCall, Waiting, Waits
<1>2. BrowserInv /\ WaitInv /\ [BrowserNext]_browserVars => WaitInv'
  BY WaitStep
<1>3. WaitInv => UnknownOrderHalts
  <2> SUFFICES ASSUME OneCall, NEW o \in Unsettled(rt.now)
               PROVE  /\ rt.now.pending /\ rt.now.halted /\ ~rt.now.running
                      /\ rt.saved # Damaged => rt.saved # Missing /\ o \in rt.saved.orders
    BY DEF WaitInv, UnknownOrderHalts
  <2> QED BY DEF OneCall, Waiting, Waits
<1> QED BY <1>1, <1>2, <1>3, Invariance, PTL DEF BrowserSpec

(* The records of the page are well formed whatever was stored, a bar has  *)
(* one order of a kind, and a position goes back to a fill                 *)
(* (Webaria/paper-runtime.js, createOrder and openPosition).               *)
THEOREM PageOrdersAreSound == BrowserSpec => []OrdersAreSound
<1>1. BrowserInv => OrdersAreSound
  BY DEF BrowserInv, Sound, PageRecords, SoundState, SoundOrders, OrdersAreSound, RuntimeTypeOK,
         OneOrderPerBar, PositionWasFilled
<1> QED BY <1>1, Invariance, PTL

(* No call goes behind the last bar that was processed to its end, and no  *)
(* order is made for it or an older one, but for a reset and the reload of *)
(* a damaged checkpoint (Webaria/paper-runtime.js, processCandle).         *)
THEOREM PageProcessesInOrder == BrowserSpec => BarsInOrder
<1>1. BrowserInv /\ [BrowserNext]_browserVars
      => [/\ rt'.now.last >= rt.now.last \/ ResetPage \/ (Reload /\ rt.saved = Damaged)
          /\ \A o \in rt'.now.orders \ rt.now.orders : o.bar > rt.now.last]_browserVars
  <2> SUFFICES ASSUME BrowserInv, [BrowserNext]_browserVars
               PROVE  /\ rt'.now.last >= rt.now.last \/ ResetPage \/ (Reload /\ rt.saved = Damaged)
                      /\ \A o \in rt'.now.orders \ rt.now.orders : o.bar > rt.now.last
    OBVIOUS
  <2>1. CASE Forward
    BY <2>1 DEF Forward
  <2>2. CASE ResetPage
    BY <2>2, ResetSound DEF BrowserInv
  <2>3. CASE Reload /\ rt.saved = Damaged
    <3>1. rt'.now.orders \subseteq rt.now.orders
      <4>1. rt'.now.orders = {}
        <5>1. StopTimer(rt) \in PageRecords
          BY StopTimerKeeps DEF Sound, BrowserInv
        <5>2. rt'.now = [Fresh EXCEPT !.halted = TRUE, !.lifecycle = "HALT", !.trusted = FALSE]
          BY <2>3, <5>1, Checkpoints DEF Reload, Put, PageRecords, Loaded
        <5> QED BY <5>2 DEF Fresh
      <4> QED BY <4>1
    <3> QED BY <2>3, <3>1
  <2> QED BY <2>1, <2>2, <2>3, BrowserStep DEF Anew
<1> QED BY <1>1, Invariance, PTL DEF BrowserSpec, BarsInOrder

=============================================================================
