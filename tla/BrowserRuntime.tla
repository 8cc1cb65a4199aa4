---------------------------- MODULE BrowserRuntime ----------------------------
(***************************************************************************)
(* The paper runtime page (Webaria/paper-runtime.js) as a client of        *)
(* /api/signal: its state, the checkpoint it keeps in localStorage, and    *)
(* its calls of processCandle, each of which awaits the feed and then runs *)
(* to its end.  The operator starts, stops, recovers and resets it,        *)
(* injects failures and reloads the page.                                  *)
(*                                                                         *)
(* Prices decide only whether an open position is exited; the account's    *)
(* figures are left out.  An order is its kind and bar, which make its     *)
(* client order id, and its status.                                        *)
(***************************************************************************)
EXTENDS WebSignal

CONSTANTS
  Actions,       \* what a signal may say: "WAIT", "ENTER", "UNSIZED"
  FailureModes,  \* FAILURES the operator injects
  MaxReloads,    \* bound: reloads of the page
  MaxDamages     \* bound: damages to the checkpoint in localStorage

ASSUME RuntimeAssumption ==
  /\ Actions \subseteq {"WAIT", "ENTER", "UNSIZED"}
  /\ FailureModes \subseteq {"NONE", "REJECT", "PARTIAL_FILL", "TIMEOUT_AFTER_ACCEPT",
                             "DISCONNECT_BEFORE_SUBMIT", "DISAPPEAR_POSITION"}
  /\ MaxReloads \in Nat
  /\ MaxDamages \in Nat

VARIABLES
  rt,          \* the state object, the checkpoint it last wrote, and the timer
  overlapped,  \* history variable: a call has begun while another was under way
  reloads, damages

runtimeVars == <<rt, overlapped, reloads, damages>>

Lifecycles == {"FLAT", "SIGNAL", "APPROVED", "SUBMITTING", "ACKNOWLEDGED", "OPEN",
               "EXIT_PENDING", "CLOSED", "UNKNOWN", "HALT"}

Orders == [kind : {"entry", "exit"}, bar : Bars,
           status : {"FILLED", "REJECTED", "PARTIALLY_FILLED", "UNKNOWN"}]

States == [running : BOOLEAN, halted : BOOLEAN, lifecycle : Lifecycles,
           position : Bars \cup {NoBar}, pending : BOOLEAN, trusted : BOOLEAN,
           last : Bars \cup {NoBar}, mode : FailureModes \cup {"NONE"},
           orders : SUBSET Orders]

(* freshState. *)
Fresh == [running |-> FALSE, halted |-> FALSE, lifecycle |-> "FLAT", position |-> NoBar,
          pending |-> FALSE, trusted |-> TRUE, last |-> NoBar, mode |-> "NONE", orders |-> {}]

Missing == [checkpoint |-> "missing"]
Damaged == [checkpoint |-> "damaged"]

RuntimeInit ==
  /\ rt = [now |-> Fresh, saved |-> Missing, polling |-> FALSE]
  /\ overlapped = FALSE
  /\ reloads = 0
  /\ damages = 0

-----------------------------------------------------------------------------
(* Helpers: each takes and returns the state with its checkpoint.          *)

Put(s, now) == [s EXCEPT !.now = now]

StopTimer(s) == [s EXCEPT !.polling = FALSE]

Persist(s) == LET kept == [s.now EXCEPT !.trusted = TRUE]
              IN [s EXCEPT !.now = kept, !.saved = kept]

Halted(s) == Put(s, [s.now EXCEPT !.running = FALSE, !.halted = TRUE, !.lifecycle = "HALT"])

Halt(s) == StopTimer(Persist(Halted(s)))

Allowed == [FLAT |-> {"SIGNAL", "HALT"},
            SIGNAL |-> {"APPROVED", "FLAT", "HALT"},
            APPROVED |-> {"SUBMITTING", "FLAT", "HALT"},
            SUBMITTING |-> {"ACKNOWLEDGED", "UNKNOWN", "FLAT", "HALT"},
            ACKNOWLEDGED |-> {"OPEN", "UNKNOWN", "HALT"},
            OPEN |-> {"EXIT_PENDING", "HALT"},
            EXIT_PENDING |-> {"CLOSED", "OPEN", "UNKNOWN", "HALT"},
            CLOSED |-> {"FLAT", "SIGNAL", "HALT"},
            UNKNOWN |-> {"OPEN", "FLAT", "HALT"},
            HALT |-> {"HALT"}]

(* transition: a lifecycle that may not follow halts; the callers go on.   *)
Transition(s, next) ==
  IF next = s.now.lifecycle THEN s
  ELSE IF next \in Allowed[s.now.lifecycle] THEN Put(s, [s.now EXCEPT !.lifecycle = next])
  ELSE Halt(s)

(* The status an injected failure gives to a new order. *)
StatusOf(mode) ==
  CASE mode = "REJECT" -> "REJECTED"
    [] mode = "PARTIAL_FILL" -> "PARTIALLY_FILLED"
    [] mode \in {"TIMEOUT_AFTER_ACCEPT", "DISCONNECT_BEFORE_SUBMIT"} -> "UNKNOWN"
    [] OTHER -> "FILLED"

(* Fault: an order is always a new one. *)
NeverKnown(s, kind, b) == FALSE

KnownOrder(s, kind, b) == \E o \in s.now.orders : o.kind = kind /\ o.bar = b

IsFilled(s, kind, b) == [kind |-> kind, bar |-> b, status |-> "FILLED"] \in s.now.orders

(* createOrder: an order with this client order id is used again; an       *)
(* unknown or partial outcome stays pending and halts.                     *)
CreateOrder(s, kind, b) ==
  LET status == StatusOf(s.now.mode)
      placed == Put(s, [s.now EXCEPT !.orders = @ \cup {[kind |-> kind, bar |-> b,
                                                         status |-> status]}])
      waits == Put(placed, [placed.now EXCEPT !.pending = TRUE])
  IN IF KnownOrder(s, kind, b) THEN s
     ELSE IF status = "UNKNOWN" THEN Halt(Transition(waits, "UNKNOWN"))
     ELSE IF status = "PARTIALLY_FILLED" THEN Halt(waits)
     ELSE placed

(* openPosition. *)
OpenPosition(s, b) ==
  LET submitted == CreateOrder(Transition(Transition(s, "APPROVED"), "SUBMITTING"), "entry", b)
      known == Transition(submitted, "ACKNOWLEDGED")
  IN IF IsFilled(submitted, "entry", b)
     THEN Transition(Put(known, [known.now EXCEPT !.position = b, !.pending = FALSE]), "OPEN")
     ELSE submitted

(* closePosition: EXIT_PENDING may not be followed by SUBMITTING, so the   *)
(* runtime has halted when the exit order is created, and keeps the        *)
(* position.                                                               *)
ClosePosition(s, b) ==
  LET submitted == CreateOrder(Transition(Transition(s, "EXIT_PENDING"), "SUBMITTING"), "exit", b)
      closed == Put(submitted, [submitted.now EXCEPT !.position = NoBar, !.pending = FALSE])
      known == Transition(Transition(Transition(closed, "ACKNOWLEDGED"), "CLOSED"), "FLAT")
  IN IF IsFilled(submitted, "exit", b) /\ ~submitted.now.halted THEN known ELSE submitted

Processed(s, b) == Persist(Put(s, [s.now EXCEPT !.last = b]))

(* A signal for a flat account. *)
TakeSignal(s, b, action) ==
  LET signalled == Transition(s, "SIGNAL")
  IN Processed(IF action = "WAIT" THEN s
               ELSE IF action = "UNSIZED" THEN signalled
               ELSE OpenPosition(signalled, b), b)

(* The rest of processCandle for a bar that is new, with what the signal   *)
(* says and whether the bar reaches the stop or the target: the signal of  *)
(* the bar that closed a position may open the next one.                   *)
Process(s, b, action, exits) ==
  LET held == s.now.position # NoBar
      closing == ClosePosition(s, b)
  IN IF held /\ s.now.mode = "DISAPPEAR_POSITION" THEN Halt(s)
     ELSE IF held /\ ~exits THEN Processed(s, b)
     ELSE IF held /\ closing.now.position # NoBar THEN closing
     ELSE TakeSignal(IF held THEN closing ELSE s, b, action)

-----------------------------------------------------------------------------
(* The calls of processCandle.                                             *)

UnderWay == {k \in Calls : req[k].pc # "idle"}

(* start and the timer call processCandle, which asks whether the page     *)
(* runs; nothing asks again when the answer has come, and no call waits    *)
(* for the one before.                                                     *)
BeginCall(k) ==
  /\ rt.polling
  /\ rt.now.running /\ ~rt.now.halted
  /\ ReadSnapshot(k)
  /\ overlapped' = (overlapped \/ UnderWay # {})
  /\ UNCHANGED <<rt, reloads, damages>>

(* getFeed throws: an error, or an answer without candles. *)
FeedFails(k) ==
  /\ req[k].pc = "answered"
  /\ req[k].answer.kind # "signal"
  /\ rt' = Halt(rt)
  /\ req' = [req EXCEPT ![k] = Idle]
  /\ UNCHANGED <<guardVars, page, overlapped, reloads, damages>>

(* Fault: a bar that is not newer is processed again. *)
AlwaysNewer(b) == TRUE

Newer(b) == b > rt.now.last

(* The bar is the last one again, or older than it, which halts. *)
RepeatedBar(k) ==
  /\ req[k].pc = "answered"
  /\ req[k].answer.kind = "signal"
  /\ ~Newer(req[k].answer.bar)
  /\ rt' = IF req[k].answer.bar = rt.now.last THEN Persist(rt) ELSE Halt(rt)
  /\ req' = [req EXCEPT ![k] = Idle]
  /\ UNCHANGED <<guardVars, page, overlapped, reloads, damages>>

ProcessBar(k, action, exits) ==
  /\ req[k].pc = "answered"
  /\ req[k].answer.kind = "signal"
  /\ Newer(req[k].answer.bar)
  /\ rt' = Process(rt, req[k].answer.bar, action, exits)
  /\ req' = [req EXCEPT ![k] = Idle]
  /\ UNCHANGED <<guardVars, page, overlapped, reloads, damages>>

-----------------------------------------------------------------------------
(* The operator.                                                           *)

operatorVars == <<guardVars, page, req, overlapped>>

(* The Start button: configureFromDom persists before start looks whether  *)
(* the runtime has halted.                                                 *)
StartPage ==
  /\ LET configured == Persist(rt)
         running == Put(configured, [configured.now EXCEPT !.running = TRUE])
         next == IF rt.now.position # NoBar THEN "OPEN" ELSE "FLAT"
     IN rt' = IF rt.now.halted THEN configured
              ELSE [Persist(Transition(running, next)) EXCEPT !.polling = TRUE]
  /\ UNCHANGED <<operatorVars, reloads, damages>>

StopPage ==
  /\ rt' = StopTimer(Persist(Put(rt, [rt.now EXCEPT !.running = FALSE])))
  /\ UNCHANGED <<operatorVars, reloads, damages>>

Resumed == Put(rt, [rt.now EXCEPT !.running = FALSE, !.halted = FALSE,
                      !.lifecycle = IF rt.now.position # NoBar THEN "OPEN" ELSE "FLAT"])

(* Fault: recover does not look at the pending order. *)
RecoverBlind ==
  /\ rt' = StopTimer(IF rt.now.trusted THEN Persist(Resumed) ELSE Halted(rt))
  /\ UNCHANGED <<operatorVars, reloads, damages>>

(* recover: refused for an untrusted checkpoint and a pending order. *)
RecoverPage ==
  /\ rt' = StopTimer(IF ~rt.now.trusted THEN Halted(rt)
                     ELSE IF rt.now.pending THEN Persist(Halted(rt))
                     ELSE Persist(Resumed))
  /\ UNCHANGED <<operatorVars, reloads, damages>>

InjectFailure(mode) ==
  /\ rt' = Persist(Put(rt, [rt.now EXCEPT !.mode = mode]))
  /\ UNCHANGED <<operatorVars, reloads, damages>>

(* reset, which an open position or a pending order blocks. *)
ResetPage ==
  /\ rt.now.position = NoBar /\ ~rt.now.pending
  /\ rt' = StopTimer(Persist(Put(rt, Fresh)))
  /\ UNCHANGED <<operatorVars, reloads, damages>>

(* load: a checkpoint it cannot use halts. *)
Loaded(saved) ==
  IF saved = Missing THEN Fresh
  ELSE IF saved = Damaged
       THEN [Fresh EXCEPT !.halted = TRUE, !.lifecycle = "HALT", !.trusted = FALSE]
  ELSE saved

(* The page is loaded again: its calls in flight have no receiver any      *)
(* more, and what their handlers still do has been done before.            *)
Reload ==
  /\ reloads < MaxReloads
  /\ reloads' = reloads + 1
  /\ rt' = Put(StopTimer(rt), Loaded(rt.saved))
  /\ req' = [k \in Requests |-> IF k \in Calls THEN Idle ELSE req[k]]
  /\ UNCHANGED <<guardVars, page, overlapped, damages>>

Damage ==
  /\ rt.saved \notin {Missing, Damaged}
  /\ damages < MaxDamages
  /\ damages' = damages + 1
  /\ rt' = [rt EXCEPT !.saved = Damaged]
  /\ UNCHANGED <<operatorVars, reloads>>

-----------------------------------------------------------------------------

RuntimeCall(k) ==
  \/ BeginCall(k)
  \/ FeedFails(k) \/ RepeatedBar(k)
  \/ \E action \in Actions, exits \in BOOLEAN : ProcessBar(k, action, exits)

RuntimeNext ==
  \/ \E k \in Calls : RuntimeCall(k)
  \/ StartPage \/ StopPage \/ RecoverPage \/ ResetPage \/ Reload \/ Damage
  \/ \E mode \in FailureModes : InjectFailure(mode)

BrowserInit == WebInit /\ RuntimeInit

browserVars == <<webVars, runtimeVars>>

BrowserNext ==
  \/ MarketNext /\ UNCHANGED <<signalVars, runtimeVars>>
  \/ ((\E k \in Requests : HandleSignal(k)) \/ (\E i \in Isolates : Restart(i)))
     /\ UNCHANGED <<marketVars, runtimeVars>>
  \/ RuntimeNext /\ UNCHANGED marketVars

BrowserSpec == BrowserInit /\ [][BrowserNext]_browserVars

-----------------------------------------------------------------------------

RuntimeTypeOK ==
  /\ rt \in [now : States, saved : States \cup {Missing, Damaged}, polling : BOOLEAN]
  /\ overlapped \in BOOLEAN
  /\ reloads \in 0 .. MaxReloads
  /\ damages \in 0 .. MaxDamages

(* The orders of a state object that have no known outcome. *)
Unsettled(st) == {o \in st.orders : o.status \in {"UNKNOWN", "PARTIALLY_FILLED"}}

(* As long as no two calls have overlapped, an order without a known       *)
(* outcome is pending and keeps the page halted, through starts, stops,    *)
(* recoveries and reloads, and a checkpoint that can be read has it too.   *)
(* (An overlapping call that fills forgets what is pending, and a damaged  *)
(* checkpoint forgets the order: recover and start then go on.)            *)
UnknownOrderHalts ==
  ~overlapped =>
    \A o \in Unsettled(rt.now) :
      /\ rt.now.pending /\ rt.now.halted /\ ~rt.now.running
      /\ rt.saved # Damaged => rt.saved # Missing /\ o \in rt.saved.orders

(* No call goes behind the last bar that was processed to its end: calls   *)
(* that overlap, an isolate that starts again, a store that goes back and  *)
(* a reload take that bar never back, and no order is made for it or an    *)
(* older one.  Only a reset, or a reload that finds its checkpoint         *)
(* damaged, begins anew.  (A bar is not processed once only: one whose     *)
(* exit halts is processed again after recover and start.)                 *)
BarsInOrder ==
  [][/\ rt'.now.last >= rt.now.last \/ ResetPage \/ (Reload /\ rt.saved = Damaged)
     /\ \A o \in rt'.now.orders \ rt.now.orders : o.bar > rt.now.last]_browserVars

(* The orders of one bar and kind, which share a client order id, have one *)
(* status, also when a halted exit is recovered and the bar is processed   *)
(* again.  (Orders are a set: a repeated order of equal status is the same *)
(* member.)                                                                *)
OneOrderPerBar ==
  \A o1, o2 \in rt.now.orders : o1.kind = o2.kind /\ o1.bar = o2.bar => o1 = o2

(* An open position goes back to an entry order that was filled.           *)
PositionWasFilled ==
  rt.now.position # NoBar
  => [kind |-> "entry", bar |-> rt.now.position, status |-> "FILLED"] \in rt.now.orders

(* The records of the page are well formed whatever was stored and however  *)
(* its calls overlap, the orders of a bar and kind do not contradict each   *)
(* other, and a position goes back to a fill.                              *)
OrdersAreSound == RuntimeTypeOK /\ OneOrderPerBar /\ PositionWasFilled
=============================================================================
