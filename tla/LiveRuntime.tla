---------------------------- MODULE LiveRuntime -----------------------------
(***************************************************************************)
(* The live execution core: the processes that run LiveRuntime             *)
(* (live/live_runtime.py) around ForexLiveOrchestrator (live/runner.py),   *)
(* the journal file they share (ExecutionJournal), the MT5 terminal they   *)
(* send orders to through MT5LiveExecutor (live/mt5_executor.py), and the  *)
(* operator.                                                               *)
(*                                                                         *)
(* A process is down, in its preflight, waiting between two cycles, or in  *)
(* a cycle over the configured symbols.  Within a cycle one symbol at a    *)
(* time may produce a candidate order, which is reserved in the journal,   *)
(* marked as submitted, checked, handed to the broker, and whose answer is *)
(* recorded.  Each of these is a step: the other processes, the broker,    *)
(* the operator, a crash or a failing journal can come in between.         *)
(***************************************************************************)
EXTENDS ExecutionJournal, Naturals, FiniteSets

CONSTANTS
  Procs,           \* runtime processes that share one journal file
  Symbols,         \* configured symbols
  MaxBar,          \* bound: number of completed bars of a behaviour
  Quotes,          \* bid/ask pairs a cycle can read while a bar is current
  Accounts,        \* broker accounts the terminal can be logged into
  Currencies,      \* currencies of the symbols
  Legs,            \* Legs[s]: base and quote currency of symbol s
  MaxOpen,         \* ForexRiskLimits.max_open_positions
  MaxPerCurrency,  \* ForexRiskLimits.max_positions_per_currency
  Mode,            \* the execution mode of the runtimes
  MaxStops,        \* bound: crashes and exceptions that end a process
  MaxSwitches,     \* bound: logins of the terminal to another account
  NoAccount,       \* _bound_account_identity is None
  NoIntent         \* no intent in flight

Bars == 1 .. MaxBar

(* The payload that build_intent hashes: the entry price is the current    *)
(* quote; direction, stop, target and lot follow from the bar, the quote   *)
(* and the account.                                                        *)
Intent == [symbol : Symbols, bar : Bars, quote : Quotes]

ASSUME IntentsAssumption == Intents = Intent
ASSUME BoundsAssumption == /\ MaxBar \in Nat \ {0}
                           /\ MaxOpen \in Nat \ {0}
                           /\ MaxPerCurrency \in Nat \ {0}
                           /\ MaxStops \in Nat
                           /\ MaxSwitches \in Nat
ASSUME LegsAssumption == Legs \in [Symbols -> SUBSET Currencies]
ASSUME ModeAssumption == Mode \in {"DEMO", "LIVE"}
ASSUME NullsAssumption == NoAccount \notin Accounts /\ NoIntent \notin Intents

-----------------------------------------------------------------------------

VARIABLES
  \* the operator, the market and the terminal
  control,   \* the state in bot_control.json
  bar,       \* the latest completed bar
  account,   \* the account the terminal is logged into
  fills,     \* executed orders, as the broker's history keeps them
  open,      \* the fills whose position is still open
  \* the processes
  pc,        \* where a process is
  found,     \* unresolved intents its preflight has still to look at
  bound,     \* the account its preflight bound
  seen,      \* _last_processed_bar_time
  todo,      \* symbols its cycle has not evaluated yet
  active,    \* symbols with an open position when its cycle began
  cur,       \* the intent it is executing
  answer,    \* the result of send_market_order, not yet recorded
  \* bounds and history
  stops,     \* processes that crashed or died so far
  switches,  \* account switches so far
  sent       \* how often the order of an intent was handed to the broker

marketVars == <<control, bar, account, switches>>
brokerVars == <<fills, open, sent>>
procVars   == <<pc, found, bound, seen, todo, active, cur, answer>>
vars       == <<journal, marketVars, brokerVars, procVars, stops>>

Fill == [intent : Intents, account : Accounts]

Phases == {"down", "reconcile", "idle", "cycle", "candidate", "reserved",
           "submitted", "checked", "answered"}

Executed == {f.intent : f \in fills}

(* Symbols get_open_positions reports for account a. *)
OpenSymbols(a) == {f.intent.symbol : f \in {g \in open : g.account = a}}

-----------------------------------------------------------------------------

Init ==
  /\ JournalInit
  /\ control = "STOP"
  /\ bar = 1
  /\ account \in Accounts
  /\ fills = {}
  /\ open = {}
  /\ pc = [p \in Procs |-> "down"]
  /\ found = [p \in Procs |-> {}]
  /\ bound = [p \in Procs |-> NoAccount]
  /\ seen = [p \in Procs |-> [s \in Symbols |-> 0]]
  /\ todo = [p \in Procs |-> {}]
  /\ active = [p \in Procs |-> {}]
  /\ cur = [p \in Procs |-> NoIntent]
  /\ answer = [p \in Procs |-> "NONE"]
  /\ stops = 0
  /\ switches = 0
  /\ sent = [i \in Intents |-> 0]

(* Process p ends: everything it holds in memory is lost. *)
GoDown(p) ==
  /\ pc' = [pc EXCEPT ![p] = "down"]
  /\ found' = [found EXCEPT ![p] = {}]
  /\ bound' = [bound EXCEPT ![p] = NoAccount]
  /\ seen' = [seen EXCEPT ![p] = [s \in Symbols |-> 0]]
  /\ todo' = [todo EXCEPT ![p] = {}]
  /\ active' = [active EXCEPT ![p] = {}]
  /\ cur' = [cur EXCEPT ![p] = NoIntent]
  /\ answer' = [answer EXCEPT ![p] = "NONE"]

(* The terminal is logged into the account that preflight bound: the check  *)
(* of the executor before an order, and of the runtime before a cycle.      *)
OnBoundAccount(p) == account = bound[p]

Goto(p, from, to) ==
  /\ pc[p] = from
  /\ pc' = [pc EXCEPT ![p] = to]

(* process_symbol returns to the loop over the symbols. *)
BackToCycle(p) ==
  /\ pc' = [pc EXCEPT ![p] = "cycle"]
  /\ cur' = [cur EXCEPT ![p] = NoIntent]
  /\ answer' = [answer EXCEPT ![p] = "NONE"]
  /\ UNCHANGED <<found, bound, seen, todo, active>>

-----------------------------------------------------------------------------
(* Startup: LiveRuntime.preflight.                                         *)

(* The comment on the order of intent i is "Aria-<mode>-<id>", the token   *)
(* the reconciliation looks for "Aria-<id>".  `token in comment` holds only *)
(* when nothing stands between "Aria-" and the id of the token.            *)
OrderComment(i) == [label |-> Mode, id |-> i]
Token(i) == [label |-> "", id |-> i]
CommentMatches(comment, token) == comment = token

(* find_execution_evidence: records of the connected account that carry    *)
(* the token of i.  Symbol, direction and volume are those of the intent.  *)
Evidence(i) ==
  {f \in fills : /\ f.account = account
                 /\ CommentMatches(OrderComment(f.intent), Token(i))}

(* is_unambiguous_execution: the evidence collapses to one execution. *)
Unambiguous(evidence) == \E f \in evidence : evidence = {f}

Start(p) ==
  /\ Goto(p, "down", "reconcile")
  /\ found' = [found EXCEPT ![p] = Unresolved]
  /\ UNCHANGED <<journal, marketVars, brokerVars, stops,
                 bound, seen, todo, active, cur, answer>>

(* _reconcile_unresolved, one record: it becomes SUCCEEDED on unambiguous  *)
(* evidence, stays as it is without, and a journal that refuses ends the   *)
(* preflight.                                                              *)
ReconcileOne(p, i) ==
  /\ pc[p] = "reconcile"
  /\ i \in found[p]
  /\ IF Unambiguous(Evidence(i)) /\ ~CanTransition(i, "SUCCEEDED", TRUE)
     THEN GoDown(p) /\ UNCHANGED journal
     ELSE /\ found' = [found EXCEPT ![p] = @ \ {i}]
          /\ IF Unambiguous(Evidence(i))
             THEN Transition(i, "SUCCEEDED", TRUE)
             ELSE UNCHANGED journal
          /\ UNCHANGED <<pc, bound, seen, todo, active, cur, answer>>
  /\ UNCHANGED <<marketVars, brokerVars, stops>>

(* The rest of preflight: refuse to start while an intent is unresolved,   *)
(* else bind the connected account.                                        *)
Bind(p) ==
  /\ pc[p] = "reconcile"
  /\ found[p] = {}
  /\ IF Unresolved # {}
     THEN GoDown(p)
     ELSE /\ pc' = [pc EXCEPT ![p] = "idle"]
          /\ bound' = [bound EXCEPT ![p] = account]
          /\ UNCHANGED <<found, seen, todo, active, cur, answer>>
  /\ UNCHANGED <<journal, marketVars, brokerVars, stops>>

-----------------------------------------------------------------------------
(* A cycle: run_forever, process_once and process_symbol.                  *)

(* Faults of a cycle: it begins without asking the control plane; without   *)
(* the open positions; it retries a skipped symbol forever.                *)
BeginCycleUncontrolled(p) ==
  /\ Goto(p, "idle", "cycle")
  /\ OnBoundAccount(p)
  /\ active' = [active EXCEPT ![p] = OpenSymbols(account)]
  /\ todo' = [todo EXCEPT ![p] = Symbols]
  /\ UNCHANGED <<journal, marketVars, brokerVars, stops,
                 found, bound, seen, cur, answer>>

BeginCycleBlind(p) ==
  /\ Goto(p, "idle", "cycle")
  /\ control = "RUN"
  /\ todo' = [todo EXCEPT ![p] = Symbols]
  /\ UNCHANGED <<journal, marketVars, brokerVars, stops,
                 found, bound, seen, active, cur, answer>>

SkipSymbolRetries(p, s) ==
  /\ pc[p] = "cycle"
  /\ s \in todo[p]
  /\ UNCHANGED vars

(* With the control plane at RUN, process_once verifies the account and    *)
(* reads the open positions, once for all symbols of the cycle.            *)
BeginCycle(p) ==
  /\ pc[p] = "idle"
  /\ control = "RUN"
  /\ IF ~OnBoundAccount(p)
     THEN GoDown(p)
     ELSE /\ pc' = [pc EXCEPT ![p] = "cycle"]
          /\ active' = [active EXCEPT ![p] = OpenSymbols(account)]
          /\ todo' = [todo EXCEPT ![p] = Symbols]
          /\ UNCHANGED <<found, bound, seen, cur, answer>>
  /\ UNCHANGED <<journal, marketVars, brokerVars, stops>>

EndCycle(p) ==
  /\ Goto(p, "cycle", "idle")
  /\ todo[p] = {}
  /\ active' = [active EXCEPT ![p] = {}]
  /\ UNCHANGED <<journal, marketVars, brokerVars, stops,
                 found, bound, seen, todo, cur, answer>>

(* Nothing happens to symbol s: too few bars, a bar that is not newer than *)
(* the last processed one, or a spread above the limit.                    *)
SkipSymbol(p, s) ==
  /\ pc[p] = "cycle"
  /\ s \in todo[p]
  /\ todo' = [todo EXCEPT ![p] = @ \ {s}]
  /\ UNCHANGED <<journal, marketVars, brokerVars, stops,
                 pc, found, bound, seen, active, cur, answer>>

(* The new bar gives no order: no safe signal, or a gate or the risk       *)
(* evaluation rejects it.                                                  *)
RejectSymbol(p, s) ==
  /\ pc[p] = "cycle"
  /\ s \in todo[p]
  /\ seen[p][s] < bar
  /\ todo' = [todo EXCEPT ![p] = @ \ {s}]
  /\ seen' = [seen EXCEPT ![p][s] = bar]
  /\ UNCHANGED <<journal, marketVars, brokerVars, stops,
                 pc, found, bound, active, cur, answer>>

(* evaluate_forex_risk, the part that depends on the open positions: they  *)
(* are those the cycle read when it began.                                 *)
RiskAllows(s, held) ==
  /\ s \notin held
  /\ Cardinality(held) < MaxOpen
  /\ \A c \in Legs[s] : Cardinality({h \in held : c \in Legs[h]}) < MaxPerCurrency

(* Fault: the bar is not marked as processed. *)
CandidateUnmarked(p, s, q) ==
  /\ Goto(p, "cycle", "candidate")
  /\ s \in todo[p]
  /\ seen[p][s] < bar
  /\ RiskAllows(s, active[p])
  /\ todo' = [todo EXCEPT ![p] = @ \ {s}]
  /\ cur' = [cur EXCEPT ![p] = [symbol |-> s, bar |-> bar, quote |-> q]]
  /\ UNCHANGED <<journal, marketVars, brokerVars, stops,
                 found, bound, seen, active, answer>>

(* A safe signal that every gate lets through: the bar is marked as        *)
(* processed before the execution begins.                                  *)
Candidate(p, s, q) ==
  /\ Goto(p, "cycle", "candidate")
  /\ s \in todo[p]
  /\ seen[p][s] < bar
  /\ RiskAllows(s, active[p])
  /\ todo' = [todo EXCEPT ![p] = @ \ {s}]
  /\ seen' = [seen EXCEPT ![p][s] = bar]
  /\ cur' = [cur EXCEPT ![p] = [symbol |-> s, bar |-> bar, quote |-> q]]
  /\ UNCHANGED <<journal, marketVars, brokerVars, stops, found, bound, active, answer>>

(* journal.reserve answers. *)
ReserveIntent(p) ==
  /\ pc[p] = "candidate"
  /\ IF CanReserve(cur[p])
     THEN /\ Reserve(cur[p])
          /\ pc' = [pc EXCEPT ![p] = "reserved"]
          /\ UNCHANGED <<found, bound, seen, todo, active, cur, answer>>
     ELSE BackToCycle(p) /\ UNCHANGED journal
  /\ UNCHANGED <<marketVars, brokerVars, stops>>

(* journal.reserve raises: execution is blocked, the cycle goes on. *)
ReserveRaises(p) ==
  /\ pc[p] = "candidate"
  /\ Raises(Reserve(cur[p]))
  /\ BackToCycle(p)
  /\ UNCHANGED <<marketVars, brokerVars, stops>>

(* Fault: the order goes out on the reservation alone. *)
MarkSubmittedNever(p) ==
  /\ Goto(p, "reserved", "submitted")
  /\ UNCHANGED <<journal, marketVars, brokerVars, stops,
                 found, bound, seen, todo, active, cur, answer>>

MarkSubmitted(p) ==
  /\ Goto(p, "reserved", "submitted")
  /\ Transition(cur[p], "SUBMITTED", FALSE)
  /\ UNCHANGED <<marketVars, brokerVars, stops,
                 found, bound, seen, todo, active, cur, answer>>

(* The transition to SUBMITTED raises: the handler of process_symbol       *)
(* treats the outcome as ambiguous and does not send.                      *)
MarkSubmittedRaises(p) ==
  /\ Goto(p, "reserved", "answered")
  /\ Raises(Transition(cur[p], "SUBMITTED", FALSE))
  /\ answer' = [answer EXCEPT ![p] = "RAISED"]
  /\ UNCHANGED <<marketVars, brokerVars, stops,
                 found, bound, seen, todo, active, cur>>

(* send_market_order up to order_send: the terminal is still logged into   *)
(* the bound account and every local validation and order_check passes.    *)
CheckOrder(p) ==
  /\ Goto(p, "submitted", "checked")
  /\ OnBoundAccount(p)
  /\ UNCHANGED <<journal, marketVars, brokerVars, stops,
                 found, bound, seen, todo, active, cur, answer>>

(* ... or one of them fails, and the order never leaves the process. *)
RefuseOrder(p) ==
  /\ Goto(p, "submitted", "answered")
  /\ answer' \in {[answer EXCEPT ![p] = "REJECTED"], [answer EXCEPT ![p] = "RAISED"]}
  /\ UNCHANGED <<journal, marketVars, brokerVars, stops,
                 found, bound, seen, todo, active, cur>>

(* order_send: the broker executes the order on the account the terminal   *)
(* is logged into and says so, rejects it and says so, or does either and  *)
(* the result is lost or unusable, which send_market_order raises.         *)
OrderSend(p) ==
  /\ Goto(p, "checked", "answered")
  /\ sent' = [sent EXCEPT ![cur[p]] = @ + 1]
  /\ \E executes \in BOOLEAN, a \in {"DONE", "REJECTED", "RAISED"} :
       /\ a = "DONE" => executes
       /\ a = "REJECTED" => ~executes
       /\ answer' = [answer EXCEPT ![p] = a]
       /\ LET new == IF executes THEN {[intent |-> cur[p], account |-> account]} ELSE {}
          IN  fills' = fills \cup new /\ open' = open \cup new
  /\ UNCHANGED <<journal, marketVars, stops, found, bound, seen, todo, active, cur>>

(* Fault: an exception is taken for a rejection. *)
VerdictOfException(a) == IF a = "DONE" THEN "SUCCEEDED" ELSE "FAILED"

Verdict(a) ==
  IF a = "DONE" THEN "SUCCEEDED" ELSE IF a = "REJECTED" THEN "FAILED" ELSE "AMBIGUOUS"

(* The answer is recorded.  A journal that refuses raises out of           *)
(* process_symbol, and the runtime stops.                                  *)
RecordAnswer(p) ==
  /\ pc[p] = "answered"
  /\ IF CanTransition(cur[p], Verdict(answer[p]), FALSE)
     THEN Transition(cur[p], Verdict(answer[p]), FALSE) /\ BackToCycle(p)
     ELSE GoDown(p) /\ UNCHANGED journal
  /\ UNCHANGED <<marketVars, brokerVars, stops>>

(* So does a journal that cannot be written. *)
RecordAnswerRaises(p) ==
  /\ pc[p] = "answered"
  /\ stops < MaxStops
  /\ stops' = stops + 1
  /\ Raises(Transition(cur[p], Verdict(answer[p]), FALSE))
  /\ GoDown(p)
  /\ UNCHANGED <<marketVars, brokerVars>>

(* The process crashes, is killed, or an exception ends run_forever: stale *)
(* market data, an unreadable control file, a tripped circuit breaker, an  *)
(* unavailable account.                                                    *)
Stop(p) ==
  /\ pc[p] # "down"
  /\ stops < MaxStops
  /\ stops' = stops + 1
  /\ GoDown(p)
  /\ UNCHANGED <<journal, marketVars, brokerVars>>

-----------------------------------------------------------------------------
(* The world around the processes.                                         *)

NewBar ==
  /\ bar < MaxBar
  /\ bar' = bar + 1
  /\ UNCHANGED <<journal, control, account, switches, brokerVars, procVars, stops>>

(* The broker closes a position at its stop or target. *)
ClosePosition(f) ==
  /\ f \in open
  /\ open' = open \ {f}
  /\ UNCHANGED <<journal, marketVars, fills, sent, procVars, stops>>

SetControl(state) ==
  /\ control # state
  /\ control' = state
  /\ UNCHANGED <<journal, bar, account, switches, brokerVars, procVars, stops>>

SwitchAccount(a) ==
  /\ a # account
  /\ switches < MaxSwitches
  /\ switches' = switches + 1
  /\ account' = a
  /\ UNCHANGED <<journal, control, bar, brokerVars, procVars, stops>>

-----------------------------------------------------------------------------

(* The steps process p takes by itself. *)
Step(p) ==
  \/ \E i \in Intents : ReconcileOne(p, i)
  \/ Bind(p)
  \/ BeginCycle(p)
  \/ EndCycle(p)
  \/ \E s \in Symbols : SkipSymbol(p, s) \/ RejectSymbol(p, s)
  \/ \E s \in Symbols, q \in Quotes : Candidate(p, s, q)
  \/ ReserveIntent(p)
  \/ ReserveRaises(p)
  \/ MarkSubmitted(p)
  \/ MarkSubmittedRaises(p)
  \/ CheckOrder(p)
  \/ RefuseOrder(p)
  \/ OrderSend(p)
  \/ RecordAnswer(p)

Environment ==
  \/ NewBar
  \/ \E f \in Fill : ClosePosition(f)
  \/ \E state \in {"RUN", "STOP"} : SetControl(state)
  \/ \E a \in Accounts : SwitchAccount(a)

Next ==
  \/ \E p \in Procs : Step(p) \/ Start(p) \/ RecordAnswerRaises(p) \/ Stop(p)
  \/ Environment

Spec == Init /\ [][Next]_vars

(* A running process keeps executing; nothing makes an operator start one. *)
LiveSpec == Spec /\ \A p \in Procs : WF_vars(Step(p))

-----------------------------------------------------------------------------
(* Properties.                                                             *)

TypeOK ==
  /\ JournalTypeOK
  /\ control \in {"RUN", "STOP"}
  /\ bar \in Bars
  /\ account \in Accounts
  /\ fills \in SUBSET Fill
  /\ open \in SUBSET fills
  /\ pc \in [Procs -> Phases]
  /\ found \in [Procs -> SUBSET Intents]
  /\ bound \in [Procs -> Accounts \cup {NoAccount}]
  /\ seen \in [Procs -> [Symbols -> 0 .. MaxBar]]
  /\ todo \in [Procs -> SUBSET Symbols]
  /\ active \in [Procs -> SUBSET Symbols]
  /\ cur \in [Procs -> Intents \cup {NoIntent}]
  /\ answer \in [Procs -> {"NONE", "DONE", "REJECTED", "RAISED"}]
  /\ stops \in 0 .. MaxStops
  /\ switches \in 0 .. MaxSwitches
  /\ sent \in [Intents -> Nat]

(* The order of an intent reaches the broker at most once, whichever       *)
(* process builds the intent again, after whichever crash or lost answer.  *)
SentAtMostOnce == \A i \in Intents : sent[i] <= 1

(* A record says SUCCEEDED only when the broker executed that very order,  *)
(* also when another process or a restarted one wrote it.                  *)
SucceededWasExecuted == \A i \in Intents : journal[i] = "SUCCEEDED" => i \in Executed

(* An executed order is never without an accountable record: at every      *)
(* instant, so after a crash at any point, its record is SUBMITTED,        *)
(* AMBIGUOUS or SUCCEEDED, and never absent, RESERVED or FAILED.           *)
ExecutedIsAccounted ==
  \A i \in Intents :
    i \in Executed => journal[i] \in {"SUBMITTED", "AMBIGUOUS", "SUCCEEDED"}

(* The journal agrees with the broker at every instant: at most one record  *)
(* waits for its outcome, a success is the execution of that very order,   *)
(* and an executed order has a record that accounts for it.                *)
JournalAgrees == AtMostOneUnresolved /\ SucceededWasExecuted /\ ExecutedIsAccounted

(* While the outcome of one intent is unknown no other order is sent, by   *)
(* any process: an order goes out only as the one unresolved record.       *)
NoSendWhileUnresolved ==
  [][\A i \in Intents :
       sent'[i] # sent[i] => journal[i] = "SUBMITTED" /\ Unresolved = {i}]_vars

(* One process never holds two positions of a symbol on an account, though *)
(* it reads the positions once per cycle and loses all memory in a crash.  *)
OnePositionPerSymbol ==
  \A f, g \in open :
    f.account = g.account /\ f.intent.symbol = g.intent.symbol => f = g

(* A completed bar of a symbol gives at most one order, however the quote  *)
(* moves between the cycles that see this bar.                             *)
OneOrderPerBar ==
  \A i, j \in Intents :
    /\ sent[i] > 0 /\ sent[j] > 0
    /\ i.symbol = j.symbol /\ i.bar = j.bar
    => i = j

(* The same as long as no process has died: what the process remembers of  *)
(* a bar protects it in every later cycle.                                 *)
OneOrderPerBarInOneLife == stops = 0 => OneOrderPerBar

(* A preflight that finds an unresolved intent whose order the broker      *)
(* executed finds the evidence for it.  A run refutes this: the comment of *)
(* the runner carries the mode, the token of the reconciliation does not.  *)
FillsAreEvidence ==
  \A p \in Procs, f \in fills :
    pc[p] = "reconcile" /\ f.intent \in found[p] /\ f.account = account
    => Unambiguous(Evidence(f.intent))

(* An outcome that nobody knows ends the trading of every process on the   *)
(* journal for good: no restart, reconciliation or late answer settles the *)
(* record, and no other order is sent beside it.                           *)
AmbiguousEndsTrading ==
  [][\A i \in Intents :
       journal[i] = "AMBIGUOUS" => journal'[i] = "AMBIGUOUS" /\ sent' = sent]_vars

(* A cycle always ends: every symbol is evaluated, or the process stops.   *)
CycleEnds == \A p \in Procs : pc[p] = "cycle" ~> pc[p] \in {"idle", "down"}

(* Once the operator leaves the control plane stopped, every process comes *)
(* to rest and starts no execution again, whatever the market does.        *)
StopQuiesces ==
  <>[](control = "STOP") => <>[](\A p \in Procs : pc[p] \in {"down", "reconcile", "idle"})

(* The execution boundary keeps its contract: the right to trade is a      *)
(* record that waits for its outcome.                                      *)
Contract == INSTANCE ExecutionContract WITH
  claimed  <- Unresolved,
  spent    <- {i \in Intents : journal[i] # None},
  sent     <- {i \in Intents : sent[i] > 0},
  executed <- Executed,
  reported <- {i \in Intents : journal[i] = "SUCCEEDED"}

KeepsContract == Contract!ContractSpec

-----------------------------------------------------------------------------
(* The inductive invariant behind these properties.                        *)

InFlight == {"reserved", "submitted", "checked", "answered"}

(* What the phase of process p says about the record of its intent. *)
PhaseInv(p) ==
  /\ pc[p] \in {"candidate"} \cup InFlight => cur[p] \in Intents
  /\ pc[p] = "reserved" => journal[cur[p]] = "RESERVED"
  /\ pc[p] \in {"submitted", "checked"} =>
       journal[cur[p]] = "SUBMITTED" /\ sent[cur[p]] = 0
  /\ pc[p] = "answered" =>
       /\ answer[p] # "NONE"
       /\ journal[cur[p]] \in {"RESERVED", "SUBMITTED", "SUCCEEDED"}
       /\ journal[cur[p]] = "RESERVED" => answer[p] = "RAISED"
       /\ answer[p] = "DONE" => cur[p] \in Executed
       /\ answer[p] = "REJECTED" => cur[p] \notin Executed

(* Two processes never execute the same intent. *)
DistinctIntents ==
  \A p, q \in Procs :
    p # q /\ pc[p] \in InFlight /\ pc[q] \in InFlight => cur[p] # cur[q]

(* An unsubmitted intent was not sent, and what was executed was sent. *)
SendInv ==
  \A i \in Intents :
    /\ journal[i] \in {None, "RESERVED"} => sent[i] = 0
    /\ i \in Executed => sent[i] = 1

RecordInv ==
  /\ AtMostOneUnresolved
  /\ SentAtMostOnce
  /\ SucceededWasExecuted
  /\ ExecutedIsAccounted
  /\ SendInv

IInv ==
  /\ TypeOK
  /\ RecordInv
  /\ DistinctIntents
  /\ \A p \in Procs : PhaseInv(p)

=============================================================================
