# TLA+ models of Ariatrading

Ariatrading is a Forex trading system in Python with a JavaScript web front end. It evaluates
completed candles, and either simulates orders (the paper stack under `strategy/`) or sends
them to a MetaTrader 5 terminal (`live/`). What it must get right is less the signal than the
bookkeeping around an order: an order is sent at most once, what the broker did is never
lost, a restart continues from a state that agrees with both, a stop is obeyed, and every
program that computes the signal computes the same one. These modules model the system, TLC
checks them on small instances, and TLAPS proves most of the properties for all instances.

`PROJECT.json` lists the components, the runs, the mutated definitions each property is
tested with, the source lines of every definition, the findings, the hazards with the
properties that address them, and the theorems.

## 1. The system

| Part | State | Operations | What makes it correct |
|---|---|---|---|
| Execution journal (`live/execution_guard.py`) | one JSON file: intent id -> record | `reserve`, `transition`, `recoverable_intents`, `get`, each under a cross-process lock | one unresolved intent at a time; an outcome agrees with the broker |
| Orchestrator and live runtime (`live/runner.py`, `live/live_runtime.py`) | last processed bar per symbol and bound account, in memory | `preflight`, `process_once`, `process_symbol`, `run_forever` | at most one order per intent and per bar; starts only with a clean journal; a cycle ends |
| MT5 executor, reconciliation (`live/mt5_executor.py`, `live/broker_reconciliation.py`) | bound identity | `send_market_order`, evidence for one intent | an unusable answer is raised; an execution has to be found (the reconciliation finds none of the runner's) |
| Control plane, circuit breaker (`live/control_plane.py`, `live/live_runtime.py`) | one JSON file each | `read`, `set`; `check` | a stop reaches every process; a loss of the day ends trading |
| Forex risk (`strategy/forex_risk.py`) | none | size and limits of one order | the order fits its budget |
| Paper runtime engine (`strategy/paper_runtime_engine.py`, `paper_accounting.py`) | engine object, checkpoint, hash-chained history | `start`, `stop`, `process_bar`, `recover`, `set_failure_mode` | a bar is processed once, an entry is never repeated, damage and pending orders halt; the account adds up |
| Paper order stack (`strategy/order_state.py`, `execution_recovery.py`, `execution_audit.py`, `adapters/paper_broker.py`, `paper_trading_loop.py`, `paper_runtime.py`) | orders, checkpoint, audit chain, simulated broker | `start`, `tick`, `run_entry`, `close_position` | every order has one identity, an audit event and one broker order; ambiguity halts |
| Realtime monitor, session, bot (`strategy/realtime*.py`, `paper_session.py`, `scripts/run_bot.py`) | last evaluated bar, pending signal, position, journal | `evaluate_once`, `process_once`, the paper loop | a signal acts once, on a later bar; the session trades like the backtest where both decide the same |
| Research (`strategy/backtest.py`, `walk_forward.py`, `ml_*walk_forward.py`, `deep_learning*.py`, `realtime_replay.py`, `parity_certification.py`) | none: recorded bars in, results out | backtest, windows with and without a trained filter, labels, the certificate of parity | nothing computed for a bar depends on a later one |
| Portfolio risk, sizing, trade guard (`strategy/portfolio_risk.py`, `risk_engine.py`, `trade_guard.py`, `trade_plan.py`) | losses, peaks, streaks | `update_equity`, `record_closed_trade`, `evaluate_risk` | limits hold over any order of reports |
| Strategy (`strategy/engine.py`, `levels_v2.py`, `sequence.py`, `two_setups.py`, ...; `worker/signal_parity*.js`; `Webaria/functions`) | none | setups over candles | no look-ahead; the copies agree |
| Market bridges and store (`live/mt5_market_bridge.py`, `mt5/AriatradingBridge.mq5`, `worker/mt5_market.js`) | the latest payload | push, ingest, snapshot | a forming bar is not replaced by an older one |
| Worker signal path, pages (`worker/realtime_feed_guard.js`, `Webaria/live-market.js`, `Webaria/paper-runtime.js`) | last bar per isolate; page state and localStorage | `/api/signal`, polls, buttons, reload | a bar is evaluated once; a page shows one snapshot; an order of unknown outcome halts |

`run_forever` reads the control file, then `process_once` reads account, positions and candles
and calls `process_symbol` for each symbol, which writes the journal before and after it calls
the executor. Several processes may run on the same files. In the paper stack `run_bot.py`
drives one `PaperRuntimeEngine` per symbol with the bars of the monitor;
`run_paper_runtime.py` drives the order stack behind the kill switch. The bridges push
candles to a Durable Object; the worker's isolates answer `/api/signal` from it; pages poll
both and run a paper runtime of their own in the browser.

The hard behaviours are crashes between two writes; answers that never come back; several
processes on one file; state read before an await and used after it; requests that overlap;
deliveries that are lost or reordered; files that must agree; calls in an order nobody tested.

## 2. The modules

| Module | Models |
|---|---|
| `ExecutionJournal` | the journal file, one action per operation |
| `LiveRuntime` (extends it) | processes, operator, market and terminal around the journal |
| `ExecutionContract` | the abstract promise of the execution boundary |
| `LiveGates` | control file and circuit breaker, read and replaced by several processes |
| `ForexRisk`, `LiveSizing` | the size of a live order as operators; what the size has to be |
| `PaperRuntimeEngine` | the paper engine with its checkpoint and history, write by write |
| `PaperAccount` | the money of that engine |
| `PortfolioRisk`, `RiskDesk` | kill switch and sizing as operators; an account that trades behind them |
| `OrderLifecycle` | states, transitions and restorable records of a paper order |
| `PaperTradingRuntime` (extends it) | the paper order stack between checkpoint, audit journal and broker |
| `PaperTradeContract` | the abstract promise of the paper account |
| `TradeSimulation` | risk plan, exits with and without costs, outcome labels, the backtest |
| `RealtimeMonitor` (extends it) | the feed of closed bars and the guard's cursor |
| `PaperSession`, `PaperBot` | the research session and the bot's paper loop on the monitor |
| `Research` | samples, windows, filters and labels over recorded bars |
| `PaperPrograms` | session, bot and research, one of them in a process |
| `PriceAction`, `WebStrategy`, `StrategyBars` | the two setups, the web copies of them, and all of them while candles close |
| `MarketStore` | bridges, deliveries and the Durable Object |
| `WebSignal` (extends it) | isolates, `/api/signal` requests and the market page |
| `BrowserRuntime` (extends it) | the paper runtime page |
| `LiveRuntimeProofs`, `LiveGatesProofs`, `PaperRuntimeEngineProofs`, `PaperTradingRuntimeProofs`, `RiskDeskProofs`, `PaperProgramsProofs`, `StrategyProofs`, `WebProofs` (market store, isolates and both pages) | the theorems about a module |
| `MC*` | constants, histories, grids and symmetry for TLC |

A definition under a comment `Fault:` is a plausible mistake in the definition it stands next to.
No specification uses it; replacing the definition by it must break a property.

### LiveRuntime

`journal[i]` is the `state` field of the record of intent `i`, or `NONE`. The lock and the
atomic replacement make an operation one step. `Raises(op)` is an operation that raises:
the file may or may not have been replaced, because the commit of the lock transaction comes
after `os.replace`. An intent is what `build_intent` hashes: symbol, bar and the current quote
(the entry price); direction, stop, target and lot follow from them. `pc[p]` is the place of
process `p`:

| pc | code |
|---|---|
| `down` | no process |
| `reconcile` | `preflight`, `_reconcile_unresolved` over `recoverable_intents` |
| `idle` | `run_forever` between two cycles |
| `cycle` | the loop of `process_once`, between two symbols |
| `candidate` | `process_symbol` has built the intent |
| `reserved`, `submitted`, `checked` | after `reserve`, after SUBMITTED, after the validations and `order_check` |
| `answered` | `send_market_order` returned or raised; the outcome is not recorded yet |

Every arrow between two of these is an action, so a crash (`Stop`), the other process, the
broker, the operator or an account switch can come in between. The strategy's decision, the
spread, the gates and the broker's choice are nondeterministic. `OrderSend` covers what
`order_send` can do: execute and say so, reject and say so, or do either while the result is
`None` or unusable, which raises. A rejection that was returned is taken as final, as the code
takes it, also for retcodes that only say "placed" or "timeout".

The comment of an order is `Aria-{mode}-{id}` (`OrderComment`), the token the reconciliation looks
for `Aria-{id}` (`Token`); a comment is a record of the mode and the id, and one matches the token
only if it has no mode. So a brokerMatch never happens, and an intent whose answer was lost can only
become AMBIGUOUS.

`ExecutionContract` has five sets and three actions: an intent claims the right to trade once
in its life and only when no other holds it, its order goes to the broker at most once while it
holds it, and it settles with a verdict that agrees with the broker.

### LiveGates

`BeginSet` is `set` up to the temporary file, `EndSet` the replacement; `TakeSnapshot`,
`LoadBaseline` and `SaveBaseline` are the account and clock a `check` starts with, the read of the
baseline and its replacement. `mixed` and `crossed` remember whether two of these overlapped,
`late` counts the cycles a process traded after a state other than RUN was set. `ForexRisk`
computes in tenths of a cent, hundredths of a lot and thirds of a point with the code's
roundings; `LiveSizing` defines the order that fits without computing it, and `MCLiveGates`
compares the two over a grid.

### PaperRuntimeEngine and PaperAccount

`mem` is the engine object, `disk` the checkpoint, `hist` the history file, `pc` the next file
write of the running operation. A write succeeds, fails (`SaveFails`, `AppendFails`) or is cut
off by a crash; an append can leave a broken line (`torn`), which `verify` rejects. `Retries`
says whether the owner may go on using an engine whose recovery failed: `run_bot.py` does not,
the message of `start()` ("recover before start") suggests it. One run has both owners, and the
history variable `retried` remembers that the owner went on. Amounts are in `PaperAccount`,
which has no failures but the comparison of bar times as texts (`TextRank`) and as instants.

### RiskDesk

The account trades with the sizes of `evaluate_risk` and the verdict of the kill switch, while
reports, weeks, resets and restarts come in any order. It enters only when every closed trade is
reported, which is the discipline the code leaves to the caller.

### PaperTradingRuntime

Four parties keep the same facts: `mem` (the runtime with its loop's orders and position),
`disk` (the checkpoint), `audit` and `chain` (the latest event of each order, and whether the
file verifies), and `broker`. `pc` is the place in `start` or `tick`:

| pc | code |
|---|---|
| `down` | no process |
| `recover` | `start`, with the orders `todo` still to be looked up at the broker |
| `persist` | a result is known, `_persist` comes next |
| `idle` | between two ticks |
| `created`, `submitting` | the order exists, is SUBMITTING; its event is not yet written |
| `submit` | before `broker.submit` |
| `unknown`, `answered` | the broker's answer is ambiguous, known; not yet recorded |
| `settle`, `closing` | the answer is recorded; the exit is CLOSED but not yet recorded |

An order is identified by its bar, and an exit also by the entry it closes. Its record is a
state and a filled quantity in halves. The process is that of `run_paper_runtime.py`: a HALT or
an exception ends it and an operator may start it again, so a journal error that escapes
`tick` is a crash, and only the one that `run_entry` catches is an action
(`RecordAnswerFails`). The simulated broker dies with the process (`BrokerLost`) or, as in the
tests, survives it. In `PaperTradeContract` a later bar opens a trade when none is open, and a
trade is closed; the refinement maps the broker's net position to the trade of the latest
accepted entry, and a reversed one to a bar that does not exist.

### PaperPrograms

A poll of the monitor sees only the latest closed bar. `PaperSession.ProcessOnce` is the whole
of `process_once`: the position meets the bar, the pending signal fills at its open, the bar's
own signal waits, the journal is written. `PaperBot` splits a cycle at its two fetches and lets
it fail at every step. `TradeSimulation` defines the backtest and the exits the session is
compared with; a run of the backtest is the sequence of its turns, one per bar it stops at.

A bar carries two decisions that do not depend on each other: the monitor's, after its supervisor
(`action`, `entry`, `stop` and the `edge` of the zone, which the session moves by its
`StopBuffer`), and the backtest's own (`tested`). In the code the supervisor filters the monitor's
signals (`realtime.py:163-184`) and nothing filters the backtest's (`backtest.py:163-178`); the
stop of the backtest is moved by the adaptive buffer (`backtest.py:192`), that of the session by
`stop_buffer` (`paper.py:69,144-150`), and the monitor looks at the last 100 candles, the backtest
at all before. `DecidesTheSame` says when they agree on a bar.

The research has no state of its own. A behaviour starts with a record of bars, bars are added to it
at the end, and the operators of `Research` say what each program computes from the record at hand.
The decision of the strategy at a bar is part of the bar: that it does not depend on later bars
is a property of `StrategyBars`. The features of a signal stand for the bars they are
computed from, so whatever a feature extractor looks at, it is not less than the code does. A model is
the operator `Approves` of its training samples and the features it scores, whatever it has
learnt; what the code checks of the samples before it fits a model, and which of them it shows
to a sequence model, is modelled.

### Strategy

`PriceAction` defines swings, clusters and zones, structure, breakouts, sequences and scores over
integer candles; a distance the code computes with floats is rounded down. The first prices of
clusters and the reactions that keep the gap are the sets the walks of `_cluster` and
`_build_swing_zones` collect: the one set whose members are those that no lower member is too
close to. `WebStrategy` defines the Pages function, and the worker's port the way it is written, as
walks (`OpenedLast` walks up prices or swings, `WorkerSequence` back over the tests), so
`ImplementationsAgree` also compares the sets with the walks. `StrategyBars` lets candles close and also defines the two-setup orchestration and the
multi-timeframe bars of the backtest.

### The web modules

A bar is a number, a payload its newest completed bar, its forming bar, the order of its
candles and its time. A bridge reads in several steps while the clock runs; deliveries are
lost and reordered; `ingest` compares, awaits the digest and then writes. In `WebSignal` a
request is a step wherever the handler or the page awaits. `BrowserRuntime` composes the same
store and isolates with the paper page: `processCandle` is a call that begins, awaits the feed
and then runs to its end, next to start, stop, recover, reset, injected failures, reloads and
damaged checkpoints. `overlapped` remembers that a call began while another was under way.

These modules are wider or narrower than the code in a few places. A signal may tell the page to
enter, which the answers of today never do: `paper-runtime.js:115` reads `payload.signal||payload` as
an object, and `/api/signal` answers `signal` as a text (`signal_parity_v2.js:55,84`), so the
normalized action is always WAIT and the page never enters. What is said of its orders, positions
and unknown outcomes is therefore said of the page's own code, for a feed that would answer with an
object. There is one symbol and one timeframe; a `localStorage` that refuses a write is left out; the
orders are a set, so a repeated order of equal status does not show. `ShowMarket` takes the answer of
`/api/market` and its display as one step (`live-market.js:29` awaits in between), `Evaluate` leaves
out the bad request for fewer than five candles, and `OutOfOrder` the payload without a live candle
(`mt5_market.js:99-101`). `/api/strategy` (`entry.js:53-79`) moves the same cursor of an isolate as
`/api/signal` and is not modelled: a bar that was posted there is NO_UPDATE for the signal. The
Pages function looks at the last 30 candles (`signal.js:269`), `WebStrategy.PageSignal` at all of a
history; no property depends on it.

## 3. The runs

| Run | Instance | Shows |
|---|---|---|
| `live_two_processes` | 2 processes, 2 accounts, 1 switch, 2 bars, 2 stops | `SentAtMostOnce`, `JournalAgrees`, `AmbiguousEndsTrading`, `NoSendWhileUnresolved`, the contract |
| `live_one_process` | 1 process, 2 symbols, 2 quotes, 1 bar, 2 stops, `LiveSpec` | `OnePositionPerSymbol`, `OneOrderPerBarInOneLife`, `CycleEnds`, `StopQuiesces` |
| `live_restart_replay` | 1 process, 2 quotes, 1 stop | violation of `OneOrderPerBar` |
| `live_evidence` | 1 process, 1 quote, 1 stop | violation of `FillsAreEvidence` |
| `paper_engine` | 3 bars, 2 crashes, 1 failing write, 1 damaged file, every injected failure, an owner that gives up or goes on | `EntryOncePerBar`, `NoSilentReset`, `CheckpointedBarIsRecorded`, `PendingIsHalt`, `LifecycleMatchesPosition` |
| `paper_trading` | 3 bars, 2 crashes, 1 failing journal write, 2 damages, every answer of the broker | `AcceptedOnce`, `RunningAgrees`, `HaltIsFinal`, the trade contract |
| `live_gates` | 2 operators, 2 processes, 2 days, 3 sets, 1 stop, 1 damage; a grid for the sizing | `ControlFileIsSerial`, `DrawdownEndsTrading`, `StopEndsAfterOneCycle`, `OrderIsWhatFits` |
| `risk_desk` | 6 bars, 3 weeks, 3 sessions, a time whose text sorts first | `KillSwitchHolds`, `AccountIsSound`, `LargestSizeInBudget`, `LossIsBudgeted` |
| `paper_programs` | sessions and bots of 4 bars of 3 candles and 4 pairs of decisions (both wait, both signal, the supervisor refuses, the stops differ), 1 restart of the bot, holding limit 3, no cost in the session and 1 in the simulations; records of 3 bars of 4 kinds that grow to 6, windows of 2 bars after a history of 3, a horizon of 1, sequences of 2 | `SessionIsSound`, `SimulationsAgree`, `BotIsSound`, `FoldsNeverRepaint` |
| `strategy` | 10 histories, 3 more candles of 8 shapes, all counts of readings, all forecasts | `SetupsAreSound`, `ImplementationsAgree`, `SwingsNeverRepaint`, `BacktestIsCausal` |
| `web_market` | 2 bridges, 2 payloads, clock 2, 1 page with 2 overlapping polls, 2 isolates, 1 restart | `OlderOnlyWhenOvertaken`, `EvaluatedOnceUnlessRaced`, `LiveIsOneSnapshot` |
| `browser_runtime` | 2 overlapping calls, 1 isolate, timeouts, 1 reload, 1 damage | `UnknownOrderHalts`, `OrdersAreSound`, `BarsInOrder` |

**Bounds.** They count what the environment may do; the program's own loops are not bounded. Two
processes and two intents are the least with which a reservation can compete, be found by
the other process's preflight, and be rebuilt after a crash; a third adds no new pair, and the
proofs cover any number. Two crashes allow a crash during the recovery from a crash. Three
bars let an engine enter, exit and enter again, four let a session do so across a bar missed
between two polls. Records of three to six bars hold a training run with both labels, two windows,
a trade that crosses the end of a window and one that is refused. Two payloads are enough for one to overtake the other, two polls and two
isolates for a race. The histories of `strategy` hold supports, resistances, trends, climbing
reactions and neighbouring zones, so every setup and every breakout state occurs in the three
candles that follow. Symmetry is used for processes, quotes, operators, polls, calls and
isolates, and in no run with liveness.

**Deadlock** checking is off where the system may stop: the engine's owner gives up after a failed
recovery or runs out of bars, the risk desk, the programs and the market reach their last bar or
payload.

**Fairness.** `LiveSpec` assumes weak fairness of `Step(p)`: a running process keeps executing,
since every call in the loop returns or raises. Starting a process, crashes, failing journal
writes and everything the market and the operator do have no fairness. The other
specifications have safety properties only.

### The findings

`live_restart_replay`: processed bars are known only in memory, and another quote is another
intent; an order for a bar, a crash, a restart and a second order for the same bar. The
roadmap (`docs/TRADING_BOT_DEVELOPMENT_ROADMAP.md:187`) says "Restart must not replay an old
completed signal."

`live_evidence`: an order goes out, its answer is lost, the broker executed it, and the startup
reconciliation finds no evidence for it, because the runner puts the mode in front of the id
(`runner.py:265`) and the reconciliation looks for the id without it (`broker_reconciliation.py:70`).
The roadmap (line 185) lists "Startup reconciliation against broker evidence" as done. What the code
does ensure is `AmbiguousEndsTrading`: the intent stays AMBIGUOUS and no order goes out beside it.

### What the code does that a reader may not expect

The properties are stated so that they hold; what they leave out was met while modelling:

* One cycle judges all symbols against one reading of the positions, so the limits of open
  positions and per currency do not hold within a cycle. With two processes
  `OnePositionPerSymbol` does not hold either, and nothing keeps a second one from starting.
* The comment of an order has the mode between `Aria-` and the id, the token of the
  reconciliation has not: no order of the runner is ever evidence, and an unresolved one
  keeps every restart from starting until a person resolves it (`live_evidence`). The tests of the
  reconciliation write comments without the mode.
* Every retcode but DONE and DONE_PARTIAL is recorded as FAILED and trusted.
* Two overlapping `set` calls can bring back a RUN that was issued before a stop; two overlapping
  checks can replace the baseline of the day. `set` reads the file first, so on an
  unreadable file even the emergency stop of the command line fails; the runtime ends by itself.
* The engine fills an entry although the checkpoint of its pending order failed; after a death
  the bar is entered twice. `start()` after a failed recovery saves a blank engine over the
  damaged checkpoint.
* The exit of the order stack is built from the local position; when the broker has lost it
  under a running process, the exit opens a reversed one.
* `risk_fraction = 1` is accepted, and a stop can then take the balance to a zero that the
  checkpoint cannot be restored from.
* `run_paper_runtime.py` asks its kill switch and never informs it; a restart builds a new one, so a
  halt ends with the process.
* The session and the backtest of the same bars differ in what they decide and in how they trade it, and
  `SessionFollowsBacktest` names every difference as a condition. The supervisor turns signals of the
  monitor into WAIT, and the backtest trades them. With the default `stop_buffer` of 0.0 the session's
  stop is the edge of the zone, while the adaptive buffer of the backtest is never 0: by default the two
  stops differ on every signal, and the comparison speaks of sessions that are configured with the buffer
  the backtest has computed. Windows of 100 candles and of all candles can show different zones. The
  session pays the costs of its configuration, the backtest it is compared with has none. A signal on
  the bar that closed a trade waits in the session for the next bar (`tests/test_paper_session.py:205-228`);
  the backtest goes on behind that bar and never sees it.
* The report of the filtered walk-forward has the features of the signals without the filter; a signal
  that only the filtered run meets, because an earlier trade was left out, is scored and is not
  among them.
* A signal is filled on the next bar that is polled, not on the next bar; a stop that only a missed
  bar reached is not taken; bars missed while an evaluation raises are never seen.
* The backtest goes on behind a trade that closes, and at the next candle after one that does not within
  its horizon: such trades overlap in time, while the session holds one position. `LatencyBars > 0` skips the
  stops of the bars in between.
* The certificate of the three-way parity (`parity_certification.py`) compares, bar by bar, action, entry
  and stop of the monitor with those of the backtest, after the supervisor, although
  `docs/RELEASE_GATE.md:9` calls that filter "a separate safety layer" that may turn a signal into WAIT.
  The paper engine it feeds halts at the first signal, which names no symbol
  (`paper_runtime_engine.py:233`), and a halt is a mismatch. And the backtest decides from candle 32
  on (`backtest.py:154`), the replay from `max(102, start_index)`: the first decisions of the backtest are
  always "missing from realtime". `CertifiedOnlyInSilence` says all of it: a record is certified exactly when
  both wait on every bar with the same references and the replay begins where the backtest does. The
  last is never so, hence no record is certified and the check `three-way-parity` of `release_gate.py`
  cannot pass. In the model the first bar of a record is the first after the warm-up of the backtest, and
  the replay may begin at any bar, so the property does not rest on the two numbers.
* The worker lets a neutral indicator veto, the Python filter does not. The Pages function has
  rules of its own, and candles of its own when the market is unreachable.
* The forming bar of the store is replaced by an older one only when an ingest was overtaken. Completed
  bars that are older, and older prices of the same forming bar, are accepted without any race.
* In the browser, every exit halts the page (`EXIT_PENDING` cannot become `SUBMITTING`), and so does the
  second poll of a bar, whose answer has no candles.
* `paper-runtime.html:242` promises that an ambiguous outcome halts, that a closed bar is processed once and
  that a damaged checkpoint is never silently reset. The page's code keeps none of the three in every case
  (for a feed that lets it enter, see section 2). An order of unknown outcome is forgotten in two ways: a
  call that was under way when the page halted goes on, and if its order fills it sets `pending` to null
  (`paper-runtime.js:166`), so Recover and Start go on beside the unknown order; and Start on a page that was
  loaded with a damaged checkpoint persists before it looks at the halt (line 229), which makes the blank
  state a trusted checkpoint that Recover accepts, orders and last bar gone. `UnknownOrderHalts` holds as
  long as no two calls overlap, and for what a readable checkpoint has. A bar whose exit halted was not
  marked as processed, so Recover and Start process it again; its orders are then reused. `BarsInOrder`
  therefore speaks of the last bar that was processed to its end: no call goes behind it or makes an
  order for it. No run shows these as violations, because the answers of `/api/signal` never let the page
  enter.
* Two overlapping polls leave the signal of one snapshot beside the candles of another under LIVE.
* The bot reports RUNNING while its engine is halted.

## 4. The proofs

TLAPS checks every theorem for every value of the constants under the assumptions named in the
modules. TLC evaluates those assumptions in the runs.

**`LiveRuntimeProofs`** (any number of processes, symbols, bars, quotes, accounts, crashes and
switches, every mode)

| Theorem | Property |
|---|---|
| `Invariance`, `TypeCorrect` | `IInv`, `TypeOK` |
| `NoDuplicateOrder` | `SentAtMostOnce` |
| `OneUnresolvedIntent` | `AtMostOneUnresolved` |
| `JournalAgreesWithBroker` | `JournalAgrees` |
| `OneOrderAtATime` | `NoSendWhileUnresolved` |
| `ImplementsContract` | `KeepsContract` |
| `AmbiguousForever` | `AmbiguousEndsTrading` |

None of the properties is inductive. `SentAtMostOnce` needs that a process about to send still
owns a SUBMITTED record that was never sent (`PhaseInv`), that no second process is executing the
same intent (`DistinctIntents`), and that an absent or RESERVED record was never sent (`SendInv`).
The delicate case is a process whose intent was resolved by the preflight of another one while
it was waiting for the broker: `PhaseInv` allows the record to be SUCCEEDED there, and the late
verdict is then refused by the journal or repeats it. One lemma per action; `PhaseFrame` and
`RecordsUnchanged` carry the conjuncts an action does not touch.

The same module, for one process and no account switch (`SingleRuntime`):

| Theorem | Property |
|---|---|
| `OnePositionForOneProcess` | `OnePositionPerSymbol` |
| `OneOrderPerBarForOneProcess` | `OneOrderPerBarInOneLife` |

`PositionInv` says that every open position is known to the cycle or belongs to a symbol the cycle
has already taken off its list, and that none belongs to the order being prepared. `FirstLife`
says that the records are of different bars or symbols and that the process remembers every bar
with a record; `FirstLifeGoesOn` shows that until it counts as stopped the process cannot lose
that memory, because the preflight has nothing to reconcile and the journal takes every answer.

**`LiveGatesProofs`** (any number of operators, processes, days, equities and damages)

| Theorem | Property |
|---|---|
| `TypeCorrect` | `GatesTypeOK` |
| `SerialCommands` | `ControlFileIsSerial` |
| `StopTakesOneCycle` | `StopEndsAfterOneCycle` |
| `NoTradeBelowTheLimit` | `DrawdownEndsTrading` |
| `EveryLotFits`, `EveryOrderFits` | `OrderIsWhatFits` |

`SerialInv`: at most one set is on its way and writes the next generation. `StopInv`: a process that
has traded since the stop is in no cycle. `BreakerInv`: without overlap the process that checks
sees every day that has a baseline, and a readable file holds the first baseline of its day.
The sizing is arithmetic: two roundings down in a row, each characterized by the products around it,
leave the largest number of steps whose loss is within the budget.

**`PaperRuntimeEngineProofs`** (any number of bars, crashes, failing writes and damages)

| Theorem | Property |
|---|---|
| `TypeCorrect` | `TypeOK` |
| `PendingOrderHalts` | `PendingIsHalt` |
| `LifecycleAgrees` | `LifecycleMatchesPosition` |
| `ClockNeverTurnsBack` | `NoSilentReset`: until the owner goes on after a failed recovery |
| `ProcessedBarIsRecorded` | `CheckpointedBarIsRecorded`: until a write fails |
| `NoSecondEntry` | `EntryOncePerBar`: until either |

`NoSecondEntry` rests on `EntryInv`: an entered bar is not later than the last bar of the engine in
memory (`MemoryKnows`), and a readable checkpoint has it as processed or as its pending order
(`CheckpointKnows`), because an order is filled only after the checkpoint has it
(`PendingIsSaved`). The limits are part of the properties (`retried`, `faults`) and are
needed, as section 3 says.

**`PaperTradingRuntimeProofs`** (any number of bars, crashes, journal faults and damages, every set
of answers, a broker that forgets or does not)

| Theorem | Property | Condition |
|---|---|---|
| `TypeCorrect` | `TypeOK` | |
| `NoSecondAccept`, `NoUnauditedOrder` | `AcceptedOnce`, `AcceptedIsAudited` | |
| `HaltForever` | `HaltIsFinal` | |
| `NeverReversed`, `WaitingAgrees` | `NetWithinOnePosition`, `RunningAgrees` | `Reliable` |
| `ImplementsTradeContract` | `KeepsTradeContract` | `Reliable` |

`Reliable` says that the broker loses no position while the runtime waits for a candle.
`AcceptedOnce` needs that an order in hand has an event in the journal once it leaves `created`
(`OrderInv`), that an order without an event was never accepted (`AcceptInv`), and that a runtime
which has not halted has exactly the journal's records whenever it is about to create an order
(`RunningInv`); an order it does not have is then new to the broker as well, even if the
checkpoint or the broker is older than the journal. `HaltIsFinal` needs that a halted runtime has
no order in hand (`HaltInv`). For the refinement, `PositionInv` relates position, order in hand and
net, `LatestInv` keeps the latest accepted entry, and an entry is created only when every earlier
one belongs to a processed candle (`EntriesProcessed`).

**`RiskDeskProofs`** (every price, signal, limit and fee, any number of bars, weeks and sessions)

| Theorem | Property | Condition |
|---|---|---|
| `DeskIsInvariant` | `DeskInv` | |
| `KillSwitch` | `KillSwitchHolds` | |
| `BudgetedLosses` | `LossIsBudgeted` | |
| `LargestSize` | `LargestSizeInBudget` | |
| `AccountCounts` | the peak and the holding times | |
| `AccountSound` | `AccountIsSound` | `SmallRisk` |

`LossInv` says that the kill switch knows the loss of the session but for one trade it was not told
of; with `ReportInv`, that there is at most one and none beside an open position, the limits hold
however reports, weeks, resets and restarts are ordered. `SizedInv` ties the levels and the quantity of
an open position to the balance it was sized for; a close then costs the budget at most. `SmallRisk`
asks that twice the risk of a trade and its fee is not the whole balance: with `risk_fraction = 1` the
balance can become 0 and `AccountIsSound` is false. That the ledger adds up (`Earned`) is an
induction over the closed trades.

**`PaperProgramsProofs`** (every candle, pair of decisions, record, window and model, any number of bars and restarts)

| Theorem | Property | Condition |
|---|---|---|
| `ProgramsAreInvariant` | `ProgramsInv` | |
| `SessionSound` | `SessionIsSound` | |
| `BotSound` | `BotIsSound` | |
| `ResearchNeverLooksAhead` | `FoldsNeverRepaint` | |
| `CostsHurtEverySignal` | `CostsNeverHelp` of every plan | `LatencyBars = 0` |
| `SessionAlwaysWalks` | `SessionWalks` | |
| `SimulationsAlwaysAgree` | `SimulationsAgree` | `LatencyBars = 0` |

The session is sound because of what holds between two bars: a closed trade ended at the first bar that
touched it (`Ended`), no bar met since touched an open one (`Lives`), the bars met come in order
(`SeenInv`), and a journal of so many opens and closes tells nothing else (`Tells`). The bot needs the
order of its signals and trades (`OrderInv`, `SignalsInv`) and the same first touch (`TouchInv`), which
a new bar of the market does not disturb. The research needs no invariant but the type of the bars: on
a longer record the turns of a run that was complete are the same one by one (`TradeOfMore`), so what is
computed from them is equal (`RunOfMore`), from the training samples to the sequences of the deep
models; and a decided label stays because the first touch does (`LabelOfMore`). `LatencyBars = 0` is
needed, and only by `CostsNeverHelp`: bars that the latency skips may hold the stop.

That the session is the backtest of its bars is proved in two halves. Forwards, along the steps of the
session: `WalkInv` says that as long as no bar was lost or refused and none that closed a trade carried a
signal (`Untroubled`), the trades were filled on the bar after their signal and came one after another,
and every bar was a wait, waits now, or belongs to a trade (`Walked`). It is needed because the
comparison itself is not inductive: it says nothing of the signals the session passed over. Backwards,
along the bars: the backtest is a recursive function of the bar it goes on with, so what it makes of the
bars from `i` is its turn at `i` and what it makes of the bars the turn leads to (`RunUnfolds`). From the
last bar down to the first (`Backwards`, the least-counterexample form of the induction), the trades from
bar `i` begin with those the session closed from there on, then have its position, and nothing else when it
is flat (`TradesContinue`). One trade is the same in both because both leave at the first bar that
touches the plan (`ClosedIsBacktested`, `PositionIsBacktested`), given that both decide the same on every bar
(`BothDecideTheSame`); nothing else relates the two decisions. The certificate (`CertifiedIs`) is the same
induction: the turns of a run are in order and begin with its first bar, so a replay that decides on the
same bars begins there too, and a run without a signal turns at every bar (`TurnsVisit`).

**`WebProofs`** (any number of bridges, payloads, isolates, pages and polls)

| Theorem | Property |
|---|---|
| `WebTypesAreRight` | `WebTypeOK` |
| `OlderDataOnlyWhenOvertaken` | `OlderOnlyWhenOvertaken` |
| `BarEvaluatedOnceUnlessRaced` | `EvaluatedOnceUnlessRaced` |
| `LivePageShowsOneSnapshot` | `LiveIsOneSnapshot` |

`StoreInv`: a payload on its way or under digest has a number of its own and is not the stored one.
`EvaluatingInv`: an evaluation began at a cursor before its bar. The page needs `AloneInv`: while
one poll is in flight that began alone, the page shows the candles of that poll.

The same module, for the paper page over that store and those isolates (any number of overlapping
calls, reloads and damages, any failure modes):

| Theorem | Property |
|---|---|
| `Invariance` | `BrowserInv` |
| `UnknownOrderKeepsHalted` | `UnknownOrderHalts` |
| `PageOrdersAreSound` | `OrdersAreSound` |
| `PageProcessesInOrder` | `BarsInOrder` |

A call changes the page through a chain of small functions; each has a lemma that it keeps a sound
page sound (`Sound`) and forgets neither orders nor bars (`Keeps`). `WaitInv` says that
until calls overlap there is one under way at most, and none once an order waits for its outcome, so
nothing can fill beside it.

**`StrategyProofs`** (every history, market and parameter)

| Theorem | Property |
|---|---|
| `ConfirmedSwingsStay` | `SwingsNeverRepaint` |
| `BacktestLooksNotAhead` | `BacktestIsCausal` |
| `EverySignalHasRisk` | `SignalHasRisk`, a conjunct of `SetupsAreSound` |
| `SetupsHangTogether` | `SetupsAreSound`, if `MinGap <= Strength + 1` |
| `ImplementationsDecideTheSame` | `ImplementationsAgree` |

`HigherBarsStay`: a bar of a higher timeframe that is over at candle `n` is made of candles up to `n`
only, and the backtest is given no other.

The sets and functions the strategy picks with `CHOOSE` have to exist before anything follows from
them: `Induction`, `LeastNumber` and `FirstsExist` build the first prices of the clusters number by
number, `RangeSumsExist` the sum of the ranges, `BestIsOne` the best signal (scores have a
bound, so there is a greatest one). `AnchorsAre`: a price is at most the tolerance above the
first of its cluster, and clusters do not interleave; so the swings inside a zone are its cluster
(`ClusterIsInside`). A signal needs a candle that closes beyond its zone, and buffers are never
negative (`ConfirmedRisk`); that needs no condition on the parameters.

The condition of `SetupsHangTogether` is needed and holds of the defaults (a strength of 2, a gap of
2): confirmed swings are more than `Strength` candles apart (`SwingsApart`), so such a gap never drops
one. With a strength of 1 and a gap of 3 TLC finds a history in which a zone counts fewer touches
than there are swings inside it. With the defaults `min_reaction_gap` decides nothing.

`ImplementationsDecideTheSame` has two halves. The orchestration of two setups: a zone it drops as
broken does not signal in the strategy either, because the latest touch is then the candle that
decides (`BrokenIsSilent`); a long and a short setup need opposite pressures of the same last candle,
so at most one direction has setups (`OneDirection`); and both implementations find one of them if
there is any (`FirstSetupIs`, `BestSetup`), whatever they rank by. The port of the worker: `WalkIs`
says that the walk of the clusters and of the selected swings ends where the sets of `PriceAction`
do; from it zones (`ZonesWalked`), structure (`StructureWalked`) and, by induction over the tests, the
sequence (`SequenceWalked`) are the same. Zones of a kind differ in their lower edges (`BuiltOfKind`),
so there is one best setup and sorting finds it (`BestWalked`). The port asks the readings after it
has chosen and the monitor before: with one direction at most that makes no difference
(`FiltersAgree`), but for the neutral readings the property excepts. `StrategyBarsAssumption` says what
a reading can be; nothing is assumed of forecasts or of the parameters.

Only model-checked: `CycleEnds` and `StopQuiesces`, because liveness is out of the prover's reach. No
installed prover can instantiate the induction theorems of the library; a fact about a recursive
function has to be proved from the least counterexample, which was done for the sum of the
ledger, for the range of the candles, for the clusters and their walks, for the tests of a zone and
for the turns of the backtest.

## 5. What is not modelled

* Indicator values, forecasts, the fitting and the scores of models, statistics, drift and robustness
  reports: floating-point batch computation. Readings and forecasts are inputs of the strategy modules,
  a model is any operator. The fingerprints and figures of the certificate of parity.
* `close_position` of the executor, connection handling, numeric validation of terminal answers, the
  PAPER and SIGNAL modes of the orchestrator, `warm_up`, the status file.
* `order_persistence.py` (unused by the runtime), hashes, texts of events, collisions of the
  12-character id prefix. The hash chain is modelled as verifying or not.
* `paper_lifecycle.py` (a wrapper of the same engine), persisting and resuming a session, statistics.
* The worker's response cache, the store of the paper runtime's snapshot (one value, one handler without an
  await), Bodyguard (it passes a request on or refuses it), SQLite and Redis behind the bot, gateways,
  notifications, the deployment policy, the validators in other languages.
* `forex_conditions.py`, `broker_contract.py`, `signals_v2.py`, `levels.py`, presentation.

`PROJECT.json` has the reason for each component that is `partly` or `not_modelled`.

## 6. What could come next

Bodyguard's buckets and bans and the bot's token bucket as clocked counters; the session that is
persisted and resumed; the composition of the market store with the page's own paper runtime over several symbols.
