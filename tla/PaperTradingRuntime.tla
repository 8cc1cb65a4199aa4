------------------------- MODULE PaperTradingRuntime ------------------------
(***************************************************************************)
(* The paper trading runtime (strategy/paper_runtime.py) and its execution *)
(* loop (paper_trading_loop.py) between three other keepers of the same    *)
(* facts: the checkpoint file, the audit journal (execution_audit.py) and  *)
(* the paper broker (adapters/paper_broker.py).                            *)
(*                                                                         *)
(* The process is the loop of scripts/run_paper_runtime.py: it exits when  *)
(* a tick answers HALT or raises, and an operator may start it again.      *)
(* Every write to the journal or the checkpoint and every call of the      *)
(* broker is a step; the process can die between any two.  A write that    *)
(* raises out of tick is such a death.                                     *)
(*                                                                         *)
(* Positions are LONG (SHORT is symmetric), and quantities are counted in  *)
(* halves of the ordered quantity.                                         *)
(***************************************************************************)
EXTENDS OrderLifecycle

CONSTANTS
  MaxBar,          \* bound: completed bars of a behaviour
  Answers,         \* what the broker can do with an order
  BrokerInMemory,  \* the broker's memory may die with the process
  VanishAt,        \* where the process may be when the broker loses the position
  MaxCrashes,      \* bound: deaths of the process
  MaxFaults,       \* bound: journal writes that fail and are caught
  MaxDamages       \* bound: damages to the files and the broker's position

Bars == 1 .. MaxBar

NoBar == 0

ASSUME PaperAssumption ==
  /\ MaxBar \in Nat \ {0}
  /\ Answers \subseteq {"FILLED", "PARTIALLY_FILLED", "REJECTED", "DISCONNECTED"}
  /\ BrokerInMemory \in BOOLEAN
  /\ VanishAt \subseteq {"down", "idle"}
  /\ MaxCrashes \in Nat
  /\ MaxFaults \in Nat
  /\ MaxDamages \in Nat

(* The identities tick gives to orders. *)
Entry(b) == [kind |-> "entry", of |-> NoBar, bar |-> b]
Exit(e, b) == [kind |-> "exit", of |-> e, bar |-> b]

OrderIds == {Entry(b) : b \in Bars} \cup
            {o \in {Exit(e, b) : e, b \in Bars} : o.of < o.bar}

NoOrder == [kind |-> "none", of |-> NoBar, bar |-> NoBar]

-----------------------------------------------------------------------------

VARIABLES
  mem,       \* the runtime and its loop
  disk,      \* the checkpoint file
  audit,     \* the latest journal event of each order
  chain,     \* the journal file: sound, its last line broken, or tampered with
  broker,    \* the paper broker: its orders and its net position
  pc,        \* where the process is
  cur,       \* the order it executes
  answer,    \* the broker's answer it holds
  todo,      \* startup: orders whose outcome is still to be recovered
  bar,       \* the latest completed bar
  crashes, faults, damages,
  accepted   \* history variable: times the broker accepted each order

process == <<pc, cur, answer, todo>>
journal == <<audit, chain>>
bounds == <<crashes, faults, damages>>
vars == <<mem, disk, journal, broker, process, bar, bounds, accepted>>

NoOrders == [o \in OrderIds |-> Absent]

(* Every record is one that restore accepts. *)
Records == {r \in OrderRecord : Restorable(r)}

Orders == [OrderIds -> Records \cup {Absent}]

Runtime == [orders   : Orders,
            position : Bars \cup {NoBar},   \* the bar of the open position's entry
            pending  : Bars \cup {NoBar},   \* pending_bar_time
            halted   : BOOLEAN]

Blank == [orders |-> NoOrders, position |-> NoBar, pending |-> NoBar, halted |-> FALSE]

NoFile == [file |-> "missing"]
Corrupt == [file |-> "corrupt"]

(* snapshot and _restore_snapshot. *)
Snapshot(m) == [file |-> "ok", state |-> m]
Restored(d) == d.state

(* odd: the average price is off the grid of the symbol contract. *)
EmptyBroker == [orders |-> NoOrders, net |-> 0, odd |-> FALSE]

Halted(m) == [m EXCEPT !.halted = TRUE]

(* Orders whose outcome _recover_unknown_orders asks the broker for. *)
Unsettled(orders) ==
  {o \in OrderIds :
     orders[o].state \in {"UNKNOWN", "SUBMITTING", "ACKNOWLEDGED", "PARTIALLY_FILLED"}}

(* reconcile_position(...).safe: the broker's only position is the local   *)
(* one, and it meets the symbol contract.                                  *)
Safe(m) ==
  \/ m.position = NoBar /\ broker.net = 0
  \/ m.position # NoBar /\ broker.net = Full /\ ~broker.odd

(* Fault: events of orders the snapshot does not have are not looked at. *)
AgreesWithOwn(m) ==
  /\ chain = "ok"
  /\ \A o \in OrderIds : m.orders[o] # Absent => audit[o] = m.orders[o]

(* verify_execution_recovery allows: the journal verifies, and the latest  *)
(* event of every order is its record.                                     *)
Agrees(m) == chain = "ok" /\ audit = m.orders

-----------------------------------------------------------------------------

Init ==
  /\ mem = Blank
  /\ disk = NoFile
  /\ audit = NoOrders
  /\ chain = "ok"
  /\ broker = EmptyBroker
  /\ pc = "down"
  /\ cur = NoOrder
  /\ answer = "NONE"
  /\ todo = {}
  /\ bar = 1
  /\ crashes = 0
  /\ faults = 0
  /\ damages = 0
  /\ accepted = [o \in OrderIds |-> 0]

(* The process ends and forgets. *)
GoDown ==
  /\ pc' = "down"
  /\ mem' = Blank
  /\ cur' = NoOrder
  /\ answer' = "NONE"
  /\ todo' = {}

Goto(from, to) == pc = from /\ pc' = to

Rest == <<disk, bar, bounds>>

(* AuditJournal.append of a new latest event; it raises on a broken tail. *)
AppendEvent(o, record) ==
  /\ chain # "tail"
  /\ audit' = [audit EXCEPT ![o] = record]
  /\ UNCHANGED chain

-----------------------------------------------------------------------------
(* start.                                                                  *)

StartFrom(m) ==
  /\ mem' = m
  /\ todo' = Unsettled(m.orders)
  /\ pc' = "recover"
  /\ UNCHANGED <<journal, broker, cur, answer, Rest, accepted>>

Saved == IF disk = NoFile THEN Blank ELSE Restored(disk)

(* Fault: a restart forgets that the runtime had halted. *)
LoadResumes ==
  /\ pc = "down"
  /\ disk.file # "corrupt"
  /\ StartFrom([Saved EXCEPT !.halted = FALSE])

(* The checkpoint is restored, if there is one ... *)
Load ==
  /\ pc = "down"
  /\ disk.file # "corrupt"
  /\ StartFrom(Saved)

(* ... and a corrupt one halts. *)
LoadCorrupt ==
  /\ pc = "down"
  /\ disk = Corrupt
  /\ mem' = Halted(Blank)
  /\ pc' = "persist"
  /\ UNCHANGED <<journal, broker, cur, answer, todo, Rest, accepted>>

(* _recover_unknown_orders, one order: the broker's outcome is recorded.   *)
RecoverOrder(o) ==
  /\ pc = "recover"
  /\ o \in todo
  /\ broker.orders[o] # Absent
  /\ Accepts(mem.orders[o], broker.orders[o].state)
  /\ mem' = [mem EXCEPT !.orders[o] = broker.orders[o]]
  /\ AppendEvent(o, broker.orders[o])
  /\ todo' = todo \ {o}
  /\ UNCHANGED <<broker, pc, cur, answer, Rest, accepted>>

(* The broker does not know the order or cannot be reached, or the journal *)
(* refuses the event: start halts.                                         *)
RecoverOrderFails(o) ==
  /\ pc = "recover"
  /\ o \in todo
  /\ \/ /\ broker.orders[o] = Absent \/ "DISCONNECTED" \in Answers
        /\ mem' = Halted(mem)
     \/ /\ broker.orders[o] # Absent
        /\ Accepts(mem.orders[o], broker.orders[o].state)
        /\ chain = "tail"
        /\ mem' = Halted([mem EXCEPT !.orders[o] = broker.orders[o]])
  /\ todo' = {}
  /\ pc' = "persist"
  /\ UNCHANGED <<journal, broker, cur, answer, Rest, accepted>>

(* Fault: the recovery is not verified. *)
ReadyUnverified ==
  /\ Goto("recover", "persist")
  /\ todo = {}
  /\ mem' = IF Safe(mem) THEN mem ELSE Halted(mem)
  /\ UNCHANGED <<journal, broker, cur, answer, todo, Rest, accepted>>

(* The rest of start: reconcile the position, verify the recovery. *)
Ready ==
  /\ Goto("recover", "persist")
  /\ todo = {}
  /\ mem' = IF Safe(mem) /\ Agrees(mem) THEN mem ELSE Halted(mem)
  /\ UNCHANGED <<journal, broker, cur, answer, todo, Rest, accepted>>

(* _persist; a halted runtime then ends the process. *)
Persist ==
  /\ pc = "persist"
  /\ disk' = Snapshot(mem)
  /\ IF mem.halted
     THEN GoDown
     ELSE /\ pc' = "idle"
          /\ cur' = NoOrder
          /\ answer' = "NONE"
          /\ UNCHANGED <<mem, todo>>
  /\ UNCHANGED <<journal, broker, bar, bounds, accepted>>

-----------------------------------------------------------------------------
(* tick, up to the creation of an order.                                   *)

(* The feed raises: the runtime halts. *)
FeedFails ==
  /\ Goto("idle", "persist")
  /\ mem' = Halted(mem)
  /\ UNCHANGED <<journal, broker, cur, answer, todo, Rest, accepted>>

NewCandle == pc = "idle" /\ bar > mem.pending

(* The candle gives no order: no signal, an entry the gate or an open      *)
(* position denies, an exit the symbol contract denies.                    *)
NoTrade ==
  /\ NewCandle
  /\ mem' = [mem EXCEPT !.pending = bar]
  /\ pc' = "persist"
  /\ UNCHANGED <<journal, broker, cur, answer, todo, Rest, accepted>>

Create(o) ==
  /\ mem.orders[o] = Absent
  /\ mem' = [mem EXCEPT !.orders[o] = Moved("CREATED", 0)]
  /\ cur' = o
  /\ UNCHANGED <<journal, broker, answer, todo, Rest, accepted>>

(* What evaluate_system_readiness demands of the state: the recovery       *)
(* allows, local and broker agree and are flat.                            *)
EntryGate == Agrees(mem) /\ Safe(mem) /\ broker.net = 0

BeginEntry ==
  /\ NewCandle
  /\ EntryGate
  /\ Create(Entry(bar))
  /\ pc' = "created"

(* close_position does not ask the gate. *)
BeginExit ==
  /\ NewCandle
  /\ mem.position # NoBar
  /\ Create(Exit(mem.position, bar))
  /\ pc' = "created"

-----------------------------------------------------------------------------
(* run_entry and close_position, from the creation of order cur on.        *)

SetOrder(m, record) == [m EXCEPT !.orders[cur] = record]

(* The candle of an entry counts as processed whatever becomes of it. *)
Processed(m) == IF cur.kind = "entry" THEN [m EXCEPT !.pending = cur.bar] ELSE m

HaltTick(m) == mem' = Halted(Processed(m)) /\ pc' = "persist"

AuditCreated ==
  /\ Goto("created", "submitting")
  /\ AppendEvent(cur, Moved("CREATED", 0))
  /\ mem' = SetOrder(mem, Moved("SUBMITTING", 0))
  /\ UNCHANGED <<broker, cur, answer, todo, Rest, accepted>>

AuditSubmitting ==
  /\ Goto("submitting", "submit")
  /\ AppendEvent(cur, Moved("SUBMITTING", 0))
  /\ UNCHANGED <<mem, broker, cur, answer, todo, Rest, accepted>>

(* The broker accepts and fills the order, all of it or a half, at a price *)
(* on or off the grid.  Its response may be lost: the order is UNKNOWN.    *)
Fill(state, odd) ==
  LET filled == IF state = "FILLED" THEN Full ELSE Part
      net == IF cur.kind = "entry" THEN broker.net + filled ELSE broker.net - filled
  IN  [orders |-> [broker.orders EXCEPT ![cur] = Moved(state, filled)],
       net    |-> net,
       odd    |-> net # 0 /\ IF cur.kind = "entry" THEN odd ELSE broker.odd]

Accept(state, odd, lost) ==
  /\ pc = "submit"
  /\ state \in Answers
  /\ IF broker.orders[cur] = Absent
     THEN /\ broker' = Fill(state, odd)
          /\ accepted' = [accepted EXCEPT ![cur] = @ + 1]
     ELSE /\ ~lost
          /\ state = broker.orders[cur].state  \* submit of a known id
          /\ UNCHANGED <<broker, accepted>>
  /\ answer' = state
  /\ IF lost
     THEN pc' = "unknown" /\ mem' = SetOrder(mem, Moved("UNKNOWN", 0))
     ELSE pc' = "answered" /\ UNCHANGED mem
  /\ UNCHANGED <<journal, cur, todo, Rest>>

(* The broker refuses the order and keeps no record of it. *)
Reject ==
  /\ Goto("submit", "answered")
  /\ "REJECTED" \in Answers
  /\ broker.orders[cur] = Absent
  /\ answer' = "REJECTED"
  /\ UNCHANGED <<mem, journal, broker, cur, todo, Rest, accepted>>

(* There is no connection to it. *)
Disconnected ==
  /\ Goto("submit", "unknown")
  /\ "DISCONNECTED" \in Answers
  /\ mem' = SetOrder(mem, Moved("UNKNOWN", 0))
  /\ UNCHANGED <<journal, broker, cur, answer, todo, Rest, accepted>>

(* The ambiguous outcome is recorded.  An entry whose response was lost is *)
(* looked up at the broker; everything else halts.                         *)
AuditUnknown ==
  /\ pc = "unknown"
  /\ AppendEvent(cur, Moved("UNKNOWN", 0))
  /\ \/ /\ cur.kind = "entry" /\ answer # "NONE"
        /\ pc' = "answered"
        /\ UNCHANGED mem
     \/ /\ cur.kind = "exit" \/ answer = "NONE" \/ "DISCONNECTED" \in Answers
        /\ HaltTick(mem)
  /\ UNCHANGED <<broker, cur, answer, todo, Rest, accepted>>

Outcome == Moved(answer, IF answer = "PARTIALLY_FILLED" THEN Part ELSE 0)

(* _apply_broker_snapshot. *)
RecordAnswer ==
  /\ Goto("answered", "settle")
  /\ Accepts(mem.orders[cur], answer)
  /\ mem' = SetOrder(mem, Outcome)
  /\ AppendEvent(cur, Outcome)
  /\ UNCHANGED <<broker, cur, answer, todo, Rest, accepted>>

(* The journal fails under an entry: run_entry catches it and halts. *)
RecordAnswerFails ==
  /\ pc = "answered"
  /\ cur.kind = "entry"
  /\ faults < MaxFaults
  /\ faults' = faults + 1
  /\ HaltTick(SetOrder(mem, Outcome))
  /\ \/ UNCHANGED journal
     \/ chain' = "tail" /\ UNCHANGED audit
     \/ AppendEvent(cur, Outcome)
  /\ UNCHANGED <<broker, cur, answer, todo, disk, bar, crashes, damages, accepted>>

(* The rest of run_entry: the journal must agree, a full fill must be the  *)
(* broker's only position and becomes the local one, and a partial fill    *)
(* never reconciles.                                                       *)
SettleEntry ==
  /\ pc = "settle"
  /\ cur.kind = "entry"
  /\ LET filled == [mem EXCEPT !.position = cur.bar]
     IN  \/ /\ ~Agrees(mem)
            /\ HaltTick(mem)
         \/ /\ Agrees(mem)
            /\ mem.orders[cur].state = "REJECTED"
            /\ mem' = Processed(mem)
            /\ pc' = "persist"
         \/ /\ Agrees(mem)
            /\ mem.orders[cur].state = "PARTIALLY_FILLED" \/ broker.net = 0
            /\ mem.orders[cur].state # "REJECTED"
            /\ HaltTick(mem)
         \/ /\ Agrees(mem)
            /\ mem.orders[cur].state = "FILLED" /\ broker.net # 0
            /\ IF Safe(filled)
               THEN mem' = Processed(filled) /\ pc' = "persist"
               ELSE HaltTick(filled)
  /\ UNCHANGED <<journal, broker, cur, answer, todo, Rest, accepted>>

(* The rest of close_position: the exit must fill and leave no position. *)
SettleExit ==
  /\ pc = "settle"
  /\ cur.kind = "exit"
  /\ IF mem.orders[cur].state = "FILLED" /\ broker.net = 0
     THEN mem' = SetOrder(mem, Moved("CLOSED", Full)) /\ pc' = "closing"
     ELSE HaltTick(mem)
  /\ UNCHANGED <<journal, broker, cur, answer, todo, Rest, accepted>>

(* Fault: the local position stays after the exit. *)
AuditClosedKeeps ==
  /\ Goto("closing", "persist")
  /\ AppendEvent(cur, mem.orders[cur])
  /\ mem' = [mem EXCEPT !.pending = cur.bar]
  /\ UNCHANGED <<broker, cur, answer, todo, Rest, accepted>>

AuditClosed ==
  /\ Goto("closing", "persist")
  /\ AppendEvent(cur, mem.orders[cur])
  /\ LET flat == [mem EXCEPT !.position = NoBar]
     IN  mem' = IF chain = "ok" /\ audit' = mem.orders
                THEN [flat EXCEPT !.pending = cur.bar]
                ELSE Halted(flat)
  /\ UNCHANGED <<broker, cur, answer, todo, Rest, accepted>>

-----------------------------------------------------------------------------
(* The process, the files and the market.                                  *)

Appending ==
  \/ pc \in {"created", "submitting", "unknown", "answered", "closing"}
  \/ pc = "recover" /\ todo # {}

(* The process dies, possibly in the middle of an append. *)
Crash ==
  /\ pc # "down"
  /\ crashes < MaxCrashes
  /\ crashes' = crashes + 1
  /\ GoDown
  /\ chain' \in {chain} \cup IF Appending /\ chain = "ok" THEN {"tail"} ELSE {}
  /\ UNCHANGED <<disk, audit, broker, bar, faults, damages, accepted>>

(* The simulator of the dead process is gone; a new one is empty. *)
BrokerLost ==
  /\ pc = "down"
  /\ BrokerInMemory
  /\ broker # EmptyBroker
  /\ broker' = EmptyBroker
  /\ UNCHANGED <<mem, disk, journal, process, bar, bounds, accepted>>

Damage == damages < MaxDamages /\ damages' = damages + 1

(* clear_positions: the broker loses the position. *)
PositionDisappears ==
  /\ pc \in VanishAt
  /\ broker.net # 0
  /\ Damage
  /\ broker' = [broker EXCEPT !.net = 0, !.odd = FALSE]
  /\ UNCHANGED <<mem, disk, journal, process, bar, crashes, faults, accepted>>

TamperJournal ==
  /\ chain = "ok"
  /\ audit # NoOrders
  /\ Damage
  /\ chain' = "broken"
  /\ UNCHANGED <<mem, disk, audit, broker, process, bar, crashes, faults, accepted>>

CorruptCheckpoint ==
  /\ disk.file = "ok"
  /\ Damage
  /\ disk' = Corrupt
  /\ UNCHANGED <<mem, journal, broker, process, bar, crashes, faults, accepted>>

NewBar ==
  /\ bar < MaxBar
  /\ bar' = bar + 1
  /\ UNCHANGED <<mem, disk, journal, broker, process, bounds, accepted>>

-----------------------------------------------------------------------------

Startup ==
  \/ Load \/ LoadCorrupt \/ Ready
  \/ \E o \in OrderIds : RecoverOrder(o) \/ RecoverOrderFails(o)

Submit ==
  \/ \E state \in {"FILLED", "PARTIALLY_FILLED"}, odd \in BOOLEAN, lost \in BOOLEAN :
       Accept(state, odd, lost)
  \/ Reject \/ Disconnected

Tick ==
  \/ FeedFails \/ NoTrade \/ BeginEntry \/ BeginExit
  \/ AuditCreated \/ AuditSubmitting \/ Submit \/ AuditUnknown
  \/ RecordAnswer \/ RecordAnswerFails \/ SettleEntry \/ SettleExit \/ AuditClosed

Next ==
  \/ Startup \/ Persist \/ Tick
  \/ Crash \/ BrokerLost \/ PositionDisappears \/ TamperJournal \/ CorruptCheckpoint
  \/ NewBar

Spec == Init /\ [][Next]_vars

-----------------------------------------------------------------------------
(* Properties.                                                             *)

(* Every record, in memory, on disk or at the broker, is one that restore  *)
(* accepts, and the process is at a place of its program.                  *)
TypeOK ==
  /\ mem \in Runtime
  /\ \/ disk \in {NoFile, Corrupt}
     \/ disk.file = "ok" /\ disk.state \in Runtime
  /\ audit \in Orders
  /\ chain \in {"ok", "tail", "broken"}
  /\ broker \in [orders : Orders, net : -Full .. Full, odd : BOOLEAN]
  /\ pc \in {"down", "recover", "persist", "idle", "created", "submitting", "submit",
             "unknown", "answered", "settle", "closing"}
  /\ cur \in OrderIds \cup {NoOrder}
  /\ answer \in {"NONE", "FILLED", "PARTIALLY_FILLED", "REJECTED"}
  /\ todo \subseteq OrderIds
  /\ bar \in Bars
  /\ accepted \in [OrderIds -> Nat]

(* The broker accepts an order once, even when a restarted process meets a *)
(* broker that has forgotten everything: what the checkpoint does not know *)
(* of an order, the journal does (verify_execution_recovery).              *)
AcceptedOnce == \A o \in OrderIds : accepted[o] <= 1

(* No order reaches the broker before the journal has it.                  *)
AcceptedIsAudited ==
  \A o \in OrderIds : accepted[o] > 0 => audit[o] # Absent

(* A runtime that waits for the next candle agrees with its broker and its *)
(* journal, and every order the broker ever accepted is known to be filled.*)
RunningAgrees ==
  pc = "idle" =>
    /\ Safe(mem)
    /\ audit = mem.orders
    /\ \A o \in OrderIds :
         accepted[o] > 0 => mem.orders[o].state \in {"FILLED", "CLOSED"}

(* The account is flat or holds at most the one ordered position: an exit  *)
(* never reverses it and an entry never enlarges it.                       *)
NetWithinOnePosition == broker.net \in 0 .. Full

(* A saved halt is final: no restart resumes from it, no order is sent     *)
(* after it, and damage to the checkpoint does not undo it.                *)
Stopped ==
  \/ disk.file = "ok" /\ disk.state.halted
  \/ disk = Corrupt /\ (pc = "down" \/ mem.halted)

HaltIsFinal == [][Stopped => Stopped' /\ accepted' = accepted]_vars

(* The account at the broker implements the contract of the trades.        *)
EnteredBars == {b \in Bars : accepted[Entry(b)] > 0}

LastEntry ==
  IF EnteredBars = {} THEN NoBar
  ELSE CHOOSE b \in EnteredBars : \A c \in EnteredBars : c <= b

Contract == INSTANCE PaperTradeContract WITH
  trade <- IF broker.net = 0 THEN NoBar
           ELSE IF broker.net > 0 THEN LastEntry ELSE MaxBar + 1,
  last <- LastEntry

KeepsTradeContract == Contract!TradeSpec

=============================================================================
