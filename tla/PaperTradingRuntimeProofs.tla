--------------------- MODULE PaperTradingRuntimeProofs ---------------------
(***************************************************************************)
(* The inductive invariant of PaperTradingRuntime, and the theorems that   *)
(* follow from it: for any number of bars, crashes, journal faults and     *)
(* damages, and any broker.                                                *)
(***************************************************************************)
EXTENDS PaperTradingRuntime, TLAPS

(* The broker never loses a position that the running process relies on.   *)
Reliable == "idle" \notin VanishAt

Working == pc \in {"created", "submitting", "submit", "unknown", "answered",
                   "settle", "closing"}

BeforeSubmit == pc \in {"created", "submitting", "submit"}

(* Between two ticks, or about to be. *)
Running == pc = "idle" \/ (pc = "persist" /\ ~mem.halted)

Known(record) == record.state \in {"ABSENT", "FILLED", "REJECTED", "CLOSED"}

EntriesProcessed(m) ==
  \A b \in Bars : m.orders[Entry(b)] # Absent => b <= m.pending

NoneRejectedAccepted(orders) ==
  \A o \in OrderIds : orders[o].state = "REJECTED" => accepted[o] = 0

(* The journal has an order before the broker has it, and the broker has   *)
(* it once.                                                                *)
AcceptInv ==
  \A o \in OrderIds :
    /\ accepted[o] <= 1
    /\ audit[o] = Absent => accepted[o] = 0

(* What the broker knows, and what it holds. *)
BrokerInv ==
  /\ \A o \in OrderIds :
       broker.orders[o].state \in {"ABSENT", "FILLED", "PARTIALLY_FILLED"}
  /\ Reliable =>
       /\ broker.net >= 0
       /\ broker.net # 0 => EnteredBars # {}

(* What the checkpoint and the memory may contain. *)
MemoryInv ==
  /\ NoneRejectedAccepted(mem.orders)
  /\ mem.position <= mem.pending
  /\ ~Working => EntriesProcessed(mem)
  /\ pc = "recover" /\ ~mem.halted => todo = {} /\ \A o \in OrderIds : Known(mem.orders[o])
  /\ pc = "idle" => answer = "NONE"
  /\ pc = "down" => answer = "NONE"

DiskInv ==
  disk.file = "ok" =>
    /\ NoneRejectedAccepted(disk.state.orders)
    /\ disk.state.position <= disk.state.pending
    /\ EntriesProcessed(disk.state)
    /\ ~disk.state.halted => \A o \in OrderIds : Known(disk.state.orders[o])
    /\ pc = "idle" => disk.state = mem
    /\ Working => disk.state.orders[cur] = Absent

(* A halted process never works, and a saved halt is never left. *)
HaltInv ==
  /\ mem.halted => pc \in {"recover", "persist"}
  /\ disk.file = "ok" /\ disk.state.halted => pc = "down" \/ mem.halted

RunningInv ==
  Running =>
    /\ audit = mem.orders
    /\ \A o \in OrderIds : Known(mem.orders[o])
    /\ broker.net = 0 \/ (mem.position # NoBar /\ broker.net = Full /\ ~broker.odd)
    /\ Reliable => Safe(mem)

(* The order in hand: its record, its journal, its answer. *)
OrderInv ==
  Working =>
    /\ cur \in OrderIds
    /\ cur.bar > mem.pending
    /\ \A o \in OrderIds \ {cur} : Known(mem.orders[o])
    /\ \A b \in Bars : Entry(b) # cur /\ mem.orders[Entry(b)] # Absent => b <= mem.pending
    /\ pc = "created" => audit[cur] = Absent
    /\ pc # "created" => audit[cur] # Absent
    /\ BeforeSubmit => answer = "NONE" /\ accepted[cur] = 0
    /\ pc = "unknown" => answer # "REJECTED"
    /\ pc = "answered" => answer # "NONE"
    /\ answer = "REJECTED" => accepted[cur] = 0
    /\ pc = "created" => mem.orders[cur].state = "CREATED"
    /\ pc \in {"submitting", "submit"} => mem.orders[cur].state = "SUBMITTING"
    /\ pc = "unknown" => mem.orders[cur].state = "UNKNOWN"
    /\ pc = "answered" => mem.orders[cur].state \in {"SUBMITTING", "UNKNOWN"}
    /\ pc = "settle" => mem.orders[cur].state = answer
    /\ pc = "closing" => mem.orders[cur].state = "CLOSED"

(* The position while an order is in hand. *)
PositionInv ==
  Working =>
    /\ cur.kind = "entry" => mem.position = NoBar
    /\ cur.kind = "exit" => mem.position # NoBar
    /\ cur.kind = "entry" /\ (BeforeSubmit \/ answer = "REJECTED") => broker.net = 0
    /\ cur.kind = "exit" /\ BeforeSubmit =>
         /\ broker.net \in {0, Full}
         /\ Reliable => broker.net = Full
    /\ pc = "closing" => broker.net = 0 /\ cur.kind = "exit"
    /\ cur.kind = "entry" /\ BeforeSubmit =>
         \A b \in Bars : accepted[Entry(b)] > 0 => b < cur.bar

IInv ==
  /\ TypeOK
  /\ AcceptInv
  /\ BrokerInv
  /\ MemoryInv
  /\ DiskInv
  /\ HaltInv
  /\ RunningInv
  /\ OrderInv
  /\ PositionInv

-----------------------------------------------------------------------------
(* Facts about the data.                                                   *)

LEMMA BarFacts ==
  /\ Bars \subseteq Nat
  /\ NoBar \in Nat
  /\ \A b \in Bars : b > NoBar /\ b # NoBar /\ b <= MaxBar
  /\ MaxBar \in Nat
BY PaperAssumption DEF Bars, NoBar

LEMMA OrderFacts ==
  /\ \A b \in Bars : /\ Entry(b) \in OrderIds
                     /\ Entry(b).kind = "entry"
                     /\ Entry(b).bar = b
  /\ \A e, b \in Bars : /\ Exit(e, b).kind = "exit"
                        /\ Exit(e, b).bar = b
                        /\ e < b => Exit(e, b) \in OrderIds
  /\ \A o \in OrderIds : /\ o.bar \in Bars
                         /\ o.kind \in {"entry", "exit"}
                         /\ o.kind = "entry" => o = Entry(o.bar)
  /\ NoOrder \notin OrderIds
<1>1. \A b \in Bars : Entry(b) \in OrderIds
  BY DEF OrderIds
<1>2. \A b \in Bars : Entry(b).kind = "entry" /\ Entry(b).bar = b
  BY DEF Entry
<1>3. \A e, b \in Bars : Exit(e, b).kind = "exit" /\ Exit(e, b).bar = b /\ Exit(e, b).of = e
  BY DEF Exit
<1>6. \A e, b \in Bars : e < b => Exit(e, b) \in OrderIds
  BY <1>3 DEF OrderIds
<1>4. ASSUME NEW o \in OrderIds
      PROVE  /\ o.bar \in Bars /\ o.kind \in {"entry", "exit"}
             /\ o.kind = "entry" => o = Entry(o.bar)
  <2>1. CASE o \in {Entry(b) : b \in Bars}
    BY <2>1, <1>2
  <2>2. CASE o \in {Exit(e, b) : e, b \in Bars}
    BY <2>2, <1>3
  <2>. QED  BY <2>1, <2>2 DEF OrderIds
<1>5. NoOrder.kind = "none"
  BY DEF NoOrder
<1>. QED  BY <1>1, <1>2, <1>3, <1>4, <1>5, <1>6

LEMMA RecordFacts ==
  /\ Absent.state = "ABSENT"
  /\ \A r \in Records : r # Absent /\ r.state # "ABSENT" /\ r.state \in OrderStates
  /\ \A s, f : Moved(s, f).state = s
  /\ \A s \in {"CREATED", "SUBMITTING", "UNKNOWN", "REJECTED", "FILLED"} : Moved(s, 0) \in Records
  /\ \A s \in {"PARTIALLY_FILLED", "UNKNOWN", "FILLED"} : Moved(s, Part) \in Records
  /\ \A s \in {"FILLED", "CLOSED"} : Moved(s, Full) \in Records
BY DEF Absent, Records, OrderRecord, Restorable, Moved, OrderStates, Full, Part

(* Changing one field of a runtime.                                        *)
LEMMA RuntimeFacts ==
  \A m \in Runtime :
    /\ m.orders \in Orders /\ m.position \in Bars \cup {NoBar}
    /\ m.pending \in Bars \cup {NoBar} /\ m.halted \in BOOLEAN
    /\ Halted(m) \in Runtime
    /\ Halted(m).halted /\ Halted(m).orders = m.orders
    /\ Halted(m).position = m.position /\ Halted(m).pending = m.pending
BY DEF Runtime, Halted

LEMMA OrderTypes ==
  \A orders \in Orders, o \in OrderIds :
    /\ orders[o] \in Records \cup {Absent}
    /\ orders[o] # Absent <=> orders[o] \in Records
    /\ orders[o] = Absent <=> orders[o].state = "ABSENT"
BY RecordFacts DEF Orders

LEMMA BlankFacts ==
  /\ Blank \in Runtime
  /\ ~Blank.halted
  /\ \A o \in OrderIds : Blank.orders[o] = Absent /\ NoOrders[o] = Absent
  /\ Blank.position = NoBar /\ Blank.pending = NoBar
  /\ NoOrders \in Orders
  /\ EmptyBroker \in [orders : Orders, net : -Full .. Full, odd : BOOLEAN]
  /\ EmptyBroker.orders = NoOrders /\ EmptyBroker.net = 0
BY DEF Blank, NoOrders, Runtime, Orders, EmptyBroker, Full

LEMMA FileFacts ==
  /\ NoFile.file = "missing" /\ Corrupt.file = "corrupt"
  /\ \A m : Snapshot(m).file = "ok" /\ Snapshot(m).state = m
  /\ \A d : Restored(d) = d.state
BY DEF NoFile, Corrupt, Snapshot, Restored

(* The parts of the state, as the proofs use them.                         *)
LEMMA StateFacts ==
  ASSUME IInv
  PROVE  /\ mem \in Runtime /\ mem.orders \in Orders
         /\ mem.position \in Nat /\ mem.pending \in Nat /\ mem.halted \in BOOLEAN
         /\ Halted(mem) \in Runtime
         /\ Halted(mem).halted /\ Halted(mem).orders = mem.orders
         /\ Halted(mem).position = mem.position /\ Halted(mem).pending = mem.pending
         /\ disk.file = "ok" => disk.state \in Runtime
         /\ audit \in Orders
         /\ broker.orders \in Orders /\ broker.net \in Int
         /\ \A o \in OrderIds : accepted[o] \in Nat
<1>1. mem \in Runtime
  BY DEF IInv, TypeOK
<1>2. broker \in [orders : Orders, net : -Full .. Full, odd : BOOLEAN]
  BY DEF IInv, TypeOK
<1>3. broker.orders \in Orders /\ broker.net \in Int
  BY <1>2 DEF Full
<1>4. disk.file = "ok" => disk.state \in Runtime
  BY FileFacts DEF IInv, TypeOK
<1>5. audit \in Orders /\ \A o \in OrderIds : accepted[o] \in Nat
  BY DEF IInv, TypeOK
<1>6. mem.position \in Nat /\ mem.pending \in Nat
  BY <1>1, RuntimeFacts, BarFacts
<1>. QED  BY <1>1, <1>3, <1>4, <1>5, <1>6, RuntimeFacts

(* The memory of a tick after a step on the order in hand.                 *)
LEMMA SetOrderFacts ==
  ASSUME IInv, Working, NEW r \in Records
  PROVE  /\ SetOrder(mem, r) \in Runtime
         /\ SetOrder(mem, r).orders = [mem.orders EXCEPT ![cur] = r]
         /\ SetOrder(mem, r).orders[cur] = r
         /\ \A o \in OrderIds \ {cur} : SetOrder(mem, r).orders[o] = mem.orders[o]
         /\ SetOrder(mem, r).position = mem.position
         /\ SetOrder(mem, r).pending = mem.pending
         /\ SetOrder(mem, r).halted = mem.halted
<1>1. mem \in Runtime /\ cur \in OrderIds
  BY StateFacts DEF IInv, OrderInv
<1>. QED  BY <1>1 DEF SetOrder, Runtime, Orders

LEMMA ProcessedFacts ==
  ASSUME IInv, Working, NEW m \in Runtime
  PROVE  /\ Processed(m) \in Runtime
         /\ Processed(m).orders = m.orders
         /\ Processed(m).position = m.position
         /\ Processed(m).halted = m.halted
         /\ cur.kind = "entry" => Processed(m).pending = cur.bar
         /\ cur.kind # "entry" => Processed(m).pending = m.pending
<1>1. cur.bar \in Bars
  BY OrderFacts DEF IInv, OrderInv
<1>. QED  BY <1>1 DEF Processed, Runtime

(* A tick that halts keeps the invariant, whatever became of its order.    *)
LEMMA HaltTickKeeps ==
  ASSUME IInv, Working, NEW m \in Runtime, HaltTick(m),
         \A o \in OrderIds \ {cur} : m.orders[o] = mem.orders[o],
         m.orders[cur].state = "REJECTED" => accepted[cur] = 0,
         m.pending = mem.pending,
         m.position = mem.position \/ (cur.kind = "entry" /\ m.position = cur.bar),
         UNCHANGED <<disk, accepted, cur, answer>>
  PROVE  /\ mem' \in Runtime /\ pc' = "persist"
         /\ MemoryInv' /\ DiskInv' /\ HaltInv' /\ RunningInv' /\ OrderInv' /\ PositionInv'
<1>1. /\ mem' \in Runtime /\ mem'.halted /\ mem'.orders = m.orders
      /\ mem'.position = m.position
      /\ cur.kind = "entry" => mem'.pending = cur.bar
      /\ cur.kind # "entry" => mem'.pending = m.pending
  BY ProcessedFacts, RuntimeFacts DEF HaltTick
<1>2. /\ cur \in OrderIds /\ cur.bar \in Nat /\ cur.bar > mem.pending
      /\ mem.position \in Nat /\ mem.pending \in Nat
  BY OrderFacts, BarFacts, StateFacts DEF IInv, OrderInv
<1>3. pc' = "persist" /\ ~Working'
  BY DEF HaltTick, Working
<1>4. NoneRejectedAccepted(mem.orders)'
  BY <1>1, <1>2 DEF NoneRejectedAccepted, IInv, MemoryInv
<1>5. EntriesProcessed(mem')
  <2>1. ASSUME NEW b \in Bars, mem'.orders[Entry(b)] # Absent
        PROVE  b <= mem'.pending
    <3>1. CASE Entry(b) = cur
      BY <3>1, <1>1, <1>2, OrderFacts, BarFacts
    <3>2. CASE Entry(b) # cur
      <4>1. mem.orders[Entry(b)] # Absent
        BY <3>2, <2>1, <1>1, OrderFacts
      <4>2. b <= mem.pending
        BY <3>2, <4>1 DEF IInv, OrderInv
      <4>. QED  BY <4>2, <1>1, <1>2, BarFacts
    <3>. QED  BY <3>1, <3>2
  <2>. QED  BY <2>1 DEF EntriesProcessed
<1>6. MemoryInv'
  BY <1>1, <1>2, <1>3, <1>4, <1>5 DEF MemoryInv, IInv, EntriesProcessed
<1>7. DiskInv'
  BY <1>3 DEF DiskInv, IInv, NoneRejectedAccepted, EntriesProcessed
<1>8. HaltInv' /\ RunningInv' /\ OrderInv' /\ PositionInv'
  BY <1>1, <1>3 DEF HaltInv, RunningInv, Running, OrderInv, PositionInv
<1>. QED  BY <1>1, <1>3, <1>6, <1>7, <1>8

-----------------------------------------------------------------------------
(* One lemma per action: it preserves the invariant.                       *)

LEMMA NewBarStep ==
  ASSUME IInv, NewBar
  PROVE  IInv'
<1>1. TypeOK'
  BY PaperAssumption DEF IInv, TypeOK, NewBar, journal, process, bounds, Bars
<1>2. AcceptInv' /\ BrokerInv'
  BY BarFacts DEF IInv, AcceptInv, BrokerInv, EnteredBars, NewBar, journal, process,
       bounds
<1>3. MemoryInv' /\ DiskInv' /\ HaltInv'
  BY BarFacts DEF IInv, MemoryInv, NoneRejectedAccepted, EntriesProcessed, Working,
       Known, DiskInv, HaltInv, NewBar, journal, process, bounds
<1>4. RunningInv' /\ OrderInv' /\ PositionInv'
  BY BarFacts DEF IInv, RunningInv, Running, Known, Safe, Reliable, OrderInv,
       Working, BeforeSubmit, PositionInv, NewBar, journal, process, bounds
<1>. QED  BY <1>1, <1>2, <1>3, <1>4 DEF IInv

LEMMA TamperJournalStep ==
  ASSUME IInv, TamperJournal
  PROVE  IInv'
<1>1. TypeOK'
  BY DEF IInv, TypeOK, TamperJournal, process, Damage
<1>2. AcceptInv' /\ BrokerInv'
  BY DEF IInv, AcceptInv, BrokerInv, EnteredBars, TamperJournal, process, Damage
<1>3. MemoryInv' /\ DiskInv' /\ HaltInv'
  BY DEF IInv, MemoryInv, NoneRejectedAccepted, EntriesProcessed, Working, Known,
       DiskInv, HaltInv, TamperJournal, process, Damage
<1>4. RunningInv' /\ OrderInv' /\ PositionInv'
  BY DEF IInv, RunningInv, Running, Known, Safe, Reliable, OrderInv, Working,
       BeforeSubmit, PositionInv, TamperJournal, process, Damage
<1>. QED  BY <1>1, <1>2, <1>3, <1>4 DEF IInv

LEMMA CorruptCheckpointStep ==
  ASSUME IInv, CorruptCheckpoint
  PROVE  IInv'
<1>1. TypeOK'
  BY FileFacts DEF IInv, TypeOK, CorruptCheckpoint, journal, process, Damage
<1>2. AcceptInv' /\ BrokerInv'
  BY FileFacts DEF IInv, AcceptInv, BrokerInv, EnteredBars, CorruptCheckpoint,
       journal, process, Damage
<1>3. MemoryInv' /\ DiskInv' /\ HaltInv'
  BY FileFacts DEF IInv, MemoryInv, NoneRejectedAccepted, EntriesProcessed, Working,
       Known, DiskInv, HaltInv, CorruptCheckpoint, journal, process, Damage
<1>4. RunningInv' /\ OrderInv' /\ PositionInv'
  BY FileFacts DEF IInv, RunningInv, Running, Known, Safe, Reliable, OrderInv,
       Working, BeforeSubmit, PositionInv, CorruptCheckpoint, journal, process, Damage
<1>. QED  BY <1>1, <1>2, <1>3, <1>4 DEF IInv

LEMMA PositionDisappearsStep ==
  ASSUME IInv, PositionDisappears
  PROVE  IInv'
<1>1. TypeOK'
  <2>1. broker' = [orders |-> broker.orders, net |-> 0, odd |-> FALSE]
    BY DEF IInv, TypeOK, PositionDisappears
  <2>2. broker' \in [orders : Orders, net : -Full .. Full, odd : BOOLEAN]
    BY <2>1 DEF IInv, TypeOK, Full
  <2>. QED  BY <2>2 DEF IInv, TypeOK, PositionDisappears, journal, process
<1>2. AcceptInv' /\ BrokerInv'
  BY PaperAssumption DEF IInv, AcceptInv, BrokerInv, EnteredBars, PositionDisappears,
       journal, process, Damage, Full
<1>3. MemoryInv' /\ DiskInv' /\ HaltInv'
  BY PaperAssumption DEF IInv, MemoryInv, NoneRejectedAccepted, EntriesProcessed,
       Working, Known, DiskInv, HaltInv, PositionDisappears, journal, process,
       Damage, Full
<1>4. RunningInv' /\ OrderInv' /\ PositionInv'
  BY PaperAssumption DEF IInv, RunningInv, Running, Known, Safe, Reliable, OrderInv,
       Working, BeforeSubmit, PositionInv, PositionDisappears, journal, process,
       Damage, Full
<1>. QED  BY <1>1, <1>2, <1>3, <1>4 DEF IInv

LEMMA BrokerLostStep ==
  ASSUME IInv, BrokerLost
  PROVE  IInv'
<1>1. TypeOK'
  BY BlankFacts, RecordFacts DEF IInv, TypeOK, BrokerLost, journal, process, bounds,
       Full
<1>2. AcceptInv' /\ BrokerInv'
  BY BlankFacts, RecordFacts DEF IInv, AcceptInv, BrokerInv, EnteredBars, BrokerLost,
       journal, process, bounds, Full
<1>3. MemoryInv' /\ DiskInv' /\ HaltInv'
  BY BlankFacts, RecordFacts DEF IInv, MemoryInv, NoneRejectedAccepted,
       EntriesProcessed, Working, Known, DiskInv, HaltInv, BrokerLost, journal,
       process, bounds, Full
<1>4. RunningInv' /\ OrderInv' /\ PositionInv'
  BY BlankFacts, RecordFacts DEF IInv, RunningInv, Running, Known, Safe, Reliable,
       OrderInv, Working, BeforeSubmit, PositionInv, BrokerLost, journal, process,
       bounds, Full
<1>. QED  BY <1>1, <1>2, <1>3, <1>4 DEF IInv

LEMMA CrashStep ==
  ASSUME IInv, Crash
  PROVE  IInv'
<1>1. TypeOK'
  BY BlankFacts, RecordFacts, BarFacts, OrderFacts DEF IInv, TypeOK, Crash, GoDown
<1>2. AcceptInv' /\ BrokerInv'
  BY BlankFacts, RecordFacts, BarFacts, OrderFacts DEF IInv, AcceptInv, BrokerInv,
       EnteredBars, Crash, GoDown
<1>3. MemoryInv' /\ DiskInv' /\ HaltInv'
  BY BlankFacts, RecordFacts, BarFacts, OrderFacts DEF IInv, MemoryInv,
       NoneRejectedAccepted, EntriesProcessed, Working, Known, DiskInv, HaltInv,
       Crash, GoDown
<1>4. RunningInv' /\ OrderInv' /\ PositionInv'
  BY BlankFacts, RecordFacts, BarFacts, OrderFacts DEF IInv, RunningInv, Running,
       Known, Safe, Reliable, OrderInv, Working, BeforeSubmit, PositionInv, Crash,
       GoDown
<1>. QED  BY <1>1, <1>2, <1>3, <1>4 DEF IInv

LEMMA LoadStep ==
  ASSUME IInv, Load
  PROVE  IInv'
<1>a. /\ Saved \in Runtime
      /\ NoneRejectedAccepted(Saved.orders)
      /\ Saved.position <= Saved.pending
      /\ EntriesProcessed(Saved)
      /\ ~Saved.halted => \A o \in OrderIds : Known(Saved.orders[o])
      /\ disk.file = "ok" => Saved = disk.state
  <2>1. CASE disk = NoFile
    BY <2>1, BlankFacts, FileFacts, RecordFacts, BarFacts, OrderFacts
       DEF Saved, NoneRejectedAccepted, EntriesProcessed, Known
  <2>2. CASE disk # NoFile
    BY <2>2, FileFacts DEF Load, Saved, IInv, TypeOK, DiskInv
  <2>. QED  BY <2>1, <2>2
<1>b. /\ Unsettled(Saved.orders) \subseteq OrderIds
      /\ ~Saved.halted => Unsettled(Saved.orders) = {}
  BY <1>a DEF Unsettled, Known
<1>1. TypeOK'
  BY <1>a, <1>b, BarFacts, OrderFacts, FileFacts DEF IInv, TypeOK, Load, StartFrom,
       journal, Rest, bounds
<1>2. AcceptInv' /\ BrokerInv'
  BY <1>a, <1>b, BarFacts, OrderFacts, FileFacts DEF IInv, AcceptInv, BrokerInv,
       EnteredBars, Load, StartFrom, journal, Rest, bounds
<1>3. MemoryInv' /\ DiskInv' /\ HaltInv'
  BY <1>a, <1>b, BarFacts, OrderFacts, FileFacts DEF IInv, MemoryInv,
       NoneRejectedAccepted, EntriesProcessed, Working, Known, DiskInv, HaltInv,
       Load, StartFrom, journal, Rest, bounds
<1>4. RunningInv' /\ OrderInv' /\ PositionInv'
  BY <1>a, <1>b, BarFacts, OrderFacts, FileFacts DEF IInv, RunningInv, Running,
       Known, Safe, Reliable, OrderInv, Working, BeforeSubmit, PositionInv, Load,
       StartFrom, journal, Rest, bounds
<1>. QED  BY <1>1, <1>2, <1>3, <1>4 DEF IInv

LEMMA LoadCorruptStep ==
  ASSUME IInv, LoadCorrupt
  PROVE  IInv'
<1>1. TypeOK'
  BY BlankFacts, RecordFacts, BarFacts, OrderFacts, FileFacts, RuntimeFacts DEF IInv,
       TypeOK, LoadCorrupt, journal, Rest, bounds
<1>2. AcceptInv' /\ BrokerInv'
  BY BlankFacts, RecordFacts, BarFacts, OrderFacts, FileFacts, RuntimeFacts DEF IInv,
       AcceptInv, BrokerInv, EnteredBars, LoadCorrupt, journal, Rest, bounds
<1>3. MemoryInv' /\ DiskInv' /\ HaltInv'
  BY BlankFacts, RecordFacts, BarFacts, OrderFacts, FileFacts, RuntimeFacts DEF IInv,
       MemoryInv, NoneRejectedAccepted, EntriesProcessed, Working, Known, DiskInv,
       HaltInv, LoadCorrupt, journal, Rest, bounds
<1>4. RunningInv' /\ OrderInv' /\ PositionInv'
  BY BlankFacts, RecordFacts, BarFacts, OrderFacts, FileFacts, RuntimeFacts DEF IInv,
       RunningInv, Running, Known, Safe, Reliable, OrderInv, Working, BeforeSubmit,
       PositionInv, LoadCorrupt, journal, Rest, bounds
<1>. QED  BY <1>1, <1>2, <1>3, <1>4 DEF IInv

LEMMA RecoverOrderStep ==
  ASSUME IInv, NEW o, RecoverOrder(o)
  PROVE  IInv'
<1>a. /\ o \in OrderIds /\ broker.orders[o] \in Records
      /\ mem.orders[o] # Absent /\ mem.halted
      /\ broker.orders[o].state # "REJECTED"
  BY StateFacts, OrderTypes, RecordFacts DEF RecoverOrder, Accepts, IInv, TypeOK,
       BrokerInv, MemoryInv
<1>b. /\ mem' \in Runtime
      /\ mem'.orders = [mem.orders EXCEPT ![o] = broker.orders[o]]
      /\ mem'.position = mem.position /\ mem'.pending = mem.pending
      /\ mem'.halted = mem.halted
  BY <1>a, StateFacts DEF RecoverOrder, Runtime, Orders
<1>c. audit' \in Orders
  BY <1>a DEF RecoverOrder, AppendEvent, IInv, TypeOK, Orders
<1>1. TypeOK'
  BY <1>a, <1>b, <1>c DEF IInv, TypeOK, RecoverOrder, AppendEvent, Accepts, Rest,
       bounds
<1>2. AcceptInv' /\ BrokerInv'
  BY <1>a, <1>b, RecordFacts, OrderTypes, OrderFacts, BarFacts, StateFacts DEF IInv,
       AcceptInv, BrokerInv, EnteredBars, RecoverOrder, AppendEvent, Accepts, Rest,
       bounds
<1>3. MemoryInv' /\ DiskInv' /\ HaltInv'
  BY <1>a, <1>b, RecordFacts, OrderTypes, OrderFacts, BarFacts, StateFacts DEF IInv,
       MemoryInv, NoneRejectedAccepted, EntriesProcessed, Working, Known, DiskInv,
       HaltInv, RecoverOrder, AppendEvent, Accepts, Rest, bounds
<1>4. RunningInv' /\ OrderInv' /\ PositionInv'
  BY <1>a, <1>b, RecordFacts, OrderTypes, OrderFacts, BarFacts, StateFacts DEF IInv,
       RunningInv, Running, Known, Safe, Reliable, OrderInv, Working, BeforeSubmit,
       PositionInv, RecoverOrder, AppendEvent, Accepts, Rest, bounds
<1>. QED  BY <1>1, <1>2, <1>3, <1>4 DEF IInv

LEMMA RecoverOrderFailsStep ==
  ASSUME IInv, NEW o, RecoverOrderFails(o)
  PROVE  IInv'
<1>a. o \in OrderIds
  BY DEF RecoverOrderFails, IInv, TypeOK
<1>b. /\ mem' \in Runtime
      /\ \A x \in OrderIds :
           \/ mem'.orders[x] = mem.orders[x]
           \/ mem.orders[x] # Absent /\ mem'.orders[x].state # "REJECTED"
      /\ mem'.position = mem.position /\ mem'.pending = mem.pending
      /\ mem'.halted
  <2>1. CASE mem' = Halted(mem)
    BY <2>1, StateFacts
  <2>2. CASE /\ broker.orders[o] # Absent
             /\ Accepts(mem.orders[o], broker.orders[o].state)
             /\ mem' = Halted([mem EXCEPT !.orders[o] = broker.orders[o]])
    <3>1. broker.orders[o] \in Records /\ broker.orders[o].state # "REJECTED"
      BY <1>a, <2>2, StateFacts, OrderTypes DEF IInv, BrokerInv
    <3>2. [mem EXCEPT !.orders[o] = broker.orders[o]] \in Runtime
      BY <1>a, <3>1, StateFacts DEF Runtime, Orders
    <3>. QED  BY <1>a, <2>2, <3>1, <3>2, RuntimeFacts, StateFacts DEF Runtime,
         Orders, Accepts
  <2>. QED  BY <2>1, <2>2 DEF RecoverOrderFails
<1>1. TypeOK'
  BY <1>a, <1>b, RecordFacts, OrderFacts, BarFacts, StateFacts DEF IInv, TypeOK,
       RecoverOrderFails, journal, Rest, bounds
<1>2. AcceptInv' /\ BrokerInv'
  BY <1>a, <1>b, RecordFacts, OrderFacts, BarFacts, StateFacts DEF IInv, AcceptInv,
       BrokerInv, EnteredBars, RecoverOrderFails, journal, Rest, bounds
<1>3. MemoryInv' /\ DiskInv' /\ HaltInv'
  BY <1>a, <1>b, RecordFacts, OrderFacts, BarFacts, StateFacts DEF IInv, MemoryInv,
       NoneRejectedAccepted, EntriesProcessed, Working, Known, DiskInv, HaltInv,
       RecoverOrderFails, journal, Rest, bounds
<1>4. RunningInv' /\ OrderInv' /\ PositionInv'
  BY <1>a, <1>b, RecordFacts, OrderFacts, BarFacts, StateFacts DEF IInv, RunningInv,
       Running, Known, Safe, Reliable, OrderInv, Working, BeforeSubmit, PositionInv,
       RecoverOrderFails, journal, Rest, bounds
<1>. QED  BY <1>1, <1>2, <1>3, <1>4 DEF IInv

LEMMA ReadyStep ==
  ASSUME IInv, Ready
  PROVE  IInv'
<1>1. TypeOK'
  BY StateFacts DEF IInv, TypeOK, Ready, Goto, Agrees, journal, Rest, bounds
<1>2. AcceptInv' /\ BrokerInv'
  BY StateFacts DEF IInv, AcceptInv, BrokerInv, EnteredBars, Ready, Goto, Agrees,
       journal, Rest, bounds
<1>3. MemoryInv' /\ DiskInv' /\ HaltInv'
  BY StateFacts DEF IInv, MemoryInv, NoneRejectedAccepted, EntriesProcessed, Working,
       Known, DiskInv, HaltInv, Ready, Goto, Agrees, journal, Rest, bounds
<1>4. OrderInv' /\ PositionInv'
  BY StateFacts DEF IInv, OrderInv, Working, BeforeSubmit, Known, PositionInv,
       Reliable, Ready, Goto, Agrees, journal, Rest, bounds
<1>5. RunningInv'
  BY StateFacts DEF IInv, RunningInv, Running, MemoryInv, Safe, Ready, Goto, Agrees,
       journal
<1>. QED  BY <1>1, <1>2, <1>3, <1>4, <1>5 DEF IInv

LEMMA PersistStep ==
  ASSUME IInv, Persist
  PROVE  IInv'
<1>1. TypeOK'
  BY StateFacts, FileFacts, BlankFacts, RecordFacts, BarFacts, OrderFacts DEF IInv,
       TypeOK, Persist, GoDown, journal, bounds
<1>2. AcceptInv' /\ BrokerInv'
  BY StateFacts, FileFacts, BlankFacts, RecordFacts, BarFacts, OrderFacts DEF IInv,
       AcceptInv, BrokerInv, EnteredBars, Persist, GoDown, journal, bounds
<1>3. MemoryInv' /\ HaltInv'
  BY StateFacts, FileFacts, BlankFacts, RecordFacts, BarFacts, OrderFacts DEF IInv,
       MemoryInv, NoneRejectedAccepted, EntriesProcessed, Working, Known, HaltInv,
       Persist, GoDown, journal, bounds
<1>4. DiskInv'
  BY StateFacts, FileFacts DEF IInv, DiskInv, NoneRejectedAccepted, EntriesProcessed,
       Working, Known, RunningInv, Running, MemoryInv, Persist, GoDown, bounds
<1>5. RunningInv' /\ OrderInv' /\ PositionInv'
  BY StateFacts, FileFacts, BlankFacts, RecordFacts, BarFacts, OrderFacts DEF IInv,
       RunningInv, Running, Known, Safe, Reliable, OrderInv, Working, BeforeSubmit,
       PositionInv, Persist, GoDown, journal, bounds
<1>. QED  BY <1>1, <1>2, <1>3, <1>4, <1>5 DEF IInv

LEMMA FeedFailsStep ==
  ASSUME IInv, FeedFails
  PROVE  IInv'
<1>1. TypeOK'
  BY StateFacts DEF IInv, TypeOK, FeedFails, Goto, journal, Rest, bounds
<1>2. AcceptInv' /\ BrokerInv'
  BY StateFacts DEF IInv, AcceptInv, BrokerInv, EnteredBars, FeedFails, Goto,
       journal, Rest, bounds
<1>3. MemoryInv' /\ DiskInv' /\ HaltInv'
  BY StateFacts DEF IInv, MemoryInv, NoneRejectedAccepted, EntriesProcessed, Working,
       Known, DiskInv, HaltInv, FeedFails, Goto, journal, Rest, bounds
<1>4. RunningInv' /\ OrderInv' /\ PositionInv'
  BY StateFacts DEF IInv, RunningInv, Running, Known, Safe, Reliable, OrderInv,
       Working, BeforeSubmit, PositionInv, FeedFails, Goto, journal, Rest, bounds
<1>. QED  BY <1>1, <1>2, <1>3, <1>4 DEF IInv

LEMMA NoTradeStep ==
  ASSUME IInv, NoTrade
  PROVE  IInv'
<1>a. /\ mem' \in Runtime
      /\ mem'.orders = mem.orders /\ mem'.position = mem.position
      /\ mem'.pending = bar /\ mem'.halted = mem.halted
      /\ mem.position \in Nat /\ mem.pending \in Nat /\ bar \in Nat
  BY StateFacts, BarFacts DEF NoTrade, IInv, TypeOK, Runtime
<1>1. TypeOK'
  BY <1>a, BarFacts, OrderFacts DEF IInv, TypeOK, NoTrade, NewCandle, journal, Rest,
       bounds
<1>2. AcceptInv' /\ BrokerInv'
  BY <1>a, BarFacts, OrderFacts DEF IInv, AcceptInv, BrokerInv, EnteredBars, NoTrade,
       NewCandle, journal, Rest, bounds
<1>3. MemoryInv' /\ DiskInv' /\ HaltInv'
  BY <1>a, BarFacts, OrderFacts DEF IInv, MemoryInv, NoneRejectedAccepted,
       EntriesProcessed, Working, Known, DiskInv, HaltInv, NoTrade, NewCandle,
       journal, Rest, bounds
<1>4. RunningInv' /\ OrderInv' /\ PositionInv'
  BY <1>a, BarFacts, OrderFacts DEF IInv, RunningInv, Running, Known, Safe, Reliable,
       OrderInv, Working, BeforeSubmit, PositionInv, NoTrade, NewCandle, journal,
       Rest, bounds
<1>. QED  BY <1>1, <1>2, <1>3, <1>4 DEF IInv

LEMMA BeginEntryStep ==
  ASSUME IInv, BeginEntry
  PROVE  IInv'
<1>a. /\ Entry(bar) \in OrderIds /\ Entry(bar).bar = bar /\ Entry(bar).kind = "entry"
      /\ bar \in Bars /\ bar > mem.pending /\ cur' = Entry(bar) /\ ~mem.halted
      /\ mem.position \in Nat /\ mem.pending \in Nat
  BY OrderFacts, StateFacts DEF BeginEntry, NewCandle, Create, IInv, TypeOK, HaltInv
<1>m. /\ mem' \in Runtime
      /\ mem'.orders = [mem.orders EXCEPT ![Entry(bar)] = Moved("CREATED", 0)]
      /\ mem'.orders[Entry(bar)].state = "CREATED"
      /\ \A o \in OrderIds \ {Entry(bar)} : mem'.orders[o] = mem.orders[o]
      /\ mem'.position = mem.position /\ mem'.pending = mem.pending
      /\ mem'.halted = mem.halted
  BY <1>a, StateFacts, RecordFacts DEF BeginEntry, Create, Runtime, Orders
<1>o. /\ mem.orders[Entry(bar)] = Absent
      /\ audit[Entry(bar)] = Absent /\ accepted[Entry(bar)] = 0
      /\ pc = "idle" /\ answer = "NONE" /\ audit = mem.orders
      /\ \A o \in OrderIds : Known(mem.orders[o])
      /\ EntriesProcessed(mem)
  BY <1>a DEF BeginEntry, NewCandle, Create, IInv, RunningInv, Running, AcceptInv,
       MemoryInv, Working
<1>1. TypeOK'
  BY <1>a, <1>m DEF IInv, TypeOK, BeginEntry, NewCandle, Create, journal, Rest, bounds
<1>2. AcceptInv'
  BY DEF IInv, AcceptInv, BeginEntry, NewCandle, Create, journal, Rest, bounds
<1>3. BrokerInv'
  BY DEF IInv, BrokerInv, EnteredBars, BeginEntry, NewCandle, Create, journal, Rest,
       bounds
<1>4. MemoryInv'
  BY <1>a, <1>m DEF IInv, MemoryInv, NoneRejectedAccepted, Working, BeginEntry,
       NewCandle, Create, journal, Rest, bounds
<1>5. DiskInv'
  BY <1>a, <1>o DEF IInv, DiskInv, NoneRejectedAccepted, EntriesProcessed, Working,
       Known, BeginEntry, NewCandle, Create, journal, Rest, bounds
<1>6. HaltInv'
  BY <1>a, <1>m, <1>o DEF IInv, HaltInv, BeginEntry, NewCandle, Create, journal,
       Rest, bounds
<1>7. RunningInv'
  BY <1>a, <1>m DEF RunningInv, Running, BeginEntry, NewCandle, Create, journal,
       Rest, bounds
<1>8. OrderInv'
  <2>1. \A o \in OrderIds \ {cur'} : Known(mem'.orders[o])
    BY <1>a, <1>m, <1>o DEF Known
  <2>2. \A b \in Bars :
          Entry(b) # cur' /\ mem'.orders[Entry(b)] # Absent => b <= mem'.pending
    BY <1>a, <1>m, <1>o, OrderFacts DEF EntriesProcessed
  <2>3. pc' = "created" /\ answer' = "NONE" /\ accepted' = accepted /\ audit' = audit
    BY <1>o DEF BeginEntry, NewCandle, Create, journal, Rest, bounds
  <2>. QED  BY <1>a, <1>m, <1>o, <2>1, <2>2, <2>3 DEF OrderInv, BeforeSubmit
<1>9. PositionInv'
  <2>1. mem.position = NoBar /\ broker.net = 0 /\ broker' = broker /\ accepted' = accepted
        /\ pc' = "created"
    BY DEF BeginEntry, EntryGate, Safe, Full, Create
  <2>2. ASSUME NEW b \in Bars, accepted[Entry(b)] > 0
        PROVE  b < bar
    <3>1. mem.orders[Entry(b)] # Absent
      BY <2>2, <1>o, OrderFacts DEF IInv, AcceptInv
    <3>. QED  BY <3>1, <1>a, <1>o, BarFacts DEF EntriesProcessed
  <2>. QED  BY <1>a, <1>m, <2>1, <2>2 DEF PositionInv, BeforeSubmit
<1>. QED  BY <1>1, <1>2, <1>3, <1>4, <1>5, <1>6, <1>7, <1>8, <1>9 DEF IInv

LEMMA BeginExitStep ==
  ASSUME IInv, BeginExit
  PROVE  IInv'
<1>a. /\ Exit(mem.position, bar) \in OrderIds
      /\ Exit(mem.position, bar).bar = bar /\ Exit(mem.position, bar).kind = "exit"
      /\ bar \in Bars /\ bar > mem.pending /\ cur' = Exit(mem.position, bar) /\ ~mem.halted
      /\ mem.position \in Nat /\ mem.pending \in Nat
  <2>1. mem.position \in Bars /\ bar \in Bars /\ mem.position <= mem.pending /\ bar > mem.pending
    BY RuntimeFacts, StateFacts DEF BeginExit, NewCandle, IInv, TypeOK, MemoryInv
  <2>2. mem.position < bar
    BY <2>1, StateFacts, BarFacts
  <2>. QED  BY <2>1, <2>2, OrderFacts, StateFacts DEF BeginExit, NewCandle, Create,
       IInv, HaltInv
<1>m. /\ mem' \in Runtime
      /\ mem'.orders = [mem.orders EXCEPT ![Exit(mem.position, bar)] = Moved("CREATED", 0)]
      /\ mem'.orders[Exit(mem.position, bar)].state = "CREATED"
      /\ \A o \in OrderIds \ {Exit(mem.position, bar)} : mem'.orders[o] = mem.orders[o]
      /\ mem'.position = mem.position /\ mem'.pending = mem.pending
      /\ mem'.halted = mem.halted
  BY <1>a, StateFacts, RecordFacts DEF BeginExit, Create, Runtime, Orders
<1>o. /\ mem.orders[Exit(mem.position, bar)] = Absent
      /\ audit[Exit(mem.position, bar)] = Absent /\ accepted[Exit(mem.position, bar)] = 0
      /\ pc = "idle" /\ answer = "NONE" /\ audit = mem.orders
      /\ \A o \in OrderIds : Known(mem.orders[o])
      /\ EntriesProcessed(mem)
  BY <1>a DEF BeginExit, NewCandle, Create, IInv, RunningInv, Running, AcceptInv,
       MemoryInv, Working
<1>1. TypeOK'
  BY <1>a, <1>m DEF IInv, TypeOK, BeginExit, NewCandle, Create, journal, Rest, bounds
<1>2. AcceptInv'
  BY DEF IInv, AcceptInv, BeginExit, NewCandle, Create, journal, Rest, bounds
<1>3. BrokerInv'
  BY DEF IInv, BrokerInv, EnteredBars, BeginExit, NewCandle, Create, journal, Rest,
       bounds
<1>4. MemoryInv'
  BY <1>a, <1>m DEF IInv, MemoryInv, NoneRejectedAccepted, Working, BeginExit,
       NewCandle, Create, journal, Rest, bounds
<1>5. DiskInv'
  BY <1>a, <1>o DEF IInv, DiskInv, NoneRejectedAccepted, EntriesProcessed, Working,
       Known, BeginExit, NewCandle, Create, journal, Rest, bounds
<1>6. HaltInv'
  BY <1>a, <1>m, <1>o DEF IInv, HaltInv, BeginExit, NewCandle, Create, journal, Rest,
       bounds
<1>7. RunningInv'
  BY <1>a, <1>m DEF RunningInv, Running, BeginExit, NewCandle, Create, journal, Rest,
       bounds
<1>8. OrderInv'
  <2>1. \A o \in OrderIds \ {cur'} : Known(mem'.orders[o])
    BY <1>a, <1>m, <1>o DEF Known
  <2>2. \A b \in Bars :
          Entry(b) # cur' /\ mem'.orders[Entry(b)] # Absent => b <= mem'.pending
    BY <1>a, <1>m, <1>o, OrderFacts DEF EntriesProcessed
  <2>3. pc' = "created" /\ answer' = "NONE" /\ accepted' = accepted /\ audit' = audit
    BY <1>o DEF BeginExit, NewCandle, Create, journal, Rest, bounds
  <2>. QED  BY <1>a, <1>m, <1>o, <2>1, <2>2, <2>3 DEF OrderInv, BeforeSubmit
<1>9. PositionInv'
  <2>1. broker.net = 0 \/ broker.net = Full
    BY <1>o DEF IInv, RunningInv, Running
  <2>2. mem.position # NoBar /\ broker' = broker /\ pc' = "created"
    BY DEF BeginExit, Create
  <2>3. Reliable => broker.net = Full
    BY <1>o, <2>2 DEF IInv, RunningInv, Running, Safe
  <2>. QED  BY <1>a, <1>m, <2>1, <2>2, <2>3 DEF PositionInv, BeforeSubmit
<1>. QED  BY <1>1, <1>2, <1>3, <1>4, <1>5, <1>6, <1>7, <1>8, <1>9 DEF IInv

LEMMA AuditCreatedStep ==
  ASSUME IInv, AuditCreated
  PROVE  IInv'
<1>w. /\ Working /\ cur \in OrderIds /\ cur.bar \in Bars /\ cur.kind \in {"entry", "exit"}
      /\ mem.position \in Nat /\ mem.pending \in Nat /\ cur.bar > mem.pending /\ ~mem.halted
  BY OrderFacts, StateFacts DEF AuditCreated, Goto, Working, IInv, OrderInv, HaltInv
<1>r. Moved("SUBMITTING", 0) \in Records
  BY RecordFacts
<1>m. /\ mem' = SetOrder(mem, Moved("SUBMITTING", 0))
      /\ mem' \in Runtime
      /\ mem'.orders = [mem.orders EXCEPT ![cur] = Moved("SUBMITTING", 0)]
      /\ mem'.orders[cur] = Moved("SUBMITTING", 0)
      /\ \A o \in OrderIds \ {cur} : mem'.orders[o] = mem.orders[o]
      /\ mem'.position = mem.position /\ mem'.pending = mem.pending
      /\ mem'.halted = mem.halted
  BY <1>w, <1>r, SetOrderFacts DEF AuditCreated
<1>u. /\ audit' \in Orders /\ audit'[cur] # Absent
      /\ \A o \in OrderIds \ {cur} : audit'[o] = audit[o]
  BY <1>w, <1>r, StateFacts, RecordFacts DEF AuditCreated, AppendEvent, Orders
<1>1. TypeOK'
  BY <1>w, <1>m, <1>u, RecordFacts DEF IInv, TypeOK, AuditCreated, AppendEvent, Goto,
       Rest, bounds
<1>2. AcceptInv' /\ BrokerInv'
  BY <1>w, <1>m, <1>u, RecordFacts DEF IInv, AcceptInv, BrokerInv, EnteredBars,
       AuditCreated, AppendEvent, Goto, Rest, bounds
<1>3. MemoryInv' /\ DiskInv' /\ HaltInv'
  BY <1>w, <1>m, <1>u, RecordFacts DEF IInv, MemoryInv, NoneRejectedAccepted,
       EntriesProcessed, Working, Known, DiskInv, HaltInv, AuditCreated, AppendEvent,
       Goto, Rest, bounds
<1>4. RunningInv' /\ PositionInv'
  BY <1>w, <1>m, <1>u, RecordFacts DEF IInv, RunningInv, Running, Known, Safe,
       Reliable, PositionInv, Working, BeforeSubmit, AuditCreated, AppendEvent, Goto,
       Rest, bounds
<1>5. OrderInv'
  <2>1. \A o \in OrderIds \ {cur'} : Known(mem'.orders[o])
    BY <1>w, <1>m, <1>u DEF AuditCreated, IInv, OrderInv
  <2>2. \A b \in Bars :
          Entry(b) # cur' /\ mem'.orders[Entry(b)] # Absent => b <= mem'.pending
    BY <1>w, <1>m, <1>u, OrderFacts DEF AuditCreated, IInv, OrderInv
  <2>. QED  BY <1>w, <1>m, <1>u, <2>1, <2>2, RecordFacts DEF IInv, OrderInv, Working,
       BeforeSubmit, AuditCreated, AppendEvent, Goto, Rest, bounds
<1>. QED  BY <1>1, <1>2, <1>3, <1>4, <1>5 DEF IInv

LEMMA AuditSubmittingStep ==
  ASSUME IInv, AuditSubmitting
  PROVE  IInv'
<1>w. /\ Working /\ cur \in OrderIds /\ cur.bar \in Bars /\ cur.kind \in {"entry", "exit"}
      /\ mem.position \in Nat /\ mem.pending \in Nat /\ cur.bar > mem.pending /\ ~mem.halted
  BY OrderFacts, StateFacts DEF AuditSubmitting, Goto, Working, IInv, OrderInv,
       HaltInv
<1>r. Moved("SUBMITTING", 0) \in Records
  BY RecordFacts
<1>u. /\ audit' \in Orders /\ audit'[cur] # Absent
      /\ \A o \in OrderIds \ {cur} : audit'[o] = audit[o]
  BY <1>w, <1>r, StateFacts, RecordFacts DEF AuditSubmitting, AppendEvent, Orders
<1>1. TypeOK'
  BY <1>w, <1>u, RecordFacts DEF IInv, TypeOK, AuditSubmitting, AppendEvent, Goto,
       Rest, bounds
<1>2. AcceptInv' /\ BrokerInv'
  BY <1>w, <1>u, RecordFacts DEF IInv, AcceptInv, BrokerInv, EnteredBars,
       AuditSubmitting, AppendEvent, Goto, Rest, bounds
<1>3. MemoryInv' /\ DiskInv' /\ HaltInv'
  BY <1>w, <1>u, RecordFacts DEF IInv, MemoryInv, NoneRejectedAccepted,
       EntriesProcessed, Working, Known, DiskInv, HaltInv, AuditSubmitting,
       AppendEvent, Goto, Rest, bounds
<1>4. RunningInv' /\ PositionInv'
  BY <1>w, <1>u, RecordFacts DEF IInv, RunningInv, Running, Known, Safe, Reliable,
       PositionInv, Working, BeforeSubmit, AuditSubmitting, AppendEvent, Goto, Rest,
       bounds
<1>5. OrderInv'
  <2>1. \A o \in OrderIds \ {cur'} : Known(mem'.orders[o])
    BY <1>w, <1>u DEF AuditSubmitting, IInv, OrderInv
  <2>2. \A b \in Bars :
          Entry(b) # cur' /\ mem'.orders[Entry(b)] # Absent => b <= mem'.pending
    BY <1>w, <1>u, OrderFacts DEF AuditSubmitting, IInv, OrderInv
  <2>. QED  BY <1>w, <1>u, <2>1, <2>2, RecordFacts DEF IInv, OrderInv, Working,
       BeforeSubmit, AuditSubmitting, AppendEvent, Goto, Rest, bounds
<1>. QED  BY <1>1, <1>2, <1>3, <1>4, <1>5 DEF IInv

LEMMA DisconnectedStep ==
  ASSUME IInv, Disconnected
  PROVE  IInv'
<1>w. /\ Working /\ cur \in OrderIds /\ cur.bar \in Bars /\ cur.kind \in {"entry", "exit"}
      /\ mem.position \in Nat /\ mem.pending \in Nat /\ cur.bar > mem.pending /\ ~mem.halted
  BY OrderFacts, StateFacts DEF Disconnected, Goto, Working, IInv, OrderInv, HaltInv
<1>r. Moved("UNKNOWN", 0) \in Records
  BY RecordFacts
<1>m. /\ mem' = SetOrder(mem, Moved("UNKNOWN", 0))
      /\ mem' \in Runtime
      /\ mem'.orders = [mem.orders EXCEPT ![cur] = Moved("UNKNOWN", 0)]
      /\ mem'.orders[cur] = Moved("UNKNOWN", 0)
      /\ \A o \in OrderIds \ {cur} : mem'.orders[o] = mem.orders[o]
      /\ mem'.position = mem.position /\ mem'.pending = mem.pending
      /\ mem'.halted = mem.halted
  BY <1>w, <1>r, SetOrderFacts DEF Disconnected
<1>1. TypeOK'
  BY <1>w, <1>m, RecordFacts DEF IInv, TypeOK, Disconnected, Goto, journal, Rest,
       bounds
<1>2. AcceptInv' /\ BrokerInv'
  BY <1>w, <1>m, RecordFacts DEF IInv, AcceptInv, BrokerInv, EnteredBars,
       Disconnected, Goto, journal, Rest, bounds
<1>3. MemoryInv' /\ DiskInv' /\ HaltInv'
  BY <1>w, <1>m, RecordFacts DEF IInv, MemoryInv, NoneRejectedAccepted,
       EntriesProcessed, Working, Known, DiskInv, HaltInv, Disconnected, Goto,
       journal, Rest, bounds
<1>4. RunningInv' /\ PositionInv'
  BY <1>w, <1>m, RecordFacts DEF IInv, RunningInv, Running, Known, Safe, Reliable,
       PositionInv, Working, BeforeSubmit, Disconnected, Goto, journal, Rest, bounds
<1>5. OrderInv'
  <2>1. \A o \in OrderIds \ {cur'} : Known(mem'.orders[o])
    BY <1>w, <1>m DEF Disconnected, IInv, OrderInv
  <2>2. \A b \in Bars :
          Entry(b) # cur' /\ mem'.orders[Entry(b)] # Absent => b <= mem'.pending
    BY <1>w, <1>m, OrderFacts DEF Disconnected, IInv, OrderInv
  <2>. QED  BY <1>w, <1>m, <2>1, <2>2, RecordFacts DEF IInv, OrderInv, Working,
       BeforeSubmit, Disconnected, Goto, journal, Rest, bounds
<1>. QED  BY <1>1, <1>2, <1>3, <1>4, <1>5 DEF IInv

LEMMA RejectStep ==
  ASSUME IInv, Reject
  PROVE  IInv'
<1>w. /\ Working /\ cur \in OrderIds /\ cur.bar \in Bars /\ cur.kind \in {"entry", "exit"}
      /\ mem.position \in Nat /\ mem.pending \in Nat /\ cur.bar > mem.pending /\ ~mem.halted
  BY OrderFacts, StateFacts DEF Reject, Goto, Working, IInv, OrderInv, HaltInv
<1>1. TypeOK'
  BY <1>w DEF IInv, TypeOK, Reject, Goto, journal, Rest, bounds
<1>2. AcceptInv' /\ BrokerInv'
  BY <1>w DEF IInv, AcceptInv, BrokerInv, EnteredBars, Reject, Goto, journal, Rest,
       bounds
<1>3. MemoryInv' /\ DiskInv' /\ HaltInv'
  BY <1>w DEF IInv, MemoryInv, NoneRejectedAccepted, EntriesProcessed, Working,
       Known, DiskInv, HaltInv, Reject, Goto, journal, Rest, bounds
<1>4. RunningInv' /\ OrderInv' /\ PositionInv'
  BY <1>w DEF IInv, RunningInv, Running, Known, Safe, Reliable, OrderInv, Working,
       BeforeSubmit, PositionInv, Reject, Goto, journal, Rest, bounds
<1>. QED  BY <1>1, <1>2, <1>3, <1>4 DEF IInv

LEMMA RecordAnswerStep ==
  ASSUME IInv, RecordAnswer
  PROVE  IInv'
<1>w. /\ Working /\ cur \in OrderIds /\ cur.bar \in Bars /\ cur.kind \in {"entry", "exit"}
      /\ mem.position \in Nat /\ mem.pending \in Nat /\ cur.bar > mem.pending /\ ~mem.halted
  BY OrderFacts, StateFacts DEF RecordAnswer, Goto, Working, IInv, OrderInv, HaltInv
<1>r. Outcome \in Records /\ Outcome.state = answer
  BY RecordFacts DEF Outcome, RecordAnswer, Goto, IInv, TypeOK, OrderInv, Working
<1>m. /\ mem' = SetOrder(mem, Outcome)
      /\ mem' \in Runtime
      /\ mem'.orders = [mem.orders EXCEPT ![cur] = Outcome]
      /\ mem'.orders[cur] = Outcome
      /\ \A o \in OrderIds \ {cur} : mem'.orders[o] = mem.orders[o]
      /\ mem'.position = mem.position /\ mem'.pending = mem.pending
      /\ mem'.halted = mem.halted
  BY <1>w, <1>r, SetOrderFacts DEF RecordAnswer
<1>u. /\ audit' \in Orders /\ audit'[cur] # Absent
      /\ \A o \in OrderIds \ {cur} : audit'[o] = audit[o]
  BY <1>w, <1>r, StateFacts, RecordFacts DEF RecordAnswer, AppendEvent, Orders
<1>1. TypeOK'
  BY <1>w, <1>m, <1>u, RecordFacts DEF IInv, TypeOK, RecordAnswer, AppendEvent, Goto,
       Rest, bounds
<1>2. AcceptInv' /\ BrokerInv'
  BY <1>w, <1>m, <1>u, RecordFacts DEF IInv, AcceptInv, BrokerInv, EnteredBars,
       RecordAnswer, AppendEvent, Goto, Rest, bounds
<1>3. DiskInv' /\ HaltInv'
  BY <1>w, <1>m, <1>u, RecordFacts DEF IInv, DiskInv, NoneRejectedAccepted,
       EntriesProcessed, Working, Known, HaltInv, RecordAnswer, AppendEvent, Goto,
       Rest, bounds
<1>4. MemoryInv'
  <2>1. NoneRejectedAccepted(mem.orders)'
    BY <1>w, <1>m, <1>r DEF NoneRejectedAccepted, RecordAnswer, Goto, IInv,
         MemoryInv, OrderInv, Rest
  <2>. QED  BY <2>1, <1>w, <1>m DEF IInv, MemoryInv, RecordAnswer, Goto, Working
<1>5. RunningInv'
  BY <1>w, <1>m, <1>u, RecordFacts DEF IInv, RunningInv, Running, Known, Safe,
       Reliable, RecordAnswer, AppendEvent, Goto, Rest, bounds
<1>6. OrderInv'
  <2>1. \A o \in OrderIds \ {cur'} : Known(mem'.orders[o])
    BY <1>w, <1>m, <1>u DEF RecordAnswer, IInv, OrderInv
  <2>2. \A b \in Bars :
          Entry(b) # cur' /\ mem'.orders[Entry(b)] # Absent => b <= mem'.pending
    BY <1>w, <1>m, <1>u, OrderFacts DEF RecordAnswer, IInv, OrderInv
  <2>. QED  BY <1>w, <1>m, <1>u, <1>r, <2>1, <2>2, RecordFacts DEF IInv, OrderInv,
       Working, BeforeSubmit, RecordAnswer, AppendEvent, Goto, Rest, bounds
<1>7. PositionInv'
  BY <1>w, <1>m, <1>r DEF IInv, PositionInv, Working, BeforeSubmit, Reliable,
       RecordAnswer, AppendEvent, Goto, Rest, bounds
<1>. QED  BY <1>1, <1>2, <1>3, <1>4, <1>5, <1>6, <1>7 DEF IInv

LEMMA AcceptStep ==
  ASSUME IInv, NEW state \in {"FILLED", "PARTIALLY_FILLED"}, NEW odd \in BOOLEAN,
         NEW lost \in BOOLEAN, Accept(state, odd, lost)
  PROVE  IInv'
<1>w. /\ Working /\ BeforeSubmit /\ cur \in OrderIds /\ cur.bar \in Bars
      /\ cur.kind \in {"entry", "exit"} /\ ~mem.halted
      /\ accepted[cur] = 0 /\ audit[cur] # Absent
      /\ disk.file = "ok" => disk.state.orders[cur] = Absent
      /\ pc = "submit" /\ mem.orders[cur].state = "SUBMITTING"
  BY OrderFacts DEF Accept, Working, BeforeSubmit, IInv, OrderInv, HaltInv, DiskInv
<1>p. answer' = state /\ UNCHANGED <<disk, audit, chain, cur, todo, bar>>
  BY DEF Accept, journal, Rest
<1>q. \/ pc' = "unknown" /\ mem' = SetOrder(mem, Moved("UNKNOWN", 0))
      \/ pc' = "answered" /\ mem' = mem
  BY Zenon DEF Accept
<1>m. /\ mem' \in Runtime
      /\ \/ pc' = "unknown" /\ mem'.orders[cur].state = "UNKNOWN"
         \/ pc' = "answered" /\ mem'.orders[cur].state = "SUBMITTING"
      /\ \A o \in OrderIds \ {cur} : mem'.orders[o] = mem.orders[o]
      /\ mem'.position = mem.position /\ mem'.pending = mem.pending
      /\ mem'.halted = mem.halted
  <2>1. Moved("UNKNOWN", 0) \in Records /\ Moved("UNKNOWN", 0).state = "UNKNOWN"
    BY RecordFacts
  <2>2. CASE pc' = "unknown" /\ mem' = SetOrder(mem, Moved("UNKNOWN", 0))
    BY <2>1, <2>2, <1>w, SetOrderFacts
  <2>3. CASE pc' = "answered" /\ mem' = mem
    BY <2>3, <1>w, StateFacts
  <2>. QED  BY <1>q, <2>2, <2>3
<1>b. /\ broker.orders \in Orders /\ broker.net \in -2 .. 2 /\ broker.odd \in BOOLEAN
      /\ broker \in [orders : Orders, net : -Full .. Full, odd : BOOLEAN]
      /\ cur.kind = "entry" => broker.net = 0
      /\ cur.kind = "exit" => broker.net \in {0, 2} /\ (Reliable => broker.net = 2)
  BY <1>w DEF IInv, TypeOK, PositionInv, Full
<1>f. CASE broker.orders[cur] = Absent
  <2>1. broker' = Fill(state, odd) /\ accepted' = [accepted EXCEPT ![cur] = @ + 1]
    BY <1>f DEF Accept
  <2>2. /\ accepted' \in [OrderIds -> Nat] /\ accepted'[cur] = 1
        /\ \A o \in OrderIds \ {cur} : accepted'[o] = accepted[o]
    BY <2>1, <1>w DEF IInv, TypeOK
  <2>3. PICK filled \in {1, 2} :
          /\ Moved(state, filled) \in Records
          /\ broker'.orders = [broker.orders EXCEPT ![cur] = Moved(state, filled)]
          /\ broker'.net = IF cur.kind = "entry" THEN broker.net + filled
                                                 ELSE broker.net - filled
          /\ broker'.odd \in BOOLEAN
          /\ broker' = [orders |-> broker'.orders, net |-> broker'.net, odd |-> broker'.odd]
    <3>1. CASE state = "FILLED"
      BY <3>1, <2>1, <1>b, RecordFacts DEF Fill, Full
    <3>2. CASE state = "PARTIALLY_FILLED"
      BY <3>2, <2>1, <1>b, RecordFacts DEF Fill, Part
    <3>. QED  BY <3>1, <3>2
  <2>4. broker'.orders \in Orders
    BY <2>3, <1>b, <1>w DEF Orders
  <2>5. broker'.net \in -2 .. 2 /\ (Reliable => broker'.net >= 0)
    BY <2>3, <1>b, <1>w
  <2>6. broker' \in [orders : Orders, net : -Full .. Full, odd : BOOLEAN]
    BY <2>3, <2>4, <2>5 DEF Full
  <2>7. \A o \in OrderIds : broker'.orders[o].state \in {"ABSENT", "FILLED", "PARTIALLY_FILLED"}
    BY <2>3, <1>b, <1>w, RecordFacts DEF Orders, IInv, BrokerInv
  <2>8. Reliable => EnteredBars' # {}
    <3>1. CASE cur.kind = "entry"
      <4>1. accepted'[Entry(cur.bar)] > 0
        BY <3>1, <1>w, <2>2, OrderFacts
      <4>. QED  BY <4>1, <1>w DEF EnteredBars
    <3>2. CASE cur.kind = "exit"
      <4>1. Reliable => EnteredBars # {}
        BY <3>2, <1>b DEF IInv, BrokerInv
      <4>2. EnteredBars \subseteq EnteredBars'
        BY <2>2, OrderFacts, StateFacts DEF EnteredBars
      <4>. QED  BY <4>1, <4>2
    <3>. QED  BY <3>1, <3>2, <1>w
  <2>9. TypeOK'
    BY <1>p, <1>m, <2>2, <2>6 DEF IInv, TypeOK
  <2>10. AcceptInv' /\ BrokerInv'
    BY <1>w, <1>p, <2>2, <2>5, <2>7, <2>8 DEF IInv, AcceptInv, BrokerInv
  <2>11. MemoryInv' /\ HaltInv' /\ RunningInv'
    BY <1>w, <1>p, <1>m, <2>2
       DEF IInv, MemoryInv, HaltInv, RunningInv, Running, NoneRejectedAccepted,
            Working
  <2>12. DiskInv'
    BY <1>w, <1>p, <1>m, <2>2, RecordFacts
       DEF IInv, DiskInv, NoneRejectedAccepted, EntriesProcessed, Working
  <2>13. OrderInv' /\ PositionInv'
    BY <1>w, <1>p, <1>m, OrderFacts
       DEF IInv, OrderInv, PositionInv, Working, BeforeSubmit
  <2>. QED  BY <2>9, <2>10, <2>11, <2>12, <2>13 DEF IInv
<1>k. CASE broker.orders[cur] # Absent
  <2>1. UNCHANGED <<broker, accepted>>
    BY <1>k DEF Accept
  <2>2. TypeOK'
    BY <1>p, <1>m, <2>1 DEF IInv, TypeOK
  <2>3. AcceptInv' /\ BrokerInv'
    BY <1>p, <2>1 DEF IInv, AcceptInv, BrokerInv, EnteredBars
  <2>4. MemoryInv' /\ HaltInv' /\ RunningInv'
    BY <1>w, <1>p, <1>m, <2>1
       DEF IInv, MemoryInv, HaltInv, RunningInv, Running, NoneRejectedAccepted,
            Working
  <2>5. DiskInv'
    BY <1>w, <1>p, <1>m, <2>1 DEF IInv, DiskInv, NoneRejectedAccepted,
         EntriesProcessed, Working
  <2>6. OrderInv' /\ PositionInv'
    BY <1>w, <1>p, <1>m, OrderFacts
       DEF IInv, OrderInv, PositionInv, Working, BeforeSubmit
  <2>. QED  BY <2>2, <2>3, <2>4, <2>5, <2>6 DEF IInv
<1>. QED  BY <1>f, <1>k

LEMMA AuditUnknownStep ==
  ASSUME IInv, AuditUnknown
  PROVE  IInv'
<1>w. Working /\ cur \in OrderIds /\ pc = "unknown" /\ mem.orders[cur].state = "UNKNOWN"
  BY DEF AuditUnknown, Working, IInv, OrderInv
<1>u. /\ audit' \in Orders /\ audit'[cur] # Absent
      /\ \A o \in OrderIds \ {cur} : audit'[o] = audit[o]
      /\ UNCHANGED <<chain, broker, cur, answer, todo, disk, bar, accepted>>
  BY <1>w, StateFacts, RecordFacts DEF AuditUnknown, AppendEvent, Orders, Rest
<1>a. AcceptInv' /\ BrokerInv'
  BY <1>w, <1>u DEF IInv, AcceptInv, BrokerInv, EnteredBars
<1>1. CASE pc' = "answered" /\ answer # "NONE" /\ UNCHANGED mem
  <2>1. TypeOK'
    BY <1>1, <1>u DEF IInv, TypeOK
  <2>2. MemoryInv' /\ DiskInv' /\ HaltInv' /\ RunningInv'
    BY <1>1, <1>u, <1>w DEF IInv, MemoryInv, DiskInv, HaltInv, RunningInv, Running,
         NoneRejectedAccepted, EntriesProcessed, Working
  <2>3. OrderInv' /\ PositionInv'
    BY <1>1, <1>u, <1>w DEF IInv, OrderInv, PositionInv, Working, BeforeSubmit
  <2>. QED  BY <1>a, <2>1, <2>2, <2>3 DEF IInv
<1>2. CASE HaltTick(mem)
  <2>1. /\ mem' \in Runtime /\ pc' = "persist"
        /\ MemoryInv' /\ DiskInv' /\ HaltInv' /\ RunningInv' /\ OrderInv' /\ PositionInv'
    BY <1>2, <1>u, <1>w, StateFacts, HaltTickKeeps
  <2>2. TypeOK'
    BY <2>1, <1>u DEF IInv, TypeOK
  <2>. QED  BY <1>a, <2>1, <2>2 DEF IInv
<1>. QED  BY <1>1, <1>2 DEF AuditUnknown

LEMMA RecordAnswerFailsStep ==
  ASSUME IInv, RecordAnswerFails
  PROVE  IInv'
<1>w. /\ Working /\ cur \in OrderIds /\ answer \in {"FILLED", "PARTIALLY_FILLED", "REJECTED"}
      /\ answer = "REJECTED" => accepted[cur] = 0
  BY DEF RecordAnswerFails, Working, IInv, OrderInv, TypeOK
<1>r. Outcome \in Records /\ Outcome.state = answer
  BY <1>w, RecordFacts DEF Outcome
<1>u. /\ audit' \in Orders
      /\ \A o \in OrderIds : audit'[o] = audit[o] \/ audit'[o] # Absent
      /\ chain' \in {"ok", "tail", "broken"}
      /\ UNCHANGED <<broker, cur, answer, todo, disk, bar, accepted>>
  <2>1. audit \in Orders /\ chain \in {"ok", "tail", "broken"}
    BY DEF IInv, TypeOK
  <2>. QED  BY <1>w, <1>r, <2>1, RecordFacts
            DEF RecordAnswerFails, AppendEvent, Orders, journal
<1>m. /\ mem' \in Runtime /\ pc' = "persist"
      /\ MemoryInv' /\ DiskInv' /\ HaltInv' /\ RunningInv' /\ OrderInv' /\ PositionInv'
  <2>1. HaltTick(SetOrder(mem, Outcome))
    BY DEF RecordAnswerFails
  <2>. QED  BY <2>1, <1>w, <1>r, <1>u, SetOrderFacts, HaltTickKeeps
<1>1. TypeOK'
  BY <1>m, <1>u DEF IInv, TypeOK
<1>2. AcceptInv' /\ BrokerInv'
  BY <1>u DEF IInv, AcceptInv, BrokerInv, EnteredBars
<1>. QED  BY <1>m, <1>1, <1>2 DEF IInv

LEMMA SettleEntryStep ==
  ASSUME IInv, SettleEntry
  PROVE  IInv'
<1>w. /\ Working /\ cur \in OrderIds /\ cur.bar \in Bars /\ cur.kind = "entry"
      /\ cur = Entry(cur.bar) /\ pc = "settle" /\ mem.orders[cur].state = answer
      /\ mem.position = NoBar /\ ~mem.halted
      /\ answer = "REJECTED" => accepted[cur] = 0 /\ broker.net = 0
  BY OrderFacts DEF SettleEntry, Working, IInv, OrderInv, PositionInv, HaltInv
<1>u. UNCHANGED <<audit, chain, broker, cur, answer, todo, disk, bar, accepted>>
  BY DEF SettleEntry, journal, Rest
<1>n. /\ cur.bar \in Nat /\ mem.pending \in Nat /\ cur.bar > mem.pending
      /\ mem \in Runtime /\ broker.net \in Int
  BY <1>w, BarFacts, StateFacts DEF IInv, OrderInv
<1>a. AcceptInv' /\ BrokerInv'
  BY <1>u DEF IInv, AcceptInv, BrokerInv, EnteredBars
<1>h. ASSUME NEW m \in Runtime, HaltTick(m), m.orders = mem.orders, m.pending = mem.pending,
             m.position \in {mem.position, cur.bar}
      PROVE  IInv'
  <2>1. m.orders[cur].state = "REJECTED" => accepted[cur] = 0
    BY <1>h, <1>w
  <2>2. /\ mem' \in Runtime /\ pc' = "persist"
        /\ MemoryInv' /\ DiskInv' /\ HaltInv' /\ RunningInv' /\ OrderInv' /\ PositionInv'
    BY <1>h, <1>u, <1>w, <2>1, HaltTickKeeps
  <2>3. TypeOK'
    BY <2>2, <1>u DEF IInv, TypeOK
  <2>. QED  BY <1>a, <2>2, <2>3 DEF IInv
<1>g. ASSUME NEW m \in Runtime, mem' = Processed(m), pc' = "persist",
             m.orders = mem.orders, m.halted = mem.halted, Agrees(mem),
             \/ answer = "REJECTED" /\ m.position = mem.position
             \/ answer = "FILLED" /\ m.position = cur.bar /\ Safe(m)
      PROVE  IInv'
  <2>1. /\ mem' \in Runtime /\ mem'.orders = mem.orders /\ mem'.position = m.position
        /\ mem'.pending = cur.bar /\ ~mem'.halted
    BY <1>g, <1>w, ProcessedFacts
  <2>2. TypeOK'
    BY <1>g, <2>1, <1>u DEF IInv, TypeOK
  <2>3. EntriesProcessed(mem')
    <3>1. ASSUME NEW b \in Bars, mem'.orders[Entry(b)] # Absent
          PROVE  b <= mem'.pending
      <4>1. CASE Entry(b) = cur
        BY <4>1, <1>n, <2>1, OrderFacts
      <4>2. CASE Entry(b) # cur
        BY <4>2, <3>1, <1>n, <1>w, <2>1, BarFacts DEF IInv, OrderInv
      <4>. QED  BY <4>1, <4>2
    <3>. QED  BY <3>1 DEF EntriesProcessed
  <2>4. MemoryInv'
    <3>1. NoneRejectedAccepted(mem.orders)'
      BY <2>1, <1>u DEF NoneRejectedAccepted, IInv, MemoryInv
    <3>2. mem'.position <= mem'.pending
      BY <1>g, <2>1, <1>w, <1>n DEF NoBar
    <3>. QED  BY <1>g, <2>3, <3>1, <3>2 DEF MemoryInv, EntriesProcessed
  <2>5. DiskInv' /\ HaltInv'
    BY <1>g, <1>u, <2>1, <1>w
       DEF IInv, DiskInv, HaltInv, NoneRejectedAccepted, EntriesProcessed, Working
  <2>6. \A o \in OrderIds : Known(mem'.orders[o])
    BY <1>g, <2>1, <1>w DEF IInv, OrderInv, Known
  <2>7. /\ broker.net = 0 \/ (mem'.position # NoBar /\ broker.net = Full /\ ~broker.odd)
        /\ Safe(mem)'
    BY <1>g, <2>1, <1>w, <1>u, BarFacts DEF Safe
  <2>8. RunningInv'
    BY <1>g, <1>u, <2>1, <2>6, <2>7 DEF RunningInv, Agrees
  <2>9. OrderInv' /\ PositionInv'
    BY <1>g DEF OrderInv, PositionInv, Working
  <2>. QED  BY <1>a, <2>2, <2>4, <2>5, <2>8, <2>9 DEF IInv
<1>1. CASE HaltTick(mem)
  BY <1>1, <1>h, <1>n
<1>2. CASE /\ Agrees(mem) /\ mem.orders[cur].state = "REJECTED"
           /\ mem' = Processed(mem) /\ pc' = "persist"
  BY <1>2, <1>g, <1>n, <1>w
<1>3. CASE /\ Agrees(mem) /\ mem.orders[cur].state = "FILLED"
           /\ IF Safe([mem EXCEPT !.position = cur.bar])
              THEN mem' = Processed([mem EXCEPT !.position = cur.bar]) /\ pc' = "persist"
              ELSE HaltTick([mem EXCEPT !.position = cur.bar])
  <2>. DEFINE filled == [mem EXCEPT !.position = cur.bar]
  <2>1. /\ filled \in Runtime /\ filled.orders = mem.orders /\ filled.halted = mem.halted
        /\ filled.pending = mem.pending /\ filled.position = cur.bar
    BY <1>n, <1>w DEF Runtime
  <2>2. CASE Safe(filled)
    <3>1. mem' = Processed(filled) /\ pc' = "persist"
      BY <1>3, <2>2
    <3>. HIDE DEF filled
    <3>. QED  BY <1>3, <2>1, <2>2, <3>1, <1>g, <1>w
  <2>3. CASE ~Safe(filled)
    <3>1. HaltTick(filled)
      BY <1>3, <2>3
    <3>. HIDE DEF filled
    <3>. QED  BY <2>1, <3>1, <1>h
  <2>. QED  BY <2>2, <2>3
<1>. QED  BY <1>1, <1>2, <1>3 DEF SettleEntry

LEMMA SettleExitStep ==
  ASSUME IInv, SettleExit
  PROVE  IInv'
<1>w. /\ Working /\ cur \in OrderIds /\ cur.kind = "exit" /\ pc = "settle"
      /\ mem.orders[cur].state = answer /\ mem.position # NoBar
      /\ answer = "REJECTED" => accepted[cur] = 0
  BY DEF SettleExit, Working, IInv, OrderInv, PositionInv
<1>u. UNCHANGED <<audit, chain, broker, cur, answer, todo, disk, bar, accepted>>
  BY DEF SettleExit, journal, Rest
<1>a. AcceptInv' /\ BrokerInv'
  BY <1>u DEF IInv, AcceptInv, BrokerInv, EnteredBars
<1>1. CASE HaltTick(mem)
  <2>1. /\ mem' \in Runtime /\ pc' = "persist"
        /\ MemoryInv' /\ DiskInv' /\ HaltInv' /\ RunningInv' /\ OrderInv' /\ PositionInv'
    BY <1>1, <1>u, <1>w, StateFacts, HaltTickKeeps
  <2>2. TypeOK'
    BY <2>1, <1>u DEF IInv, TypeOK
  <2>. QED  BY <1>a, <2>1, <2>2 DEF IInv
<1>2. CASE /\ mem.orders[cur].state = "FILLED" /\ broker.net = 0
           /\ mem' = SetOrder(mem, Moved("CLOSED", Full)) /\ pc' = "closing"
  <2>1. /\ mem' \in Runtime /\ mem'.orders[cur].state = "CLOSED"
        /\ \A o \in OrderIds \ {cur} : mem'.orders[o] = mem.orders[o]
        /\ mem'.position = mem.position /\ mem'.pending = mem.pending
        /\ mem'.halted = mem.halted
    <3>1. Moved("CLOSED", Full) \in Records /\ Moved("CLOSED", Full).state = "CLOSED"
      BY RecordFacts
    <3>. QED  BY <1>2, <1>w, <3>1, SetOrderFacts
  <2>2. TypeOK'
    BY <1>2, <2>1, <1>u DEF IInv, TypeOK
  <2>3. MemoryInv' /\ DiskInv' /\ HaltInv' /\ RunningInv'
    BY <1>2, <2>1, <1>u, <1>w DEF IInv, MemoryInv, DiskInv, HaltInv, RunningInv,
         Running,
         NoneRejectedAccepted, EntriesProcessed, Working
  <2>4. OrderInv'
    BY <1>2, <2>1, <1>u, <1>w, OrderFacts DEF IInv, OrderInv, Working, BeforeSubmit
  <2>5. PositionInv'
    BY <1>2, <2>1, <1>u, <1>w DEF IInv, PositionInv, Working, BeforeSubmit
  <2>. QED  BY <1>a, <2>2, <2>3, <2>4, <2>5 DEF IInv
<1>. QED  BY <1>1, <1>2 DEF SettleExit

LEMMA AuditClosedStep ==
  ASSUME IInv, AuditClosed
  PROVE  IInv'
<1>w. /\ Working /\ cur \in OrderIds /\ cur.bar \in Bars /\ cur.kind = "exit" /\ pc = "closing"
      /\ mem.orders[cur].state = "CLOSED" /\ broker.net = 0 /\ ~mem.halted
  BY OrderFacts DEF AuditClosed, Goto, Working, IInv, OrderInv, PositionInv, HaltInv
<1>n. /\ cur.bar \in Nat /\ mem.pending \in Nat /\ cur.bar > mem.pending /\ mem \in Runtime
      /\ mem.orders[cur] # Absent /\ mem.orders[cur] \in Records /\ mem.orders \in Orders
  BY <1>w, BarFacts, StateFacts, OrderTypes DEF IInv, OrderInv
<1>u. /\ audit' \in Orders /\ audit'[cur] # Absent /\ pc' = "persist"
      /\ \A o \in OrderIds \ {cur} : audit'[o] = audit[o]
      /\ UNCHANGED <<chain, broker, cur, answer, todo, disk, bar, accepted>>
  BY <1>w, <1>n, StateFacts DEF AuditClosed, Goto, AppendEvent, Orders, Rest
<1>m. /\ mem' \in Runtime /\ mem'.orders = mem.orders /\ mem'.position = NoBar
      /\ mem'.pending \in {mem.pending, cur.bar}
      /\ mem'.halted \/ audit' = mem.orders
  <2>. DEFINE flat == [mem EXCEPT !.position = NoBar]
  <2>1. /\ flat \in Runtime /\ flat.orders = mem.orders /\ flat.position = NoBar
        /\ flat.pending = mem.pending
    BY <1>n DEF Runtime
  <2>2. CASE chain = "ok" /\ audit' = mem.orders
    <3>1. mem' = [flat EXCEPT !.pending = cur.bar]
      BY <2>2 DEF AuditClosed
    <3>. HIDE DEF flat
    <3>. QED  BY <2>1, <2>2, <3>1, <1>w DEF Runtime
  <2>3. CASE ~(chain = "ok" /\ audit' = mem.orders)
    <3>1. mem' = Halted(flat)
      BY <2>3 DEF AuditClosed
    <3>. HIDE DEF flat
    <3>. QED  BY <2>1, <3>1, RuntimeFacts
  <2>. QED  BY <2>2, <2>3
<1>1. TypeOK'
  BY <1>m, <1>u DEF IInv, TypeOK
<1>2. AcceptInv' /\ BrokerInv'
  BY <1>w, <1>u DEF IInv, AcceptInv, BrokerInv, EnteredBars
<1>3. EntriesProcessed(mem')
  <2>1. ASSUME NEW b \in Bars, mem'.orders[Entry(b)] # Absent
        PROVE  b <= mem'.pending
    BY <2>1, <1>w, <1>n, <1>m, OrderFacts, BarFacts DEF IInv, OrderInv
  <2>. QED  BY <2>1 DEF EntriesProcessed
<1>4. MemoryInv'
  BY <1>3, <1>m, <1>n, <1>u DEF IInv, MemoryInv, NoneRejectedAccepted,
       EntriesProcessed, NoBar
<1>5. DiskInv' /\ HaltInv'
  BY <1>u, <1>w DEF IInv, DiskInv, HaltInv, NoneRejectedAccepted, EntriesProcessed,
       Working
<1>6. RunningInv'
  BY <1>u, <1>m, <1>w DEF IInv, OrderInv, RunningInv, Running, Known, Safe
<1>7. OrderInv' /\ PositionInv'
  BY <1>u DEF OrderInv, PositionInv, Working
<1>. QED  BY <1>1, <1>2, <1>4, <1>5, <1>6, <1>7 DEF IInv

-----------------------------------------------------------------------------
(* The invariant and what follows from it.                                 *)

LEMMA InitInv == Init => IInv
<1> SUFFICES ASSUME Init PROVE IInv
  OBVIOUS
<1>1. TypeOK
  BY BlankFacts, PaperAssumption DEF Init, TypeOK, Bars
<1>2. AcceptInv /\ BrokerInv
  BY BlankFacts, RecordFacts DEF Init, AcceptInv, BrokerInv
<1>3. MemoryInv /\ DiskInv /\ HaltInv
  BY BlankFacts, RecordFacts, FileFacts, BarFacts, OrderFacts
     DEF Init, MemoryInv, DiskInv, HaltInv, NoneRejectedAccepted, EntriesProcessed,
          Working
<1>4. RunningInv /\ OrderInv /\ PositionInv
  BY DEF Init, RunningInv, Running, OrderInv, PositionInv, Working
<1>. QED  BY <1>1, <1>2, <1>3, <1>4 DEF IInv

LEMMA NextInv == IInv /\ [Next]_vars => IInv'
<1> SUFFICES ASSUME IInv, [Next]_vars PROVE IInv'
  OBVIOUS
<1>1. CASE Startup
  BY <1>1, LoadStep, LoadCorruptStep, ReadyStep, RecoverOrderStep,
       RecoverOrderFailsStep
     DEF Startup
<1>2. CASE Submit
  BY <1>2, AcceptStep, RejectStep, DisconnectedStep DEF Submit
<1>3. CASE Tick /\ ~Submit
  BY <1>3, FeedFailsStep, NoTradeStep, BeginEntryStep, BeginExitStep,
       AuditCreatedStep,
     AuditSubmittingStep, AuditUnknownStep, RecordAnswerStep, RecordAnswerFailsStep,
     SettleEntryStep, SettleExitStep, AuditClosedStep DEF Tick
<1>4. CASE Persist \/ Crash \/ BrokerLost \/ PositionDisappears
           \/ TamperJournal \/ CorruptCheckpoint \/ NewBar
  BY <1>4, PersistStep, CrashStep, BrokerLostStep, PositionDisappearsStep,
     TamperJournalStep, CorruptCheckpointStep, NewBarStep
<1>5. CASE UNCHANGED vars
  BY <1>5 DEF vars, journal, process, bounds, IInv, TypeOK, AcceptInv, BrokerInv,
       EnteredBars,
     MemoryInv, DiskInv, HaltInv, RunningInv, Running, Safe, OrderInv, PositionInv,
     NoneRejectedAccepted, EntriesProcessed, Working, BeforeSubmit
<1>. QED  BY <1>1, <1>2, <1>3, <1>4, <1>5 DEF Next

(* The invariant holds in every behaviour. *)
THEOREM Invariance == Spec => []IInv
BY InitInv, NextInv, PTL DEF Spec

(* Every record, in memory, on disk, in the journal and at the broker, is  *)
(* one that OrderStateMachine.restore accepts.                             *)
THEOREM TypeCorrect == Spec => []TypeOK
<1>1. IInv => TypeOK
  BY DEF IInv
<1>. QED  BY <1>1, Invariance, PTL

(* The broker accepts no order twice, however often the process dies and   *)
(* whatever the broker forgets: evaluate_system_readiness and the startup  *)
(* recovery compare the checkpoint with the journal before an order is     *)
(* created, and the journal has the order before the broker.               *)
THEOREM NoSecondAccept == Spec => []AcceptedOnce
<1>1. IInv => AcceptedOnce
  BY DEF IInv, AcceptInv, AcceptedOnce
<1>. QED  BY <1>1, Invariance, PTL

(* Every order the broker ever accepted has its event in the journal.      *)
THEOREM NoUnauditedOrder == Spec => []AcceptedIsAudited
<1>1. IInv => AcceptedIsAudited
  BY StateFacts DEF IInv, AcceptInv, AcceptedIsAudited
<1>. QED  BY <1>1, Invariance, PTL

LEMMA StoppedStep ==
  ASSUME IInv, [Next]_vars, Stopped
  PROVE  Stopped' /\ accepted' = accepted
<1>1. /\ ~Working /\ pc # "idle" /\ (pc = "down" \/ mem.halted)
      /\ mem.halted => pc \in {"recover", "persist"}
  BY FileFacts DEF Stopped, IInv, HaltInv, Working
<1>2. CASE Startup
  <2>1. disk' = disk /\ accepted' = accepted
    BY <1>2 DEF Startup, Load, LoadCorrupt, Ready, RecoverOrder, RecoverOrderFails,
       StartFrom, Rest
  <2>2. ASSUME disk = Corrupt PROVE mem'.halted
    <3>1. CASE Load
      BY <3>1, <2>2, FileFacts DEF Load
    <3>2. CASE LoadCorrupt
      BY <3>2, BlankFacts, RuntimeFacts DEF LoadCorrupt
    <3>3. CASE Ready
      BY <3>3, <1>1, StateFacts DEF Ready, Goto
    <3>4. ASSUME NEW o \in OrderIds, RecoverOrder(o) PROVE mem'.halted
      BY <3>4, <1>1, StateFacts DEF RecoverOrder, Runtime
    <3>5. ASSUME NEW o \in OrderIds, RecoverOrderFails(o) PROVE mem'.halted
      BY <3>5, <1>1, StateFacts DEF RecoverOrderFails, Halted, Runtime
    <3>. QED  BY <1>2, <3>1, <3>2, <3>3, <3>4, <3>5 DEF Startup
  <2>. QED  BY <2>1, <2>2, FileFacts DEF Stopped
<1>3. CASE Persist
  BY <1>1, <1>3, FileFacts DEF Persist, Stopped
<1>4. CASE Tick
  BY <1>1, <1>4 DEF Tick, Submit, FeedFails, NoTrade, BeginEntry, BeginExit,
       NewCandle, Goto,
     AuditCreated, AuditSubmitting, Accept, Reject, Disconnected, AuditUnknown, RecordAnswer,
     RecordAnswerFails, SettleEntry, SettleExit, AuditClosed, Working
<1>5. CASE Crash
  BY <1>1, <1>5 DEF Crash, GoDown, Stopped
<1>6. CASE BrokerLost \/ PositionDisappears \/ TamperJournal \/ NewBar \/ UNCHANGED vars
  BY <1>6 DEF BrokerLost, PositionDisappears, TamperJournal, NewBar, vars, journal,
       process,
     bounds, Stopped
<1>7. CASE CorruptCheckpoint
  BY <1>1, <1>7 DEF CorruptCheckpoint, journal, process, Stopped
<1>. QED  BY <1>2, <1>3, <1>4, <1>5, <1>6, <1>7 DEF Next

(* A halt that reached the checkpoint is never left: no restart resumes    *)
(* from it and no order is accepted after it.                              *)
THEOREM HaltForever == Spec => HaltIsFinal
<1>1. IInv /\ [Next]_vars => [Stopped => Stopped' /\ accepted' = accepted]_vars
  BY StoppedStep
<1>. QED  BY <1>1, Invariance, PTL DEF Spec, HaltIsFinal

(* If the broker loses no position under a waiting process, the account is *)
(* flat or holds at most the one ordered position.                         *)
THEOREM NeverReversed == Reliable /\ Spec => []NetWithinOnePosition
<1> SUFFICES ASSUME Reliable PROVE Spec => []NetWithinOnePosition
  OBVIOUS
<1>1. IInv => NetWithinOnePosition
  <2> SUFFICES ASSUME IInv PROVE NetWithinOnePosition
    OBVIOUS
  <2>1. broker.net \in -Full .. Full
    BY DEF IInv, TypeOK
  <2>. QED  BY <2>1 DEF IInv, BrokerInv, NetWithinOnePosition, Full
<1>. QED  BY <1>1, Invariance, PTL

(* Under the same condition a runtime that waits for the next candle       *)
(* agrees with its broker and its journal, and knows every accepted order. *)
THEOREM WaitingAgrees == Reliable /\ Spec => []RunningAgrees
<1> SUFFICES ASSUME Reliable PROVE Spec => []RunningAgrees
  OBVIOUS
<1>1. IInv => RunningAgrees
  <2> SUFFICES ASSUME IInv, pc = "idle"
               PROVE  /\ Safe(mem) /\ audit = mem.orders
                      /\ \A o \in OrderIds : accepted[o] > 0 =>
                           mem.orders[o].state \in {"FILLED", "CLOSED"}
    BY DEF RunningAgrees
  <2>1. /\ Safe(mem) /\ audit = mem.orders
        /\ \A o \in OrderIds : Known(mem.orders[o])
    BY DEF IInv, RunningInv, Running
  <2>2. ASSUME NEW o \in OrderIds, accepted[o] > 0
        PROVE  mem.orders[o].state \in {"FILLED", "CLOSED"}
    <3>1. mem.orders[o] # Absent
      BY <2>1, <2>2 DEF IInv, AcceptInv
    <3>2. mem.orders[o].state # "REJECTED"
      BY <2>2 DEF IInv, MemoryInv, NoneRejectedAccepted
    <3>. QED  BY <2>1, <3>1, <3>2, StateFacts, OrderTypes DEF Known
  <2>. QED  BY <2>1, <2>2
<1>. QED  BY <1>1, Invariance, PTL

-----------------------------------------------------------------------------
(* The trades at the broker keep the contract.                             *)

(* The latest bar with an accepted entry exists. *)
LatestInv ==
  EnteredBars # {} => \E b \in EnteredBars : \A c \in EnteredBars : c <= b

LEMMA LatestFacts ==
  /\ EnteredBars \subseteq Bars
  /\ EnteredBars = {} => LastEntry = NoBar
  /\ LatestInv /\ EnteredBars # {} =>
       LastEntry \in EnteredBars /\ \A c \in EnteredBars : c <= LastEntry
BY DEF EnteredBars, LastEntry, LatestInv

(* An order the broker accepts is a new latest trade or an exit.           *)
LEMMA AcceptTrade ==
  ASSUME IInv, LatestInv, Reliable,
         NEW state \in {"FILLED", "PARTIALLY_FILLED"}, NEW odd \in BOOLEAN,
         NEW lost \in BOOLEAN, Accept(state, odd, lost)
  PROVE  \/ UNCHANGED <<broker.net, EnteredBars>>
         \/ /\ broker.net = 0 /\ broker'.net > 0
            /\ cur.bar \in Bars /\ EnteredBars' = EnteredBars \cup {cur.bar}
            /\ \A c \in EnteredBars : c < cur.bar
         \/ /\ broker.net > 0 /\ broker'.net >= 0 /\ EnteredBars' = EnteredBars
<1>1. /\ cur \in OrderIds /\ cur.bar \in Bars /\ cur.kind \in {"entry", "exit"}
      /\ cur.kind = "entry" => cur = Entry(cur.bar)
      /\ accepted[cur] = 0 /\ accepted \in [OrderIds -> Nat] /\ broker.net \in Int
      /\ cur.kind = "entry" =>
           broker.net = 0 /\ \A b \in Bars : accepted[Entry(b)] > 0 => b < cur.bar
      /\ cur.kind = "exit" => broker.net = 2
  BY OrderFacts, StateFacts
     DEF Accept, Working, BeforeSubmit, IInv, TypeOK, OrderInv, PositionInv, Full
<1>2. CASE broker.orders[cur] # Absent
  BY <1>2 DEF Accept, EnteredBars
<1>3. CASE broker.orders[cur] = Absent
  <2>1. broker' = Fill(state, odd) /\ accepted' = [accepted EXCEPT ![cur] = @ + 1]
    BY <1>3 DEF Accept
  <2>2. PICK filled \in {1, 2} :
          broker'.net = IF cur.kind = "entry" THEN broker.net + filled
                                              ELSE broker.net - filled
    <3>1. CASE state = "FILLED"
      BY <3>1, <2>1 DEF Fill, Full
    <3>2. CASE state = "PARTIALLY_FILLED"
      BY <3>2, <2>1 DEF Fill, Part
    <3>. QED  BY <3>1, <3>2
  <2>3. CASE cur.kind = "entry"
    <3>1. EnteredBars' = EnteredBars \cup {cur.bar}
      <4>1. accepted'[cur] = 1 /\ \A o \in OrderIds \ {cur} : accepted'[o] = accepted[o]
        BY <2>1, <1>1
      <4>2. \A b \in Bars : Entry(b) = cur <=> b = cur.bar
        BY <1>1, <2>3, OrderFacts
      <4>. QED  BY <4>1, <4>2, <1>1, OrderFacts DEF EnteredBars
    <3>. QED  BY <1>1, <2>2, <2>3, <3>1 DEF EnteredBars
  <2>4. CASE cur.kind = "exit"
    <3>1. EnteredBars' = EnteredBars
      BY <2>1, <2>4, <1>1, OrderFacts DEF EnteredBars
    <3>. QED  BY <1>1, <2>2, <2>4, <3>1
  <2>. QED  BY <1>1, <2>3, <2>4
<1>. QED  BY <1>2, <1>3

(* Every other step leaves the account alone, or loses what it holds.      *)
LEMMA OtherTrade ==
  ASSUME IInv, [Next]_vars,
         ~\E state \in {"FILLED", "PARTIALLY_FILLED"}, odd \in BOOLEAN, lost \in BOOLEAN :
            Accept(state, odd, lost)
  PROVE  accepted' = accepted /\ (broker'.net = broker.net \/ broker'.net = 0)
<1>1. CASE BrokerLost
  BY <1>1, BlankFacts DEF BrokerLost
<1>2. CASE PositionDisappears
  <2>1. accepted' = accepted /\ broker' = [broker EXCEPT !.net = 0, !.odd = FALSE]
    BY <1>2 DEF PositionDisappears
  <2>2. broker \in [orders : Orders, net : -Full .. Full, odd : BOOLEAN]
    BY DEF IInv, TypeOK
  <2>. QED  BY <2>1, <2>2
<1>3. CASE UNCHANGED <<broker, accepted>>
  BY <1>3
<1>4. ~BrokerLost /\ ~PositionDisappears => UNCHANGED <<broker, accepted>>
  BY DEF Next, Startup, Tick, Submit, Load, LoadCorrupt, Ready, RecoverOrder,
     RecoverOrderFails, StartFrom, Persist, FeedFails, NoTrade, BeginEntry, BeginExit, Create,
     AuditCreated, AuditSubmitting, Reject, Disconnected, AuditUnknown, RecordAnswer,
     RecordAnswerFails, SettleEntry, SettleExit, AuditClosed, Crash, TamperJournal,
     CorruptCheckpoint, NewBar, vars
<1>. QED  BY <1>1, <1>2, <1>3, <1>4


Trade ==
  IF broker.net = 0 THEN NoBar
  ELSE IF broker.net > 0 THEN LastEntry ELSE MaxBar + 1

LEMMA TradeInitial == Init => LatestInv /\ Contract!TradeInit
<1> SUFFICES ASSUME Init PROVE LatestInv /\ Contract!TradeInit
  OBVIOUS
<1>1. EnteredBars = {} /\ broker.net = 0
  BY OrderFacts, BlankFacts DEF Init, EnteredBars
<1>. QED  BY <1>1, LatestFacts DEF LatestInv, Contract!TradeInit, NoBar

LEMMA TradeStep ==
  ASSUME IInv, LatestInv, Reliable, [Next]_vars
  PROVE  LatestInv' /\ [Contract!TradeNext]_<<Trade, LastEntry>>
<1>0. /\ broker.net \in Int /\ broker.net >= 0
      /\ broker.net # 0 => EnteredBars # {}
      /\ EnteredBars \subseteq Bars
      /\ EnteredBars # {} => LastEntry \in Bars
  BY StateFacts, LatestFacts DEF IInv, BrokerInv
<1>n. broker'.net \in Int
  <2>1. broker' \in [orders : Orders, net : -Full .. Full, odd : BOOLEAN]
    BY NextInv DEF IInv, TypeOK
  <2>. QED  BY <2>1 DEF Full
<1>1. \/ broker'.net = broker.net /\ EnteredBars' = EnteredBars
      \/ /\ broker.net = 0 /\ broker'.net > 0
         /\ \E b \in Bars : /\ EnteredBars' = EnteredBars \cup {b}
                           /\ \A c \in EnteredBars : c < b
      \/ broker.net > 0 /\ broker'.net >= 0 /\ EnteredBars' = EnteredBars
  <2>1. CASE \E state \in {"FILLED", "PARTIALLY_FILLED"}, odd \in BOOLEAN, lost \in BOOLEAN :
               Accept(state, odd, lost)
    BY <2>1, AcceptTrade
  <2>2. CASE ~\E state \in {"FILLED", "PARTIALLY_FILLED"}, odd \in BOOLEAN, lost \in BOOLEAN :
               Accept(state, odd, lost)
    <3>1. accepted' = accepted /\ (broker'.net = broker.net \/ broker'.net = 0)
      BY <2>2, OtherTrade
    <3>. QED  BY <3>1, <1>0 DEF EnteredBars
  <2>. QED  BY <2>1, <2>2
<1>2. CASE /\ EnteredBars' = EnteredBars
           /\ broker'.net = broker.net \/ (broker.net > 0 /\ broker'.net >= 0)
  <2>1. LatestInv' /\ LastEntry' = LastEntry
    BY <1>2 DEF LatestInv, LastEntry
  <2>2. CASE broker'.net = broker.net
    BY <2>1, <2>2 DEF Trade
  <2>3. CASE broker.net > 0 /\ broker'.net > 0
    BY <2>1, <2>3, <1>0 DEF Trade
  <2>4. CASE broker.net > 0 /\ broker'.net = 0
    <3>1. Contract!Close
      BY <2>1, <2>4, <1>0, BarFacts DEF Contract!Close, NoBar
    <3>. QED  BY <2>1, <3>1 DEF Contract!TradeNext
  <2>5. \/ broker'.net = broker.net
        \/ broker.net > 0 /\ broker'.net > 0
        \/ broker.net > 0 /\ broker'.net = 0
    BY <1>2, <1>0, <1>n
  <2>. QED  BY <2>2, <2>3, <2>4, <2>5
<1>3. ASSUME broker.net = 0, broker'.net > 0,
             NEW b \in Bars, EnteredBars' = EnteredBars \cup {b},
             \A c \in EnteredBars : c < b
      PROVE  LatestInv' /\ Contract!TradeNext
  <2>1. b \in EnteredBars' /\ \A c \in EnteredBars' : c <= b
    BY <1>3, <1>0, BarFacts
  <2>2. LatestInv'
    BY <2>1 DEF LatestInv
  <2>3. LastEntry' = b
    <3>1. LastEntry' \in EnteredBars' /\ \A c \in EnteredBars' : c <= LastEntry'
      BY <2>1 DEF LastEntry
    <3>2. LastEntry' <= b /\ b <= LastEntry' /\ LastEntry' \in Bars
      BY <2>1, <3>1, <1>0, <1>3
    <3>. QED  BY <3>2, BarFacts
  <2>4. b > LastEntry
    BY <1>3, LatestFacts, BarFacts
  <2>5. Contract!Open(b)
    BY <1>3, <2>3, <2>4, BarFacts DEF Contract!Open, NoBar
  <2>. QED  BY <2>2, <2>5 DEF Contract!TradeNext, Bars
<1>. QED  BY <1>1, <1>2, <1>3

(* Under the same condition the account at the broker implements the       *)
(* contract of the trades: one at a time, one per bar, each later than the *)
(* one before, and closed, never reversed or enlarged.                     *)
THEOREM ImplementsTradeContract == Reliable /\ Spec => KeepsTradeContract
<1> SUFFICES ASSUME Reliable PROVE Spec => KeepsTradeContract
  OBVIOUS
<1>1. IInv /\ LatestInv /\ [Next]_vars =>
        LatestInv' /\ [Contract!TradeNext]_<<Trade, LastEntry>>
  BY TradeStep
<1>. QED  BY <1>1, TradeInitial, Invariance, PTL
          DEF Spec, KeepsTradeContract, Contract!TradeSpec, Trade

=============================================================================
