---------------------- MODULE PaperRuntimeEngineProofs ----------------------
(***************************************************************************)
(* Theorems about PaperRuntimeEngine, for any number of bars, crashes,     *)
(* failing writes and damaged files, any signals and any failure modes.    *)
(***************************************************************************)
EXTENDS PaperRuntimeEngine, TLAPS

-----------------------------------------------------------------------------
(* Type correctness, and the places where a bar is at hand.                *)

BarAtHand ==
  /\ pc \in {"pending", "fill"} => mem.pending # NoBar /\ mem.position = NoBar
  /\ pc = "append" => mem.last # NoBar

TInv == TypeOK /\ BarAtHand

LEMMA BlankTyped == Blank \in Engine
BY DEF Blank, Engine, AllFailureModes, NoBar

LEMMA HaltedTyped ==
  ASSUME NEW m \in Engine
  PROVE  Halted(m) \in Engine
BY DEF Halted, Engine

LEMMA RestoredTyped ==
  ASSUME NEW m \in Engine
  PROVE  Restored(m) \in Engine
BY DEF Restored, Engine

(* A checkpoint that can be read is one that export wrote. *)
LEMMA DiskTyped ==
  ASSUME TypeOK, disk.file = "ok"
  PROVE  disk \in Engine
BY DEF TypeOK, NoFile, Corrupt

LEMMA TInit == Init => TInv
<1> SUFFICES ASSUME Init PROVE TInv
  OBVIOUS
<1>1. TypeOK
  <2>1. hist \in Seq(Bars) /\ entered \in [Bars -> Nat]
    BY DEF Init
  <2>2. 1 \in Bars
    BY EngineAssumption DEF Bars
  <2>3. torn \in BOOLEAN /\ retried \in BOOLEAN
    BY DEF Init
  <2> QED
    BY <2>1, <2>2, <2>3, BlankTyped, EngineAssumption DEF Init, TypeOK
<1>2. BarAtHand
  BY DEF Init, BarAtHand
<1> QED
  BY <1>1, <1>2 DEF TInv

LEMMA TOperation ==
  ASSUME TInv,
         Construct \/ Recover \/ Start \/ StopRuntime
           \/ \E mode \in FailureModes : SetFailureMode(mode)
  PROVE  TInv'
<1> USE DEF TInv, TypeOK, BarAtHand, files, world
<1>1. CASE Construct
  BY <1>1 DEF Construct
<1>2. CASE Recover
  <2>1. CASE RecoveryFails
    <3>1. mem' \in Engine
      BY <1>2, <2>1, DiskTyped, HaltedTyped DEF Recover
    <3>2. pc' \in {"idle", "ended"} /\ retried' \in BOOLEAN
      BY <1>2, <2>1, EngineAssumption DEF Recover
    <3> QED
      BY <1>2, <2>1, <3>1, <3>2 DEF Recover
  <2>2. CASE ~RecoveryFails
    <3>1. mem' \in Engine
      BY <1>2, <2>2, DiskTyped, RestoredTyped DEF Recover, RecoveryFails
    <3>2. retried' \in BOOLEAN
      BY <1>2, EngineAssumption DEF Recover
    <3> QED
      BY <1>2, <2>2, <3>1, <3>2 DEF Recover
  <2> QED
    BY <2>1, <2>2
<1>3. CASE Start
  <2>1. mem' \in Engine
    BY <1>3 DEF Start, Engine
  <2> QED
    BY <1>3, <2>1 DEF Start
<1>4. CASE StopRuntime
  <2>1. mem' \in Engine
    BY <1>4 DEF StopRuntime, Engine
  <2> QED
    BY <1>4, <2>1 DEF StopRuntime
<1>5. CASE \E mode \in FailureModes : SetFailureMode(mode)
  <2>1. mem' \in Engine
    BY <1>5, EngineAssumption DEF SetFailureMode, Engine
  <2> QED
    BY <1>5, <2>1 DEF SetFailureMode
<1> QED
  BY <1>1, <1>2, <1>3, <1>4, <1>5

LEMMA TBar ==
  ASSUME TInv, NEW b \in 1 .. bar, ProcessBar(b)
  PROVE  TInv'
<1> USE DEF TInv, TypeOK, BarAtHand, files, world
<1>0. b \in Bars /\ b # NoBar
  BY EngineAssumption DEF Bars, NoBar
<1>1. CASE IgnoreBar(b)
  BY <1>1 DEF IgnoreBar
<1>2. CASE RefuseBar(b)
  BY <1>2, HaltedTyped DEF RefuseBar
<1>3. CASE HoldPosition(b)
  <2>1. mem' \in Engine /\ mem'.last = b
    BY <1>0, <1>3 DEF HoldPosition, Engine
  <2> QED
    BY <1>0, <1>3, <2>1 DEF HoldPosition
<1>4. CASE ExitPosition(b)
  <2>1. mem' \in Engine /\ mem'.last = b
    BY <1>0, <1>4 DEF ExitPosition, Engine
  <2> QED
    BY <1>0, <1>4, <2>1 DEF ExitPosition
<1>5. CASE NoEntry(b)
  <2>1. mem' \in Engine /\ mem'.last = b
    BY <1>0, <1>5 DEF NoEntry, Engine
  <2> QED
    BY <1>0, <1>5, <2>1 DEF NoEntry
<1>6. CASE EntryHalts(b)
  <2>1. [mem EXCEPT !.marked = b] \in Engine
    BY <1>0 DEF Engine
  <2> QED
    BY <1>6, <2>1, HaltedTyped DEF EntryHalts
<1>7. CASE Enter(b)
  <2>1. mem' \in Engine /\ mem'.pending = b /\ mem'.position = NoBar
    BY <1>0, <1>7 DEF Enter, Engine
  <2> QED
    BY <1>0, <1>7, <2>1 DEF Enter
<1> QED
  BY <1>1, <1>2, <1>3, <1>4, <1>5, <1>6, <1>7 DEF ProcessBar

LEMMA TFill ==
  ASSUME TInv, FillLost \/ FillRejected \/ FillRefused \/ Filled
  PROVE  TInv'
<1> USE DEF TInv, TypeOK, BarAtHand, files, world
<1>0. pc = "fill" /\ mem.pending \in Bars /\ mem.pending # NoBar
  BY DEF FillLost, FillRejected, FillRefused, Filled, Engine
<1>1. CASE FillLost
  BY <1>1, HaltedTyped DEF FillLost
<1>2. CASE FillRejected
  <2>1. mem' \in Engine /\ mem'.last = mem.pending
    BY <1>0, <1>2 DEF FillRejected, Engine
  <2> QED
    BY <1>0, <1>2, <2>1 DEF FillRejected
<1>3. CASE FillRefused
  <2>1. [mem EXCEPT !.pending = NoBar] \in Engine
    BY DEF Engine
  <2> QED
    BY <1>3, <2>1, HaltedTyped DEF FillRefused
<1>4. CASE Filled
  <2>1. mem' \in Engine /\ mem'.last = mem.pending
    BY <1>0, <1>4 DEF Filled, Engine
  <2>2. entered' \in [Bars -> Nat]
    BY <1>0, <1>4 DEF Filled
  <2> QED
    BY <1>0, <1>4, <2>1, <2>2 DEF Filled
<1> QED
  BY <1>1, <1>2, <1>3, <1>4

LEMMA TWrite ==
  ASSUME TInv, Write
  PROVE  TInv'
<1> USE DEF TInv, TypeOK, BarAtHand, files, world
<1>0. /\ mem.last \in Bars \cup {NoBar}
      /\ Halted(mem) \in Engine
      /\ Halted(mem).pending = mem.pending
      /\ Halted(mem).position = mem.position
  BY HaltedTyped DEF Engine, Halted
<1>1. Later(mem.last, top) \in Bars \cup {NoBar}
  BY <1>0 DEF Later
<1>2. CASE Save("pending", "fill")
  BY <1>1, <1>2 DEF Save
<1>3. CASE Save("save", "idle")
  BY <1>1, <1>3 DEF Save
<1>4. CASE SaveFails("pending", "fill")
  BY <1>0, <1>4, EngineAssumption DEF SaveFails, Fault
<1>5. CASE SaveFails("save", "idle")
  BY <1>0, <1>5, EngineAssumption DEF SaveFails, Fault
<1>6. CASE AppendHistory
  <2>1. hist' \in Seq(Bars)
    BY <1>0, <1>6 DEF AppendHistory
  <2> QED
    BY <1>6, <2>1 DEF AppendHistory
<1>7. CASE HistoryRejected
  BY <1>0, <1>7 DEF HistoryRejected
<1>8. CASE AppendFails
  <2>1. hist' \in Seq(Bars)
    BY <1>0, <1>8 DEF AppendFails
  <2>2. torn' \in BOOLEAN
    BY <1>8 DEF AppendFails
  <2> QED
    BY <1>0, <1>8, <2>1, <2>2, EngineAssumption DEF AppendFails, Fault
<1> QED
  BY <1>2, <1>3, <1>4, <1>5, <1>6, <1>7, <1>8 DEF Write

LEMMA TWorld ==
  ASSUME TInv, Crash \/ CorruptCheckpoint \/ CorruptHistory \/ NewBar
  PROVE  TInv'
<1> USE DEF TInv, TypeOK, BarAtHand, files, world
<1>1. CASE Crash
  <2>1. torn' \in BOOLEAN
    BY <1>1 DEF Crash
  <2>2. crashes' \in 0 .. MaxCrashes
    BY <1>1, EngineAssumption DEF Crash
  <2> QED
    BY <1>1, <2>1, <2>2, BlankTyped DEF Crash
<1>2. CASE CorruptCheckpoint
  BY <1>2, EngineAssumption DEF CorruptCheckpoint
<1>3. CASE CorruptHistory
  BY <1>3, EngineAssumption DEF CorruptHistory
<1>4. CASE NewBar
  BY <1>4, EngineAssumption DEF NewBar, Bars
<1> QED
  BY <1>1, <1>2, <1>3, <1>4

LEMMA TNext ==
  ASSUME TInv, [Next]_vars
  PROVE  TInv'
<1>1. CASE UNCHANGED vars
  BY <1>1 DEF TInv, TypeOK, BarAtHand, vars
<1> QED
  BY <1>1, TOperation, TBar, TFill, TWrite, TWorld DEF Next

(* Every state of the engine and its files is well typed.                  *)
THEOREM TypeCorrect == Spec => []TypeOK
<1>1. TInv => TypeOK
  BY DEF TInv
<1> QED
  BY <1>1, TInit, TNext, PTL DEF Spec

-----------------------------------------------------------------------------
(* What an engine object can look like, whoever uses it and however its    *)
(* files fail.                                                             *)

PendInv ==
  mem.pending # NoBar /\ pc \notin {"pending", "fill"} =>
    mem.lifecycle = "HALT" /\ ~mem.running

LifeInv ==
  pc \notin {"pending", "fill"} =>
    /\ mem.lifecycle = "OPEN" => mem.position # NoBar
    /\ mem.lifecycle = "FLAT" => mem.position = NoBar
    /\ mem.lifecycle # "UNKNOWN"

ObjectInv == PendInv /\ LifeInv

LEMMA HaltedFields ==
  ASSUME NEW m \in Engine
  PROVE  /\ Halted(m).lifecycle = "HALT" /\ Halted(m).running = FALSE
         /\ Halted(m).last = m.last /\ Halted(m).pending = m.pending
         /\ Halted(m).position = m.position
BY DEF Halted, Engine

LEMMA RestoredFields ==
  ASSUME NEW m \in Engine
  PROVE  /\ Restored(m).lifecycle = IF m.position # NoBar THEN "OPEN" ELSE "FLAT"
         /\ Restored(m).running = FALSE
         /\ Restored(m).last = m.last /\ Restored(m).pending = m.pending
         /\ Restored(m).position = m.position
BY DEF Restored, Engine

LEMMA ObjectInit == Init => ObjectInv
BY DEF Init, ObjectInv, PendInv, LifeInv, Blank, NoBar

LEMMA ObjectOperation ==
  ASSUME TInv, ObjectInv,
         Construct \/ Recover \/ Start \/ StopRuntime
           \/ \E mode \in FailureModes : SetFailureMode(mode)
  PROVE  ObjectInv'
<1> USE DEF TInv, TypeOK, ObjectInv, PendInv, LifeInv
<1>1. CASE Construct
  BY <1>1 DEF Construct
<1>2. CASE Recover
  <2>1. CASE RecoveryFails
    BY <1>2, <2>1, DiskTyped, HaltedFields DEF Recover
  <2>2. CASE ~RecoveryFails
    BY <1>2, <2>2, DiskTyped, RestoredFields DEF Recover, RecoveryFails
  <2> QED
    BY <2>1, <2>2
<1>3. CASE Start
  BY <1>3 DEF Start, Engine
<1>4. CASE StopRuntime
  BY <1>4 DEF StopRuntime, Engine
<1>5. CASE \E mode \in FailureModes : SetFailureMode(mode)
  BY <1>5 DEF SetFailureMode, Engine
<1> QED
  BY <1>1, <1>2, <1>3, <1>4, <1>5

LEMMA ObjectBar ==
  ASSUME TInv, ObjectInv, NEW b \in 1 .. bar, ProcessBar(b)
  PROVE  ObjectInv'
<1> USE DEF TInv, TypeOK, ObjectInv, PendInv, LifeInv
<1>1. CASE IgnoreBar(b)
  BY <1>1 DEF IgnoreBar
<1>2. CASE RefuseBar(b)
  BY <1>2, HaltedFields DEF RefuseBar
<1>3. CASE HoldPosition(b)
  BY <1>3 DEF HoldPosition, AcceptsBar, Engine
<1>4. CASE ExitPosition(b)
  BY <1>4 DEF ExitPosition, AcceptsBar, Engine
<1>5. CASE NoEntry(b)
  BY <1>5 DEF NoEntry, AcceptsBar, Engine
<1>6. CASE EntryHalts(b)
  BY <1>6 DEF EntryHalts, AcceptsBar, Halted, Engine
<1>7. CASE Enter(b)
  BY <1>7 DEF Enter
<1> QED
  BY <1>1, <1>2, <1>3, <1>4, <1>5, <1>6, <1>7 DEF ProcessBar

LEMMA ObjectFill ==
  ASSUME TInv, ObjectInv, FillLost \/ FillRejected \/ FillRefused \/ Filled
  PROVE  ObjectInv'
<1> USE DEF TInv, TypeOK, BarAtHand, ObjectInv, PendInv, LifeInv
<1>1. CASE FillLost
  BY <1>1, HaltedFields DEF FillLost
<1>2. CASE FillRejected
  BY <1>2 DEF FillRejected, Engine
<1>3. CASE FillRefused
  BY <1>3 DEF FillRefused, Halted, Engine
<1>4. CASE Filled
  BY <1>4 DEF Filled, Engine
<1> QED
  BY <1>1, <1>2, <1>3, <1>4

LEMMA ObjectWrite ==
  ASSUME TInv, ObjectInv, Write
  PROVE  ObjectInv'
<1> USE DEF TInv, TypeOK, ObjectInv, PendInv, LifeInv
<1>1. CASE UNCHANGED mem
  BY <1>1 DEF Write, Save, SaveFails, AppendHistory, HistoryRejected, AppendFails
<1>2. CASE mem' = Halted(mem)
  BY <1>2, HaltedFields
<1> QED
  BY <1>1, <1>2 DEF Write, Save, SaveFails, AppendHistory, HistoryRejected, AppendFails

LEMMA ObjectWorld ==
  ASSUME TInv, ObjectInv, Crash \/ CorruptCheckpoint \/ CorruptHistory \/ NewBar
  PROVE  ObjectInv'
<1> USE DEF ObjectInv, PendInv, LifeInv
<1>1. CASE Crash
  BY <1>1 DEF Crash, Blank, NoBar
<1>2. CASE CorruptCheckpoint \/ CorruptHistory \/ NewBar
  BY <1>2 DEF CorruptCheckpoint, CorruptHistory, NewBar
<1> QED
  BY <1>1, <1>2

LEMMA ObjectNext ==
  ASSUME TInv, ObjectInv, [Next]_vars
  PROVE  ObjectInv'
<1>1. CASE UNCHANGED vars
  BY <1>1 DEF ObjectInv, PendInv, LifeInv, vars
<1> QED
  BY <1>1, ObjectOperation, ObjectBar, ObjectFill, ObjectWrite, ObjectWorld DEF Next

LEMMA ObjectInvariance == Spec => [](TInv /\ ObjectInv)
BY TInit, TNext, ObjectInit, ObjectNext, PTL DEF Spec

(* An engine with a pending order between two calls is halted, for any     *)
(* owner, any crashes, any failing writes and any damage to its files.     *)
THEOREM PendingOrderHalts == Spec => []PendingIsHalt
<1>1. TInv /\ ObjectInv => PendingIsHalt
  BY DEF ObjectInv, PendInv, PendingIsHalt
<1> QED
  BY <1>1, ObjectInvariance, PTL

(* The published lifecycle agrees with the account, under the same.        *)
THEOREM LifecycleAgrees == Spec => []LifecycleMatchesPosition
<1>1. TInv /\ ObjectInv => LifecycleMatchesPosition
  BY DEF ObjectInv, LifeInv, LifecycleMatchesPosition
<1> QED
  BY <1>1, ObjectInvariance, PTL

-----------------------------------------------------------------------------
(* The clock, until the owner goes on after a failed recovery: what an     *)
(* engine and a checkpoint know is not older than any earlier checkpoint.  *)

(* What the owner and the file system have done is never undone. *)
LEMMA HistoryGrows ==
  ASSUME TInv, [Next]_vars
  PROVE  /\ ~retried' => ~retried
         /\ faults' = 0 => faults = 0
<1> USE DEF TInv, TypeOK, world
<1>1. CASE UNCHANGED vars
  BY <1>1 DEF vars
<1>2. CASE Recover
  BY <1>2 DEF Recover
<1>3. CASE \E b \in 1 .. bar : ProcessBar(b)
  BY <1>3 DEF ProcessBar, IgnoreBar, RefuseBar, HoldPosition, ExitPosition, NoEntry,
              EntryHalts, Enter
<1>4. CASE Write
  BY <1>4, EngineAssumption
  DEF Write, Save, SaveFails, AppendHistory, HistoryRejected, AppendFails, Fault
<1> QED
  BY <1>1, <1>2, <1>3, <1>4
  DEF Next, Construct, Start, StopRuntime, SetFailureMode, FillLost, FillRejected,
      FillRefused, Filled, Crash, CorruptCheckpoint, CorruptHistory, NewBar

Alive == pc \in {"idle", "pending", "fill", "append", "save"}

ClockInv ==
  /\ IF Alive THEN top <= mem.last ELSE ~mem.running
  /\ pc \in {"down", "new"} => mem = Blank
  /\ disk.file = "ok" => top <= disk.last
  /\ disk = NoFile => top = NoBar

LEMMA BlankFields == Blank.last = NoBar /\ Blank.pending = NoBar /\ ~Blank.running
BY DEF Blank

LEMMA FileKinds ==
  /\ NoFile.file # "ok" /\ Corrupt.file # "ok" /\ NoFile # Corrupt
  /\ \A m \in Engine : m.file = "ok"
BY DEF NoFile, Corrupt, Engine

LEMMA ClockInit == Init => ClockInv
BY BlankFields, FileKinds DEF Init, ClockInv, Alive, NoBar

LEMMA ClockOperation ==
  ASSUME TInv, ClockInv, ~retried',
         Construct \/ Recover \/ Start \/ StopRuntime
           \/ \E mode \in FailureModes : SetFailureMode(mode)
  PROVE  ClockInv'
<1> USE DEF TInv, TypeOK, ClockInv, Alive, files, world
<1>1. CASE Construct
  BY <1>1 DEF Construct
<1>2. CASE Recover
  <2>1. CASE RecoveryFails
    <3>1. pc' = "ended" /\ UNCHANGED files
      BY <1>2, <2>1 DEF Recover
    <3>2. ~mem'.running
      BY <1>2, <2>1, DiskTyped, HaltedFields DEF Recover
    <3> QED
      BY <3>1, <3>2
  <2>2. CASE ~RecoveryFails
    BY <1>2, <2>2, DiskTyped, RestoredFields DEF Recover, RecoveryFails
  <2> QED
    BY <2>1, <2>2
<1>3. CASE Start
  <2>1. mem'.last = mem.last
    BY <1>3 DEF Start, Engine
  <2>2. top <= mem.last
    BY <1>3, BlankFields DEF Start, NoBar
  <2> QED
    BY <1>3, <2>1, <2>2 DEF Start
<1>4. CASE StopRuntime
  BY <1>4 DEF StopRuntime, Engine
<1>5. CASE \E mode \in FailureModes : SetFailureMode(mode)
  BY <1>5 DEF SetFailureMode, Engine
<1> QED
  BY <1>1, <1>2, <1>3, <1>4, <1>5

LEMMA ClockBar ==
  ASSUME TInv, ClockInv, NEW b \in 1 .. bar, ProcessBar(b)
  PROVE  ClockInv'
<1> USE DEF TInv, TypeOK, ClockInv, Alive, files, world
<1>0. b \in Nat /\ mem.last \in Nat /\ top \in Nat
  BY EngineAssumption DEF Bars, NoBar, Engine
<1>1. CASE IgnoreBar(b)
  BY <1>1 DEF IgnoreBar
<1>2. CASE RefuseBar(b)
  BY <1>2, HaltedFields DEF RefuseBar
<1>3. CASE HoldPosition(b)
  BY <1>0, <1>3 DEF HoldPosition, AcceptsBar, BarRefused, Engine
<1>4. CASE ExitPosition(b)
  BY <1>0, <1>4 DEF ExitPosition, AcceptsBar, BarRefused, Engine
<1>5. CASE NoEntry(b)
  BY <1>0, <1>5 DEF NoEntry, AcceptsBar, BarRefused, Engine
<1>6. CASE EntryHalts(b)
  BY <1>6 DEF EntryHalts, AcceptsBar, Halted, Engine
<1>7. CASE Enter(b)
  BY <1>7 DEF Enter, AcceptsBar, Engine
<1> QED
  BY <1>1, <1>2, <1>3, <1>4, <1>5, <1>6, <1>7 DEF ProcessBar

(* A pending order is always for a bar later than the last processed one.  *)
PendingIsLater == pc \in {"pending", "fill"} => mem.last < mem.pending

LEMMA LaterNext ==
  ASSUME TInv, PendingIsLater, [Next]_vars
  PROVE  PendingIsLater'
<1> USE DEF TInv, TypeOK, PendingIsLater
<1>1. ASSUME NEW b \in 1 .. bar, Enter(b)
      PROVE  PendingIsLater'
  <2>1. b \in Nat /\ mem.last \in Nat
    BY EngineAssumption DEF Bars, NoBar, Engine
  <2>2. mem'.last = mem.last /\ mem'.pending = b
    BY <1>1 DEF Enter, Engine
  <2> QED
    BY <1>1, <2>1, <2>2 DEF Enter, AcceptsBar, BarRefused
<1>2. CASE Save("pending", "fill") \/ SaveFails("pending", "fill")
  BY <1>2, HaltedFields DEF Save, SaveFails
<1>3. ASSUME pc' \notin {"pending", "fill"}
      PROVE  PendingIsLater'
  BY <1>3
<1>4. CASE UNCHANGED <<pc, mem>>
  BY <1>4
<1> QED
  BY <1>1, <1>2, <1>3, <1>4
  DEF Next, vars, Construct, Recover, Start, StopRuntime, SetFailureMode, ProcessBar,
      IgnoreBar, RefuseBar, HoldPosition, ExitPosition, NoEntry, EntryHalts,
      FillLost, FillRejected, FillRefused, Filled, Write, Save, SaveFails,
      AppendHistory, HistoryRejected, AppendFails, Crash, CorruptCheckpoint,
      CorruptHistory, NewBar

LEMMA ClockFill ==
  ASSUME TInv, PendingIsLater, ClockInv, FillLost \/ FillRejected \/ FillRefused \/ Filled
  PROVE  ClockInv'
<1> USE DEF TInv, TypeOK, PendingIsLater, ClockInv, Alive, files, world
<1>0. mem.pending \in Nat /\ mem.last \in Nat /\ top \in Nat
  BY EngineAssumption DEF Bars, NoBar, Engine
<1>1. CASE FillLost
  BY <1>1, HaltedFields DEF FillLost
<1>2. CASE FillRejected
  BY <1>0, <1>2 DEF FillRejected, Engine
<1>3. CASE FillRefused
  BY <1>3 DEF FillRefused, Halted, Engine
<1>4. CASE Filled
  BY <1>0, <1>4 DEF Filled, Engine
<1> QED
  BY <1>1, <1>2, <1>3, <1>4

LEMMA ClockWrite ==
  ASSUME TInv, ClockInv, Write
  PROVE  ClockInv'
<1> USE DEF TInv, TypeOK, ClockInv, Alive, files, world
<1>0. mem.last \in Nat /\ top \in Nat
  BY EngineAssumption DEF Bars, NoBar, Engine
<1>1. CASE Save("pending", "fill") \/ Save("save", "idle")
  <2>1. disk' = mem /\ mem' = mem /\ top' = mem.last
    BY <1>0, <1>1 DEF Save, Later
  <2>2. mem # NoFile
    BY FileKinds
  <2> QED
    BY <1>0, <1>1, <2>1, <2>2 DEF Save
<1>2. CASE SaveFails("pending", "fill") \/ SaveFails("save", "idle")
  BY <1>2, HaltedFields DEF SaveFails
<1>3. CASE AppendHistory
  BY <1>3 DEF AppendHistory
<1>4. CASE HistoryRejected \/ AppendFails
  BY <1>4, HaltedFields DEF HistoryRejected, AppendFails
<1> QED
  BY <1>1, <1>2, <1>3, <1>4 DEF Write

LEMMA ClockWorld ==
  ASSUME TInv, ClockInv, Crash \/ CorruptCheckpoint \/ CorruptHistory \/ NewBar
  PROVE  ClockInv'
<1> USE DEF ClockInv, Alive, files
<1>1. CASE Crash
  BY <1>1, BlankFields DEF Crash
<1>2. CASE CorruptCheckpoint
  BY <1>2, FileKinds DEF CorruptCheckpoint
<1>3. CASE CorruptHistory \/ NewBar
  BY <1>3 DEF CorruptHistory, NewBar
<1> QED
  BY <1>1, <1>2, <1>3

LEMMA ClockNext ==
  ASSUME TInv, PendingIsLater, ClockInv, ~retried', [Next]_vars
  PROVE  ClockInv'
<1>1. CASE UNCHANGED vars
  BY <1>1 DEF ClockInv, Alive, vars
<1> QED
  BY <1>1, ClockOperation, ClockBar, ClockFill, ClockWrite, ClockWorld DEF Next

ClockKept == retried \/ ClockInv

(* Until the owner goes on after a failed recovery, a running engine knows *)
(* at least what was ever checkpointed, whatever writes fail, whenever the *)
(* process dies and whatever happens to the files.                         *)
THEOREM ClockNeverTurnsBack == Spec => []NoSilentReset
<1>1. Init => PendingIsLater
  BY DEF Init, PendingIsLater
<1>2. Init => ClockKept
  BY ClockInit DEF ClockKept
<1>3. TInv /\ ClockKept => NoSilentReset
  <2> SUFFICES ASSUME TInv, ClockInv, mem.running PROVE mem.last >= top
    BY DEF NoSilentReset, ClockKept
  <2>1. mem.last \in Nat /\ top \in Nat
    BY EngineAssumption DEF TInv, TypeOK, Bars, NoBar, Engine
  <2> QED
    BY <2>1 DEF ClockInv
<1>4. TInv /\ PendingIsLater /\ ClockKept /\ [Next]_vars => ClockKept'
  BY ClockNext, HistoryGrows DEF ClockKept
<1> QED
  BY <1>1, <1>2, <1>3, <1>4, TInit, TNext, LaterNext, PTL DEF Spec

-----------------------------------------------------------------------------
(* History and checkpoint, until a write fails.                            *)

Recorded(b) == torn \/ b = NoBar \/ \E i \in DOMAIN hist : hist[i] = b

RecordInv ==
  /\ disk.file = "ok" => Recorded(disk.last)
  /\ pc # "append" => Recorded(mem.last)

LEMMA NoFaults ==
  ASSUME TypeOK, faults' = 0
  PROVE  ~Fault
BY DEF TypeOK, Fault

LEMMA RecordInit == Init => RecordInv
BY BlankFields, FileKinds DEF Init, RecordInv, Recorded

(* A step that leaves the history as it is and puts an engine into memory  *)
(* whose last bar was the one of memory or of the checkpoint.              *)
LEMMA RecordFrame ==
  ASSUME RecordInv,
         UNCHANGED <<hist, disk>>, torn => torn',
         \/ pc' = "append"
         \/ pc # "append" /\ mem'.last = mem.last
         \/ disk.file = "ok" /\ mem'.last = disk.last
         \/ mem'.last = NoBar
  PROVE  RecordInv'
BY DEF RecordInv, Recorded

LEMMA RecordOperation ==
  ASSUME TInv, RecordInv,
         Construct \/ Recover \/ Start \/ StopRuntime
           \/ \E mode \in FailureModes : SetFailureMode(mode)
  PROVE  RecordInv'
<1> USE DEF TInv, TypeOK, files
<1>1. pc # "append" /\ UNCHANGED <<hist, disk, torn>>
  BY DEF Construct, Recover, Start, StopRuntime, SetFailureMode
<1>2. \/ mem'.last = mem.last
      \/ disk.file = "ok" /\ mem'.last = disk.last
  <2>1. CASE Recover
    BY <2>1, DiskTyped, HaltedFields, RestoredFields DEF Recover, RecoveryFails
  <2>2. CASE Construct
    BY <2>2 DEF Construct
  <2>3. CASE Start
    BY <2>3 DEF Start, Engine
  <2>4. CASE StopRuntime
    BY <2>4 DEF StopRuntime, Engine
  <2>5. CASE \E mode \in FailureModes : SetFailureMode(mode)
    BY <2>5 DEF SetFailureMode, Engine
  <2> QED
    BY <2>1, <2>2, <2>3, <2>4, <2>5
<1> QED
  BY <1>1, <1>2, RecordFrame

LEMMA RecordBar ==
  ASSUME TInv, RecordInv, NEW b \in 1 .. bar, ProcessBar(b)
  PROVE  RecordInv'
<1> USE DEF TInv, TypeOK, files
<1>1. pc = "idle" /\ UNCHANGED <<hist, disk, torn>>
  BY DEF ProcessBar, IgnoreBar, RefuseBar, HoldPosition, ExitPosition, NoEntry,
         EntryHalts, Enter, AcceptsBar
<1>2. pc' = "append" \/ mem'.last = mem.last
  <2>1. CASE IgnoreBar(b) \/ RefuseBar(b)
    BY <2>1, HaltedFields DEF IgnoreBar, RefuseBar
  <2>2. CASE HoldPosition(b) \/ ExitPosition(b) \/ NoEntry(b)
    BY <2>2 DEF HoldPosition, ExitPosition, NoEntry
  <2>3. CASE EntryHalts(b)
    BY <2>3 DEF EntryHalts, Halted, Engine
  <2>4. CASE Enter(b)
    BY <2>4 DEF Enter, Engine
  <2> QED
    BY <2>1, <2>2, <2>3, <2>4 DEF ProcessBar
<1> QED
  BY <1>1, <1>2, RecordFrame

LEMMA RecordFill ==
  ASSUME TInv, RecordInv, FillLost \/ FillRejected \/ FillRefused \/ Filled
  PROVE  RecordInv'
<1> USE DEF TInv, TypeOK, files
<1>1. pc = "fill" /\ UNCHANGED <<hist, disk, torn>>
  BY DEF FillLost, FillRejected, FillRefused, Filled
<1>2. pc' = "append" \/ mem'.last = mem.last
  <2>1. CASE FillLost
    BY <2>1, HaltedFields DEF FillLost
  <2>2. CASE FillRefused
    BY <2>2 DEF FillRefused, Halted, Engine
  <2>3. CASE FillRejected \/ Filled
    BY <2>3 DEF FillRejected, Filled
  <2> QED
    BY <2>1, <2>2, <2>3
<1> QED
  BY <1>1, <1>2, RecordFrame

LEMMA RecordWrite ==
  ASSUME TInv, RecordInv, faults' = 0, Write
  PROVE  RecordInv'
<1> USE DEF TInv, TypeOK, RecordInv, Recorded
<1>1. CASE Save("pending", "fill") \/ Save("save", "idle")
  BY <1>1 DEF Save
<1>2. CASE SaveFails("pending", "fill") \/ SaveFails("save", "idle") \/ AppendFails
  BY <1>2, NoFaults DEF SaveFails, AppendFails
<1>3. CASE AppendHistory
  <2>1. mem.last \in Bars /\ hist \in Seq(Bars)
    BY <1>3 DEF AppendHistory, BarAtHand, Engine
  <2>2. /\ \A i \in DOMAIN hist : i \in DOMAIN hist' /\ hist'[i] = hist[i]
        /\ \E i \in DOMAIN hist' : hist'[i] = mem.last
    <3>1. /\ DOMAIN hist' = 1 .. Len(hist) + 1
          /\ DOMAIN hist = 1 .. Len(hist)
          /\ hist'[Len(hist) + 1] = mem.last
          /\ \A i \in 1 .. Len(hist) : hist'[i] = hist[i]
          /\ Len(hist) \in Nat
      BY <1>3, <2>1 DEF AppendHistory
    <3> QED
      BY <3>1
  <2> QED
    BY <1>3, <2>2 DEF AppendHistory
<1>4. CASE HistoryRejected
  BY <1>4 DEF HistoryRejected, files
<1> QED
  BY <1>1, <1>2, <1>3, <1>4 DEF Write

LEMMA RecordWorld ==
  ASSUME TInv, RecordInv, Crash \/ CorruptCheckpoint \/ CorruptHistory \/ NewBar
  PROVE  RecordInv'
<1>1. CASE Crash
  <2>1. torn => torn'
    BY <1>1 DEF Crash
  <2> QED
    BY <1>1, <2>1, BlankFields, RecordFrame DEF Crash
<1>2. CASE CorruptCheckpoint
  BY <1>2, FileKinds DEF CorruptCheckpoint, RecordInv, Recorded
<1>3. CASE CorruptHistory
  BY <1>3 DEF CorruptHistory, RecordInv, Recorded
<1>4. CASE NewBar
  BY <1>4 DEF NewBar, files, RecordInv, Recorded
<1> QED
  BY <1>1, <1>2, <1>3, <1>4

LEMMA RecordNext ==
  ASSUME TInv, RecordInv, faults' = 0, [Next]_vars
  PROVE  RecordInv'
<1>1. CASE UNCHANGED vars
  BY <1>1 DEF RecordInv, Recorded, vars
<1> QED
  BY <1>1, RecordOperation, RecordBar, RecordFill, RecordWrite, RecordWorld DEF Next

RecordKept == faults # 0 \/ RecordInv

(* As long as no write fails, a bar that the checkpoint counts as          *)
(* processed is in the history, for any owner, any crashes and any damage. *)
THEOREM ProcessedBarIsRecorded == Spec => []CheckpointedBarIsRecorded
<1>1. Init => RecordKept
  BY RecordInit DEF RecordKept
<1>2. RecordKept => CheckpointedBarIsRecorded
  BY DEF RecordKept, RecordInv, Recorded, CheckpointedBarIsRecorded
<1>3. TInv /\ RecordKept /\ [Next]_vars => RecordKept'
  BY RecordNext, HistoryGrows DEF RecordKept
<1> QED
  BY <1>1, <1>2, <1>3, TInit, TNext, PTL DEF Spec

-----------------------------------------------------------------------------
(* Entries, until a write fails or the owner goes on after a failed        *)
(* recovery.  A bar that was entered is not later than the   *)
(* last bar of memory, and a readable checkpoint knows it as processed or  *)
(* as its pending order.                                                   *)

EnteredOnce == \A b \in Bars : entered[b] <= 1

MemoryKnows == Alive => \A b \in Bars : b > mem.last => entered[b] = 0

CheckpointKnows ==
  /\ disk.file = "ok" =>
       \A b \in Bars : b > disk.last /\ b # disk.pending => entered[b] = 0
  /\ disk = NoFile => \A b \in Bars : entered[b] = 0

PendingIsSaved ==
  pc = "fill" => disk # NoFile /\ (disk.file = "ok" => disk.pending = mem.pending)

EntryInv == EnteredOnce /\ MemoryKnows /\ CheckpointKnows /\ PendingIsSaved

LEMMA EntryInit == Init => EntryInv
BY FileKinds
DEF Init, EntryInv, EnteredOnce, MemoryKnows, CheckpointKnows, PendingIsSaved, Alive

(* A step of a live engine before or after the fill: memory goes forward.  *)
LEMMA EntryFrame ==
  ASSUME TInv, EntryInv, Alive, UNCHANGED <<disk, entered>>, pc' # "fill",
         mem'.last \in Nat, mem'.last >= mem.last
  PROVE  EntryInv'
<1>1. mem.last \in Nat /\ Bars \subseteq Nat
  BY EngineAssumption DEF TInv, TypeOK, Bars, NoBar, Engine
<1> QED
  BY <1>1
  DEF EntryInv, EnteredOnce, MemoryKnows, CheckpointKnows, PendingIsSaved, Alive

LEMMA EntryOperation ==
  ASSUME TInv, ClockInv, EntryInv, ~retried',
         Construct \/ Recover \/ Start \/ StopRuntime
           \/ \E mode \in FailureModes : SetFailureMode(mode)
  PROVE  EntryInv'
<1> USE DEF TInv, TypeOK, files, world
<1>0. mem.last \in Nat /\ Bars \subseteq Nat
  BY EngineAssumption DEF Bars, NoBar, Engine
<1>1. UNCHANGED <<disk, entered>> /\ pc' # "fill"
  BY DEF Construct, Recover, Start, StopRuntime, SetFailureMode
<1>2. EnteredOnce' /\ CheckpointKnows' /\ PendingIsSaved'
  BY <1>1 DEF EntryInv, EnteredOnce, CheckpointKnows, PendingIsSaved
<1>3. MemoryKnows'
  <2>1. CASE Construct
    BY <2>1 DEF Construct, MemoryKnows, Alive
  <2>2. CASE Recover /\ RecoveryFails
    BY <2>2 DEF Recover, MemoryKnows, Alive
  <2>3. CASE Recover /\ ~RecoveryFails
    <3>1. disk.file = "ok" /\ disk.pending = NoBar /\ mem'.last = disk.last
      BY <2>3, DiskTyped, RestoredFields DEF Recover, RecoveryFails
    <3>2. \A b \in Bars : b # disk.pending
      BY <3>1, EngineAssumption DEF Bars, NoBar
    <3> QED
      BY <1>1, <3>1, <3>2 DEF EntryInv, CheckpointKnows, MemoryKnows
  <2>4. CASE Start
    <3>1. mem'.last = mem.last
      BY <2>4 DEF Start, Engine
    <3>2. CASE pc = "new"
      BY <1>1, <2>4, <3>2 DEF Start, EntryInv, CheckpointKnows, MemoryKnows
    <3>3. CASE pc = "idle"
      BY <1>1, <3>1, <3>3 DEF EntryInv, MemoryKnows, Alive
    <3> QED
      BY <2>4, <3>2, <3>3 DEF Start
  <2>5. CASE StopRuntime \/ \E mode \in FailureModes : SetFailureMode(mode)
    <3>1. pc = "idle" /\ mem'.last = mem.last
      BY <2>5 DEF StopRuntime, SetFailureMode, Engine
    <3> QED
      BY <1>1, <3>1 DEF EntryInv, MemoryKnows, Alive
  <2> QED
    BY <2>1, <2>2, <2>3, <2>4, <2>5
<1> QED
  BY <1>2, <1>3 DEF EntryInv

LEMMA EntryBar ==
  ASSUME TInv, EntryInv, NEW b \in 1 .. bar, ProcessBar(b)
  PROVE  EntryInv'
<1> USE DEF TInv, TypeOK, files
<1>0. b \in Nat /\ mem.last \in Nat
  BY EngineAssumption DEF Bars, NoBar, Engine
<1>1. pc = "idle" /\ pc' # "fill" /\ UNCHANGED <<disk, entered>>
  BY DEF ProcessBar, IgnoreBar, RefuseBar, HoldPosition, ExitPosition, NoEntry,
         EntryHalts, Enter, AcceptsBar
<1>2. mem'.last \in {mem.last, b} /\ mem'.last >= mem.last
  <2>1. CASE IgnoreBar(b) \/ RefuseBar(b)
    <3>1. mem'.last = mem.last
      BY <2>1, HaltedFields DEF IgnoreBar, RefuseBar
    <3> QED
      BY <1>0, <3>1
  <2>2. CASE HoldPosition(b) \/ ExitPosition(b) \/ NoEntry(b)
    <3>1. mem'.last = b /\ AcceptsBar(b)
      BY <2>2 DEF HoldPosition, ExitPosition, NoEntry, Engine
    <3> QED
      BY <1>0, <3>1 DEF AcceptsBar, BarRefused
  <2>3. CASE EntryHalts(b)
    BY <1>0, <2>3 DEF EntryHalts, Halted, Engine
  <2>4. CASE Enter(b)
    BY <1>0, <2>4 DEF Enter, Engine
  <2> QED
    BY <2>1, <2>2, <2>3, <2>4 DEF ProcessBar
<1> QED
  BY <1>0, <1>1, <1>2, EntryFrame DEF Alive

LEMMA EntryFill ==
  ASSUME TInv, PendingIsLater, EntryInv, FillLost \/ FillRejected \/ FillRefused \/ Filled
  PROVE  EntryInv'
<1> USE DEF TInv, TypeOK, files
<1>0. /\ mem.pending \in Bars /\ mem.pending \in Nat /\ mem.last \in Nat
      /\ mem.pending > mem.last /\ pc = "fill" /\ Bars \subseteq Nat
  <2>1. pc = "fill"
    BY DEF FillLost, FillRejected, FillRefused, Filled
  <2>2. Bars \subseteq Nat
    BY EngineAssumption DEF Bars
  <2>3. mem.pending \in Bars
    BY <2>1 DEF BarAtHand, Engine
  <2>4. mem.last \in Nat
    BY EngineAssumption DEF Bars, NoBar, Engine
  <2> QED
    BY <2>1, <2>2, <2>3, <2>4 DEF PendingIsLater
<1>1. CASE FillLost \/ FillRejected \/ FillRefused
  <2>1. mem'.last \in {mem.last, mem.pending}
    <3>1. CASE FillLost
      BY <3>1, HaltedFields DEF FillLost
    <3>2. CASE FillRejected
      BY <3>2 DEF FillRejected, Engine
    <3>3. CASE FillRefused
      BY <3>3 DEF FillRefused, Halted, Engine
    <3> QED
      BY <1>1, <3>1, <3>2, <3>3
  <2> QED
    BY <1>0, <1>1, <2>1, EntryFrame DEF FillLost, FillRejected, FillRefused, Alive
<1>2. CASE Filled
  <2>1. /\ mem'.last = mem.pending /\ pc' = "append" /\ disk' = disk
        /\ entered' = [entered EXCEPT ![mem.pending] = @ + 1]
    BY <1>2 DEF Filled, Engine
  <2>2. entered[mem.pending] = 0
    BY <1>0 DEF EntryInv, MemoryKnows, Alive
  <2>3. /\ entered'[mem.pending] = 1
        /\ \A b \in Bars : b # mem.pending => entered'[b] = entered[b]
    BY <1>0, <2>1, <2>2
  <2>4. EnteredOnce'
    BY <2>3 DEF EntryInv, EnteredOnce
  <2>5. MemoryKnows'
    BY <1>0, <2>1, <2>3 DEF EntryInv, MemoryKnows, Alive
  <2>6. CheckpointKnows'
    BY <1>0, <2>1, <2>3 DEF EntryInv, CheckpointKnows, PendingIsSaved
  <2> QED
    BY <2>1, <2>4, <2>5, <2>6 DEF EntryInv, PendingIsSaved
<1> QED
  BY <1>1, <1>2

LEMMA EntryWrite ==
  ASSUME TInv, EntryInv, faults' = 0, Write
  PROVE  EntryInv'
<1> USE DEF TInv, TypeOK
<1>0. mem.last \in Nat
  BY EngineAssumption DEF Bars, NoBar, Engine
<1>1. CASE Save("pending", "fill") \/ Save("save", "idle")
  <2>1. disk' = mem /\ mem' = mem /\ entered' = entered /\ Alive
    BY <1>1 DEF Save, Alive
  <2>2. mem # NoFile
    BY FileKinds
  <2> QED
    BY <2>1, <2>2
    DEF EntryInv, EnteredOnce, MemoryKnows, CheckpointKnows, PendingIsSaved
<1>2. CASE SaveFails("pending", "fill") \/ SaveFails("save", "idle") \/ AppendFails
  BY <1>2, NoFaults DEF SaveFails, AppendFails
<1>3. CASE AppendHistory \/ HistoryRejected
  <2>1. mem'.last = mem.last
    BY <1>3, HaltedFields DEF AppendHistory, HistoryRejected
  <2> QED
    BY <1>0, <1>3, <2>1, EntryFrame DEF AppendHistory, HistoryRejected, files, Alive
<1> QED
  BY <1>1, <1>2, <1>3 DEF Write

LEMMA EntryWorld ==
  ASSUME TInv, EntryInv, Crash \/ CorruptCheckpoint \/ CorruptHistory \/ NewBar
  PROVE  EntryInv'
<1> USE DEF EntryInv, EnteredOnce, MemoryKnows, CheckpointKnows, PendingIsSaved, Alive
<1>1. CASE Crash
  BY <1>1 DEF Crash
<1>2. CASE CorruptCheckpoint
  BY <1>2, FileKinds DEF CorruptCheckpoint
<1>3. CASE CorruptHistory \/ NewBar
  BY <1>3 DEF CorruptHistory, NewBar, files
<1> QED
  BY <1>1, <1>2, <1>3

LEMMA EntryNext ==
  ASSUME TInv, PendingIsLater, ClockInv, EntryInv, ~retried', faults' = 0, [Next]_vars
  PROVE  EntryInv'
<1>1. CASE UNCHANGED vars
  BY <1>1
  DEF EntryInv, EnteredOnce, MemoryKnows, CheckpointKnows, PendingIsSaved, Alive, vars
<1> QED
  BY <1>1, EntryOperation, EntryBar, EntryFill, EntryWrite, EntryWorld DEF Next

EntryKept == retried \/ faults # 0 \/ EntryInv

(* No bar is entered twice, whenever the process dies and whatever happens *)
(* to the files, until a write fails or the owner goes on after a failed   *)
(* recovery.                                                               *)
THEOREM NoSecondEntry == Spec => []EntryOncePerBar
<1>1. Init => PendingIsLater
  BY DEF Init, PendingIsLater
<1>2. Init => ClockKept /\ EntryKept
  BY ClockInit, EntryInit DEF ClockKept, EntryKept
<1>3. EntryKept => EntryOncePerBar
  BY DEF EntryKept, EntryInv, EnteredOnce, EntryOncePerBar
<1>4. TInv /\ PendingIsLater /\ ClockKept /\ [Next]_vars => ClockKept'
  BY ClockNext, HistoryGrows DEF ClockKept
<1>5. TInv /\ PendingIsLater /\ ClockKept /\ EntryKept /\ [Next]_vars => EntryKept'
  BY EntryNext, HistoryGrows DEF ClockKept, EntryKept
<1> QED
  BY <1>1, <1>2, <1>3, <1>4, <1>5, TInit, TNext, LaterNext, PTL DEF Spec

=============================================================================
