------------------------- MODULE PaperRuntimeEngine --------------------------
(***************************************************************************)
(* The continuous paper runtime (strategy/paper_runtime_engine.py) with    *)
(* its two files: the checkpoint, which every operation replaces           *)
(* atomically (paper_runtime_checkpoint.py), and the append-only,          *)
(* hash-chained history (paper_history.py).                                *)
(*                                                                         *)
(* An operation writes its files one after the other.  Each write is a     *)
(* step: the process can die before and after it, and the write can fail.  *)
(* The account (paper_accounting.py) is its open position and the time of  *)
(* its last mark; prices and profits decide only which way a bar goes.     *)
(***************************************************************************)
EXTENDS Naturals, Sequences

CONSTANTS
  MaxBar,         \* bound: completed bars of a behaviour
  Signals,        \* kinds of signals the caller passes with a bar
  FailureModes,   \* FailureMode members the caller injects
  Retries,        \* the owner may go on with an engine whose recovery failed
  MaxCrashes,     \* bound: deaths of the process
  MaxFaults,      \* bound: file writes that fail
  MaxCorruptions  \* bound: damages to the checkpoint or history file

Bars == 1 .. MaxBar

SignalKinds == {"WAIT", "ENTER", "INVALID", "NO_SYMBOL"}

AllFailureModes == {"NONE", "TIMEOUT_AFTER_ACCEPT", "DISCONNECT_BEFORE_SUBMIT",
                    "REJECT", "PARTIAL_FILL", "DISAPPEAR_POSITION"}

ASSUME EngineAssumption == /\ MaxBar \in Nat \ {0}
                           /\ Signals \subseteq SignalKinds
                           /\ FailureModes \subseteq AllFailureModes
                           /\ Retries \in BOOLEAN
                           /\ MaxCrashes \in Nat
                           /\ MaxFaults \in Nat
                           /\ MaxCorruptions \in Nat

-----------------------------------------------------------------------------

VARIABLES
  mem,          \* the engine object
  disk,         \* the checkpoint file
  hist,         \* the bars of the history file
  torn,         \* the history file has a broken line
  pc,           \* where the process is
  bar,          \* the latest completed bar of the market
  crashes, faults, corruptions,
  retried,      \* history variable: the owner went on where run_bot.py ends
  entered,      \* history variable: paper fills of each bar
  top           \* history variable: the latest bar ever checkpointed

vars == <<mem, disk, hist, torn, pc, bar, crashes, faults, corruptions, retried,
          entered, top>>

NoFile == [file |-> "missing"]
Corrupt == [file |-> "corrupt"]

NoBar == 0

(* What the engine keeps, and what export writes to the checkpoint. *)
Engine == [file      : {"ok"},
           lifecycle : {"FLAT", "OPEN", "UNKNOWN", "HALT"},
           running   : BOOLEAN,
           last      : Bars \cup {NoBar},   \* last_processed_bar_time
           marked    : Bars \cup {NoBar},   \* the account's _last_bar_time
           position  : Bars \cup {NoBar},   \* the bar of the open position's entry
           pending   : Bars \cup {NoBar},   \* the bar of the pending order
           mode      : AllFailureModes]

(* A new engine object. *)
Blank == [file |-> "ok", lifecycle |-> "FLAT", running |-> FALSE, last |-> NoBar,
          marked |-> NoBar, position |-> NoBar, pending |-> NoBar, mode |-> "NONE"]

Halted(m) == [m EXCEPT !.lifecycle = "HALT", !.running = FALSE]

-----------------------------------------------------------------------------

Init ==
  /\ mem = Blank
  /\ disk = NoFile
  /\ hist = <<>>
  /\ torn = FALSE
  /\ pc = "down"
  /\ bar = 1
  /\ crashes = 0
  /\ faults = 0
  /\ corruptions = 0
  /\ retried = FALSE
  /\ entered = [b \in Bars |-> 0]
  /\ top = NoBar

files == <<disk, hist, torn, top>>
world == <<bar, crashes, corruptions, retried>>

(* A process creates the engine. *)
Construct ==
  /\ pc = "down"
  /\ pc' = "new"
  /\ UNCHANGED <<mem, files, world, faults, entered>>

-----------------------------------------------------------------------------
(* recover: the owner calls it first when there is a checkpoint.  The one  *)
(* of run_bot.py ends when it fails; another may go on with the halted     *)
(* engine and recover it again.                                            *)

(* Fault: the restored account is not looked at. *)
RestoredFlat(m) == [m EXCEPT !.lifecycle = "FLAT", !.running = FALSE]

(* The lifecycle recover derives from the restored account. *)
Restored(m) ==
  [m EXCEPT !.lifecycle = IF m.position # NoBar THEN "OPEN" ELSE "FLAT",
            !.running = FALSE]

(* Fault: the pending order of the checkpoint is not looked at. *)
RecoveryFailsWithoutPending == disk.file # "ok" \/ torn

(* The checkpoint cannot be read, the history does not verify, or a        *)
(* pending order has no known outcome.                                     *)
RecoveryFails == disk.file # "ok" \/ torn \/ disk.pending # NoBar

Recover ==
  \E goesOn \in {FALSE, Retries} :
    /\ \/ pc = "new" /\ disk # NoFile
       \/ pc = "idle" /\ goesOn
    /\ IF RecoveryFails
       THEN /\ mem' = Halted(IF disk.file = "ok" THEN disk ELSE mem)
            /\ pc' = IF goesOn THEN "idle" ELSE "ended"
       ELSE /\ mem' = Restored(disk)
            /\ pc' = "save"
    /\ retried' = (retried \/ goesOn)
    /\ UNCHANGED <<files, bar, crashes, corruptions, faults, entered>>

-----------------------------------------------------------------------------
(* start, stop, set_failure_mode.                                          *)

(* Fault: the checkpoint of an earlier process is ignored. *)
StartUnrecovered ==
  /\ pc \in {"idle", "new"}
  /\ mem' = IF mem.lifecycle = "HALT" THEN mem ELSE [mem EXCEPT !.running = TRUE]
  /\ pc' = "save"
  /\ UNCHANGED <<files, world, faults, entered>>

Start ==
  /\ pc = "idle" \/ (pc = "new" /\ disk = NoFile)
  /\ mem' = IF mem.lifecycle = "HALT" THEN mem ELSE [mem EXCEPT !.running = TRUE]
  /\ pc' = "save"
  /\ UNCHANGED <<files, world, faults, entered>>

StopRuntime ==
  /\ pc = "idle"
  /\ mem' = [mem EXCEPT !.running = FALSE]
  /\ pc' = "save"
  /\ UNCHANGED <<files, world, faults, entered>>

SetFailureMode(mode) ==
  /\ pc = "idle"
  /\ mem' = [mem EXCEPT !.mode = mode]
  /\ pc' = "save"
  /\ UNCHANGED <<files, world, faults, entered>>

-----------------------------------------------------------------------------
(* process_bar.                                                            *)

(* A call that ends without looking at the prices: the runtime does not    *)
(* run, the bar is the last one again, or it is refused, which halts.      *)
BarRefused(b) ==
  \/ b < mem.last
  \/ mem.mode = "DISAPPEAR_POSITION" /\ mem.position # NoBar
  \/ b < mem.marked

IgnoreBar(b) ==
  /\ pc = "idle"
  /\ ~mem.running \/ b = mem.last
  /\ pc' = "save"
  /\ UNCHANGED <<mem, files, world, faults, entered>>

RefuseBar(b) ==
  /\ pc = "idle"
  /\ mem.running
  /\ b # mem.last
  /\ BarRefused(b)
  /\ mem' = Halted(mem)
  /\ pc' = "save"
  /\ UNCHANGED <<files, world, faults, entered>>

AcceptsBar(b) ==
  /\ pc = "idle"
  /\ mem.running
  /\ b # mem.last
  /\ ~BarRefused(b)

(* The account is marked at the close, and the bar closes the position at  *)
(* its stop or target, or leaves it open.                                  *)
HoldPosition(b) ==
  /\ AcceptsBar(b)
  /\ mem.position # NoBar
  /\ mem' = [mem EXCEPT !.marked = b, !.last = b]
  /\ pc' = "append"
  /\ UNCHANGED <<files, world, faults, entered>>

ExitPosition(b) ==
  /\ AcceptsBar(b)
  /\ mem.position # NoBar
  /\ mem' = [mem EXCEPT !.marked = b, !.last = b, !.position = NoBar, !.lifecycle = "FLAT"]
  /\ pc' = "append"
  /\ UNCHANGED <<files, world, faults, entered>>

(* Fault: the checkpoint is written before the history record. *)
NoEntryCheckpointedFirst(b) ==
  /\ AcceptsBar(b)
  /\ mem.position = NoBar
  /\ Signals \cap {"WAIT", "INVALID"} # {}
  /\ mem' = [mem EXCEPT !.marked = b, !.last = b]
  /\ disk' = mem'
  /\ top' = b
  /\ pc' = "append"
  /\ UNCHANGED <<hist, torn, world, faults, entered>>

(* Flat, with no signal or one whose entry and stop are unusable. *)
NoEntry(b) ==
  /\ AcceptsBar(b)
  /\ mem.position = NoBar
  /\ Signals \cap {"WAIT", "INVALID"} # {}
  /\ mem' = [mem EXCEPT !.marked = b, !.last = b]
  /\ pc' = "append"
  /\ UNCHANGED <<files, world, faults, entered>>

(* Flat, with an entry signal that names no symbol, or an account too      *)
(* small for any quantity.                                                 *)
EntryHalts(b) ==
  /\ AcceptsBar(b)
  /\ mem.position = NoBar
  /\ Signals \cap {"NO_SYMBOL", "ENTER"} # {}
  /\ mem' = Halted([mem EXCEPT !.marked = b])
  /\ pc' = "save"
  /\ UNCHANGED <<files, world, faults, entered>>

(* Fault: the order is filled before it is on disk. *)
EnterUnrecorded(b) ==
  /\ AcceptsBar(b)
  /\ mem.position = NoBar
  /\ "ENTER" \in Signals
  /\ mem' = [mem EXCEPT !.marked = b, !.pending = b]
  /\ pc' = "fill"
  /\ UNCHANGED <<files, world, faults, entered>>

(* Flat, with an entry signal: the order becomes pending. *)
Enter(b) ==
  /\ AcceptsBar(b)
  /\ mem.position = NoBar
  /\ "ENTER" \in Signals
  /\ mem' = [mem EXCEPT !.marked = b, !.pending = b,
                        !.lifecycle = IF mem.mode \in {"TIMEOUT_AFTER_ACCEPT",
                                                       "DISCONNECT_BEFORE_SUBMIT"}
                                      THEN "UNKNOWN" ELSE "FLAT"]
  /\ pc' = "pending"
  /\ UNCHANGED <<files, world, faults, entered>>

(* The paper broker's answer: lost, partial, a rejection, or the fill. *)
FillLost ==
  /\ pc = "fill"
  /\ mem.mode \in {"TIMEOUT_AFTER_ACCEPT", "DISCONNECT_BEFORE_SUBMIT", "PARTIAL_FILL"}
  /\ mem' = Halted(mem)
  /\ pc' = "save"
  /\ UNCHANGED <<files, world, faults, entered>>

FillRejected ==
  /\ pc = "fill"
  /\ mem.mode = "REJECT"
  /\ mem' = [mem EXCEPT !.pending = NoBar, !.lifecycle = "FLAT", !.last = mem.pending]
  /\ pc' = "append"
  /\ UNCHANGED <<files, world, faults, entered>>

(* The account refuses the position: its rounded quantity is zero. *)
FillRefused ==
  /\ pc = "fill"
  /\ mem.mode \in {"NONE", "DISAPPEAR_POSITION"}
  /\ mem' = Halted([mem EXCEPT !.pending = NoBar])
  /\ pc' = "save"
  /\ UNCHANGED <<files, world, faults, entered>>

Filled ==
  /\ pc = "fill"
  /\ mem.mode \in {"NONE", "DISAPPEAR_POSITION"}
  /\ mem' = [mem EXCEPT !.pending = NoBar, !.position = mem.pending,
                        !.lifecycle = "OPEN", !.last = mem.pending]
  /\ entered' = [entered EXCEPT ![mem.pending] = @ + 1]
  /\ pc' = "append"
  /\ UNCHANGED <<files, world, faults>>

-----------------------------------------------------------------------------
(* File writes.                                                            *)

Fault == faults < MaxFaults /\ faults' = faults + 1

Later(b, c) == IF b > c THEN b ELSE c

(* _safe_persist: the checkpoint is replaced ... *)
Save(from, to) ==
  /\ pc = from
  /\ pc' = to
  /\ disk' = mem
  /\ top' = Later(mem.last, top)
  /\ UNCHANGED <<mem, hist, torn, world, faults, entered>>

(* ... or the write fails, the engine halts, and the operation goes on. *)
SaveFails(from, to) ==
  /\ pc = from
  /\ Fault
  /\ pc' = to
  /\ mem' = Halted(mem)
  /\ UNCHANGED <<files, world, entered>>

(* _record_history: verify, then append. *)
AppendHistory ==
  /\ pc = "append"
  /\ ~torn
  /\ hist' = Append(hist, mem.last)
  /\ pc' = "save"
  /\ UNCHANGED <<mem, disk, torn, top, world, faults, entered>>

(* The history does not verify: process_bar halts. *)
HistoryRejected ==
  /\ pc = "append"
  /\ torn
  /\ mem' = Halted(mem)
  /\ pc' = "save"
  /\ UNCHANGED <<files, world, faults, entered>>

(* The append fails: nothing, a part of the line or the line is written. *)
AppendFails ==
  /\ pc = "append"
  /\ ~torn
  /\ Fault
  /\ mem' = Halted(mem)
  /\ pc' = "save"
  /\ \/ UNCHANGED <<hist, torn>>
     \/ torn' = TRUE /\ UNCHANGED hist
     \/ hist' = Append(hist, mem.last) /\ UNCHANGED torn
  /\ UNCHANGED <<disk, top, world, entered>>

-----------------------------------------------------------------------------
(* The process and the world.                                              *)

(* The process dies, possibly in the middle of an append. *)
Crash ==
  /\ pc \notin {"down", "ended"}
  /\ crashes < MaxCrashes
  /\ crashes' = crashes + 1
  /\ pc' = "down"
  /\ mem' = Blank
  /\ torn' \in {torn, torn \/ pc = "append"}
  /\ UNCHANGED <<disk, hist, top, bar, corruptions, retried, faults, entered>>

CorruptCheckpoint ==
  /\ disk.file = "ok"
  /\ corruptions < MaxCorruptions
  /\ corruptions' = corruptions + 1
  /\ disk' = Corrupt
  /\ UNCHANGED <<mem, hist, torn, top, pc, bar, crashes, retried, faults, entered>>

CorruptHistory ==
  /\ hist # <<>>
  /\ ~torn
  /\ corruptions < MaxCorruptions
  /\ corruptions' = corruptions + 1
  /\ torn' = TRUE
  /\ UNCHANGED <<mem, disk, hist, top, pc, bar, crashes, retried, faults, entered>>

NewBar ==
  /\ bar < MaxBar
  /\ bar' = bar + 1
  /\ UNCHANGED <<mem, files, pc, crashes, corruptions, retried, faults, entered>>

-----------------------------------------------------------------------------

ProcessBar(b) ==
  IgnoreBar(b) \/ RefuseBar(b) \/ HoldPosition(b) \/ ExitPosition(b)
    \/ NoEntry(b) \/ EntryHalts(b) \/ Enter(b)

Write ==
  \/ Save("pending", "fill") \/ SaveFails("pending", "fill")
  \/ Save("save", "idle") \/ SaveFails("save", "idle")
  \/ AppendHistory \/ HistoryRejected \/ AppendFails

Next ==
  \/ Construct \/ Recover \/ Start \/ StopRuntime
  \/ \E mode \in FailureModes : SetFailureMode(mode)
  \/ \E b \in 1 .. bar : ProcessBar(b)
  \/ FillLost \/ FillRejected \/ FillRefused \/ Filled
  \/ Write
  \/ Crash \/ CorruptCheckpoint \/ CorruptHistory \/ NewBar

Spec == Init /\ [][Next]_vars

-----------------------------------------------------------------------------
(* Properties.                                                             *)

TypeOK ==
  /\ mem \in Engine
  /\ disk \in Engine \cup {NoFile, Corrupt}
  /\ hist \in Seq(Bars)
  /\ torn \in BOOLEAN
  /\ pc \in {"down", "new", "idle", "pending", "fill", "append", "save", "ended"}
  /\ bar \in Bars
  /\ crashes \in 0 .. MaxCrashes
  /\ faults \in 0 .. MaxFaults
  /\ corruptions \in 0 .. MaxCorruptions
  /\ retried \in BOOLEAN
  /\ entered \in [Bars -> Nat]
  /\ top \in Bars \cup {NoBar}

(* No bar is entered twice, whenever the process dies: the restarted       *)
(* engine either knows the bar as processed or finds its pending order.    *)
(* A checkpoint that could not be written, and an owner that goes on after *)
(* a failed recovery, are excepted: the code then enters a bar again.      *)
EntryOncePerBar ==
  faults = 0 /\ ~retried => \A b \in Bars : entered[b] <= 1

(* A pending order is never forgotten or filled later: an engine that      *)
(* still has one between two calls is halted, also after any restart.      *)
PendingIsHalt == pc = "idle" /\ mem.pending # NoBar => mem.lifecycle = "HALT" /\ ~mem.running

(* An engine that runs has not lost what was ever checkpointed: restarts,  *)
(* failed writes and a damaged checkpoint never turn the clock back, as    *)
(* long as the owner gives up after a failed recovery.                     *)
NoSilentReset == ~retried /\ mem.running => mem.last >= top

(* The lifecycle the engine publishes agrees with its account. *)
LifecycleMatchesPosition ==
  pc = "idle" =>
    /\ mem.lifecycle = "OPEN" => mem.position # NoBar
    /\ mem.lifecycle = "FLAT" => mem.position = NoBar
    /\ mem.lifecycle # "UNKNOWN"

(* A bar that the checkpoint counts as processed is in the history, if the *)
(* history verifies: the record is written first, and no write has failed. *)
CheckpointedBarIsRecorded ==
  faults = 0 /\ disk.file = "ok" /\ disk.last # NoBar /\ ~torn
  => \E i \in DOMAIN hist : hist[i] = disk.last

=============================================================================
