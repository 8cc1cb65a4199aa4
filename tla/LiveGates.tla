------------------------------ MODULE LiveGates ------------------------------
(***************************************************************************)
(* The two files that stop the live runtime: bot_control.json of           *)
(* BotControlPlane (live/control_plane.py), which operators replace with   *)
(* scripts/bot_control.py, and the equity baseline of DailyCircuitBreaker  *)
(* (live/live_runtime.py), which every runtime process reads and may       *)
(* replace.  Both are read first and replaced later, under a lock of one   *)
(* process only, so the steps of several processes mix.                    *)
(***************************************************************************)
EXTENDS Integers, FiniteSets

CONSTANTS
  Operators,    \* operators that run bot_control.py
  Procs,        \* runtime processes
  Commands,     \* states they set: RUN, PAUSE, STOP, EMERGENCY_STOP
  Equities,     \* equities of the account
  LimitPct,     \* max_daily_drawdown_fraction, in percent
  MaxDay,       \* bound: days of a behaviour
  MaxSets,      \* bound: calls of set
  MaxStops,     \* bound: crashes and restarts of runtime processes
  MaxDamages,   \* bound: files that become unreadable
  NoFile,       \* a file that does not exist
  Damaged,      \* a file that cannot be read
  Nothing       \* no set, no snapshot

ASSUME GatesAssumption ==
  /\ "RUN" \in Commands /\ Equities \subseteq Nat \ {0} /\ Equities # {}
  /\ LimitPct \in 1 .. 99
  /\ {MaxDay, MaxSets, MaxStops, MaxDamages} \subseteq Nat

Days == 0 .. MaxDay
Control  == [state : Commands, generation : Nat \ {0}]
Baseline == [date : Days, starting : Equities]
Snapshot == [date : Days, equity : Equities, then : {"waiting", "trading"}]

ASSUME FilesAssumption ==
  /\ {NoFile, Damaged, Nothing} \cap (Control \cup Baseline \cup Snapshot) = {}
  /\ NoFile # Damaged
  /\ Nothing \notin Equities

VARIABLES
  control,    \* the control file
  setting,    \* per operator: what its call of set will write
  breaker,    \* the breaker file
  day,        \* the date
  equity,     \* the equity of the account
  pc,         \* where a runtime process is
  snapshot,   \* its account snapshot and clock
  \* bounds and history
  sets,       \* calls of set that returned
  last,       \* the state the last of them set
  mixed,      \* two calls of set overlapped
  saves,      \* per day: the first baseline saved
  crossed,    \* two checks of the breaker overlapped
  late,       \* per process: trading cycles since a state other than RUN was set
  stops, damages

operatorVars == <<control, setting, sets, last, mixed>>
processVars  == <<pc, snapshot, breaker, saves, crossed, late, stops>>
vars == <<operatorVars, processVars, day, equity, damages>>

Init ==
  /\ control = NoFile
  /\ setting = [o \in Operators |-> Nothing]
  /\ breaker = NoFile
  /\ day = 0
  /\ equity \in Equities
  /\ pc = [p \in Procs |-> "down"]
  /\ snapshot = [p \in Procs |-> Nothing]
  /\ sets = 0
  /\ last = "STOP"
  /\ mixed = FALSE
  /\ saves = [d \in Days |-> Nothing]
  /\ crossed = FALSE
  /\ late = [p \in Procs |-> 0]
  /\ stops = 0
  /\ damages = 0

-----------------------------------------------------------------------------
(* Operators.                                                              *)

(* Fault: the generation does not survive. *)
ReadControlUnnumbered ==
  IF control = NoFile THEN [state |-> "STOP", generation |-> 0] ELSE [control EXCEPT !.generation = 0]

(* _read_unlocked of a readable file. *)
ReadControl == IF control = NoFile THEN [state |-> "STOP", generation |-> 0] ELSE control

(* set, up to the temporary file.  An unreadable file ends the command. *)
BeginSet(o, state) ==
  /\ setting[o] = Nothing
  /\ control # Damaged
  /\ sets + Cardinality({q \in Operators : setting[q] # Nothing}) < MaxSets
  /\ setting' = [setting EXCEPT ![o] =
                   [state |-> state, generation |-> ReadControl.generation + 1]]
  /\ mixed' = (mixed \/ \E q \in Operators : setting[q] # Nothing)
  /\ UNCHANGED <<control, sets, last, processVars, day, equity, damages>>

(* os.replace.  The counts of the cycles that are late start with a state   *)
(* other than RUN.                                                          *)
EndSet(o) ==
  /\ setting[o] # Nothing
  /\ control' = setting[o]
  /\ setting' = [setting EXCEPT ![o] = Nothing]
  /\ sets' = sets + 1
  /\ last' = setting[o].state
  /\ late' = [p \in Procs |-> 0]
  /\ UNCHANGED <<mixed, pc, snapshot, breaker, saves, crossed, stops, day, equity, damages>>

-----------------------------------------------------------------------------
(* Runtime processes.                                                      *)

Checking(p) == pc[p] \in {"check", "stale"}

(* The account snapshot and the clock a check works with. *)
TakeSnapshot(p, then) ==
  /\ pc' = [pc EXCEPT ![p] = "check"]
  /\ snapshot' = [snapshot EXCEPT ![p] = [date |-> day, equity |-> equity, then |-> then]]
  /\ crossed' = (crossed \/ \E q \in Procs : Checking(q))
  /\ UNCHANGED <<operatorVars, breaker, saves, late, stops, day, equity, damages>>

(* preflight asks the breaker only. *)
Start(p) == pc[p] = "down" /\ TakeSnapshot(p, "waiting")

(* Fault: the control plane is asked once, at the start. *)
BeginCycleAlways(p) == pc[p] = "waiting" /\ pc' = [pc EXCEPT ![p] = "cycle"] /\
  UNCHANGED <<operatorVars, snapshot, breaker, saves, crossed, late, stops, day, equity, damages>>

(* run_forever: a cycle begins when the control plane says RUN. *)
BeginCycle(p) ==
  /\ pc[p] = "waiting"
  /\ control # Damaged
  /\ ReadControl.state = "RUN"
  /\ pc' = [pc EXCEPT ![p] = "cycle"]
  /\ UNCHANGED <<operatorVars, snapshot, breaker, saves, crossed, late, stops, day, equity, damages>>

(* process_once. *)
ReadAccount(p) == pc[p] = "cycle" /\ TakeSnapshot(p, "trading")

WithinLimit(starting, now) == 100 * (starting - now) < LimitPct * starting

(* The verdict of check: a tripped breaker ends the process. *)
Conclude(p, starting) ==
  LET s == snapshot[p]
      passed == WithinLimit(starting, s.equity)
  IN  /\ pc' = [pc EXCEPT ![p] = IF passed THEN s.then ELSE "down"]
      /\ snapshot' = [snapshot EXCEPT ![p] = IF passed /\ s.then = "trading" THEN s ELSE Nothing]
      /\ late' = [late EXCEPT ![p] =
                    IF passed /\ s.then = "trading" /\ last # "RUN" THEN @ + 1 ELSE @]

(* Fault: the process that starts takes a new baseline. *)
LoadBaselineForgetful(p) ==
  /\ pc[p] = "check"
  /\ breaker # Damaged
  /\ IF breaker # NoFile /\ breaker.date = snapshot[p].date /\ snapshot[p].then = "trading"
     THEN Conclude(p, breaker.starting)
     ELSE pc' = [pc EXCEPT ![p] = "stale"] /\ UNCHANGED <<late, snapshot>>
  /\ UNCHANGED <<operatorVars, breaker, saves, crossed, stops, day, equity, damages>>

(* check up to _load: the baseline of the day, if there is one. *)
LoadBaseline(p) ==
  /\ pc[p] = "check"
  /\ breaker # Damaged
  /\ IF breaker # NoFile /\ breaker.date = snapshot[p].date
     THEN Conclude(p, breaker.starting)
     ELSE pc' = [pc EXCEPT ![p] = "stale"] /\ UNCHANGED <<late, snapshot>>
  /\ UNCHANGED <<operatorVars, breaker, saves, crossed, stops, day, equity, damages>>

(* _save, then the verdict against the equity just saved. *)
SaveBaseline(p) ==
  /\ pc[p] = "stale"
  /\ breaker' = [date |-> snapshot[p].date, starting |-> snapshot[p].equity]
  /\ saves' = [saves EXCEPT ![snapshot[p].date] = IF @ = Nothing THEN snapshot[p].equity ELSE @]
  /\ Conclude(p, snapshot[p].equity)
  /\ UNCHANGED <<operatorVars, crossed, stops, day, equity, damages>>

Forget(p) == snapshot' = [snapshot EXCEPT ![p] = Nothing]

EndCycle(p) ==
  /\ pc[p] = "trading"
  /\ pc' = [pc EXCEPT ![p] = "waiting"]
  /\ Forget(p)
  /\ UNCHANGED <<operatorVars, breaker, saves, crossed, late, stops, day, equity, damages>>

(* A file the process needs cannot be read: it ends. *)
Refuse(p) ==
  /\ \/ pc[p] = "waiting" /\ control = Damaged
     \/ pc[p] = "check" /\ breaker = Damaged
  /\ pc' = [pc EXCEPT ![p] = "down"]
  /\ Forget(p)
  /\ UNCHANGED <<operatorVars, breaker, saves, crossed, late, stops, day, equity, damages>>

(* A crash, or any other exception. *)
Stop(p) ==
  /\ pc[p] # "down"
  /\ stops < MaxStops
  /\ pc' = [pc EXCEPT ![p] = "down"]
  /\ stops' = stops + 1
  /\ Forget(p)
  /\ UNCHANGED <<operatorVars, breaker, saves, crossed, late, day, equity, damages>>

-----------------------------------------------------------------------------

NextDay ==
  /\ day < MaxDay
  /\ day' = day + 1
  /\ UNCHANGED <<operatorVars, processVars, equity, damages>>

MoveEquity(e) ==
  /\ equity' = e
  /\ UNCHANGED <<operatorVars, processVars, day, damages>>

DamageControl ==
  /\ damages < MaxDamages
  /\ damages' = damages + 1
  /\ control' = Damaged
  /\ UNCHANGED <<setting, sets, last, mixed, processVars, day, equity>>

DamageBreaker ==
  /\ damages < MaxDamages
  /\ damages' = damages + 1
  /\ breaker' = Damaged
  /\ UNCHANGED <<operatorVars, pc, snapshot, saves, crossed, late, stops, day, equity>>

Next ==
  \/ \E o \in Operators : EndSet(o) \/ \E state \in Commands : BeginSet(o, state)
  \/ \E p \in Procs : \/ Start(p) \/ BeginCycle(p) \/ ReadAccount(p)
                      \/ LoadBaseline(p) \/ SaveBaseline(p) \/ EndCycle(p)
                      \/ Refuse(p) \/ Stop(p)
  \/ NextDay
  \/ \E e \in Equities : MoveEquity(e)
  \/ DamageControl
  \/ DamageBreaker

Spec == Init /\ [][Next]_vars

-----------------------------------------------------------------------------

GatesTypeOK ==
  /\ control \in Control \cup {NoFile, Damaged}
  /\ setting \in [Operators -> Control \cup {Nothing}]
  /\ breaker \in Baseline \cup {NoFile, Damaged}
  /\ day \in Days /\ equity \in Equities
  /\ pc \in [Procs -> {"down", "check", "stale", "waiting", "cycle", "trading"}]
  /\ snapshot \in [Procs -> Snapshot \cup {Nothing}]
  /\ sets \in Nat /\ last \in Commands \cup {"STOP"}
  /\ mixed \in BOOLEAN /\ crossed \in BOOLEAN
  /\ saves \in [Days -> Equities \cup {Nothing}]
  /\ late \in [Procs -> Nat]
  /\ stops \in Nat /\ damages \in Nat

(* As long as no two calls of set overlapped, the control file holds what   *)
(* the last of them set and counts them all (control_plane.py:73).          *)
ControlFileIsSerial ==
  ~mixed /\ damages = 0 =>
    /\ ReadControl.state = last
    /\ ReadControl.generation = sets

(* As long as no two checks overlapped, no cycle trades at an equity that   *)
(* is a limit below the first equity of its day that any process checked,   *)
(* restarts included (live_runtime.py:90).                                  *)
DrawdownEndsTrading ==
  ~crossed => \A p \in Procs :
    pc[p] = "trading" => /\ saves[snapshot[p].date] # Nothing
                         /\ WithinLimit(saves[snapshot[p].date], snapshot[p].equity)

(* Once a state other than RUN is set, a process trades in at most the one  *)
(* cycle it had begun (live_runtime.py:331).                                *)
StopEndsAfterOneCycle == \A p \in Procs : late[p] <= 1
=============================================================================
