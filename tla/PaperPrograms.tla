---------------------------- MODULE PaperPrograms ----------------------------
(***************************************************************************)
(* The programs on the closed bars of one symbol: the paper session and    *)
(* the bot, which trade them through the realtime monitor, and the         *)
(* research, which starts from recorded bars and only looks.  A process    *)
(* runs one of them.                                                       *)
(***************************************************************************)
EXTENDS PaperSession, PaperBot, Research

CONSTANTS
  Programs,     \* the programs a process may run
  Records,      \* the recorded bars with which the research starts
  TradedBars    \* bound: closed bars of a behaviour that trades

Bar == [open : Int, high : Int, low : Int, close : Int, decision : Decisions]

ASSUME ProgramsAssumption ==
  /\ Programs \subseteq {"session", "bot", "research"}
  /\ Records \subseteq Seq(Bar)
  /\ \A record \in Records : Len(record) <= MaxBars
  /\ TradedBars \in Nat

VARIABLE program

vars == <<bars, cursor, sessionVars, botVars, program>>

Init ==
  /\ program \in Programs
  /\ IF program = "research" THEN bars \in Records /\ cursor = 0 ELSE MonitorInit
  /\ SessionInit
  /\ BotInit

Market == /\ program # "research" => Len(bars) < TradedBars
          /\ \E c \in Candles, d \in Decisions : CloseBar(c, d)
          /\ UNCHANGED <<sessionVars, botVars, program>>

Session == /\ program = "session"
           /\ ProcessOnce \/ EvaluationFails
           /\ UNCHANGED <<botVars, program>>

Bot == /\ program = "bot"
       /\ \/ Evaluate \/ CycleFailsBeforeProcessing
          \/ ProcessAndKeep \/ ProcessThenFail \/ Restart
       /\ UNCHANGED <<sessionVars, program>>

Next == Market \/ Session \/ Bot

Spec == Init /\ [][Next]_vars

-----------------------------------------------------------------------------

(* What the two programs keep has its type. *)
TypeOK ==
  /\ program \in {"session", "bot", "research"}
  /\ bars \in Seq(Bar)
  /\ Len(bars) <= MaxBars
  /\ cursor \in 0 .. Len(bars)
  /\ pending \in 0 .. Len(bars)
  /\ \A i \in DOMAIN seen : seen[i] \in 1 .. Len(bars)
  /\ refusals \subseteq 1 .. Len(bars)
  /\ evaluated \in 0 .. Len(bars)
  /\ waiting \in 0 .. Len(bars)
  /\ last \in 0 .. Len(bars)
  /\ restarts \in 0 .. MaxRestarts

(* The session loses and invents nothing between the signal and the         *)
(* journal: a signal waits for one bar, a closed trade can be replayed from *)
(* the bars the session saw, and the journal holds one record per signal,   *)
(* open and close, in order.                                                *)
SessionIsSound ==
  /\ TypeOK
  /\ program = "session" => PendingIsFresh /\ ClosedTradeIsReplayable /\ JournalTellsTheSession

(* Where the simulations agree: as long as both decide the same the session *)
(* is the backtest of the bars it saw, the simulation with costs never      *)
(* beats the one without, and a record is certified only if nobody trades.  *)
SimulationsAgree ==
  program = "session" => SessionFollowsBacktest /\ CostsNeverHelp /\ CertifiedOnlyInSilence

(* The bot acts once on a signal, later than the bar of the signal, and     *)
(* leaves at the first touch, through failures and restarts.                *)
BotIsSound == program = "bot" => SignalActsOnceAndLater /\ ExitIsFirstTouch

(* The research never looks ahead.  When a bar is recorded, what the model  *)
(* of a window is trained on is what the bars before the window said; a     *)
(* window that was complete keeps its trades, with and without the filter,  *)
(* and its test samples; and a label of a replayed decision that was        *)
(* decided, or whose horizon was over, stays.                               *)
FoldsNeverRepaint ==
  [][bars' # bars /\ program = "research" =>
       /\ \A how \in Hows, s \in FoldStarts(bars') :
            /\ Training(bars', s, how) = Training(bars, s, how)
            /\ s + TestBars - 1 <= Len(bars) => /\ MLFold(bars', s, how) = MLFold(bars, s, how)
                                               /\ DeepFold(bars', s, how) = DeepFold(bars, s, how)
       /\ \A i \in DOMAIN bars :
            ReplayLabels(bars)[i] # "TIMEOUT" \/ i + MaxHold <= Len(bars) =>
              ReplayLabels(bars')[i] = ReplayLabels(bars)[i]]_vars
=============================================================================
