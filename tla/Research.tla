------------------------------ MODULE Research ------------------------------
(***************************************************************************)
(* The research on recorded bars (strategy/walk_forward.py,                *)
(* ml_walk_forward.py, deep_learning_walk_forward.py, realtime_replay.py): *)
(* windows of bars, one after the other, are traded by a strategy whose    *)
(* filter was trained on the bars before the window.  The features of a    *)
(* signal stand for the bars they are computed from; favorable_move is 0.  *)
(***************************************************************************)
EXTENDS TradeSimulation, FiniteSetsExt, SequencesExt

CONSTANTS
  HistoryBars,      \* history_bars, after the warm-up of the backtest
  TestBars,         \* test_bars
  StepBars,         \* step_bars
  Horizon,          \* horizon_bars of a label
  SequenceLength,   \* sequence_length of the deep models
  Approves(_, _)    \* what a model trained on samples says of features

ASSUME ResearchAssumption ==
  /\ {HistoryBars, TestBars, StepBars, Horizon} \subseteq Nat \ {0}
  /\ StepBars >= TestBars
  /\ SequenceLength \in Nat \ {0, 1}

-----------------------------------------------------------------------------

(* extract_signal_features looks at the bars up to the signal and raises on *)
(* a bar without range or without prices.                                  *)
Raises == <<>>
Features(bars, i) ==
  IF bars[i].high > bars[i].low /\ bars[i].open > 0 /\ bars[i].close > 0
  THEN SubSeq(bars, 1, i) ELSE Raises

(* build_signal_sample: does the close move the way of the signal within    *)
(* the horizon?  It raises when the bars do not reach that far.             *)
Label(bars, i) ==
  IF i + Horizon > Len(bars) THEN "raises"
  ELSE LET move == bars[i + Horizon].close - bars[i].close
       IN  IF (IF Tested(bars, i).action = "LONG" THEN move ELSE 0 - move) > 0 THEN "follows" ELSE "fails"

Sample(bars, i) == [bar |-> i, features |-> Features(bars, i), label |-> Label(bars, i)]

(* The signals of a run, by their bars. *)
Signals(bars, turns, start, end) ==
  {i \in start .. end : Tested(bars, i).action # "WAIT" /\ \E k \in DOMAIN turns : turns[k].bar = i}

(* Fault: the label of the last sample ends in the window after the run. *)
SamplesOneMore(bars, turns, start, end) ==
  {Sample(bars, i) : i \in Signals(bars, turns, start, end - Horizon + 1)}

(* _directional_training_samples: the signals whose label ends in the run.  *)
Samples(bars, turns, start, end) == {Sample(bars, i) : i \in Signals(bars, turns, start, end - Horizon)}

(* A model is fitted on samples of both labels. *)
Trains(samples) == {s.label : s \in samples} = {"follows", "fails"}

-----------------------------------------------------------------------------

(* The windows of the walk-forward, by their first bar. *)
FoldStarts(bars) == {s \in HistoryBars + 1 .. Len(bars) : (s - HistoryBars - 1) % StepBars = 0}

FoldEnd(bars, s) == IF s + TestBars - 1 < Len(bars) THEN s + TestBars - 1 ELSE Len(bars)

(* walk_forward_backtest: the window, every signal approved. *)
Baseline(bars, s, how) ==
  RunBacktest(bars, s, FoldEnd(bars, s), how, s .. FoldEnd(bars, s))

(* What the models of a window are trained on. *)
Training(bars, s, how) ==
  Samples(bars, RunBacktest(bars, 1, s - 1, how, 1 .. s - 1), 1, s - 1)

(* The signals the model of the window lets through; without two labels     *)
(* there is no model.                                                      *)
Approved(bars, s, how) ==
  {i \in s .. FoldEnd(bars, s) :
     Trains(Training(bars, s, how)) /\ Features(bars, i) # Raises
       => Approves(Training(bars, s, how), Features(bars, i))}

(* ml_walk_forward_backtest: the window with and without the filter, the    *)
(* features of the signals without it, and whether something raises.       *)
MLFold(bars, s, how) ==
  LET end      == FoldEnd(bars, s)
      samples  == Training(bars, s, how)
      baseline == Baseline(bars, s, how)
      filtered == RunBacktest(bars, s, end, how, Approved(bars, s, how))
      inputs   == {Features(bars, i) : i \in Signals(bars, baseline, s, end)}
      scored   == {Features(bars, i) : i \in Signals(bars, filtered, s, end)}
  IN  [samples |-> samples, trained |-> Trains(samples), baseline |-> baseline,
       filtered |-> filtered, inputs |-> inputs,
       raised |-> \/ Raised(RunBacktest(bars, 1, s - 1, how, 1 .. s - 1))
                  \/ Raised(baseline) \/ Raised(filtered)
                  \/ Raises \in {x.features : x \in samples} \cup inputs
                  \/ Trains(samples) /\ Raises \in scored]

(* _test_samples: what the deep models of a window are measured on. *)
TestSamples(bars, s, how) == Samples(bars, Baseline(bars, s, how), s, FoldEnd(bars, s))

(* _train_one trains no model on less. *)
DeepTrains(train, test) == Cardinality(train) >= SequenceLength /\ Trains(train) /\ test # {}

Chronological(samples) == SetToSortSeq(samples, LAMBDA x, y : x.bar < y.bar)

(* The sequences a deep model sees: those that end at a sample of a         *)
(* sequence of samples, from the one at position first.                     *)
Windows(samples, first) ==
  {SubSeq(samples, p - SequenceLength + 1, p) : p \in {q \in first .. Len(samples) : q >= SequenceLength}}

(* What train_deep_sequence_model trains a model on, and what it measures   *)
(* it on: the first sequences of the test reach back into the training.     *)
Learnt(train, test) == IF DeepTrains(train, test) THEN Windows(Chronological(train), 1) ELSE {}

Measured(train, test) ==
  LET past   == Chronological(train)
      before == SubSeq(past, Len(past) - SequenceLength + 2, Len(past))
  IN  IF DeepTrains(train, test) THEN Windows(before \o Chronological(test), SequenceLength) ELSE {}

(* deep_learning_walk_forward_backtest: the samples of the window, and the  *)
(* sequences two models are trained and measured on.                       *)
DeepFold(bars, s, how) ==
  LET train == Training(bars, s, how)
      test  == TestSamples(bars, s, how)
  IN  [train |-> train, test |-> test,
       raised |-> \E x \in train \cup test : x.features = Raises,
       trained |-> DeepTrains(train, test),
       learnt |-> Learnt(train, test), measured |-> Measured(train, test)]

(* label_replay_outcomes of replay_realtime_monitor: the monitor decides on *)
(* every bar, and the bars after its decision label it.                    *)
ReplayLabels(bars) ==
  [i \in DOMAIN bars |->
     LET d == bars[i].decision
     IN  IF d.action = "WAIT" THEN "INVALID"
         ELSE LabelOutcome(BuildRiskPlan(d.action, d.entry, d.stop), SubSeq(bars, i + 1, Len(bars)))]
=============================================================================
