--------------------------- MODULE MCPaperPrograms ---------------------------
(* A bar without range, one that touches both levels of most plans and a    *)
(* fall that opens beyond the stops of a LONG; a fill at 10 may pay a cost  *)
(* of 1.  A record is a rise, a fall or a candle without range after        *)
(* another, each with or without a signal.                                  *)
EXTENDS PaperPrograms

MCCandles == {[open |-> 10, high |-> 10, low |-> 10, close |-> 10],
              [open |-> 10, high |-> 21, low |-> 6, close |-> 10],
              [open |-> 5, high |-> 10, low |-> 3, close |-> 5]}

Wait  == [action |-> "WAIT", entry |-> 0, stop |-> 0]
Long  == [action |-> "LONG", entry |-> 11, stop |-> 6]
Short == [action |-> "SHORT", entry |-> 9, stop |-> 12]
Lower == [action |-> "LONG", entry |-> 11, stop |-> 4]

(* The monitor decides d in a zone with this edge, and the backtest t. *)
Decides(d, edge, t) == [action |-> d.action, entry |-> d.entry, stop |-> d.stop,
                        edge |-> edge, tested |-> t]

(* Both wait, both signal and stop alike, the supervisor refuses, or the    *)
(* stops differ.                                                           *)
BothWait  == Decides(Wait, 0, Wait)
BothShort == Decides(Short, 10, Short)
Refuses   == Decides(Wait, 0, Long)
Apart     == Decides(Long, 7, Lower)

MCDecisions == {BothWait, BothShort, Refuses, Apart}

Closed(candle, d) == [open |-> candle.open, high |-> candle.high, low |-> candle.low,
                      close |-> candle.close, decision |-> d]

(* History: four kinds of bars, and it begins with a signal of both. *)
Kinds == {Closed([open |-> 10, high |-> 15, low |-> 10, close |-> 15], Apart),
          Closed([open |-> 10, high |-> 15, low |-> 9, close |-> 10], Refuses),
          Closed([open |-> 5, high |-> 10, low |-> 5, close |-> 5], BothShort),
          Closed([open |-> 10, high |-> 10, low |-> 10, close |-> 10], BothWait)}

MCRecords == {r \in [1 .. HistoryBars -> Kinds] : r[1].decision \in {Apart, BothShort}}

(* A model approves of a signal like one that was followed in training. *)
MCApproves(samples, features) ==
  \E s \in samples : /\ s.label = "follows" /\ s.features # Raises
                     /\ Last(s.features).decision.tested.action
                         = Last(features).decision.tested.action
=============================================================================
