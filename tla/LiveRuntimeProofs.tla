-------------------------- MODULE LiveRuntimeProofs -------------------------
(***************************************************************************)
(* Proofs about LiveRuntime for every number of processes, symbols, bars,  *)
(* quotes, accounts and crashes.                                           *)
(***************************************************************************)
EXTENDS LiveRuntime, TLAPS

(* Every variable keeps its type. *)
LEMMA InitType == Init => TypeOK
  BY IntentsAssumption, BoundsAssumption, NullsAssumption
  DEF Init, TypeOK, JournalInit, JournalTypeOK, Bars, Phases, None

(* A process that ends returns its memory to its initial type. *)
LEMMA GoDownType ==
  ASSUME TypeOK, NEW p \in Procs, GoDown(p)
  PROVE  /\ pc' \in [Procs -> Phases]
         /\ found' \in [Procs -> SUBSET Intents]
         /\ bound' \in [Procs -> Accounts \cup {NoAccount}]
         /\ seen' \in [Procs -> [Symbols -> 0 .. MaxBar]]
         /\ todo' \in [Procs -> SUBSET Symbols]
         /\ active' \in [Procs -> SUBSET Symbols]
         /\ cur' \in [Procs -> Intents \cup {NoIntent}]
         /\ answer' \in [Procs -> {"NONE", "DONE", "REJECTED", "RAISED"}]
  BY BoundsAssumption DEF TypeOK, GoDown, Phases

(* The journal operations keep the journal a map to states. *)
LEMMA JournalOperationType ==
  ASSUME JournalTypeOK, NEW i \in Intents, NEW st \in States, NEW b,
         Transition(i, st, b) \/ Reserve(i) \/ UNCHANGED journal
  PROVE  JournalTypeOK'
  BY DEF JournalTypeOK, Transition, Reserve, States, RecoveryStates, TerminalStates

(* Every step keeps the types, when a process that executes has an intent. *)
LEMMA NextType == TypeOK /\ (\A p \in Procs : PhaseInv(p)) /\ [Next]_vars => TypeOK'
  <1> SUFFICES ASSUME TypeOK, \A p \in Procs : PhaseInv(p), [Next]_vars
               PROVE  TypeOK'
    OBVIOUS
  <1> USE DEF marketVars, brokerVars, procVars
  <1>1. ASSUME NEW p \in Procs, Start(p)
        PROVE  TypeOK'
    BY <1>1 DEF Start, Goto, TypeOK, JournalTypeOK, Phases, Unresolved
  <1>2. ASSUME NEW p \in Procs, NEW i \in Intents, ReconcileOne(p, i)
        PROVE  TypeOK'
    <2>1. JournalTypeOK'
      BY <1>2, JournalOperationType DEF ReconcileOne, TypeOK, States, TerminalStates
    <2>2. CASE Unambiguous(Evidence(i)) /\ ~CanTransition(i, "SUCCEEDED", TRUE)
      BY <1>2, <2>1, <2>2, GoDownType DEF ReconcileOne, TypeOK
    <2>3. CASE ~(Unambiguous(Evidence(i)) /\ ~CanTransition(i, "SUCCEEDED", TRUE))
      BY <1>2, <2>1, <2>3 DEF ReconcileOne, TypeOK
    <2>4. QED BY <2>2, <2>3
  <1>3. ASSUME NEW p \in Procs, Bind(p)
        PROVE  TypeOK'
    <2>1. CASE Unresolved # {}
      BY <1>3, <2>1, GoDownType DEF Bind, TypeOK, JournalTypeOK
    <2>2. CASE Unresolved = {}
      BY <1>3, <2>2 DEF Bind, TypeOK, JournalTypeOK, Phases
    <2>3. QED BY <2>1, <2>2
  <1>4. ASSUME NEW p \in Procs, BeginCycle(p)
        PROVE  TypeOK'
    <2>1. CASE account # bound[p]
      BY <1>4, <2>1, GoDownType DEF BeginCycle, OnBoundAccount, TypeOK, JournalTypeOK
    <2>2. CASE account = bound[p]
      <3>1. OpenSymbols(account) \in SUBSET Symbols
        BY IntentsAssumption DEF OpenSymbols, TypeOK, Fill, Intent
      <3>2. active' \in [Procs -> SUBSET Symbols]
        BY <1>4, <2>2, <3>1 DEF BeginCycle, OnBoundAccount, TypeOK
      <3>3. QED BY <1>4, <2>2, <3>2 DEF BeginCycle, OnBoundAccount, TypeOK, JournalTypeOK, Phases
    <2>3. QED BY <2>1, <2>2
  <1>5. ASSUME NEW p \in Procs, EndCycle(p)
        PROVE  TypeOK'
    BY <1>5 DEF EndCycle, Goto, TypeOK, JournalTypeOK, Phases
  <1>6. ASSUME NEW p \in Procs, NEW s \in Symbols, SkipSymbol(p, s)
        PROVE  TypeOK'
    BY <1>6 DEF SkipSymbol, TypeOK, JournalTypeOK
  <1>7. ASSUME NEW p \in Procs, NEW s \in Symbols, RejectSymbol(p, s)
        PROVE  TypeOK'
    BY <1>7, BoundsAssumption DEF RejectSymbol, TypeOK, JournalTypeOK, Bars
  <1>8. ASSUME NEW p \in Procs, NEW s \in Symbols, NEW q \in Quotes, Candidate(p, s, q)
        PROVE  TypeOK'
    <2>1. [symbol |-> s, bar |-> bar, quote |-> q] \in Intents
      BY IntentsAssumption DEF Intent, TypeOK
    <2>2. QED BY <1>8, <2>1, BoundsAssumption
              DEF Candidate, Goto, TypeOK, JournalTypeOK, Bars, Phases
  <1>9. ASSUME NEW p \in Procs, BackToCycle(p)
        PROVE  /\ pc' \in [Procs -> Phases]
               /\ cur' \in [Procs -> Intents \cup {NoIntent}]
               /\ answer' \in [Procs -> {"NONE", "DONE", "REJECTED", "RAISED"}]
    BY <1>9 DEF BackToCycle, TypeOK, Phases
  <1>10. ASSUME NEW p \in Procs, ReserveIntent(p)
         PROVE  TypeOK'
    <2>1. CASE CanReserve(cur[p])
      BY <1>10, <2>1 DEF ReserveIntent, Reserve, TypeOK, JournalTypeOK, Phases,
                         States, RecoveryStates
    <2>2. CASE ~CanReserve(cur[p])
      BY <1>10, <2>2, <1>9 DEF ReserveIntent, BackToCycle, TypeOK, JournalTypeOK
    <2>3. QED BY <2>1, <2>2
  <1>11. ASSUME NEW p \in Procs, ReserveRaises(p)
         PROVE  TypeOK'
    <2>1. JournalTypeOK'
      BY <1>11 DEF ReserveRaises, Raises, Reserve, TypeOK, JournalTypeOK, States,
                   RecoveryStates
    <2>2. QED BY <1>11, <2>1, <1>9 DEF ReserveRaises, BackToCycle, TypeOK
  <1>12. ASSUME NEW p \in Procs, MarkSubmitted(p)
         PROVE  TypeOK'
    BY <1>12 DEF MarkSubmitted, Goto, Transition, TypeOK, JournalTypeOK, Phases,
                 States, RecoveryStates
  <1>13. ASSUME NEW p \in Procs, MarkSubmittedRaises(p)
         PROVE  TypeOK'
    BY <1>13 DEF MarkSubmittedRaises, Goto, Raises, Transition, TypeOK, JournalTypeOK,
                 Phases, States, RecoveryStates
  <1>14. ASSUME NEW p \in Procs, CheckOrder(p)
         PROVE  TypeOK'
    BY <1>14 DEF CheckOrder, Goto, TypeOK, JournalTypeOK, Phases
  <1>15. ASSUME NEW p \in Procs, RefuseOrder(p)
         PROVE  TypeOK'
    BY <1>15 DEF RefuseOrder, Goto, TypeOK, JournalTypeOK, Phases
  <1>16. ASSUME NEW p \in Procs, OrderSend(p)
         PROVE  TypeOK'
    <2>1. cur[p] \in Intents
      BY <1>16 DEF OrderSend, Goto, PhaseInv, InFlight
    <2>2. QED BY <1>16, <2>1 DEF OrderSend, Goto, TypeOK, JournalTypeOK, Phases, Fill
  <1>17. ASSUME NEW p \in Procs, RecordAnswer(p)
         PROVE  TypeOK'
    <2>1. Verdict(answer[p]) \in States
      BY DEF Verdict, States, TerminalStates, RecoveryStates
    <2>2. JournalTypeOK'
      BY <1>17, <2>1 DEF RecordAnswer, Transition, TypeOK, JournalTypeOK
    <2>3. CASE GoDown(p)
      BY <1>17, <2>2, <2>3, GoDownType DEF RecordAnswer, TypeOK
    <2>4. CASE BackToCycle(p)
      BY <1>17, <2>2, <2>4, <1>9 DEF RecordAnswer, BackToCycle, TypeOK
    <2>5. QED BY <1>17, <2>3, <2>4 DEF RecordAnswer
  <1>18. ASSUME NEW p \in Procs, RecordAnswerRaises(p)
         PROVE  TypeOK'
    <2>1. Verdict(answer[p]) \in States
      BY DEF Verdict, States, TerminalStates, RecoveryStates
    <2>2. JournalTypeOK'
      BY <1>18, <2>1 DEF RecordAnswerRaises, Raises, Transition, TypeOK, JournalTypeOK
    <2>3. QED BY <1>18, <2>2, GoDownType, BoundsAssumption DEF RecordAnswerRaises, TypeOK
  <1>19. ASSUME NEW p \in Procs, Stop(p)
         PROVE  TypeOK'
    BY <1>19, GoDownType, BoundsAssumption DEF Stop, TypeOK, JournalTypeOK
  <1>20. CASE Environment
    BY <1>20, BoundsAssumption
    DEF Environment, NewBar, ClosePosition, SetControl, SwitchAccount, TypeOK,
        JournalTypeOK, Bars
  <1>21. CASE UNCHANGED vars
    BY <1>21 DEF vars, TypeOK, JournalTypeOK
  <1>22. QED
    BY <1>1, <1>2, <1>3, <1>4, <1>5, <1>6, <1>7, <1>8, <1>10, <1>11, <1>12, <1>13,
       <1>14, <1>15, <1>16, <1>17, <1>18, <1>19, <1>20, <1>21 DEF Next, Step

-----------------------------------------------------------------------------
(* The inductive invariant.                                                *)

LEMMA InitInv == Init => IInv
  <1> SUFFICES ASSUME Init
               PROVE  IInv
    OBVIOUS
  <1>1. TypeOK
    BY InitType
  <1>2. /\ \A i \in Intents : journal[i] = None /\ sent[i] = 0
        /\ \A p \in Procs : pc[p] = "down"
        /\ Executed = {}
    BY DEF Init, JournalInit, Executed
  <1>3. RecordInv
    BY <1>2 DEF RecordInv, AtMostOneUnresolved, Unresolved, SentAtMostOnce,
                SucceededWasExecuted, ExecutedIsAccounted, SendInv, None, RecoveryStates
  <1>4. DistinctIntents /\ \A p \in Procs : PhaseInv(p)
    BY <1>2 DEF DistinctIntents, PhaseInv, InFlight
  <1>5. QED BY <1>1, <1>3, <1>4 DEF IInv

Records == <<journal, sent, fills>>

(* A step that leaves the records alone keeps what relates them. *)
LEMMA RecordsUnchanged ==
  ASSUME RecordInv, UNCHANGED Records
  PROVE  RecordInv' /\ Executed' = Executed
  BY DEF Records, RecordInv, AtMostOneUnresolved, Unresolved, SentAtMostOnce,
         SucceededWasExecuted, ExecutedIsAccounted, SendInv, Executed

(* A step keeps PhaseInv(q) when neither q nor the record of its intent    *)
(* changes.                                                                *)
LEMMA PhaseFrame ==
  ASSUME NEW q \in Procs, PhaseInv(q),
         pc'[q] = pc[q], cur'[q] = cur[q], answer'[q] = answer[q],
         pc[q] \in InFlight =>
           /\ journal'[cur[q]] = journal[cur[q]]
           /\ sent'[cur[q]] = sent[cur[q]]
           /\ cur[q] \in Executed' <=> cur[q] \in Executed
  PROVE  PhaseInv(q)'
  BY DEF PhaseInv, InFlight

(* A step that leaves the records alone and starts no execution. *)
LEMMA QuietStep ==
  ASSUME IInv, TypeOK', UNCHANGED Records,
         \A q \in Procs :
           \/ pc'[q] = pc[q] /\ cur'[q] = cur[q] /\ answer'[q] = answer[q]
           \/ pc'[q] \notin {"candidate"} \cup InFlight
  PROVE  IInv'
  <1>1. RecordInv' /\ Executed' = Executed
    BY RecordsUnchanged DEF IInv
  <1>2. ASSUME NEW q \in Procs
        PROVE  PhaseInv(q)'
    <2>1. CASE pc'[q] = pc[q] /\ cur'[q] = cur[q] /\ answer'[q] = answer[q]
      BY <2>1, <1>1, PhaseFrame DEF IInv, Records
    <2>2. CASE pc'[q] \notin {"candidate"} \cup InFlight
      BY <2>2 DEF PhaseInv, InFlight
    <2>3. QED BY <2>1, <2>2
  <1>3. DistinctIntents'
    BY DEF IInv, DistinctIntents
  <1>4. QED BY <1>1, <1>2, <1>3 DEF IInv

(* A transition of one record keeps what relates the records, when the     *)
(* verdict agrees with the broker.                                         *)
LEMMA TransitionRecords ==
  ASSUME RecordInv, JournalTypeOK, NEW i \in Intents, NEW st \in States, NEW b,
         Transition(i, st, b), UNCHANGED <<sent, fills>>,
         st = "SUCCEEDED" => i \in Executed,
         st = "FAILED" => i \notin Executed,
         st = "RESERVED" => journal[i] = "RESERVED"
  PROVE  RecordInv'
  <1>1. /\ \A j \in Intents : journal'[j] = IF j = i THEN st ELSE journal[j]
        /\ Executed' = Executed
    BY DEF Transition, JournalTypeOK, Executed
  <1>2. Unresolved' \subseteq Unresolved
    BY <1>1 DEF Unresolved, Transition, CanTransition, TerminalStates, RecoveryStates
  <1>3. AtMostOneUnresolved'
    BY <1>2 DEF RecordInv, AtMostOneUnresolved
  <1>4. SentAtMostOnce' /\ SucceededWasExecuted'
    BY <1>1 DEF RecordInv, SentAtMostOnce, SucceededWasExecuted
  <1>5. ExecutedIsAccounted'
    BY <1>1 DEF RecordInv, ExecutedIsAccounted, SendInv, States, TerminalStates, RecoveryStates
  <1>6. SendInv'
    BY <1>1 DEF RecordInv, SendInv, None, States, TerminalStates, RecoveryStates
  <1>7. QED BY <1>3, <1>4, <1>5, <1>6 DEF RecordInv

(* A reservation does, and gives the right to trade to its intent only. *)
LEMMA ReserveRecords ==
  ASSUME RecordInv, JournalTypeOK, NEW i \in Intents, Reserve(i), UNCHANGED <<sent, fills>>
  PROVE  RecordInv'
  <1>1. /\ \A j \in Intents : journal'[j] = IF j = i THEN "RESERVED" ELSE journal[j]
        /\ Executed' = Executed
        /\ Unresolved = {} /\ journal[i] = None
    BY DEF Reserve, CanReserve, JournalTypeOK, Executed
  <1>2. AtMostOneUnresolved'
    BY <1>1 DEF AtMostOneUnresolved, Unresolved, RecoveryStates
  <1>3. SentAtMostOnce' /\ SucceededWasExecuted'
    BY <1>1 DEF RecordInv, SentAtMostOnce, SucceededWasExecuted
  <1>4. i \notin Executed
    BY <1>1 DEF RecordInv, ExecutedIsAccounted, None
  <1>5. ExecutedIsAccounted' /\ SendInv'
    BY <1>1, <1>4 DEF RecordInv, ExecutedIsAccounted, SendInv
  <1>6. QED BY <1>2, <1>3, <1>5 DEF RecordInv

-----------------------------------------------------------------------------
(* One lemma per step that changes a record or advances an execution.      *)

LEMMA ReconcileOneInv ==
  ASSUME IInv, TypeOK', NEW p \in Procs, NEW i \in Intents, ReconcileOne(p, i)
  PROVE  IInv'
  <1> USE DEF brokerVars
  <1>1. CASE Unambiguous(Evidence(i)) /\ CanTransition(i, "SUCCEEDED", TRUE)
    <2>1. /\ Transition(i, "SUCCEEDED", TRUE)
          /\ UNCHANGED <<sent, fills, pc, cur, answer>>
      BY <1>1 DEF ReconcileOne
    <2>2. i \in Executed
      <3>1. PICK f \in fills : CommentMatches(OrderComment(f.intent), Token(i))
        BY <1>1 DEF Unambiguous, Evidence
      <3>2. f.intent = i
        BY <3>1 DEF CommentMatches, OrderComment, Token
      <3>3. QED BY <3>2 DEF Executed
    <2>3. RecordInv'
      BY <2>1, <2>2, TransitionRecords DEF IInv, TypeOK, States, TerminalStates
    <2>4. ASSUME NEW q \in Procs
          PROVE  PhaseInv(q)'
      <3>1. CASE pc[q] \in InFlight /\ cur[q] = i
        <4>1. pc[q] = "answered"
          BY <2>2, <3>1 DEF IInv, PhaseInv, InFlight, RecordInv, SendInv
        <4>2. journal'[i] = "SUCCEEDED" /\ Executed' = Executed
          BY <2>1 DEF Transition, IInv, TypeOK, JournalTypeOK, Executed
        <4>3. QED BY <2>1, <3>1, <4>1, <4>2 DEF IInv, PhaseInv, InFlight
      <3>2. CASE ~(pc[q] \in InFlight /\ cur[q] = i)
        BY <2>1, <3>2, PhaseFrame DEF IInv, Transition, TypeOK, JournalTypeOK, Executed
      <3>3. QED BY <3>1, <3>2
    <2>5. DistinctIntents'
      BY <2>1 DEF IInv, DistinctIntents
    <2>6. QED BY <2>3, <2>4, <2>5 DEF IInv
  <1>2. CASE ~(Unambiguous(Evidence(i)) /\ CanTransition(i, "SUCCEEDED", TRUE))
    <2>1. /\ UNCHANGED Records
          /\ UNCHANGED <<pc, cur, answer>> \/ GoDown(p)
      BY <1>2 DEF ReconcileOne, Records
    <2>2. QED BY <2>1, QuietStep DEF GoDown, IInv, TypeOK, InFlight
  <1>3. QED BY <1>1, <1>2

(* A step of process p that changes at most the record of p's intent. *)
LEMMA OwnStep ==
  ASSUME IInv, TypeOK', NEW p \in Procs, RecordInv', PhaseInv(p)',
         \A q \in Procs \ {p} : pc'[q] = pc[q] /\ cur'[q] = cur[q] /\ answer'[q] = answer[q],
         \A i \in Intents \ {cur[p]} :
           /\ journal'[i] = journal[i]
           /\ sent'[i] = sent[i]
           /\ i \in Executed' <=> i \in Executed,
         cur[p] \in Intents,
         \A q \in Procs \ {p} : pc[q] \in InFlight => cur[q] # cur[p],
         pc'[p] \in InFlight => cur'[p] = cur[p]
  PROVE  IInv'
  <1>1. ASSUME NEW q \in Procs \ {p}
        PROVE  PhaseInv(q)'
    <2>1. pc[q] \in InFlight => cur[q] \in Intents \ {cur[p]}
      BY DEF IInv, PhaseInv
    <2>2. PhaseInv(q)
      BY DEF IInv
    <2>3. QED BY <2>1, <2>2, PhaseFrame
  <1>2. DistinctIntents'
    BY DEF IInv, DistinctIntents
  <1>3. QED BY <1>1, <1>2 DEF IInv

LEMMA CandidateInv ==
  ASSUME IInv, TypeOK', NEW p \in Procs, NEW s \in Symbols, NEW q \in Quotes,
         Candidate(p, s, q)
  PROVE  IInv'
  <1>1. /\ UNCHANGED Records /\ UNCHANGED answer
        /\ pc' = [pc EXCEPT ![p] = "candidate"]
        /\ cur' = [cur EXCEPT ![p] = [symbol |-> s, bar |-> bar, quote |-> q]]
    BY DEF Candidate, Goto, Records, brokerVars
  <1>2. [symbol |-> s, bar |-> bar, quote |-> q] \in Intents
    BY IntentsAssumption DEF Intent, IInv, TypeOK
  <1>3. RecordInv' /\ Executed' = Executed
    BY <1>1, RecordsUnchanged DEF IInv
  <1>4. PhaseInv(p)'
    BY <1>1, <1>2 DEF PhaseInv, InFlight, IInv, TypeOK
  <1>5. ASSUME NEW r \in Procs \ {p}
        PROVE  PhaseInv(r)'
    BY <1>1, <1>3, PhaseFrame DEF IInv, TypeOK, Records
  <1>6. DistinctIntents'
    BY <1>1 DEF IInv, TypeOK, DistinctIntents, InFlight
  <1>7. QED BY <1>3, <1>4, <1>5, <1>6 DEF IInv

LEMMA ReserveIntentInv ==
  ASSUME IInv, TypeOK', NEW p \in Procs, ReserveIntent(p)
  PROVE  IInv'
  <1> USE DEF brokerVars
  <1>1. CASE CanReserve(cur[p])
    <2>1. /\ Reserve(cur[p]) /\ UNCHANGED <<sent, fills, cur, answer>>
          /\ pc' = [pc EXCEPT ![p] = "reserved"]
      BY <1>1 DEF ReserveIntent
    <2>2. cur[p] \in Intents
      BY DEF ReserveIntent, IInv, PhaseInv
    <2>3. RecordInv'
      BY <2>1, <2>2, ReserveRecords DEF IInv, TypeOK
    <2>4. /\ \A j \in Intents : journal'[j] = IF j = cur[p] THEN "RESERVED" ELSE journal[j]
          /\ Executed' = Executed
      BY <2>1, <2>2 DEF Reserve, IInv, TypeOK, JournalTypeOK, Executed
    <2>5. PhaseInv(p)'
      BY <2>1, <2>2, <2>4 DEF PhaseInv, InFlight, IInv, TypeOK
    <2>6. \A q \in Procs \ {p} : pc[q] \in InFlight => cur[q] # cur[p]
      BY <1>1 DEF CanReserve, IInv, PhaseInv, InFlight, None
    <2>7. QED BY <2>1, <2>2, <2>3, <2>4, <2>5, <2>6, OwnStep DEF IInv, TypeOK
  <1>2. CASE ~CanReserve(cur[p])
    <2>1. BackToCycle(p) /\ UNCHANGED Records
      BY <1>2 DEF ReserveIntent, Records
    <2>2. QED BY <2>1, QuietStep DEF BackToCycle, IInv, TypeOK, InFlight
  <1>3. QED BY <1>1, <1>2

LEMMA ReserveRaisesInv ==
  ASSUME IInv, TypeOK', NEW p \in Procs, ReserveRaises(p)
  PROVE  IInv'
  <1> USE DEF brokerVars
  <1>1. BackToCycle(p) /\ UNCHANGED <<sent, fills>>
    BY DEF ReserveRaises
  <1>2. CASE UNCHANGED journal
    BY <1>1, <1>2, QuietStep DEF Records, BackToCycle, IInv, TypeOK, InFlight
  <1>3. CASE Reserve(cur[p])
    <2>1. cur[p] \in Intents
      BY DEF ReserveRaises, IInv, PhaseInv
    <2>2. RecordInv'
      BY <1>1, <1>3, <2>1, ReserveRecords DEF IInv, TypeOK
    <2>3. /\ \A j \in Intents : journal'[j] = IF j = cur[p] THEN "RESERVED" ELSE journal[j]
          /\ Executed' = Executed
      BY <1>1, <1>3, <2>1 DEF Reserve, IInv, TypeOK, JournalTypeOK, Executed
    <2>4. PhaseInv(p)' /\ pc'[p] \notin InFlight
      BY <1>1 DEF BackToCycle, PhaseInv, InFlight, IInv, TypeOK
    <2>5. \A q \in Procs \ {p} : pc[q] \in InFlight => cur[q] # cur[p]
      BY <1>3 DEF Reserve, CanReserve, IInv, PhaseInv, InFlight, None
    <2>6. QED BY <1>1, <2>1, <2>2, <2>3, <2>4, <2>5, OwnStep DEF BackToCycle, IInv, TypeOK
  <1>4. QED BY <1>2, <1>3 DEF ReserveRaises, Raises

(* The record of p's intent moves from RESERVED to SUBMITTED or stays. *)
LEMMA MarkSubmittedInv ==
  ASSUME IInv, TypeOK', NEW p \in Procs, MarkSubmitted(p) \/ MarkSubmittedRaises(p)
  PROVE  IInv'
  <1> USE DEF brokerVars
  <1>1. /\ pc[p] = "reserved" /\ cur[p] \in Intents /\ journal[cur[p]] = "RESERVED"
        /\ sent[cur[p]] = 0 /\ cur[p] \notin Executed
        /\ UNCHANGED <<sent, fills, cur>>
    <2>1. pc[p] = "reserved" /\ UNCHANGED <<sent, fills, cur>>
      BY DEF MarkSubmitted, MarkSubmittedRaises, Goto
    <2>2. cur[p] \in Intents /\ journal[cur[p]] = "RESERVED"
      BY <2>1 DEF IInv, PhaseInv, InFlight
    <2>3. QED BY <2>1, <2>2 DEF IInv, RecordInv, SendInv
  <1>2. UNCHANGED journal \/ Transition(cur[p], "SUBMITTED", FALSE)
    BY DEF MarkSubmitted, MarkSubmittedRaises, Raises
  <1>3. RecordInv'
    <2>1. CASE UNCHANGED journal
      BY <1>1, <2>1, RecordsUnchanged DEF Records, IInv
    <2>2. CASE Transition(cur[p], "SUBMITTED", FALSE)
      BY <1>1, <2>2, TransitionRecords DEF IInv, TypeOK, States, RecoveryStates
    <2>3. QED BY <1>2, <2>1, <2>2
  <1>4. /\ \A j \in Intents \ {cur[p]} : journal'[j] = journal[j]
        /\ journal'[cur[p]] \in {"RESERVED", "SUBMITTED"}
        /\ Executed' = Executed
    BY <1>1, <1>2 DEF Transition, IInv, TypeOK, JournalTypeOK, Executed
  <1>5. PhaseInv(p)'
    <2>1. CASE MarkSubmitted(p)
      <3>1. journal'[cur[p]] = "SUBMITTED" /\ pc'[p] = "submitted"
        BY <1>1, <2>1 DEF MarkSubmitted, Goto, Transition, IInv, TypeOK, JournalTypeOK
      <3>2. QED BY <1>1, <3>1 DEF PhaseInv, InFlight
    <2>2. CASE MarkSubmittedRaises(p)
      <3>1. pc'[p] = "answered" /\ answer'[p] = "RAISED"
        BY <2>2 DEF MarkSubmittedRaises, Goto, IInv, TypeOK
      <3>2. QED BY <1>1, <1>4, <3>1 DEF PhaseInv, InFlight
    <2>3. QED BY <2>1, <2>2
  <1>6. \A q \in Procs \ {p} : pc'[q] = pc[q] /\ cur'[q] = cur[q] /\ answer'[q] = answer[q]
    BY <1>1 DEF MarkSubmitted, MarkSubmittedRaises, Goto, IInv, TypeOK
  <1>7. \A q \in Procs \ {p} : pc[q] \in InFlight => cur[q] # cur[p]
    BY <1>1 DEF IInv, DistinctIntents, InFlight
  <1>8. QED BY <1>1, <1>3, <1>4, <1>5, <1>6, <1>7, OwnStep

(* The checks before order_send: nothing reaches the broker or the journal. *)
LEMMA CheckOrderInv ==
  ASSUME IInv, TypeOK', NEW p \in Procs, CheckOrder(p) \/ RefuseOrder(p)
  PROVE  IInv'
  <1> USE DEF brokerVars
  <1>1. /\ pc[p] = "submitted" /\ cur[p] \in Intents /\ journal[cur[p]] = "SUBMITTED"
        /\ sent[cur[p]] = 0 /\ cur[p] \notin Executed
        /\ UNCHANGED Records /\ UNCHANGED cur
    BY DEF CheckOrder, RefuseOrder, Goto, IInv, PhaseInv, InFlight, RecordInv, SendInv, Records
  <1>2. RecordInv' /\ Executed' = Executed
    BY <1>1, RecordsUnchanged DEF IInv
  <1>3. PhaseInv(p)'
    <2>1. CASE CheckOrder(p)
      BY <1>1, <2>1 DEF CheckOrder, Goto, PhaseInv, InFlight, Records, IInv, TypeOK
    <2>2. CASE RefuseOrder(p)
      <3>1. pc'[p] = "answered" /\ answer'[p] \in {"REJECTED", "RAISED"}
        BY <2>2 DEF RefuseOrder, Goto, IInv, TypeOK
      <3>2. QED BY <1>1, <1>2, <3>1 DEF PhaseInv, InFlight, Records
    <2>3. QED BY <2>1, <2>2
  <1>4. \A q \in Procs \ {p} : pc'[q] = pc[q] /\ cur'[q] = cur[q] /\ answer'[q] = answer[q]
    BY <1>1 DEF CheckOrder, RefuseOrder, Goto, IInv, TypeOK
  <1>5. \A q \in Procs \ {p} : pc[q] \in InFlight => cur[q] # cur[p]
    BY <1>1 DEF IInv, DistinctIntents, InFlight
  <1>6. QED BY <1>1, <1>2, <1>3, <1>4, <1>5, OwnStep DEF Records

LEMMA OrderSendInv ==
  ASSUME IInv, TypeOK', NEW p \in Procs, OrderSend(p)
  PROVE  IInv'
  <1>1. /\ pc[p] = "checked" /\ cur[p] \in Intents /\ journal[cur[p]] = "SUBMITTED"
        /\ sent[cur[p]] = 0 /\ cur[p] \notin Executed
        /\ UNCHANGED <<journal, cur>>
        /\ pc' = [pc EXCEPT ![p] = "answered"]
        /\ sent' = [sent EXCEPT ![cur[p]] = @ + 1]
    BY DEF OrderSend, Goto, IInv, PhaseInv, InFlight, RecordInv, SendInv
  <1>2. PICK executes \in BOOLEAN, a \in {"DONE", "REJECTED", "RAISED"} :
          /\ a = "DONE" => executes
          /\ a = "REJECTED" => ~executes
          /\ answer' = [answer EXCEPT ![p] = a]
          /\ fills' = fills \cup (IF executes THEN {[intent |-> cur[p], account |-> account]}
                                              ELSE {})
    BY DEF OrderSend
  <1>3. /\ \A i \in Intents \ {cur[p]} : sent'[i] = sent[i]
        /\ sent'[cur[p]] = 1
    BY <1>1 DEF IInv, TypeOK
  <1>4. ASSUME NEW i \in Intents
        PROVE  i \in Executed' <=> i \in Executed \/ (executes /\ i = cur[p])
    <2>1. i \in Executed' <=> \E f \in fills' : i = f.intent
      BY DEF Executed
    <2>2. i \in Executed <=> \E f \in fills : i = f.intent
      BY DEF Executed
    <2>3. CASE executes
      <3>1. fills' = fills \cup {[intent |-> cur[p], account |-> account]}
        BY <1>2, <2>3
      <3>2. \A f : f \in fills' <=> f \in fills \/ f = [intent |-> cur[p], account |-> account]
        BY <3>1
      <3>3. [intent |-> cur[p], account |-> account].intent = cur[p]
        OBVIOUS
      <3>4. QED BY <2>1, <2>2, <2>3, <3>2, <3>3, Zenon
    <2>4. CASE ~executes
      BY <1>2, <2>1, <2>2, <2>4
    <2>5. QED BY <2>3, <2>4
  <1>5. RecordInv'
    BY <1>1, <1>3, <1>4
    DEF IInv, RecordInv, AtMostOneUnresolved, Unresolved, SentAtMostOnce,
        SucceededWasExecuted, ExecutedIsAccounted, SendInv, None
  <1>6. pc'[p] = "answered" /\ answer'[p] = a
    BY <1>1, <1>2 DEF IInv, TypeOK
  <1>7. PhaseInv(p)'
    BY <1>1, <1>2, <1>4, <1>6 DEF PhaseInv, InFlight
  <1>8. \A q \in Procs \ {p} : pc'[q] = pc[q] /\ cur'[q] = cur[q] /\ answer'[q] = answer[q]
    BY <1>1, <1>2 DEF IInv, TypeOK
  <1>9. \A q \in Procs \ {p} : pc[q] \in InFlight => cur[q] # cur[p]
    BY <1>1 DEF IInv, DistinctIntents, InFlight
  <1>10. QED BY <1>1, <1>3, <1>4, <1>5, <1>7, <1>8, <1>9, OwnStep

(* What the answer of a process says about its intent. *)
LEMMA AnswerInv ==
  ASSUME IInv, NEW p \in Procs, pc[p] = "answered"
  PROVE  /\ cur[p] \in Intents
         /\ Verdict(answer[p]) \in States
         /\ Verdict(answer[p]) = "SUCCEEDED" => cur[p] \in Executed
         /\ Verdict(answer[p]) = "FAILED" => cur[p] \notin Executed
         /\ Verdict(answer[p]) # "RESERVED"
         /\ \A q \in Procs \ {p} : pc[q] \in InFlight => cur[q] # cur[p]
  BY DEF IInv, PhaseInv, InFlight, DistinctIntents, Verdict, States, TerminalStates,
         RecoveryStates

LEMMA RecordAnswerInv ==
  ASSUME IInv, TypeOK', NEW p \in Procs, RecordAnswer(p) \/ RecordAnswerRaises(p)
  PROVE  IInv'
  <1> USE DEF brokerVars
  <1>1. /\ pc[p] = "answered"
        /\ UNCHANGED <<sent, fills>>
        /\ UNCHANGED journal \/ Transition(cur[p], Verdict(answer[p]), FALSE)
        /\ BackToCycle(p) \/ GoDown(p)
    BY DEF RecordAnswer, RecordAnswerRaises, Raises
  <1>2. /\ pc'[p] \notin {"candidate"} \cup InFlight
        /\ \A q \in Procs \ {p} : pc'[q] = pc[q] /\ cur'[q] = cur[q] /\ answer'[q] = answer[q]
    BY <1>1 DEF BackToCycle, GoDown, InFlight, IInv, TypeOK
  <1>3. CASE UNCHANGED journal
    BY <1>1, <1>2, <1>3, QuietStep DEF Records
  <1>4. CASE Transition(cur[p], Verdict(answer[p]), FALSE)
    <2>1. RecordInv'
      BY <1>1, <1>4, AnswerInv, TransitionRecords DEF IInv, TypeOK
    <2>2. /\ \A j \in Intents \ {cur[p]} : journal'[j] = journal[j]
          /\ Executed' = Executed
      BY <1>1, <1>4 DEF Transition, IInv, TypeOK, JournalTypeOK, Executed
    <2>3. PhaseInv(p)'
      BY <1>2 DEF PhaseInv, InFlight
    <2>4. QED BY <1>1, <1>2, <2>1, <2>2, <2>3, AnswerInv, OwnStep
  <1>5. QED BY <1>1, <1>3, <1>4

-----------------------------------------------------------------------------
(* The theorems.                                                           *)

LEMMA NextInv == IInv /\ [Next]_vars => IInv'
  <1> SUFFICES ASSUME IInv, [Next]_vars
               PROVE  IInv'
    OBVIOUS
  <1> USE DEF marketVars, brokerVars, procVars
  <1>0. TypeOK'
    BY NextType DEF IInv
  <1>1. ASSUME NEW p \in Procs, Start(p) \/ EndCycle(p)
        PROVE  IInv'
    BY <1>0, <1>1, QuietStep DEF Start, EndCycle, Goto, Records, IInv, TypeOK, InFlight
  <1>2. ASSUME NEW p \in Procs, Bind(p) \/ BeginCycle(p) \/ Stop(p)
        PROVE  IInv'
    <2>1. UNCHANGED Records
      BY <1>2 DEF Bind, BeginCycle, Stop, Records
    <2>2. \A q \in Procs :
            \/ pc'[q] = pc[q] /\ cur'[q] = cur[q] /\ answer'[q] = answer[q]
            \/ pc'[q] \notin {"candidate"} \cup InFlight
      BY <1>2 DEF Bind, BeginCycle, Stop, GoDown, IInv, TypeOK, InFlight
    <2>3. QED BY <1>0, <2>1, <2>2, QuietStep
  <1>3. ASSUME NEW p \in Procs, NEW s \in Symbols, SkipSymbol(p, s) \/ RejectSymbol(p, s)
        PROVE  IInv'
    BY <1>0, <1>3, QuietStep DEF SkipSymbol, RejectSymbol, Records
  <1>4. CASE Environment
    BY <1>0, <1>4, QuietStep
    DEF Environment, NewBar, ClosePosition, SetControl, SwitchAccount, Records
  <1>5. CASE UNCHANGED vars
    BY <1>0, <1>5, QuietStep DEF vars, Records
  <1>6. QED
    BY <1>0, <1>1, <1>2, <1>3, <1>4, <1>5, ReconcileOneInv, CandidateInv,
       ReserveIntentInv, ReserveRaisesInv, MarkSubmittedInv, CheckOrderInv, OrderSendInv,
       RecordAnswerInv
    DEF Next, Step

(* The inductive invariant holds in every reachable state. *)
THEOREM Invariance == Spec => []IInv
  <1>1. QED BY InitInv, NextInv, PTL DEF Spec

(* Every variable has its type in every reachable state. *)
THEOREM TypeCorrect == Spec => []TypeOK
  <1>1. IInv => TypeOK
    BY DEF IInv
  <1>2. QED BY <1>1, Invariance, PTL

(* For any number of processes and crashes, an intent reaches the broker   *)
(* at most once.                                                           *)
THEOREM NoDuplicateOrder == Spec => []SentAtMostOnce
  <1>1. IInv => SentAtMostOnce
    BY DEF IInv, RecordInv
  <1>2. QED BY <1>1, Invariance, PTL

(* At most one intent of the shared journal waits for its outcome.         *)
THEOREM OneUnresolvedIntent == Spec => []AtMostOneUnresolved
  <1>1. IInv => AtMostOneUnresolved
    BY DEF IInv, RecordInv
  <1>2. QED BY <1>1, Invariance, PTL

(* The journal never contradicts the broker: one unresolved record,        *)
(* SUCCEEDED means executed, executed means SUBMITTED, AMBIGUOUS, SUCCEEDED *)
THEOREM JournalAgreesWithBroker == Spec => []JournalAgrees
  <1>1. IInv => JournalAgrees
    BY DEF IInv, RecordInv, JournalAgrees
  <1>2. QED BY <1>1, Invariance, PTL

-----------------------------------------------------------------------------
(* Action properties and the refinement.                                   *)

(* No order of a runtime carries the token of an intent: the preflight     *)
(* resolves nothing.                                                       *)
LEMMA NothingIsEvidence ==
  ASSUME NEW i \in Intents
  PROVE  ~Unambiguous(Evidence(i))
  <1>1. \A f \in fills : ~CommentMatches(OrderComment(f.intent), Token(i))
    BY ModeAssumption DEF CommentMatches, OrderComment, Token
  <1>2. QED BY <1>1 DEF Unambiguous, Evidence

(* What a step does to the records: nothing, or one of four things to one  *)
(* intent.                                                                 *)
Reserves(i) == Reserve(i) /\ UNCHANGED <<sent, fills>>

Sends(i) ==
  /\ journal[i] = "SUBMITTED" /\ sent[i] = 0 /\ i \notin Executed
  /\ sent' = [sent EXCEPT ![i] = @ + 1]
  /\ UNCHANGED journal
  /\ \/ \A j \in Intents : j \in Executed' <=> j \in Executed
     \/ \A j \in Intents : j \in Executed' <=> j \in Executed \/ j = i

Moves(i, st) ==
  /\ Transition(i, st, FALSE)
  /\ UNCHANGED <<sent, fills>>
  /\ st = "SUCCEEDED" => i \in Executed
  /\ st = "FAILED" => i \notin Executed
  /\ st = "RESERVED" => journal[i] = "RESERVED"

LEMMA RecordSteps ==
  ASSUME IInv, [Next]_vars
  PROVE  \/ UNCHANGED Records
         \/ \E i \in Intents : Reserves(i)
         \/ \E i \in Intents : Sends(i)
         \/ \E i \in Intents, st \in States : Moves(i, st)
  <1> DEFINE Goal == \/ UNCHANGED Records
                     \/ \E i \in Intents : Reserves(i)
                     \/ \E i \in Intents : Sends(i)
                     \/ \E i \in Intents, st \in States : Moves(i, st)
  <1> SUFFICES Goal
    OBVIOUS
  <1>1. ASSUME NEW p \in Procs,
               Start(p) \/ Bind(p) \/ BeginCycle(p) \/ EndCycle(p) \/ CheckOrder(p)
               \/ RefuseOrder(p) \/ Stop(p)
        PROVE  Goal
    BY <1>1 DEF Start, Bind, BeginCycle, EndCycle, CheckOrder, RefuseOrder, Stop, Records,
                brokerVars
  <1>2. ASSUME NEW p \in Procs, NEW s \in Symbols,
               SkipSymbol(p, s) \/ RejectSymbol(p, s) \/ \E q \in Quotes : Candidate(p, s, q)
        PROVE  Goal
    BY <1>2 DEF SkipSymbol, RejectSymbol, Candidate, Records, brokerVars
  <1>3. ASSUME NEW p \in Procs, NEW i \in Intents, ReconcileOne(p, i)
        PROVE  Goal
    BY <1>3, NothingIsEvidence DEF ReconcileOne, Records, brokerVars
  <1>4. ASSUME NEW p \in Procs, ReserveIntent(p) \/ ReserveRaises(p)
        PROVE  Goal
    <2>1. cur[p] \in Intents
      BY <1>4 DEF ReserveIntent, ReserveRaises, IInv, PhaseInv
    <2>2. Reserves(cur[p]) \/ UNCHANGED Records
      BY <1>4 DEF ReserveIntent, ReserveRaises, Raises, Reserves, Records, brokerVars
    <2>3. QED BY <2>1, <2>2
  <1>5. ASSUME NEW p \in Procs, MarkSubmitted(p) \/ MarkSubmittedRaises(p)
        PROVE  Goal
    <2>1. cur[p] \in Intents
      BY <1>5 DEF MarkSubmitted, MarkSubmittedRaises, Goto, IInv, PhaseInv, InFlight
    <2>2. Moves(cur[p], "SUBMITTED") \/ UNCHANGED Records
      BY <1>5 DEF MarkSubmitted, MarkSubmittedRaises, Raises, Moves, Records, brokerVars
    <2>3. "SUBMITTED" \in States
      BY DEF States, RecoveryStates
    <2>4. QED BY <2>1, <2>2, <2>3
  <1>6. ASSUME NEW p \in Procs, OrderSend(p)
        PROVE  Goal
    <2>1. /\ cur[p] \in Intents /\ journal[cur[p]] = "SUBMITTED"
          /\ sent[cur[p]] = 0 /\ cur[p] \notin Executed
          /\ UNCHANGED journal
          /\ sent' = [sent EXCEPT ![cur[p]] = @ + 1]
      BY <1>6 DEF OrderSend, Goto, IInv, PhaseInv, InFlight, RecordInv, SendInv
    <2>2. \/ fills' = fills
          \/ fills' = fills \cup {[intent |-> cur[p], account |-> account]}
      BY <1>6 DEF OrderSend
    <2>3. CASE fills' = fills
      <3>1. \A j \in Intents : j \in Executed' <=> j \in Executed
        BY <2>3 DEF Executed
      <3>2. QED BY <2>1, <3>1 DEF Sends
    <2>4. CASE fills' = fills \cup {[intent |-> cur[p], account |-> account]}
      <3>1. \A f : f \in fills' <=> f \in fills \/ f = [intent |-> cur[p], account |-> account]
        BY <2>4
      <3>2. [intent |-> cur[p], account |-> account].intent = cur[p]
        OBVIOUS
      <3>3. \A j \in Intents : j \in Executed' <=> j \in Executed \/ j = cur[p]
        <4>1. \A j : j \in Executed' <=> \E f \in fills' : j = f.intent
          BY DEF Executed
        <4>2. \A j : j \in Executed <=> \E f \in fills : j = f.intent
          BY DEF Executed
        <4>3. QED BY <3>1, <3>2, <4>1, <4>2, Zenon
      <3>4. QED BY <2>1, <3>3 DEF Sends
    <2>5. QED BY <2>2, <2>3, <2>4
  <1>7. ASSUME NEW p \in Procs, RecordAnswer(p) \/ RecordAnswerRaises(p)
        PROVE  Goal
    <2>1. pc[p] = "answered"
      BY <1>7 DEF RecordAnswer, RecordAnswerRaises
    <2>2. Moves(cur[p], Verdict(answer[p])) \/ UNCHANGED Records
      BY <1>7, <2>1, AnswerInv
      DEF RecordAnswer, RecordAnswerRaises, Raises, Moves, Records, brokerVars
    <2>3. QED BY <2>1, <2>2, AnswerInv
  <1>8. CASE Environment
    BY <1>8 DEF Environment, NewBar, ClosePosition, SetControl, SwitchAccount, Records,
                brokerVars
  <1>9. CASE UNCHANGED vars
    BY <1>9 DEF vars, Records, brokerVars
  <1>10. QED
    BY <1>1, <1>2, <1>3, <1>4, <1>5, <1>6, <1>7, <1>8, <1>9 DEF Next, Step

(* No process sends an order while the outcome of another is unknown. *)
THEOREM OneOrderAtATime == Spec => NoSendWhileUnresolved
  <1>1. ASSUME IInv, [Next]_vars, NEW i \in Intents, sent'[i] # sent[i]
        PROVE  journal[i] = "SUBMITTED" /\ Unresolved = {i}
    <2>1. PICK j \in Intents : Sends(j)
      BY <1>1, RecordSteps DEF Records, Reserves, Moves
    <2>2. j = i
      BY <1>1, <2>1 DEF Sends, IInv, TypeOK
    <2>3. journal[i] = "SUBMITTED" /\ i \in Unresolved
      BY <2>1, <2>2 DEF Sends, Unresolved, RecoveryStates
    <2>4. \A k \in Unresolved : k = i
      BY <1>1, <2>3 DEF IInv, RecordInv, AtMostOneUnresolved
    <2>5. QED BY <2>3, <2>4
  <1>2. IInv /\ [Next]_vars =>
          [\A i \in Intents :
             sent'[i] # sent[i] => journal[i] = "SUBMITTED" /\ Unresolved = {i}]_vars
    BY <1>1
  <1>3. QED BY <1>2, Invariance, PTL DEF Spec, NoSendWhileUnresolved

(* An outcome that nobody knows is never settled, and no order of any      *)
(* process is sent beside it: an unresolved record is the only one, and    *)
(* the preflight that could settle it finds no evidence.                   *)
THEOREM AmbiguousForever == Spec => AmbiguousEndsTrading
  <1>1. ASSUME IInv, [Next]_vars, NEW i \in Intents, journal[i] = "AMBIGUOUS"
        PROVE  journal'[i] = "AMBIGUOUS" /\ sent' = sent
    <2>1. /\ i \in Unresolved
          /\ \A k \in Unresolved : k = i
      BY <1>1 DEF Unresolved, RecoveryStates, IInv, RecordInv, AtMostOneUnresolved
    <2>2. \A j \in Intents : ~Reserves(j)
      BY <2>1 DEF Reserves, Reserve, CanReserve
    <2>3. \A j \in Intents : ~Sends(j)
      BY <1>1, <2>1 DEF Sends, Unresolved, RecoveryStates
    <2>4. ASSUME NEW j \in Intents, NEW st \in States, Moves(j, st)
          PROVE  journal'[i] = "AMBIGUOUS" /\ sent' = sent
      <3>1. j # i
        BY <1>1, <2>4 DEF Moves, Transition, CanTransition, TerminalStates
      <3>2. QED BY <1>1, <2>4, <3>1 DEF Moves, Transition, IInv, TypeOK, JournalTypeOK
    <2>5. QED BY <1>1, <2>2, <2>3, <2>4, RecordSteps DEF Records
  <1>2. IInv /\ [Next]_vars =>
          [\A i \in Intents :
             journal[i] = "AMBIGUOUS" => journal'[i] = "AMBIGUOUS" /\ sent' = sent]_vars
    BY <1>1
  <1>3. QED BY <1>2, Invariance, PTL DEF Spec, AmbiguousEndsTrading

(* The detailed runtime implements the contract of the execution boundary. *)
THEOREM ImplementsContract == Spec => KeepsContract
  <1>1. Init => Contract!ContractInit
    BY DEF Init, JournalInit, Contract!ContractInit, Unresolved, Executed, None,
           RecoveryStates
  <1>2. ASSUME IInv, IInv', [Next]_vars
        PROVE  [Contract!ContractNext]_Contract!contractVars
    <2> USE DEF Contract!contractVars
    <2>1. CASE UNCHANGED Records
      BY <2>1 DEF Records, Unresolved, Executed
    <2>2. ASSUME NEW i \in Intents, Reserves(i)
          PROVE  Contract!Claim(i)
      <3>1. /\ \A j \in Intents : journal'[j] = IF j = i THEN "RESERVED" ELSE journal[j]
            /\ Executed' = Executed /\ UNCHANGED sent
            /\ Unresolved = {} /\ journal[i] = None
        BY <1>2, <2>2 DEF Reserves, Reserve, CanReserve, IInv, TypeOK, JournalTypeOK, Executed
      <3>2. Unresolved' = {i}
        BY <3>1 DEF Unresolved, RecoveryStates
      <3>3. {j \in Intents : journal[j] # None}' = {j \in Intents : journal[j] # None} \cup {i}
        BY <3>1 DEF None
      <3>4. {j \in Intents : journal[j] = "SUCCEEDED"}' = {j \in Intents : journal[j] = "SUCCEEDED"}
        BY <3>1 DEF None
      <3>5. QED BY <3>1, <3>2, <3>3, <3>4 DEF Contract!Claim
    <2>3. ASSUME NEW i \in Intents, Sends(i)
          PROVE  Contract!SendToBroker(i)
      <3>1. i \in Unresolved /\ UNCHANGED Unresolved
        BY <2>3 DEF Sends, Unresolved, RecoveryStates
      <3>2. {j \in Intents : sent[j] > 0}' = {j \in Intents : sent[j] > 0} \cup {i}
        BY <1>2, <2>3 DEF Sends, IInv, TypeOK
      <3>3. Executed \subseteq Intents /\ Executed' \subseteq Intents
        BY <1>2 DEF IInv, TypeOK, Fill, Executed
      <3>4. Executed' \in {Executed, Executed \cup {i}}
        BY <2>3, <3>3 DEF Sends
      <3>5. i \notin {j \in Intents : sent[j] > 0}
        BY <2>3 DEF Sends
      <3>6. UNCHANGED journal
        BY <2>3 DEF Sends
      <3>7. QED BY <3>1, <3>2, <3>4, <3>5, <3>6 DEF Contract!SendToBroker
    <2>4. ASSUME NEW i \in Intents, NEW st \in States, Moves(i, st)
          PROVE  Contract!Settle(i) \/ UNCHANGED Contract!contractVars
      <3>1. /\ \A j \in Intents : journal'[j] = IF j = i THEN st ELSE journal[j]
            /\ Executed' = Executed /\ UNCHANGED sent
            /\ journal[i] # None /\ st # None
        BY <1>2, <2>4 DEF Moves, Transition, CanTransition, IInv, TypeOK, JournalTypeOK, Executed,
                    None, States, TerminalStates, RecoveryStates
      <3>2. {j \in Intents : journal[j] # None}' = {j \in Intents : journal[j] # None}
        BY <3>1
      <3>3. CASE st \in RecoveryStates \/ journal[i] \in TerminalStates
        <4>1. Unresolved' = Unresolved
          BY <2>4, <3>1, <3>3 DEF Moves, Transition, CanTransition, Unresolved, RecoveryStates,
                                  TerminalStates, None
        <4>2. {j \in Intents : journal[j] = "SUCCEEDED"}'
                = {j \in Intents : journal[j] = "SUCCEEDED"}
          BY <2>4, <3>1, <3>3 DEF Moves, Transition, CanTransition, RecoveryStates,
                                  TerminalStates, None
        <4>3. QED BY <3>1, <3>2, <4>1, <4>2
      <3>4. CASE st \in TerminalStates /\ journal[i] \in RecoveryStates
        <4>1. i \in Unresolved /\ Unresolved' = Unresolved \ {i}
          BY <3>1, <3>4 DEF Unresolved, RecoveryStates, TerminalStates
        <4>2. CASE i \in Executed
          <5>1. st = "SUCCEEDED"
            BY <2>4, <3>4, <4>2 DEF Moves, TerminalStates
          <5>2. {j \in Intents : journal[j] = "SUCCEEDED"}'
                  = {j \in Intents : journal[j] = "SUCCEEDED"} \cup {i}
            BY <3>1, <5>1
          <5>3. QED BY <3>1, <3>2, <4>1, <4>2, <5>2 DEF Contract!Settle
        <4>3. CASE i \notin Executed
          <5>1. st = "FAILED"
            BY <2>4, <3>4, <4>3 DEF Moves, TerminalStates
          <5>2. {j \in Intents : journal[j] = "SUCCEEDED"}'
                  = {j \in Intents : journal[j] = "SUCCEEDED"}
            BY <3>1, <3>4, <5>1 DEF RecoveryStates
          <5>3. QED BY <3>1, <3>2, <4>1, <4>3, <5>2 DEF Contract!Settle
        <4>4. QED BY <4>2, <4>3
      <3>5. QED BY <1>2, <2>4, <3>1, <3>3, <3>4
                DEF States, IInv, TypeOK, JournalTypeOK
    <2>5. QED BY <1>2, <2>1, <2>2, <2>3, <2>4, RecordSteps DEF Contract!ContractNext
  <1>3. QED
    BY <1>1, <1>2, Invariance, PTL DEF Spec, KeepsContract, Contract!ContractSpec

-----------------------------------------------------------------------------
(* One process on one account: what the memory of that process adds to the *)
(* journal.  With two processes, or with an account that changes, neither  *)
(* property holds.                                                         *)


(* Nothing in the code keeps a second runtime from starting on the same    *)
(* journal; this is what an operator has to see to.                        *)
SingleRuntime == MaxSwitches = 0 /\ \A p, q \in Procs : p = q

(* What the memory of the only process and the terminal agree on, and what *)
(* the open positions mean for the symbols its cycle has still to evaluate *)
(* and for the order it is about to send.                                  *)
AccountInv ==
  /\ switches = 0
  /\ \A f \in fills : f.account = account
  /\ \A p \in Procs : pc[p] \notin {"down", "reconcile"} => bound[p] = account

Evaluating == {"cycle", "candidate", "reserved", "submitted", "checked", "answered"}

Preparing == {"candidate", "reserved", "submitted", "checked"}

PositionInv(p) ==
  /\ pc[p] \in Evaluating =>
       \A f \in open : f.intent.symbol \in todo[p] => f.intent.symbol \in active[p]
  /\ pc[p] \in Preparing =>
       /\ cur[p].symbol \notin todo[p]
       /\ \A f \in open : f.intent.symbol # cur[p].symbol

SingleInv ==
  /\ AccountInv
  /\ \A p \in Procs : PositionInv(p)
  /\ OnePositionPerSymbol

(* Until a process dies, the records are of different bars or symbols, and *)
(* the process remembers every bar that has a record.                      *)
RecordsOfDifferentBars ==
  \A i, j \in Intents :
    /\ journal[i] # None /\ journal[j] # None
    /\ i.symbol = j.symbol /\ i.bar = j.bar
    => i = j

MemoryInv(p) ==
  /\ found[p] = {}
  /\ \A i \in Intents :
       journal[i] # None => /\ pc[p] \notin {"down", "reconcile"}
                            /\ i.bar <= seen[p][i.symbol]
  /\ pc[p] = "candidate" =>
       /\ cur[p].bar <= seen[p][cur[p].symbol]
       /\ \A i \in Intents :
            journal[i] # None /\ i.symbol = cur[p].symbol => i.bar < cur[p].bar
  /\ pc[p] = "answered" => journal[cur[p]] # "SUCCEEDED"

FirstLife == RecordsOfDifferentBars /\ \A p \in Procs : MemoryInv(p)

LifeInv == stops = 0 => FirstLife

-----------------------------------------------------------------------------
(* One position per symbol.                                                *)

(* Initially there is no position and no process. *)
LEMMA InitSingle == SingleRuntime /\ Init => SingleInv
  BY DEF SingleRuntime, Init, SingleInv, AccountInv, PositionInv, OnePositionPerSymbol,
         Evaluating, Preparing

(* A step that executes nothing keeps SingleInv when it keeps the account  *)
(* of every process and the view each has of the positions.                *)
LEMMA SingleFrame ==
  ASSUME SingleInv,
         UNCHANGED <<switches, account, fills>>, open' \subseteq open,
         \A p \in Procs :
           /\ \/ pc'[p] \in {"down", "reconcile"}
              \/ bound'[p] = account
              \/ pc[p] \notin {"down", "reconcile"} /\ bound'[p] = bound[p]
           /\ PositionInv(p)'
  PROVE  SingleInv'
  BY DEF SingleInv, AccountInv, OnePositionPerSymbol

(* A process that forgets its cycle or leaves it, and one whose view does  *)
(* not change, keep their view of the positions.                           *)
LEMMA PositionFrame ==
  ASSUME NEW p \in Procs, PositionInv(p), open' \subseteq open,
         \/ pc'[p] \notin Evaluating
         \/ /\ pc'[p] \in Evaluating => pc[p] \in Evaluating
            /\ pc'[p] \in Preparing => pc[p] \in Preparing
            /\ todo'[p] \subseteq todo[p]
            /\ active'[p] = active[p]
            /\ pc'[p] \in Preparing => cur'[p] = cur[p]
  PROVE  PositionInv(p)'
  BY DEF PositionInv, Evaluating, Preparing

(* Every step keeps SingleInv: a cycle reads the positions when it begins, *)
(* an order takes its symbol off the list, and only an order opens a       *)
(* position.                                                               *)
LEMMA NextSingle ==
  ASSUME SingleRuntime, IInv, SingleInv, [Next]_vars
  PROVE  SingleInv'
  <1> USE DEF marketVars, brokerVars, procVars
  <1>0. TypeOK /\ AccountInv /\ \A p \in Procs : PositionInv(p)
    BY DEF IInv, SingleInv
  <1>1. ASSUME NEW p \in Procs,
               \/ Start(p) \/ EndCycle(p) \/ ReserveIntent(p) \/ ReserveRaises(p)
               \/ MarkSubmitted(p) \/ MarkSubmittedRaises(p) \/ CheckOrder(p) \/ RefuseOrder(p)
               \/ \E i \in Intents : ReconcileOne(p, i)
               \/ \E s \in Symbols : SkipSymbol(p, s) \/ RejectSymbol(p, s)
               \/ RecordAnswer(p) \/ RecordAnswerRaises(p) \/ Stop(p)
        PROVE  SingleInv'
    <2>1. UNCHANGED <<switches, account, fills, open>>
      BY <1>1 DEF Start, EndCycle, ReserveIntent, ReserveRaises, MarkSubmitted,
                  MarkSubmittedRaises, CheckOrder, RefuseOrder, ReconcileOne, SkipSymbol,
                  RejectSymbol, RecordAnswer, RecordAnswerRaises, Stop, Goto
    <2>2. CASE Start(p) \/ EndCycle(p)
      <3>1. ASSUME NEW q \in Procs
            PROVE  PositionInv(q)'
        BY <1>0, <2>1, <2>2, PositionFrame DEF Start, EndCycle, Goto, TypeOK, Evaluating, Preparing
      <3>2. QED BY <1>0, <2>1, <2>2, <3>1, SingleFrame DEF Start, EndCycle, Goto, TypeOK
    <2>3. CASE ReserveIntent(p) \/ ReserveRaises(p)
      <3>1. ASSUME NEW q \in Procs
            PROVE  PositionInv(q)'
        BY <1>0, <2>1, <2>3, PositionFrame
        DEF ReserveIntent, ReserveRaises, BackToCycle, TypeOK, Evaluating, Preparing
      <3>2. QED BY <1>0, <2>1, <2>3, <3>1, SingleFrame
                DEF ReserveIntent, ReserveRaises, BackToCycle, TypeOK
    <2>4. CASE \/ MarkSubmitted(p) \/ MarkSubmittedRaises(p) \/ CheckOrder(p) \/ RefuseOrder(p)
      <3>1. /\ UNCHANGED <<bound, todo, active, cur>>
            /\ \A q \in Procs \ {p} : pc'[q] = pc[q]
            /\ pc[p] \in Preparing
            /\ pc'[p] \in {"submitted", "checked", "answered"}
        BY <1>0, <2>4 DEF MarkSubmitted, MarkSubmittedRaises, CheckOrder, RefuseOrder, Goto,
                          TypeOK, Preparing
      <3>2. ASSUME NEW q \in Procs
            PROVE  PositionInv(q)'
        BY <1>0, <2>1, <3>1, PositionFrame DEF Evaluating, Preparing
      <3>3. QED BY <2>1, <3>1, <3>2, SingleFrame DEF Preparing
    <2>5. CASE \E i \in Intents : ReconcileOne(p, i)
      <3>1. \/ UNCHANGED <<pc, bound, todo, active, cur>>
            \/ GoDown(p)
        BY <2>5 DEF ReconcileOne
      <3>2. ASSUME NEW q \in Procs
            PROVE  PositionInv(q)'
        BY <1>0, <2>1, <3>1, PositionFrame DEF GoDown, TypeOK, Evaluating
      <3>3. QED BY <1>0, <2>1, <3>1, <3>2, SingleFrame DEF GoDown, TypeOK, AccountInv
    <2>6. CASE \E s \in Symbols : SkipSymbol(p, s) \/ RejectSymbol(p, s)
      <3>1. /\ UNCHANGED <<pc, bound, active, cur>>
            /\ \A q \in Procs : todo'[q] \subseteq todo[q]
        BY <1>0, <2>6 DEF SkipSymbol, RejectSymbol, TypeOK
      <3>2. ASSUME NEW q \in Procs
            PROVE  PositionInv(q)'
        BY <1>0, <2>1, <3>1, PositionFrame
      <3>3. QED BY <2>1, <3>1, <3>2, SingleFrame
    <2>7. CASE RecordAnswer(p) \/ RecordAnswerRaises(p) \/ Stop(p)
      <3>1. \/ GoDown(p)
            \/ BackToCycle(p) /\ pc[p] = "answered"
        BY <2>7 DEF RecordAnswer, RecordAnswerRaises, Stop
      <3>2. ASSUME NEW q \in Procs
            PROVE  PositionInv(q)'
        BY <1>0, <2>1, <3>1, PositionFrame DEF GoDown, BackToCycle, TypeOK, Evaluating, Preparing
      <3>3. QED BY <1>0, <2>1, <3>1, <3>2, SingleFrame DEF GoDown, BackToCycle, TypeOK
    <2>8. QED BY <1>1, <2>2, <2>3, <2>4, <2>5, <2>6, <2>7
  <1>2. ASSUME NEW p \in Procs, Bind(p)
        PROVE  SingleInv'
    <2>1. /\ UNCHANGED <<switches, account, fills, open>>
          /\ \/ GoDown(p)
             \/ /\ pc' = [pc EXCEPT ![p] = "idle"]
                /\ bound' = [bound EXCEPT ![p] = account]
                /\ UNCHANGED <<todo, active, cur>>
      BY <1>2 DEF Bind
    <2>2. ASSUME NEW q \in Procs
          PROVE  PositionInv(q)'
      BY <1>0, <2>1, PositionFrame DEF GoDown, TypeOK, Evaluating
    <2>3. QED BY <1>0, <2>1, <2>2, SingleFrame DEF GoDown, TypeOK
  <1>3. ASSUME NEW p \in Procs, BeginCycle(p)
        PROVE  SingleInv'
    <2>1. /\ UNCHANGED <<switches, account, fills, open>>
          /\ pc[p] = "idle"
          /\ \/ GoDown(p)
             \/ /\ pc' = [pc EXCEPT ![p] = "cycle"]
                /\ active' = [active EXCEPT ![p] = OpenSymbols(account)]
                /\ todo' = [todo EXCEPT ![p] = Symbols]
                /\ UNCHANGED <<bound, cur>>
      BY <1>3 DEF BeginCycle
    <2>2. \A f \in open : f.intent.symbol \in OpenSymbols(account)
      BY <1>0 DEF OpenSymbols, AccountInv, TypeOK
    <2>3. PositionInv(p)'
      BY <1>0, <2>1, <2>2 DEF PositionInv, GoDown, TypeOK, Evaluating, Preparing
    <2>4. ASSUME NEW q \in Procs \ {p}
          PROVE  PositionInv(q)'
      BY <1>0, <2>1, PositionFrame DEF GoDown, TypeOK
    <2>5. QED BY <1>0, <2>1, <2>3, <2>4, SingleFrame DEF GoDown, TypeOK
  <1>4. ASSUME NEW p \in Procs, NEW s \in Symbols, NEW q \in Quotes, Candidate(p, s, q)
        PROVE  SingleInv'
    <2>1. /\ UNCHANGED <<switches, account, fills, open, bound, active>>
          /\ pc[p] = "cycle" /\ pc' = [pc EXCEPT ![p] = "candidate"]
          /\ s \in todo[p] /\ s \notin active[p]
          /\ todo' = [todo EXCEPT ![p] = @ \ {s}]
          /\ cur' = [cur EXCEPT ![p] = [symbol |-> s, bar |-> bar, quote |-> q]]
      BY <1>4 DEF Candidate, Goto, RiskAllows
    <2>2. cur'[p].symbol = s /\ todo'[p] = todo[p] \ {s} /\ pc'[p] = "candidate"
      BY <1>0, <2>1 DEF TypeOK
    <2>3. PositionInv(p)'
      BY <1>0, <2>1, <2>2 DEF PositionInv, Evaluating, Preparing
    <2>4. ASSUME NEW r \in Procs \ {p}
          PROVE  PositionInv(r)'
      BY <1>0, <2>1, PositionFrame DEF TypeOK
    <2>5. QED BY <1>0, <2>1, <2>2, <2>3, <2>4, SingleFrame DEF TypeOK
  <1>5. ASSUME NEW p \in Procs, OrderSend(p)
        PROVE  SingleInv'
    <2>1. /\ pc[p] = "checked" /\ pc' = [pc EXCEPT ![p] = "answered"]
          /\ UNCHANGED <<switches, account, bound, todo, active, cur>>
          /\ \E new \in SUBSET {[intent |-> cur[p], account |-> account]} :
               fills' = fills \cup new /\ open' = open \cup new
      BY <1>5 DEF OrderSend, Goto
    <2>2. PICK new \in SUBSET {[intent |-> cur[p], account |-> account]} :
            fills' = fills \cup new /\ open' = open \cup new
      BY <2>1
    <2>3. /\ \A f \in new : f.intent = cur[p] /\ f.account = account
          /\ \A f, g \in new : f = g
          /\ \A f \in open : f.intent.symbol # cur[p].symbol
          /\ cur[p].symbol \notin todo[p]
      BY <1>0, <2>1, <2>2 DEF PositionInv, Preparing
    <2>4. AccountInv'
      BY <1>0, <2>1, <2>2, <2>3 DEF AccountInv, TypeOK
    <2>5. OnePositionPerSymbol'
      BY <2>2, <2>3 DEF SingleInv, OnePositionPerSymbol
    <2>6. PositionInv(p)'
      BY <1>0, <2>1, <2>2, <2>3 DEF PositionInv, TypeOK, Evaluating, Preparing
    <2>7. QED BY <2>4, <2>5, <2>6 DEF SingleInv, SingleRuntime
  <1>6. CASE Environment
    <2>1. /\ UNCHANGED <<switches, account, fills, pc, bound, todo, active, cur>>
          /\ open' \subseteq open
      BY <1>0, <1>6 DEF Environment, NewBar, ClosePosition, SetControl, SwitchAccount,
                        AccountInv, SingleRuntime
    <2>2. ASSUME NEW q \in Procs
          PROVE  PositionInv(q)'
      BY <1>0, <2>1, PositionFrame
    <2>3. QED BY <2>1, <2>2, SingleFrame
  <1>7. CASE UNCHANGED vars
    BY <1>7 DEF vars, SingleInv, AccountInv, PositionInv, OnePositionPerSymbol
  <1>8. QED BY <1>1, <1>2, <1>3, <1>4, <1>5, <1>6, <1>7 DEF Next, Step

(* One process on one account never holds two positions of a symbol,       *)
(* whatever crashes, lost answers and closed positions come in between.    *)
THEOREM OnePositionForOneProcess == SingleRuntime => (Spec => []OnePositionPerSymbol)
  <1> SUFFICES ASSUME SingleRuntime
               PROVE  Spec => []OnePositionPerSymbol
    OBVIOUS
  <1>1. Init => SingleInv
    BY InitSingle
  <1>2. IInv /\ SingleInv /\ [Next]_vars => SingleInv'
    BY NextSingle
  <1>3. SingleInv => OnePositionPerSymbol
    BY DEF SingleInv
  <1>4. QED BY <1>1, <1>2, <1>3, Invariance, PTL DEF Spec

-----------------------------------------------------------------------------
(* One order per bar until the process dies.                               *)

(* Initially nothing is recorded and nothing is remembered. *)
LEMMA InitLife == Init => LifeInv
  BY DEF Init, JournalInit, LifeInv, FirstLife, RecordsOfDifferentBars, MemoryInv, None

(* In its first life the process ends only by a step that counts as a      *)
(* stop: its account is the one it bound, the preflight has nothing to     *)
(* reconcile, and the journal takes every answer.                          *)
LEMMA FirstLifeGoesOn ==
  ASSUME SingleRuntime, IInv, SingleInv, FirstLife, NEW p \in Procs
  PROVE  /\ ~\E i \in Intents : ReconcileOne(p, i)
         /\ pc[p] = "reconcile" => Unresolved = {}
         /\ pc[p] = "idle" => account = bound[p]
         /\ pc[p] = "answered" => CanTransition(cur[p], Verdict(answer[p]), FALSE)
  <1>1. MemoryInv(p) /\ PhaseInv(p) /\ AccountInv
    BY DEF FirstLife, IInv, SingleInv
  <1>2. ~\E i \in Intents : ReconcileOne(p, i)
    BY <1>1 DEF MemoryInv, ReconcileOne
  <1>3. pc[p] = "reconcile" => Unresolved = {}
    BY <1>1 DEF MemoryInv, Unresolved, None, RecoveryStates
  <1>4. pc[p] = "idle" => account = bound[p]
    BY <1>1 DEF AccountInv
  <1>5. ASSUME pc[p] = "answered"
        PROVE  CanTransition(cur[p], Verdict(answer[p]), FALSE)
    BY <1>1, <1>5, AnswerInv DEF MemoryInv, PhaseInv, InFlight, CanTransition, Verdict, States,
                                 TerminalStates, RecoveryStates
  <1>6. QED BY <1>2, <1>3, <1>4, <1>5

(* A step after which no record is new keeps the first life when the       *)
(* process keeps what it remembers.                                        *)
LEMMA LifeFrame ==
  ASSUME FirstLife,
         \A i \in Intents : journal'[i] # None => journal[i] # None,
         \A p \in Procs :
           /\ found'[p] = {}
           /\ pc'[p] \in {"down", "reconcile"} => pc[p] \in {"down", "reconcile"}
           /\ \A i \in Intents : i.bar <= seen[p][i.symbol] => i.bar <= seen'[p][i.symbol]
           /\ pc'[p] = "candidate" =>
                pc[p] = "candidate" /\ cur'[p] = cur[p] /\ seen'[p] = seen[p]
           /\ pc'[p] = "answered" => journal'[cur'[p]] # "SUCCEEDED"
  PROVE  FirstLife'
  BY DEF FirstLife, RecordsOfDifferentBars, MemoryInv

(* Every step keeps what the process remembers of the bars with records.   *)
LEMMA NextLife ==
  ASSUME SingleRuntime, IInv, IInv', SingleInv, LifeInv, [Next]_vars
  PROVE  LifeInv'
  <1> SUFFICES ASSUME stops' = 0
               PROVE  FirstLife'
    BY DEF LifeInv
  <1> USE DEF marketVars, brokerVars, procVars
  <1>0. /\ TypeOK /\ TypeOK' /\ FirstLife
        /\ \A p \in Procs : MemoryInv(p) /\ PhaseInv(p)
    <2>1. TypeOK /\ TypeOK'
      BY DEF IInv
    <2>2. ASSUME NEW p \in Procs, Step(p) \/ Start(p)
          PROVE  stops' = stops
      BY <2>2 DEF Step, Start, ReconcileOne, Bind, BeginCycle, EndCycle, SkipSymbol,
                  RejectSymbol, Candidate, ReserveIntent, ReserveRaises, MarkSubmitted,
                  MarkSubmittedRaises, CheckOrder, RefuseOrder, OrderSend, RecordAnswer
    <2>3. ASSUME Environment \/ UNCHANGED vars
          PROVE  stops' = stops
      BY <2>3 DEF Environment, NewBar, ClosePosition, SetControl, SwitchAccount, vars
    <2>4. ASSUME NEW p \in Procs, RecordAnswerRaises(p) \/ Stop(p)
          PROVE  stops' = stops + 1
      BY <2>4 DEF RecordAnswerRaises, Stop
    <2>5. stops \in Nat
      BY <2>1, BoundsAssumption DEF TypeOK
    <2>6. stops = 0
      BY <2>2, <2>3, <2>4, <2>5 DEF Next
    <2>7. QED BY <2>1, <2>6 DEF LifeInv, FirstLife, IInv
  <1>1. ASSUME NEW p \in Procs, Start(p)
        PROVE  FirstLife'
    <2>1. pc[p] = "down" /\ UNCHANGED <<journal, seen, cur>>
          /\ pc' = [pc EXCEPT ![p] = "reconcile"]
          /\ found' = [found EXCEPT ![p] = Unresolved]
      BY <1>1 DEF Start, Goto
    <2>2. Unresolved = {}
      BY <1>0, <2>1 DEF MemoryInv, Unresolved, None, RecoveryStates
    <2>3. QED BY <1>0, <2>1, <2>2, LifeFrame DEF TypeOK, MemoryInv
  <1>2. ASSUME NEW p \in Procs, Bind(p)
        PROVE  FirstLife'
    <2>1. pc' = [pc EXCEPT ![p] = "idle"] /\ UNCHANGED <<journal, found, seen, cur>>
      BY <1>0, <1>2, FirstLifeGoesOn DEF Bind
    <2>2. QED BY <1>0, <2>1, LifeFrame DEF TypeOK, MemoryInv
  <1>3. ASSUME NEW p \in Procs, BeginCycle(p)
        PROVE  FirstLife'
    <2>1. pc' = [pc EXCEPT ![p] = "cycle"] /\ UNCHANGED <<journal, found, seen, cur>>
      BY <1>0, <1>3, FirstLifeGoesOn DEF BeginCycle, OnBoundAccount
    <2>2. QED BY <1>0, <2>1, LifeFrame DEF TypeOK, MemoryInv
  <1>4. ASSUME NEW p \in Procs, EndCycle(p) \/ \E s \in Symbols : SkipSymbol(p, s)
        PROVE  FirstLife'
    <2>1. /\ UNCHANGED <<journal, found, seen, cur>>
          /\ \/ UNCHANGED pc
             \/ pc' = [pc EXCEPT ![p] = "idle"]
      BY <1>4 DEF EndCycle, SkipSymbol, Goto
    <2>2. QED BY <1>0, <2>1, LifeFrame DEF TypeOK, MemoryInv
  <1>5. ASSUME NEW p \in Procs, NEW s \in Symbols, RejectSymbol(p, s)
        PROVE  FirstLife'
    <2>1. /\ UNCHANGED <<journal, found, pc, cur>> /\ pc[p] = "cycle"
          /\ seen' = [seen EXCEPT ![p][s] = bar] /\ seen[p][s] < bar
      BY <1>5 DEF RejectSymbol
    <2>2. ASSUME NEW q \in Procs, NEW i \in Intents, i.bar <= seen[q][i.symbol]
          PROVE  i.bar <= seen'[q][i.symbol]
      BY <1>0, <2>1, <2>2, IntentsAssumption DEF TypeOK, Intent, Bars
    <2>3. p \in Procs /\ \A q \in Procs : q = p
      BY DEF SingleRuntime
    <2>4. QED BY <1>0, <2>1, <2>2, <2>3, LifeFrame DEF MemoryInv
  <1>6. ASSUME NEW p \in Procs, NEW s \in Symbols, NEW q \in Quotes, Candidate(p, s, q)
        PROVE  FirstLife'
    <2>1. /\ UNCHANGED <<journal, found>> /\ pc[p] = "cycle"
          /\ pc' = [pc EXCEPT ![p] = "candidate"]
          /\ seen' = [seen EXCEPT ![p][s] = bar] /\ seen[p][s] < bar
          /\ cur' = [cur EXCEPT ![p] = [symbol |-> s, bar |-> bar, quote |-> q]]
      BY <1>6 DEF Candidate, Goto
    <2>2. /\ pc'[p] = "candidate" /\ cur'[p].symbol = s /\ cur'[p].bar = bar
          /\ seen'[p][s] = bar
          /\ \A t \in Symbols \ {s} : seen'[p][t] = seen[p][t]
          /\ seen[p] \in [Symbols -> 0 .. MaxBar] /\ bar \in 1 .. MaxBar
      BY <1>0, <2>1 DEF TypeOK, Bars
    <2>3. \A i \in Intents : i.symbol \in Symbols /\ i.bar \in 1 .. MaxBar
      BY IntentsAssumption DEF Intent, Bars
    <2>4. \A i \in Intents : journal[i] # None => i.bar <= seen[p][i.symbol]
      BY <1>0 DEF MemoryInv
    <2>5. MemoryInv(p)'
      BY <1>0, <2>1, <2>2, <2>3, <2>4, BoundsAssumption DEF MemoryInv
    <2>6. QED BY <1>0, <2>1, <2>5 DEF FirstLife, RecordsOfDifferentBars, SingleRuntime
  <1>7. ASSUME NEW p \in Procs, ReserveIntent(p) \/ ReserveRaises(p)
        PROVE  FirstLife'
    <2>1. /\ pc[p] = "candidate" /\ cur[p] \in Intents
          /\ UNCHANGED <<found, seen>>
          /\ pc' \in {[pc EXCEPT ![p] = "reserved"], [pc EXCEPT ![p] = "cycle"]}
          /\ UNCHANGED journal \/ Reserve(cur[p])
      BY <1>0, <1>7 DEF ReserveIntent, ReserveRaises, Raises, BackToCycle, PhaseInv
    <2>2. pc'[p] \in {"reserved", "cycle"}
      BY <1>0, <2>1 DEF TypeOK
    <2>3. CASE UNCHANGED journal
      BY <1>0, <2>1, <2>2, <2>3 DEF FirstLife, RecordsOfDifferentBars, MemoryInv, SingleRuntime
    <2>4. CASE Reserve(cur[p])
      <3>1. \A i \in Intents : journal'[i] = IF i = cur[p] THEN "RESERVED" ELSE journal[i]
        BY <1>0, <2>4 DEF Reserve, TypeOK, JournalTypeOK
      <3>2. RecordsOfDifferentBars'
        <4>1. \A i \in Intents :
                journal[i] # None /\ i.symbol = cur[p].symbol => i.bar < cur[p].bar
          BY <1>0, <2>1 DEF MemoryInv
        <4>2. \A i \in Intents : i.bar \in Nat
          BY IntentsAssumption DEF Intent, Bars
        <4>3. ~\E i \in Intents :
                 journal[i] # None /\ i.symbol = cur[p].symbol /\ i.bar = cur[p].bar
          BY <4>1, <4>2, <2>1
        <4>4. QED BY <1>0, <3>1, <4>3, <2>1 DEF FirstLife, RecordsOfDifferentBars
      <3>3. MemoryInv(p)'
        BY <1>0, <2>1, <2>2, <3>1 DEF MemoryInv
      <3>4. QED BY <3>2, <3>3 DEF FirstLife, SingleRuntime
    <2>5. QED BY <2>1, <2>3, <2>4
  <1>8. ASSUME NEW p \in Procs,
               \/ MarkSubmitted(p) \/ MarkSubmittedRaises(p)
               \/ CheckOrder(p) \/ RefuseOrder(p) \/ OrderSend(p)
        PROVE  FirstLife'
    <2>1. /\ pc[p] \in {"reserved", "submitted", "checked"} /\ cur[p] \in Intents
          /\ journal[cur[p]] \in {"RESERVED", "SUBMITTED"}
          /\ UNCHANGED <<found, seen, cur>>
          /\ \E to \in {"submitted", "checked", "answered"} : pc' = [pc EXCEPT ![p] = to]
          /\ UNCHANGED journal \/ Transition(cur[p], "SUBMITTED", FALSE)
      BY <1>0, <1>8 DEF MarkSubmitted, MarkSubmittedRaises, Raises, CheckOrder, RefuseOrder,
                        OrderSend, Goto, PhaseInv, InFlight
    <2>2. /\ \A i \in Intents \ {cur[p]} : journal'[i] = journal[i]
          /\ journal'[cur[p]] \in {"RESERVED", "SUBMITTED"}
          /\ pc'[p] \in {"submitted", "checked", "answered"}
      BY <1>0, <2>1 DEF Transition, TypeOK, JournalTypeOK
    <2>3. \A i \in Intents : journal'[i] # None => journal[i] # None
      BY <2>1, <2>2 DEF None
    <2>4. QED BY <1>0, <2>1, <2>2, <2>3, LifeFrame DEF MemoryInv, SingleRuntime
  <1>9. ASSUME NEW p \in Procs, RecordAnswer(p)
        PROVE  FirstLife'
    <2>1. /\ pc[p] = "answered"
          /\ Transition(cur[p], Verdict(answer[p]), FALSE) /\ BackToCycle(p)
      BY <1>0, <1>9, FirstLifeGoesOn DEF RecordAnswer
    <2>2. /\ pc'[p] = "cycle" /\ UNCHANGED <<found, seen>>
          /\ journal[cur[p]] # None /\ cur[p] \in Intents
      BY <1>0, <2>1 DEF BackToCycle, TypeOK, PhaseInv, InFlight, None
    <2>3. \A i \in Intents : journal'[i] # None => journal[i] # None
      BY <1>0, <2>1, <2>2 DEF Transition, TypeOK, JournalTypeOK
    <2>4. QED BY <1>0, <2>1, <2>2, <2>3, LifeFrame DEF MemoryInv, SingleRuntime
  <1>10. ASSUME NEW p \in Procs, RecordAnswerRaises(p) \/ Stop(p)
         PROVE  FALSE
    <2>1. stops' = stops + 1
      BY <1>10 DEF RecordAnswerRaises, Stop
    <2>2. stops \in Nat
      BY <1>0, BoundsAssumption DEF TypeOK
    <2>3. QED BY <2>1, <2>2
  <1>11. ASSUME Environment \/ UNCHANGED vars
         PROVE  FirstLife'
    <2>1. UNCHANGED <<journal, pc, found, seen, cur>>
      BY <1>11 DEF Environment, NewBar, ClosePosition, SetControl, SwitchAccount, vars
    <2>2. QED BY <1>0, <2>1 DEF FirstLife, RecordsOfDifferentBars, MemoryInv
  <1>12. ASSUME NEW p \in Procs, NEW i \in Intents, ReconcileOne(p, i)
         PROVE  FALSE
    BY <1>0, <1>12, FirstLifeGoesOn
  <1>13. QED
    BY <1>1, <1>2, <1>3, <1>4, <1>5, <1>6, <1>7, <1>8, <1>9, <1>10, <1>11, <1>12 DEF Next, Step

(* Until the process dies a completed bar of a symbol gives one order at   *)
(* most, however the quote moves between the cycles.                       *)
THEOREM OneOrderPerBarForOneProcess == SingleRuntime => (Spec => []OneOrderPerBarInOneLife)
  <1> SUFFICES ASSUME SingleRuntime
               PROVE  Spec => []OneOrderPerBarInOneLife
    OBVIOUS
  <1>1. Init => SingleInv /\ LifeInv
    BY InitSingle, InitLife
  <1>2. IInv /\ IInv' /\ SingleInv /\ LifeInv /\ [Next]_vars => SingleInv' /\ LifeInv'
    BY NextSingle, NextLife
  <1>3. IInv /\ LifeInv => OneOrderPerBarInOneLife
    <2> SUFFICES ASSUME IInv, LifeInv, stops = 0
                 PROVE  OneOrderPerBar
      BY DEF OneOrderPerBarInOneLife
    <2>1. \A i \in Intents : sent[i] > 0 => journal[i] # None
      BY DEF IInv, RecordInv, SendInv, TypeOK
    <2>2. QED BY <2>1 DEF LifeInv, FirstLife, RecordsOfDifferentBars, OneOrderPerBar
  <1>4. QED BY <1>1, <1>2, <1>3, Invariance, PTL DEF Spec

=============================================================================
