-------------------------- MODULE ExecutionJournal --------------------------
(***************************************************************************)
(* The durable idempotency journal of DEMO and LIVE execution              *)
(* (live/execution_guard.py, class ExecutionJournal).                      *)
(*                                                                         *)
(* The journal is one JSON file: a map from the identity of an execution   *)
(* intent to the state of its only execution attempt.  Every operation     *)
(* runs under a cross-process lock (SQLite BEGIN IMMEDIATE) and replaces   *)
(* the file atomically, so one operation is one step here.  A step that    *)
(* raises can do so before the file is replaced or, when the commit of the *)
(* lock transaction fails, after: the journal is then either the old or    *)
(* the new one.                                                            *)
(***************************************************************************)
CONSTANT Intents  \* identities build_intent can produce

VARIABLE journal  \* the journal file: the state of each intent

None == "NONE"    \* no record under this identity

TerminalStates == {"SUCCEEDED", "FAILED"}

RecoveryStates == {"RESERVED", "SUBMITTED", "AMBIGUOUS"}

States == TerminalStates \cup RecoveryStates

(* The records recoverable_intents returns. *)
Unresolved == {i \in Intents : journal[i] \in RecoveryStates}

-----------------------------------------------------------------------------

(* Fault: reserve takes a failed intent again. *)
CanReserveFailed(i) == journal[i] \in {None, "FAILED"} /\ Unresolved = {}

(* Fault: an ambiguous outcome does not hold back new work. *)
CanReserveBesideAmbiguous(i) ==
  /\ journal[i] = None
  /\ \A u \in Unresolved : journal[u] = "AMBIGUOUS"

(* reserve(intent) answers True: no record of this identity exists, and no *)
(* record of any intent still waits for reconciliation.                    *)
CanReserve(i) ==
  /\ journal[i] = None
  /\ Unresolved = {}

Reserve(i) ==
  /\ CanReserve(i)
  /\ journal' = [journal EXCEPT ![i] = "RESERVED"]

(* transition(intent_id, state) accepts the move to `state`: a terminal    *)
(* record accepts only its own state, an ambiguous one only SUCCEEDED and  *)
(* only from a broker match.  Otherwise transition raises.                 *)
CanTransition(i, state, brokerMatch) ==
  \/ journal[i] \in TerminalStates /\ state = journal[i]
  \/ journal[i] = "AMBIGUOUS" /\ state = "SUCCEEDED" /\ brokerMatch
  \/ journal[i] = "RESERVED" /\ state \in States
  \/ journal[i] = "SUBMITTED" /\ state \in States \ {"RESERVED"}

Transition(i, state, brokerMatch) ==
  /\ CanTransition(i, state, brokerMatch)
  /\ journal' = [journal EXCEPT ![i] = state]

(* An operation that raises, where `op` is its effect had it succeeded.    *)
Raises(op) == UNCHANGED journal \/ op

-----------------------------------------------------------------------------

JournalInit == journal = [i \in Intents |-> None]

JournalNext ==
  \E i \in Intents :
    \/ Reserve(i)
    \/ \E state \in States, brokerMatch \in BOOLEAN :
         Transition(i, state, brokerMatch)

(* The journal under any sequence of calls of any number of clients. *)
JournalSpec == JournalInit /\ [][JournalNext]_journal

-----------------------------------------------------------------------------

JournalTypeOK == journal \in [Intents -> States \cup {None}]

(* Whatever its clients do, at most one intent of the journal waits for    *)
(* its outcome: reserve blocks all new work while one is pending.          *)
AtMostOneUnresolved == \A i, j \in Unresolved : i = j

=============================================================================
