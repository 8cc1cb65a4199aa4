--------------------------- MODULE OrderLifecycle ---------------------------
(***************************************************************************)
(* The lifecycle of a paper order (strategy/order_state.py): the states,   *)
(* the transitions OrderStateMachine accepts and the records it restores.  *)
(* A record is its state and its filled quantity, in halves of the ordered *)
(* quantity.  Identities, direction and quantity never change; the broker  *)
(* id is set exactly when the broker's answer is known.                    *)
(***************************************************************************)
EXTENDS Integers

Full == 2
Part == 1

OrderStates == {"CREATED", "SUBMITTING", "ACKNOWLEDGED", "PARTIALLY_FILLED", "FILLED",
                "CANCEL_PENDING", "CANCELLED", "REJECTED", "UNKNOWN", "CLOSED"}

Absent == [state |-> "ABSENT", filled |-> 0]

OrderRecord == [state : OrderStates, filled : 0 .. Full]

Terminal == {"CANCELLED", "REJECTED", "CLOSED"}

(* The states a live order may move to. *)
Allowed ==
  [CREATED          |-> {"SUBMITTING", "CANCELLED"},
   SUBMITTING       |-> {"ACKNOWLEDGED", "PARTIALLY_FILLED", "FILLED", "REJECTED", "UNKNOWN"},
   ACKNOWLEDGED     |-> {"PARTIALLY_FILLED", "FILLED", "CANCEL_PENDING", "UNKNOWN"},
   PARTIALLY_FILLED |-> {"PARTIALLY_FILLED", "FILLED", "CANCEL_PENDING", "UNKNOWN"},
   CANCEL_PENDING   |-> {"CANCELLED", "PARTIALLY_FILLED", "FILLED", "UNKNOWN"},
   UNKNOWN          |-> {"ACKNOWLEDGED", "PARTIALLY_FILLED", "FILLED", "CANCELLED",
                         "REJECTED", "CLOSED"},
   FILLED           |-> {"CLOSED"}]

(* transition accepts the move of a record to `state`. *)
Accepts(record, state) ==
  /\ record # Absent
  /\ record.state \notin Terminal
  /\ state \in Allowed[record.state]

(* The record after it: a filled order is filled in full. *)
Moved(state, filled) ==
  [state |-> state, filled |-> IF state = "FILLED" THEN Full ELSE filled]

(* The invariants restore demands of a persisted record. *)
Restorable(record) ==
  /\ record \in OrderRecord
  /\ record.state \in {"CREATED", "SUBMITTING"} => record.filled = 0
  /\ record.state \in {"FILLED", "CLOSED"} => record.filled = Full

=============================================================================
