------------------------- MODULE ExecutionContract --------------------------
(***************************************************************************)
(* What the execution boundary of live/ promises, without processes,       *)
(* crashes, files or messages: the right to trade belongs to one intent at *)
(* a time, an intent gets it once, reaches the broker at most once while   *)
(* it holds it, and gives it up only with a verdict that agrees with the   *)
(* broker.                                                                 *)
(***************************************************************************)
CONSTANT Intents

VARIABLES
  claimed,   \* the intents that hold the right to trade: none or one
  spent,     \* the intents that have ever held it
  sent,      \* the intents whose order was handed to the broker
  executed,  \* the intents whose order the broker executed
  reported   \* the intents reported as executed

contractVars == <<claimed, spent, sent, executed, reported>>

ContractInit ==
  /\ claimed = {}
  /\ spent = {}
  /\ sent = {}
  /\ executed = {}
  /\ reported = {}

Claim(i) ==
  /\ claimed = {}
  /\ i \notin spent
  /\ claimed' = {i}
  /\ spent' = spent \cup {i}
  /\ UNCHANGED <<sent, executed, reported>>

(* The broker may execute the order it is handed, and the answer may never *)
(* come back: the right to trade stays with the intent.                    *)
SendToBroker(i) ==
  /\ i \in claimed
  /\ i \notin sent
  /\ sent' = sent \cup {i}
  /\ executed' \in {executed, executed \cup {i}}
  /\ UNCHANGED <<claimed, spent, reported>>

Settle(i) ==
  /\ i \in claimed
  /\ claimed' = claimed \ {i}
  /\ reported' = IF i \in executed THEN reported \cup {i} ELSE reported
  /\ UNCHANGED <<spent, sent, executed>>

ContractNext ==
  \E i \in Intents : Claim(i) \/ SendToBroker(i) \/ Settle(i)

ContractSpec == ContractInit /\ [][ContractNext]_contractVars

=============================================================================
