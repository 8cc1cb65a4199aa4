SPECIFICATION Spec
CONSTANTS
  MaxBar = 3
  Answers = {"FILLED", "PARTIALLY_FILLED", "REJECTED", "DISCONNECTED"}
  BrokerInMemory = TRUE
  VanishAt = {"down"}
  MaxCrashes = 2
  MaxFaults = 1
  MaxDamages = 2
INVARIANTS
  AcceptedOnce
  RunningAgrees
PROPERTIES
  HaltIsFinal
  KeepsTradeContract
