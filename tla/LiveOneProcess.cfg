SPECIFICATION LiveSpec
CONSTANTS
  p1 = p1
  p2 = p2
  q1 = q1
  q2 = q2
  Intents <- MCIntents
  Legs <- MCLegs
  Procs = {p1}
  Symbols = {"EURUSD", "GBPUSD"}
  MaxBar = 1
  Quotes = {q1, q2}
  Accounts = {"acc1"}
  Currencies = {"EUR", "GBP", "USD", "JPY"}
  MaxOpen = 3
  MaxPerCurrency = 2
  Mode = "DEMO"
  MaxStops = 2
  MaxSwitches = 0
  NoAccount = "no account"
  NoIntent = NoIntent
INVARIANTS
  OnePositionPerSymbol
  OneOrderPerBarInOneLife
PROPERTIES
  CycleEnds
  StopQuiesces
