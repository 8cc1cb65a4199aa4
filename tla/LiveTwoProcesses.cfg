SPECIFICATION Spec
CONSTANTS
  p1 = p1
  p2 = p2
  q1 = q1
  q2 = q2
  Intents <- MCIntents
  Legs <- MCLegs
  Procs = {p1, p2}
  Symbols = {"EURUSD"}
  MaxBar = 2
  Quotes = {q1}
  Accounts = {"acc1", "acc2"}
  Currencies = {"EUR", "GBP", "USD", "JPY"}
  MaxOpen = 3
  MaxPerCurrency = 2
  Mode = "DEMO"
  MaxStops = 2
  MaxSwitches = 1
  NoAccount = "no account"
  NoIntent = NoIntent
SYMMETRY Symmetry
INVARIANTS
  SentAtMostOnce
  JournalAgrees
PROPERTIES
  NoSendWhileUnresolved
  AmbiguousEndsTrading
  KeepsContract
