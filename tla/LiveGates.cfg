SPECIFICATION Spec
CONSTANTS
  Operators = {o1, o2}
  Procs = {p1, p2}
  Commands = {"RUN", "EMERGENCY_STOP"}
  Equities = {100, 98}
  LimitPct = 2
  MaxDay = 1
  MaxSets = 3
  MaxStops = 1
  MaxDamages = 1
  NoFile = NoFile
  Damaged = Damaged
  Nothing = Nothing
  Contracts <- MCContracts
  Balances <- MCBalances
  Sizes <- MCSizes
  Distances <- MCDistances
  Actives <- MCActives
  RiskFraction = 1
  DailyFraction = 3
  OpenLimit = 3
  CurrencyLimit = 2
SYMMETRY Symmetry
INVARIANTS
  ControlFileIsSerial
  DrawdownEndsTrading
  StopEndsAfterOneCycle
  OrderIsWhatFits
