SPECIFICATION Spec
CONSTANTS
  InitialBalance = 1000
  RiskPct = 10
  Fee = 1
  MaxBar = 6
  TextRank <- MCTextRank
  PriceBars <- MCPriceBars
  Signals <- MCSignals
  NoPosition = NoPosition
  MaxDailyLoss = 22
  MaxDrawdown = 25
  MaxWeekly = 20
  MaxLosses = 2
  RiskPerTrade = 10
  MaxTradeDaily = 30
  MaxOpenRisk = 15
  MaxPositions = 1
  MinQuantity = 2
  MaxQuantity = 12
  MaxWeek = 2
  MaxSessions = 3
CHECK_DEADLOCK FALSE
INVARIANTS
  KillSwitchHolds
  AccountIsSound
  LargestSizeInBudget
PROPERTIES
  LossIsBudgeted
