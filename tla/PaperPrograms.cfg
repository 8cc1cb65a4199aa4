SPECIFICATION Spec
CONSTANTS
  RewardRisk = 2
  Cost = 0
  StopBuffer = 2
  Costs = {1}
  LatencyBars = 0
  MaxHold = 3
  MaxBars = 6
  TradedBars = 4
  MaxRestarts = 1
  HistoryBars = 3
  TestBars = 2
  StepBars = 2
  Horizon = 1
  SequenceLength = 2
  Programs = {"session", "bot", "research"}
  Records <- MCRecords
  Candles <- MCCandles
  Decisions <- MCDecisions
  Approves <- MCApproves
CHECK_DEADLOCK FALSE
INVARIANTS
  SessionIsSound
  SimulationsAgree
  BotIsSound
PROPERTY
  FoldsNeverRepaint
