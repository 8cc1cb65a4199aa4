SPECIFICATION Spec
CONSTANTS
  Strength = 1
  MinTouches = 2
  MinGap = 2
  MaxTestAge = 3
  Lookback = 4
  RangePct = 35
  ConfirmPct = 20
  MinZone = 2
  MaxZone = 6
  MinPageCandles = 7
  MaxGrowth = 3
  MinTwoSetups = 8
  Candles <- MCCandles
  Openings <- MCOpenings
  Readings <- MCReadings
  Forecasts <- MCForecasts
  Spans <- MCSpans
CHECK_DEADLOCK FALSE
INVARIANTS
  SetupsAreSound
PROPERTIES
  ImplementationsAgree
  SwingsNeverRepaint
  BacktestIsCausal
