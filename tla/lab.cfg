\* All strategies over all short courses of a few candles, with both ways the
\* bars may tell the time.
CONSTANTS
  Candles <- MCCandles
  Courses <- MCCourses
  Readings <- MCReadings
  StartingEquity = 800
  RiskParts = 8
  TailBars = 2
  MaxBars = 5
  BreakevenR = 1
  TrailStartR = 2
  TrailDistanceR = 1
  PipSize = 1
  PipValue = 3
  FallbackSize = 1
  FallbackValue = 3
  MaxLots = 4
SPECIFICATION LabSpec
INVARIANTS StopCapsLoss Pessimistic
CHECK_DEADLOCK FALSE
