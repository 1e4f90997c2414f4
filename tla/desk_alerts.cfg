\* Refused setups of three strategies; the RiskManager as main.py builds it, without
\* the checker of the calendar.
CONSTANTS
  s1 = s1
  s2 = s2
  s3 = s3
  y1 = y1
  y2 = y2
  Strategies = {s1, s2, s3}
  Symbols = {y1, y2}
  Preferred <- MCPreferred
  Currencies <- MCCurrencies
  CalendarWired = FALSE
  Feeds <- MCFeeds
  Tables <- MCTables
  StopDistance = 1
  TargetDistance = 3
  Exits <- MCExits
  StartBalances = {4}
  MinBalance = 1
  DayLength = 2
  Scenarios <- MCRefusals
  MaxMinute = 4
  MaxPrice = 7
  MaxTicket = 1
  BreakevenR = 1
  TrailStartR = 2
  TrailDistanceR = 1
  MinSamples = 1
  ScoreWindow = 2
  ChallengerTolerance = 0
  FloorAvg <- MCFloorAvg
  ScaleR = 2
  FullWeight = 4
  ChallengerWeight = 2
  ProbeWeight = 1
  BeforeMin = 1
  AfterMin = 1
  PurgeAfter = 1
  CorrUnit = 2
  CorrFloor = 1
  UnknownCorr <- MCUnknownCorr
  HeatLimit = 8
  PipSize = 1
  PipValue = 6
  FallbackSize = 2
  FallbackValue = 1
  MaxLots = 4
  InitialBalance = 4
  MaxDailyLossPct = 25
  MaxTotalDrawdownPct = 50
  FromPeak = FALSE
  LotCap = 0
  SignalEvery = 3
  SetupEvery = 6
  SetupWindow = 3
SPECIFICATION Spec
PROPERTY RepeatsSurface
