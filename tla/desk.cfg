\* Everything that decides over an entry or an exit; the RiskManager as main.py builds
\* it, without the checker of the calendar.
CONSTANTS
  s1 = s1
  s2 = s2
  s3 = s3
  y1 = y1
  y2 = y2
  Strategies = {s1, s2}
  Symbols = {y1, y2}
  Preferred <- MCPreferred
  Currencies <- MCCurrencies
  CalendarWired = FALSE
  Feeds <- MCFeeds
  Tables <- MCTables
  StopDistance = 1
  TargetDistance = 3
  Exits <- MCExits
  StartBalances = {4}
  MinBalance = 1
  DayLength = 2
  Scenarios <- MCScenarios
  MaxMinute = 4
  MaxPrice = 7
  MaxTicket = 3
  BreakevenR = 1
  TrailStartR = 2
  TrailDistanceR = 1
  MinSamples = 1
  ScoreWindow = 2
  ChallengerTolerance = 0
  FloorAvg <- MCFloorAvg
  ScaleR = 2
  FullWeight = 4
  ChallengerWeight = 2
  ProbeWeight = 1
  BeforeMin = 1
  AfterMin = 1
  PurgeAfter = 1
  CorrUnit = 2
  CorrFloor = 1
  UnknownCorr <- MCUnknownCorr
  HeatLimit = 8
  PipSize = 1
  PipValue = 6
  FallbackSize = 2
  FallbackValue = 1
  MaxLots = 4
  InitialBalance = 4
  MaxDailyLossPct = 25
  MaxTotalDrawdownPct = 50
  FromPeak = FALSE
  LotCap = 0
  SignalEvery = 2
  SetupEvery = 2
  SetupWindow = 1
SPECIFICATION Spec
INVARIANTS BreachStopsEntries ClusterCapped BlackoutShown
PROPERTY StopsProtect
