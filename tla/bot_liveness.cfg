SPECIFICATION FairSpec
CONSTANTS
  RiskPerTrade = 2
  MaxOpenTrades = 2
  HeatCap = 4
  DailyLossLimit = 9
  ProfitTarget = 0
  Strategies = {s1}
  Symbols = {EURUSD}
  ReconcileTicks = 1
  LongCooldown = FALSE
  Weights = {2}
  MarginScaling = FALSE
  TrailTo = {}
  Pnls = {0}
  Events = {"lostReply", "partial", "operator"}
  MaxTicket = 2
  MaxBar = 2
  MaxDay = 2
PROPERTIES
  RowsSettle
  HeatDrains
  KillHalts
