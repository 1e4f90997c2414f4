SPECIFICATION Spec
CONSTANTS
  RiskPerTrade = 2
  MaxOpenTrades = 2
  HeatCap = 4
  DailyLossLimit = 2
  ProfitTarget = 0
  Strategies = {s1}
  Symbols = {EURUSD}
  ReconcileTicks = 1
  LongCooldown = TRUE
  Weights = {2}
  MarginScaling = TRUE
  TrailTo = {0}
  Pnls <- MCLoss
  Events = {"disconnect", "lostReply", "storeFails", "dedupFails"}
  MaxTicket = 2
  MaxBar = 2
  MaxDay = 1
INVARIANTS
  NoPhantomExposure
  SettledMeansClosed
  DailyLossBreaker
