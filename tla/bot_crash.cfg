SPECIFICATION Spec
CONSTANTS
  RiskPerTrade = 2
  MaxOpenTrades = 2
  HeatCap = 9
  DailyLossLimit = 9
  ProfitTarget = 0
  Strategies = {s1, s2}
  Symbols = {EURUSD}
  ReconcileTicks = 1
  LongCooldown = FALSE
  Weights = {2}
  MarginScaling = FALSE
  TrailTo = {}
  Pnls = {0}
  Events = {"crash", "lostReply"}
  MaxTicket = 3
  MaxBar = 2
  MaxDay = 1
INVARIANTS
  TypeOK
  OneEntryPerBar
  CountMatchesJournal
  HeatMatchesJournal
  MaxOpenRespected
  NoOppositeSides
