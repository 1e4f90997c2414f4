SPECIFICATION FairSpec
CONSTANTS
  StaleAfter = 3
  RecycleAfter = 5
  CooldownFor = 10
  BootTime = 1
  MaxTrouble = 3
INVARIANTS
  TypeOK
PROPERTIES
  HealthyLeftAlone
  BotRecovers
