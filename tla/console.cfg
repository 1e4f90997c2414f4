\* The dashboard's API: sign-in, EA key, second factor, switches, subscriptions.
CONSTANTS
  r1 = r1
  r2 = r2
  s1 = s1
  Slots = {r1, r2}
  Callers = {r1, r2}
  Strategies = {s1}
  Plans = {1, 2}
  Scenarios <- MCScenarios
  MaxAttempts = 2
  Window = 2
  SessionFor = 3
  MaxKey = 3
  MaxSecret = 3
  MaxTime = 6
SPECIFICATION FairSpec
INVARIANTS NoLockout LoginsLimited
PROPERTIES LapseAnnounced AccessKept
