SPECIFICATION Spec
CONSTANTS
  Chats = {c1}
  Strategies = {s1, s2}
  SignalPicks = 2
  ExecutePicks = 1
  MaxBacklog = 2
  MaxRequests = 1
  MaxCrashes = 1
INVARIANTS
  PicksAsRequired
  PhoneReachesRequest
PROPERTIES
  UpdatesHandled
