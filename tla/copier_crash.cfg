SPECIFICATION Spec
CONSTANTS
  Trades = {m1}
  Strategies = {s1}
  Limit = 9
  MaxTime = 3
  MaxCopies = 2
  Faults = {"crash", "lostReply", "historyLag", "refused", "offline", "reconciled", "modifies"}
INVARIANTS
  TypeOK
  TrackedWhenIdle
PROPERTIES
  KeepsPromise
