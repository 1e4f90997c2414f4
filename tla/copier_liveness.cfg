SPECIFICATION FairSpec
CONSTANTS
  Trades = {m1, m2}
  Strategies = {s1}
  Limit = 9
  MaxTime = 3
  MaxCopies = 2
  Faults = {"pickEdits", "modifies", "filterFails"}
PROPERTIES
  CopyFollowsClose
  StopsConverge
  FillsSettle
