SPECIFICATION Spec
CONSTANTS
  Requests = {r1}
  AdIds = {a1, a2}
  PoolSize = 2
  Handlers = {h1, h2}
  Links = {l1, l2}
  Events = {"crash", "delete", "form"}
SYMMETRY MCSymmetry
CHECK_DEADLOCK FALSE
INVARIANTS
  TypeOK
  PoolUnclaimed
  ApprovedHasAccount
  LinkUsedOnce
PROPERTIES
  DecidedOnce
  ActivatedKept

