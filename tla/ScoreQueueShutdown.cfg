SPECIFICATION Spec
CONSTANTS
  Scores = {s1, s2}
  Flushers = {f1}
  Stoppers = {p1, p2}
  Capacity = 2
  BlockOnFull = FALSE
  RetryEnabled = TRUE
  MaxTries = 2
  DiagSlots = 1
  NoScore = NoScore
INVARIANTS
  ShutdownDrains
  AbortOnlyOnExpiry
PROPERTIES
  ImplementsDelivery
CHECK_DEADLOCK FALSE
