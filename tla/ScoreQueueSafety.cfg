SPECIFICATION Spec
CONSTANTS
  Scores = {s1, s2, s3}
  Flushers = {f1}
  Stoppers = {p1}
  Capacity = 2
  BlockOnFull = TRUE
  RetryEnabled = TRUE
  MaxTries = 2
  DiagSlots = 1
  NoScore = NoScore
SYMMETRY Symmetry
INVARIANTS
  QueueAccounting
  NoLostWakeup
  NoStrandedProducer
  FlushBarrier
  SentMeansStored
CHECK_DEADLOCK FALSE
