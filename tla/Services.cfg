SPECIFICATION MCSpec
CONSTANTS
  Callers = {"a", "b"}
  Assignments <- MCAssignments
  RetryLimit = 1
  PagesHeld = 1
  Tokens = {"t", "u"}
  NoMethod = "none"
  NoToken = "end"
  Items = 2
  Linked = {2}
  Concurrency = 2
  Evaluators = 1
  Composite = TRUE
  RunEvaluators = 1
INVARIANTS
  GateStaysDrained
  ListingsAreBounded
  EachItemOnce
  ResultsAreTrue
CHECK_DEADLOCK FALSE
PROPERTIES
  ImplementsWriteOnce
  EveryCallReturns
