SPECIFICATION MCSpec
CONSTANTS
  Clients = {a, b, o}
  Owned = {o}
  Callers = {x, y}
  Spans = {}
  Sdk = {}
  ItemRoots = {}
  MaxExpected = 1
  MaxAppShutdowns = 1
  NoClient = NoClient
  NoSpan = NoSpan
  k1 = k1
  c1 = c1
  c2 = c2
  NoKey = NoKey
  NoFlight = NoFlight
  s1 = s1
  s2 = s2
  f1 = f1
  p1 = p1
  NoScore = NoScore
INVARIANTS
  OneAttachment
  ShutdownSound
PROPERTIES
  EveryCallReturns
CHECK_DEADLOCK FALSE
