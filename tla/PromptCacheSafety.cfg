SPECIFICATION Spec
CONSTANTS
  Keys = {k1, k2}
  Callers = {c1, c2}
  MaxEntries = 1
  MaxRefreshes = 1
  MaxForeground = 2
  DiagSlots = 1
  MaxVersion = 2
  MaxCalls = 2
  MaxShutdowns = 1
  NoKey = NoKey
  NoFlight = NoFlight
CONSTRAINT StopEarly
SYMMETRY Symmetry
VIEW View
INVARIANTS
  NewestWins
  BooksExact
  CancellationIsOwn
  ShutdownDrains
CHECK_DEADLOCK FALSE
