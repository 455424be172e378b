SPECIFICATION MCSpec
CONSTANTS
  Clients = {a}
  Owned = {}
  Callers = {x}
  Spans = {r, s, f}
  Sdk = {r, s}
  ItemRoots = {r}
  MaxExpected = 1
  MaxAppShutdowns = 1
  NoClient = NoClient
  NoSpan = NoSpan
  Paths = {goroutine}
  Rates = {0, 1}
  Hash <- TwoTraces
  MaxSpans = 4
  Scalars <- MCScalars
  Keys <- MCKeys
  Values <- MCValues
  OffWire <- MCOffWire
  Remap <- MCRemap
  Structured <- MCStructured
  Messages <- MCMessages
  MaxTraces = 2
  MaxMessages = 2
  MaxMembers = 3
  MaxMetadata = 2
VIEW View
INVARIANTS
  ExpectedIsActive
  OneRootPerPath
  SuppressionIsSound
  AttributionIsCurrent
  BaggageIsTheState
PROPERTIES
  AuthorityStaysLost
CHECK_DEADLOCK FALSE
