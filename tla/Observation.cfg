SPECIFICATION Spec
CONSTANTS
  Calls = {c1, c2, c3, c4}
  Inputs <- MCInputs
  Messages = {1, 2}
  MetaOrder <- MCMetaOrder
  LevelBytes = 1
  VersionBytes = 1
  MetaBytes = 1
  MaxBytes = 7
  MaxDataBytes = 4
  MaxMetadataEntries = 2
  MaxErrorEvents = 2
SYMMETRY Symmetry
INVARIANTS
  AccountExact
  ExplicitWins
PROPERTIES
  EndedIsFinal
CHECK_DEADLOCK FALSE
