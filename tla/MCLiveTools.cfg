SPECIFICATION FairSpec
CONSTANTS
  h1 = h1
  h2 = h2
  d1 = d1
  d2 = d2
  Handlers <- MCHandlers
  Databases <- MCDatabases
  MaxConfigConns = 1
  MaxBackends = 1
INVARIANTS
  TypeOK
  NothingLeftBehind
  CostsComparable
  DisabledNotContacted
  NoHoldAndWait
PROPERTIES
  CancelledCallEnds
