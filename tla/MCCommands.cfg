SPECIFICATION FairSpec
CONSTANTS
  h1 = h1
  h2 = h2
  Handlers <- MCHandlers
INVARIANTS
  TypeOK
  PoolsClosedAtExit
  ClosingNotKilled
PROPERTIES
  SignalledWatchExits
CHECK_DEADLOCK FALSE
