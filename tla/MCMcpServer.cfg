SPECIFICATION ServerFairSpec
CONSTANTS
  h1 = h1
  h2 = h2
  d1 = d1
  Handlers <- MCHandlers
  Databases <- MCDatabases
  Requests <- MCRequests
  MaxConfigConns = 1
  MaxBackends = 1
PROPERTIES
  ImplementsCommands
  SignalledServerExits
  AbandonedServerExits
CHECK_DEADLOCK FALSE
