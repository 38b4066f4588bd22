SPECIFICATION WholeFairSpec
CONSTANTS
  Readings <- MCReadings
  Threshold = 50
  WebhookURL = TRUE
  MaxIterations = 2
  MaxCycles = 3
  Names <- MCNames
  CallIds <- MCCallIds
  Arguments <- MCArguments
  Texts <- MCTexts
  Tools <- MCTools
  Mode = 0
  Replies <- MCReplies
INVARIANTS
  TypeOK
  AlertsJustified
  AlertsExact
  ContextOfThisCycle
PROPERTIES
  SignalStops
  TicksServed
  ImplementsWatch
CHECK_DEADLOCK FALSE
