SPECIFICATION FairSpec
CONSTANTS
  Names <- MCNames
  CallIds <- MCCallIds
  Arguments <- MCArguments
  Texts <- MCTexts
  Tools <- MCTools
  Mode = 0
  Replies <- MCReplies
  MaxIterations = 2
  MaxRuns = 2
INVARIANTS
  TypeOK
  EveryCallAnswered
  EffectsAccounted
PROPERTIES
  CancelStopsRun
  ImplementsToolLoop
CHECK_DEADLOCK FALSE
