SPECIFICATION ProvidersSpec
CONSTANTS
  Names <- MCNames
  CallIds <- MCCallIds
  Arguments <- MCArguments
  Texts <- MCTexts
  Tools <- MCTools
  Objects <- MCObjects
  JSON <- MCJSON
  Responses <- MCResponses
  GroqResponses <- MCGroqResponses
  Replies <- MCReplies
  Mode = 0
  MaxIterations = 2
  MaxRuns = 2
INVARIANTS
  RequestsBuildable
  HistoryKept
  AnswersFollowOnWire
CHECK_DEADLOCK FALSE
