SPECIFICATION FairSpec
CONSTANTS
  tenantCount = 3
  MaxFailures = 2
INVARIANTS
  TypeOK
  SourcesReady
  CompleteCoversAll
PROPERTIES
  SwitchesKept
  EventuallyComplete
