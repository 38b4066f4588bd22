SPECIFICATION FairSpec
CONSTANTS
  NoOne = NoOne
  g1 = g1
  g2 = g2
  g3 = g3
  n1 = n1
  n2 = n2
  Goroutines <- MCGoroutines
  Names <- MCNames
  Uses <- MCUses
INVARIANTS
  TypeOK
  RacesOnlyInListing
PROPERTIES
  ImplementsNameMap
  CallsReturn
CHECK_DEADLOCK FALSE
