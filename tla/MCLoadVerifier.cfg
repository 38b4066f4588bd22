SPECIFICATION Spec
CONSTANTS
  Absent = Absent
  Window = 1
  Threshold = 2
  LoadSizes <- MCLoadSizes
  MaxCommits = 5
  MaxRows = 3
  MaxTime = 3
INVARIANTS
  SpikeMeansLoad
CHECK_DEADLOCK FALSE
