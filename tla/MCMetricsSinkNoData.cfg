SPECIFICATION Spec
CONSTANTS
  Absent = Absent
  Text = Text
  CurrentWindow = 1
  BaselineWindow = 2
  d1 = d1
  d2 = d2
  s1 = s1
  s2 = s2
  DbNames <- MCDbNames
  SysIds <- MCSysIds
  Values <- MCValues
  Thresholds <- MCThresholds
  MaxRows = 3
  MaxTime = 3
INVARIANTS
  NoDataMeansNone
CHECK_DEADLOCK FALSE
