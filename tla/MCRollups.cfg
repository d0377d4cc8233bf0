SPECIFICATION FairSpec
CONSTANTS
  None = none
  Viewers = {v1, v2}
  Veteran = v1
  MaxTicks = 2
  Writers = {w1, w2}
  MonthLength <- MCMonthLength
  MaxSession = 2
  Scenarios <- MCScenarios
INVARIANTS
  RollupsAgree
PROPERTIES
  WritesStand
  RollupsSettle
