SPECIFICATION FairSpec
CONSTANTS
  MaxSaves = 1
  MaxClicks = 2
  MaxManual = 2
  MaxCrashes = 1
  MaxRequests = 1
INVARIANTS
  ServiceTypeOK
  RequestsHaveDatabase
  ReportsAreTrue
PROPERTIES
  StopsWhenTold
  ClickEnds
CHECK_DEADLOCK FALSE
