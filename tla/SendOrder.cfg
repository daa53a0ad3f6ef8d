SPECIFICATION SendSpec
CONSTANTS
  Requests = {r1, r2, r3}
  Capacity = 1
  Legacy = 1
  MaxNumber = 4
  MaxExits = 1
  MaxFaults = 0
  CallsStop = FALSE
  NoRequest = NoRequest
  Importer = "exe"
  MaxErrors = 1
  Absent = Absent
  Torn = Torn
SYMMETRY RequestSymmetry
INVARIANTS
  SendTypeOK
  ImportsOwnOrder
  FailedNeverImported
  HistoryOfProcessed
PROPERTIES
  HistoryIsPermanent
  ImplementsQueue
CHECK_DEADLOCK FALSE
