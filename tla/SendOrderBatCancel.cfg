SPECIFICATION SendFairSpec
CONSTANTS
  Requests = {r1}
  Capacity = 1
  Legacy = 1
  MaxNumber = 2
  MaxExits = 0
  MaxFaults = 0
  CallsStop = FALSE
  NoRequest = NoRequest
  Importer = "bat"
  MaxErrors = 0
  Absent = Absent
  Torn = Torn
PROPERTIES
  CancelEndsWorker
CHECK_DEADLOCK FALSE
