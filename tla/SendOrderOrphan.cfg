SPECIFICATION SendSpec
CONSTANTS
  Requests = {r1, r2}
  Capacity = 1
  Legacy = 1
  MaxNumber = 3
  MaxExits = 1
  MaxFaults = 0
  CallsStop = FALSE
  NoRequest = NoRequest
  Importer = "bat"
  MaxErrors = 0
  Absent = Absent
  Torn = Torn
INVARIANTS
  NeverWrittenWhileImported
CHECK_DEADLOCK FALSE
