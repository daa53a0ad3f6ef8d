SPECIFICATION FairSpec
CONSTANTS
  Requests = {r1, r2}
  Capacity = 1
  Legacy = 1
  MaxNumber = 3
  MaxExits = 1
  MaxFaults = 1
  CallsStop = FALSE
  NoRequest = NoRequest
PROPERTIES
  SubmitAnswers
  AcceptedIsSettled
CHECK_DEADLOCK FALSE
