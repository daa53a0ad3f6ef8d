SPECIFICATION Spec
CONSTANTS
  Requests = {r1, r2, r3}
  Capacity = 2
  Legacy = 1
  MaxNumber = 4
  MaxExits = 1
  MaxFaults = 1
  CallsStop = TRUE
  NoRequest = NoRequest
SYMMETRY RequestSymmetry
INVARIANTS
  TypeOK
  UniqueOrderNumbers
  QueuedIsOnItsWay
  StatusIsTrue
  NeverProcessedTwice
  InOrderOfArrival
PROPERTIES
  UsesNumberSequence
  ImplementsService
CHECK_DEADLOCK FALSE
