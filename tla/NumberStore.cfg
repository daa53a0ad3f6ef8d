SPECIFICATION Spec
CONSTANTS
  Calls = {c1, c2, c3}
  Legacy = 2
  MaxCrashes = 1
  MaxFaults = 1
INVARIANTS
  TypeOK
  UniqueNumbers
  PersistedBeforeReturn
PROPERTIES
  ImplementsSequence
CHECK_DEADLOCK FALSE
