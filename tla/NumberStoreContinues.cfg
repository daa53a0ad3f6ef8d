SPECIFICATION Spec
CONSTANTS
  Calls = {c1, c2}
  Legacy = 2
  MaxCrashes = 1
  MaxFaults = 0
INVARIANT
  ContinuesSequence
CHECK_DEADLOCK FALSE
