SPECIFICATION Spec
CONSTANTS
  FormSaves = {f1}
  DialogSaves = {d1}
  NeedsPassword = TRUE
  MaxRestarts = 0
  MaxFaults = 0
  Factory = Factory
  Missing = Missing
INVARIANTS
  DialogKeepsFormSettings
CHECK_DEADLOCK FALSE
