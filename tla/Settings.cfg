SPECIFICATION Spec
CONSTANTS
  FormSaves = {f1, f2}
  DialogSaves = {d1}
  NeedsPassword = TRUE
  MaxRestarts = 1
  MaxFaults = 1
  Factory = Factory
  Missing = Missing
INVARIANTS
  SettingsTypeOK
  SettingsKept
  PasswordBeforeConfig
CHECK_DEADLOCK FALSE
