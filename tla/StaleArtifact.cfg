SPECIFICATION Spec
CONSTANTS
  Settings <- SettingsDef
  Rolls = {0, 1}
  MaxVersions = 2
  MaxEdits = 0
  MaxStops = 1
INVARIANT SkippedIsIdentical
CHECK_DEADLOCK FALSE
