\* The guard ticks after a pause.
SPECIFICATION Spec
CONSTANTS
  UserSettings <- CompanyOnly
  AutoValues <- AlwaysAuto
  Imports <- AutoImports
  RestoreOnExit = TRUE
  MayFail = {}
  MaxChanges = 0
  MaxCrashes = 0
INVARIANT
  PauseSticks
CHECK_DEADLOCK FALSE
