\* AutoEnableSystemPac off: the window's calls, crashes, outside changes, failing writes.
SPECIFICATION Spec
CONSTANTS
  UserSettings <- DirectOrCompany
  AutoValues <- Manual
  Imports <- ManualImports
  RestoreOnExit = TRUE
  MayFail = {"write"}
  MaxChanges = 2
  MaxCrashes = 2
INVARIANTS
  WriteAhead
  SavedIsUsers
CHECK_DEADLOCK FALSE
