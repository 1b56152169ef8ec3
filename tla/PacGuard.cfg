\* The guard beside the window's calls.
SPECIFICATION FairSpec
CONSTANTS
  UserSettings <- CompanyOnly
  AutoValues <- AlwaysAuto
  Imports <- AutoImports
  RestoreOnExit = TRUE
  MayFail = {"read", "save"}
  MaxChanges = 1
  MaxCrashes = 0
PROPERTY
  GuardHeals
CHECK_DEADLOCK FALSE
