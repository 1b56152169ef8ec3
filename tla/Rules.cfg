\* The calls of the window on a list of at most five rules, four calls.
SPECIFICATION Spec
CONSTANTS
  Patterns <- ThreePatterns
  Builtins <- TwoBuiltins
  FamilyOf <- OneFamily
  Hosts <- FourHosts
  Covers <- HostCovers
  Imports <- FourImports
  Targets <- TwoTargets
  MaxRules = 5
  MaxCalls = 4
INVARIANTS
  TypeOK
  FallbackLast
  RestartKeeps
  EditIsLocal
  ChangeApplied
PROPERTY
  NoNewTwins
CHECK_DEADLOCK FALSE
