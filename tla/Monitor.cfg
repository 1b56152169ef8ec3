\* Two connections of two applications; settings, logs and listings change.
SPECIFICATION FairSpec
CONSTANTS
  k1 = k1
  k2 = k2
  a1 = a1
  a2 = a2
  Keys <- TwoKeys
  Apps <- TwoApps
  AppOf <- OneEach
  MaxEvents = 4
INVARIANTS
  ActiveIsTracked
  ShownAgrees
  StopSettles
PROPERTIES
  OnlyGoneFinish
  GoneIsFinished
CHECK_DEADLOCK FALSE
