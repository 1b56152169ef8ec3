\* Two requests at a time, beside changes of the log's size.
SPECIFICATION FairSpec
CONSTANTS
  c1 = c1
  c2 = c2
  Conns <- TwoRequests
  Connects <- OneConnect
  MaxBytes = 1
  LogLimits <- OneOrTwo
INVARIANTS
  TypeOK
  WindowIsTail
  ActiveIsHeld
  DirectDelivers
PROPERTY
  TunnelEnds
CHECK_DEADLOCK FALSE
