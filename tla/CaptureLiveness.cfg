\* Two connections that take turns on one local and one redirect port, one run.
SPECIFICATION FairSpec
CONSTANTS
  Conn = {c1, c2}
  NoConn = NoConn
  LocalPort = {p1}
  RedirectPort = {r1}
  NoPort = NoPort
  MaxStarts = 1
  OpenMayFail = FALSE
  localAddr <- SameLocal
  remoteAddr <- SameRemote
  remotePort <- SamePort
PROPERTIES
  StopProgress
  LapsedLeaves
CHECK_DEADLOCK FALSE
