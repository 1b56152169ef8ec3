\* Two connections over two local and two redirect ports, and a restart.
SPECIFICATION Spec
CONSTANTS
  Conn = {c1, c2}
  NoConn = NoConn
  LocalPort = {p1, p2}
  RedirectPort = {r1, r2}
  NoPort = NoPort
  MaxStarts = 2
  OpenMayFail = TRUE
  localAddr <- SameLocal
  remoteAddr <- SameRemote
  remotePort <- SamePort
SYMMETRY Symmetry
INVARIANTS
  IInv
  ListenerRegistered
  ReverseSound
  NotCrossed
  StopQuiescent
PROPERTIES
  ServedInOrder
CHECK_DEADLOCK FALSE
