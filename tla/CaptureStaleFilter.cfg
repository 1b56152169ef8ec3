\* Two refreshes overlap; no open of WinDivert fails.
SPECIFICATION Spec
CONSTANTS
  Conn = {c1, c2}
  NoConn = NoConn
  LocalPort = {p1, p2}
  RedirectPort = {r1, r2}
  NoPort = NoPort
  MaxStarts = 1
  OpenMayFail = FALSE
  localAddr <- SameLocal
  remoteAddr <- SameRemote
  remotePort <- SamePort
INVARIANT
  FilterComplete
CHECK_DEADLOCK FALSE
