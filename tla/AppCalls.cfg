\* The window's calls one after another, on a server and outside.
SPECIFICATION AppSpec
CONSTANTS
  Callers <- Window
  Addresses <- TwoAddresses
  MaxCalls = 3
  MaxDrifts = 1
  lan = lan
  wifi = wifi
  node = node
  other = other
  Adapter = {lan, wifi}
  NoAdapter = NoAdapter
  Program = {p1}
  Target = {node, other}
  Gateway = {g1, g2}
  NoGateway = NoGateway
  Settings <- Policies
  AddressIn <- AddressOf
  MaxStuck = 1
  MaxCrashes = 1
SYMMETRY Symmetric
INVARIANTS
  ServesConfigured
  StoppedIsClosed
  RoutesKnown
  GuardShownIsReal
  ReturnedIsDone
CHECK_DEADLOCK FALSE
