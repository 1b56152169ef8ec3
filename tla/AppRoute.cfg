\* One connection of each kind, in each mode; at most two units are read to
\* find the host, and the remote sends one.
SPECIFICATION FairSpec
CONSTANTS
  Payloads <- SixPayloads
  Units <- AllUnits
  HostPieces <- Pieces
  Modes <- FiveModes
  HostTarget <- Verdicts
  CidrTargets <- CidrOrNot
  NoCidr = "none"
  Limit = 2
  MaxBack = 1
INVARIANTS
  SentInOrder
  HelloDecides
  EndsAreReal
PROPERTIES
  Settles
  Finishes
CHECK_DEADLOCK FALSE
