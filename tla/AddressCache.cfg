\* Two dialling goroutines, two addresses, one change of an address.
SPECIFICATION FairSpec
CONSTANTS
  Caller = {c1, c2}
  NoCaller = NoCaller
  Address = {a1, a2}
  NoAddress = NoAddress
  TTL = 2
  QueryTimeout = 1
  MaxNow = 5
  MaxChanges = 1
INVARIANTS
  IInv
PROPERTIES
  AnswersAreFresh
  Answered
CHECK_DEADLOCK FALSE
