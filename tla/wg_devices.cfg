SPECIFICATION HistorySpec
CONSTANTS
  Users = {u1, u2}
  Keys = {k1, k2}
  Requests = {r1, r2}
  NoUser = NoUser
  NoKey = NoKey
  CIDR = 30
  Limit = 1
  MaxRetries = 2
  EagerConflicts = TRUE
  Removes = TRUE
  FailingSteps <- AllCalls
INVARIANTS TypeOK LimitUnlessCrowded KernelAgreesUnlessTroubled
PROPERTIES ImplementsIpPool KernelAfterDb
CONSTRAINT SomeoneSpared
SYMMETRY Symmetric
CHECK_DEADLOCK FALSE
