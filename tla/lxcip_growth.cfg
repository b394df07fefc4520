SPECIFICATION HistorySpec
CONSTANTS
  Users = {u1, u2, u3}
  Workers = {w1, w2, w3}
  NoUser = NoUser
  MaxHost = 4
  MaxRetries = 2
  EagerConflicts = TRUE
  Kills = FALSE
  FailingSteps <- AllCalls
INVARIANT NoDuplicateIP
SYMMETRY Symmetric
CHECK_DEADLOCK FALSE
