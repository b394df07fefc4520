SPECIFICATION HistorySpec
CONSTANTS
  Users = {u1, u2, u3}
  Workers = {w1, w2}
  NoUser = NoUser
  MaxHost = 4
  MaxRetries = 2
  EagerConflicts = FALSE
  Kills = TRUE
  FailingSteps <- NoCalls
INVARIANT StackIsReleased
CHECK_DEADLOCK FALSE
