SPECIFICATION HistoryFairSpec
CONSTANTS
  Users = {u1, u2}
  Names = {}
  NoUser = NoUser
  MaxPages = 0
  MaxJobs = 3
  MaxFaults = 1
  MaxIncidents = 0
  MaxTroubles = 1
  Prefetch = 1
  MaxAttempts = 3
  Careful = TRUE
  Actions <- AllActions
  FaultySteps <- LxdFaults
  Incidents <- None
INVARIANT TypeOK
PROPERTY EveryJobAnswered
CHECK_DEADLOCK FALSE
