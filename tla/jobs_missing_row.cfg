SPECIFICATION HistorySpec
CONSTANTS
  Users = {u1}
  Names = {n1}
  NoUser = NoUser
  MaxPages = 1
  MaxJobs = 2
  MaxFaults = 1
  MaxIncidents = 0
  MaxTroubles = 2
  Prefetch = 3
  MaxAttempts = 3
  Careful = TRUE
  Actions <- AllActions
  FaultySteps <- ProvisionFaults
  Incidents <- None
INVARIANT RunningContainerHasRow
CHECK_DEADLOCK FALSE
