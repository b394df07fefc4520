SPECIFICATION HistorySpec
CONSTANTS
  Users = {u1, u2}
  Names = {n1}
  NoUser = NoUser
  MaxPages = 2
  MaxJobs = 2
  MaxFaults = 1
  MaxIncidents = 2
  MaxTroubles = 2
  Prefetch = 3
  MaxAttempts = 3
  Careful = FALSE
  Actions <- AllActions
  FaultySteps <- TypicalFaults
  Incidents <- AllIncidents
INVARIANTS  DeliveryHasWorker NoRetryLeak AnsweredIsOver
PROPERTY AnsweredOnce
SYMMETRY Symmetric
CHECK_DEADLOCK FALSE
