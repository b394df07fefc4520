SPECIFICATION FairHistorySpec
CONSTANTS
  Users = {u1}
  Domains = {d1, d2}
  Requests = {j1, j2}
  Workers = {w1, w2}
  Prefetch = 2
  MaxIncidents = 2
  FailingSteps = {"write", "insert", "unconf"}
  NoUser = NoUser
  NoDomain = NoDomain
  NoRequest = NoRequest
INVARIANTS TypeOK DeliveryHasWorker GoneMeansCreated FilesMatchRowsUnlessSpoiled
PROPERTIES EveryTunnelCreated
CHECK_DEADLOCK FALSE
