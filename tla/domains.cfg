SPECIFICATION HistorySpec
CONSTANTS
  Users = {u1, u2}
  Names = {n1}
  Hosts = {h1, h2}
  Workers = {w1, w2}
  Limit = 2
  FailingSteps <- LastingFailures
  NoUser = NoUser
  NoHost = NoHost
  Nowhere = Nowhere
CONSTRAINT WithinBounds
INVARIANTS TypeOK LimitUnlessOverlapped RoutesToOwnerUnlessReused RowsMatchFilesUnlessStrayed
SYMMETRY Symmetric
CHECK_DEADLOCK FALSE
