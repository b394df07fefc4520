SPECIFICATION HistorySpec
CONSTANTS
  Users = {u1, u2}
  Names = {n1, n2}
  Dbs = {d1, d2}
  Requests = {r1, r2}
  UserLimit = 1
  DbLimit = 2
  FailingSteps <- Steps
  Leaves = TRUE
  NoUser = NoUser
  NoName = NoName
  NoDb = NoDb
INVARIANTS TypeOK NoOrphanUnlessTroubled MirrorsUnlessBroken UserLimitUnlessCrowded
PROPERTIES ImplementsMirrorUnlessTroubled
CONSTRAINT SomeoneSpared
SYMMETRY Symmetric
CHECK_DEADLOCK FALSE
