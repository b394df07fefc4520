SPECIFICATION FairHistorySpec
CONSTANTS
  Emails = {e1, e2}
  UserNames = {n1, n2}
  Tokens = {t1, t2}
  Requests = {r1, r2}
  FailingSteps = {"insert", "setToken", "mail", "get", "del", "update", "selectVerified", "selectRow", "setSecret"}
  Expires = TRUE
  NoName = NoName
  NoEmail = NoEmail
  NoToken = NoToken
  Garbage = Garbage
INVARIANTS TypeOK LinkWorksOnce NotStuckUnlessUnlucky
PROPERTIES EveryoneVerified
CHECK_DEADLOCK FALSE
