SPECIFICATION HistorySpec
CONSTANTS
  Users = {u1, u2, u3}
  Workers = {w1, w2}
  NoUser = NoUser
  MaxHost = 4
  MaxRetries = 2
  EagerConflicts = TRUE
  Kills = TRUE
  FailingSteps <- AllCalls
INVARIANTS TypeOK UniqueHoldersUnlessCrossed NoHolesUnlessTroubled RestAgreementUnlessTroubled
PROPERTY ImplementsIpPoolUnlessCrossed
SYMMETRY Symmetric
CHECK_DEADLOCK FALSE
