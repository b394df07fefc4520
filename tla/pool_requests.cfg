SPECIFICATION FairSpec
CONSTANTS
  Size = 4
  Requests = {r1, r2, r3}
  Kinds <- AllKinds
  MaxClosures = 3
  Drops = TRUE
INVARIANTS TypeOK Exclusive LeaksOnlyByPanic
PROPERTY EveryRequestServed
CHECK_DEADLOCK FALSE
