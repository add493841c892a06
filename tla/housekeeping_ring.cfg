\* Three slots, four records; memory that was never set reads as 0.
SPECIFICATION Spec
CONSTANTS
  TopMax = 3
  NewMaxes = {2, 3}
  Pages <- MCPages
  Gaps = {2}
  Threshold = 1
  Words = {0}
  TimeWrap = 100
  Horizon = 8
  MaxRequests = 2
  MaxTroubles = 1
INVARIANTS TypeOK LockExclusion Chronological StampsMatchRecords FindsBeforeWrap
PROPERTIES NothingLost NewestFirst
CHECK_DEADLOCK FALSE
