\* One request to keep or reduce the number of slots; nothing goes wrong.
SPECIFICATION Spec
CONSTANTS
  TopMax = 3
  NewMaxes = {2, 3}
  Pages <- MCPages
  Gaps = {2}
  Threshold = 1
  Words = {0}
  TimeWrap = 100
  Horizon = 8
  MaxRequests = 1
  MaxTroubles = 0
INVARIANT NoAssertion
CHECK_DEADLOCK FALSE
