SPECIFICATION Spec
CONSTANTS
  Workers = {w1, w2}
  Free = Free
  Start <- MCStart
  Requests <- MCPositionRequests
  MaxCalls = 3
  MaxDeaths = 2
  KeepMark = FALSE
INVARIANT AlwaysSound
CHECK_DEADLOCK FALSE
