SPECIFICATION FairSpec
CONSTANTS
  Workers = {w1, w2}
  Free = Free
  Start <- MCStart
  Requests <- MCRequests
  MaxCalls = 3
  MaxDeaths = 2
  KeepMark = TRUE
INVARIANTS TypeOK AlwaysSound NeverLost
PROPERTIES IsAtomic EveryCallEnds
CHECK_DEADLOCK FALSE
