SPECIFICATION Spec
CONSTANTS
  Places = {0, 1}
  PipeCap = 1
  FailLimit = 1
  StopTries = 5
  MaxConns = 3
  MaxKills = 1
  MaxForkFails = 1
INVARIANTS CountsAddUp StopIsClean
PROPERTIES StopReturns DeadIsReplaced ConnectionsAreTaken
CHECK_DEADLOCK FALSE
