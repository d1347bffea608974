SPECIFICATION Spec
CONSTANTS
  Keep = 3
  QueueCap = 5
  LineCap = 2
  MaxGiven <- BothTalk
  MaxBeats = 1
  MaxDrops = 1
  MaxConnects = 2
  MaxRestarts = 1
  MaxSent = 9
INVARIANTS NoneLeftOut
CHECK_DEADLOCK FALSE
