SPECIFICATION FairSpec
CONSTANTS
  Keep = 3
  QueueCap = 5
  LineCap = 1
  MaxGiven <- VenueTwice
  MaxBeats = 1
  MaxDrops = 2
  MaxConnects = 3
  MaxRestarts = 1
  MaxSent = 9
INVARIANTS TypeOK NoFrameMissed
PROPERTIES InOrderOnce CaughtUp
CHECK_DEADLOCK FALSE
