SPECIFICATION Spec
CONSTANTS
  MaxOrders = 3
  MapSize = 2
  Qty = 2
  QueueCap = 2
  MaxTimeouts = 1
  MaxLosses = 1
  MaxBooks = 2
  MaxMade = 1
INVARIANTS TypeOK RecordedAsTraded TableFollowsOrders CancelNamesItsOrder BookNoStaler
PROPERTIES CallsReturn
CHECK_DEADLOCK FALSE
