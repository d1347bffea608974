SPECIFICATION Spec
CONSTANTS
  SDK_ORDERS_MAX = 2
  MaxOrders = 3
  MaxChanges = 1
  Qty = 2
  Sizes = {1, 2}
  FirstPrice = 1
  Prices = {2}
  MaxUnread = 3
INVARIANTS RecordIsVenues NoOrderForgotten
CHECK_DEADLOCK FALSE
