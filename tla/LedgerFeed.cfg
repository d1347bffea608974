SPECIFICATION Spec
CONSTANTS
  a1 = a1
  a2 = a2
  krx = krx
  nxt = nxt
  Accounts = {a1}
  Venues <- OnlyKrx
  MaxPrice = 3
  Band <- FeedBand
  Requests <- FeedRequests
  OrderCap = 2
  AccountCap = 1
  PoolCap = 9
  Strategies = {"best_price"}
  Opening <- FeedOpening
  FirstAccount = a1
  FirstCash = 9
  Seeds <- FeedSeeds
  SynthSizes = {1}
  Feeds <- FeedSet
  ScanDepth = 2
  OpenWhenFlat = TRUE
  MaxOpens = 1
  MaxSynth = 2
PROPERTIES PlaceInQueueKept FeedReplacesQuotes
CHECK_DEADLOCK FALSE
