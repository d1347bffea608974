SPECIFICATION Spec
CONSTANTS
  a1 = a1
  a2 = a2
  krx = krx
  nxt = nxt
  Accounts = {a1, a2}
  Venues <- Pair
  MaxPrice = 3
  Band <- TradeBand
  Requests <- TradeRequests
  OrderCap = 3
  AccountCap = 2
  PoolCap = 2
  Strategies = {"best_price", "krx_only", "split", "sweep"}
  Opening <- TradeOpening
  FirstAccount = a1
  FirstCash = 8
  Seeds <- TradeSeeds
  SynthSizes = {1}
  Feeds <- NoFeeds
  ScanDepth = 3
  OpenWhenFlat = TRUE
  MaxOpens = 2
  MaxSynth = 1
INVARIANTS TypeOK NoAssertFails OrdersReconcile HeldBacksSells MapAgreesWithBook
PROPERTIES SettledAsRecorded AnswersStand SweepIsOneBook
CHECK_DEADLOCK FALSE
