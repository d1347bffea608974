SPECIFICATION Spec
CONSTANTS
  n1 = n1
  n2 = n2
  n3 = n3
  Ids = {n1, n2, n3}
  Slots = {s1, s2, s3}
  Rows <- TwoRows
  RuleSet = "nxt"
  Buckets = 8
  Home <- Chained
  Base = 5
  Depth = 3
  QtyMax = 2
  LevelMax = 3
  Input <- AllKinds
SYMMETRY Alike
INVARIANTS StructuresAgree BookAsPromised EventsTellTheBook BandsAreWhole
