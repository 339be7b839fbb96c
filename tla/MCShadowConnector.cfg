SPECIFICATION ShadowFairSpec
CONSTANTS
  PoolSize = 1
  ClientIds = {1, 2}
  PaperQuantities = {1, 2}
  Prices = {1, 2}
  Sizes = {1}
  Impact = 1
  MakerFee = 1
  TakerFee = 2
INVARIANTS BooksBalance ReportsMatchPosition
PROPERTY IocEnds
CHECK_DEADLOCK FALSE
