SPECIFICATION FairSpec
CONSTANTS
  Sessions = {d1, d2}
  OrderLines = {1, 2}
  LotsByAge <- TwoLots
  OrderQtys = {2, 3}
  StockQtys = {1}
  AdjustQtys = {1}
  Requests = {"plan", "ship", "change"}
  MaxRequests = 3
CHECK_DEADLOCK FALSE
PROPERTIES
  WaitsEnd
