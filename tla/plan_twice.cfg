SPECIFICATION Spec
CONSTANTS
  Sessions = {d1, d2}
  OrderLines = {1}
  LotsByAge <- OneLot
  OrderQtys = {1}
  StockQtys = {2}
  AdjustQtys = {1}
  Requests = {"plan"}
  MaxRequests = 2
CHECK_DEADLOCK FALSE
INVARIANTS
  ShippedWithinTarget
