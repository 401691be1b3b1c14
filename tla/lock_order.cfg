SPECIFICATION ReservedSpec
CONSTANTS
  Sessions = {d1, d2, d3}
  OrderLines = {1, 2}
  LotsByAge <- TwoLots
  OrderQtys = {2, 3}
  StockQtys = {1}
  AdjustQtys = {1}
  Requests = {"plan", "base_lot", "cancel", "short_close", "change", "ship", "increase", "decrease"}
  MaxRequests = 3
CHECK_DEADLOCK FALSE
SYMMETRY SessionSymmetry
INVARIANTS
  DeadlockNeedsPlan
PROPERTIES
  LinesSettleOnce
