SPECIFICATION Spec
CONSTANTS
  Sessions = {d1, d2}
  OrderLines = {1, 2}
  LotsByAge <- OneLot
  OrderQtys = {1, 2}
  StockQtys = {1, 2}
  AdjustQtys = {1}
  Requests = {"plan", "base_lot", "cancel", "short_close", "change", "ship", "increase", "decrease"}
  MaxRequests = 3
CHECK_DEADLOCK FALSE
SYMMETRY SessionSymmetry
INVARIANTS
  TypeOK
  BooksAgree
PROPERTIES
  PromisedOnce
