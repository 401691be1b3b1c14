SPECIFICATION Spec
CONSTANTS
  OrderLines = {o1}
  NoOrder = NoOrder
  StockLots = {s1}
  ProdLots = {p1}
  Partners = {d1}
  Replenish = {}
  OrderNumbers = {n1}
  OrderQtys = {2}
  RoundQtys = {0, 1, 2}
  AdjustQtys = {1}
  AdjustLots = {s1}
  MaxStock = 2
  MaxRounds = 1
  PartnerClass <- DirectPartners
CHECK_DEADLOCK FALSE
INVARIANTS
  StockRequestIsServed
