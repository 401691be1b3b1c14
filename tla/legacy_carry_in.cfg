SPECIFICATION LegacySpec
CONSTANTS
  OrderLines = {o1}
  NoOrder = NoOrder
  StockLots = {s1}
  ProdLots = {p1}
  Partners = {d1}
  Replenish = {}
  OrderNumbers = {n1}
  OrderQtys = {1, 2}
  RoundQtys = {0, 1}
  AdjustQtys = {1}
  AdjustLots = {s1}
  MaxStock = 1
  MaxRounds = 2
  PartnerClass <- DirectPartners
CHECK_DEADLOCK FALSE
INVARIANTS
  ShownCarryInCounts
