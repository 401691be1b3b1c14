SPECIFICATION Spec
CONSTANTS
  OrderLines = {o1, o2}
  NoOrder = NoOrder
  StockLots = {s1}
  ProdLots = {p1}
  Partners = {d1, t1}
  Replenish = {}
  OrderNumbers = {n1, n2}
  OrderQtys = {1, 2}
  RoundQtys = {0, 1}
  AdjustQtys = {1}
  AdjustLots = {s1}
  MaxStock = 1
  MaxRounds = 1
  PartnerClass <- TwoClasses
CHECK_DEADLOCK FALSE
SYMMETRY OrderSymmetry
CONSTRAINT SmallOrders
INVARIANTS
  OffersAreAccepted
PROPERTIES
  PlanCoversTarget
  CoverLostOnlyByHand
  LifecycleSpec
