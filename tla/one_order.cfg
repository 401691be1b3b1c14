SPECIFICATION Spec
CONSTANTS
  OrderLines = {o1}
  NoOrder = NoOrder
  StockLots = {s1}
  ProdLots = {p1, p2}
  Partners = {d1, r1}
  Replenish = {r1}
  OrderNumbers = {n1}
  OrderQtys = {1, 2}
  RoundQtys = {0, 1}
  AdjustQtys = {1}
  AdjustLots = {s1}
  MaxStock = 1
  MaxRounds = 2
  PartnerClass <- DirectPartners
CHECK_DEADLOCK FALSE
SYMMETRY LotSymmetry
CONSTRAINT SmallHistories
INVARIANTS
  TypeOK
  BooksAgree
  NoNegativeStock
  SellableSettledOnce
  ReleasedWithLot
  OnePrimaryLot
  NothingWaitsUnseen
  InspectionScreensAgree
PROPERTIES
  InspectionDoneIsComplete
  OverShippedOnlyFromReservation
  LotOverdrawnOnlyByCorrection
