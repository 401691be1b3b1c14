SPECIFICATION Spec
CONSTANTS
  la = la
  lb = lb
  lr = lr
  lc = lc
  ld = ld
  o1 = o1
  o2 = o2
  o3 = o3
  d1 = d1
  d2 = d2
  OrderLines = {o1, o2, o3}
  Lots = {la, lb, lr, lc, ld}
  OrderLineOf <- ThreeOrderLines
  PrintLots = {ld}
  InspectionOnlyLots = {lc}
  ParentOf <- ReworkOfA
  Dates = {d1, d2}
  Sheets = {1}
  CutCounts = {1, 2}
  FirstCuts = {1}
  MaxBatch = 2
  MaxGroups = 2
  MaxOrders = 1
  MaxSchedules = 2
CHECK_DEADLOCK FALSE
SYMMETRY DateSymmetry
CONSTRAINT FewAtATime
INVARIANTS
  TypeOK
  OneOpenGroup
  ReceivedAfterShipment
  OrderedTogether
  TargetsAccepted
  OutputFollowsCuts
  CompletedIsShown
PROPERTIES
  OrderedTermsKept
  GroupLife
