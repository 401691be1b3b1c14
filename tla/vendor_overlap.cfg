SPECIFICATION OverlapSpec
CONSTANTS
  la = la
  o1 = o1
  OrderLines = {o1}
  Lots = {la}
  OrderLineOf <- OneOrderLine
  PrintLots = {}
  InspectionOnlyLots = {}
  ParentOf <- NoRework
  Dates = {1}
  Sheets = {1}
  CutCounts = {1}
  FirstCuts = {1}
  MaxBatch = 2
  MaxGroups = 1
  MaxOrders = 0
  MaxSchedules = 1
  VendorSessions = {portal}
  NoRequest = NoRequest
CHECK_DEADLOCK FALSE
PROPERTIES
  GroupLife
