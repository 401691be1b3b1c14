SPECIFICATION PartsSpec
CONSTANTS
  CostSessions = {u1}
  WorkGroups = {1, 2}
  GroupProcess <- GroupProcessOf
  Areas <- AreasOf
  CostProcesses = {"CUT", "PRINT"}
  Months = {7}
  Amounts = {3}
  UnitParts = 2
  NoAmount = NoAmount
  NoRequest = NoRequest
  MaxCosts = 2
  Users = {"admin", "kim"}
  Admin = "admin"
  Roles = {"ADMIN", "STAFF"}
  SystemRoles = {"ADMIN"}
  AdminRole = "ADMIN"
  Permissions = {"ADMINISTER"}
  Administer = "ADMINISTER"
  Partners = {"bohyun"}
  Passwords = {1, 2}
  MaxVersion <- Versions
  MaxTokens = 2
  Uploaders = {s1, s2}
  Revisions = {"A"}
  FileKinds = {"DRAWING", "PLATE"}
  NoFile = NoFile
  NoRevision = NoRevision
  NoUpload = NoUpload
  MaxFiles = 3
  NoBackup = NoBackup
  NoRehearsal = NoRehearsal
  MaxBackups = 1
  Importers = {i1, i2}
  OrderNos = {1, 2, 3}
  Products = {"p", "q"}
  LineNos = {1, 2}
  OrderSheets <- OrderSheetsOf
  MasterSheets <- MasterSheetsOf
  KeepName = KeepName
  OldName = OldName
  NoSheet = NoSheet
  Stocktakers = {k1, k2}
  Goods = {"p", "q"}
  StockLots = {1, 2}
  FirstStock <- FirstStockOf
  NoRow = NoRow
  NoTake = NoTake
  MaxStock = 1
CHECK_DEADLOCK FALSE
INVARIANTS
  PartsTypeOK SharesAddUp ChargedOnce RowsHaveFiles BackupIsComplete FirstStockBooked
PROPERTIES
  SessionsRevoked RevokedForever RecordIsEarned SheetsTakenAsChecked
