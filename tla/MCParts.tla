------------------------------- MODULE MCParts -------------------------------
(***************************************************************************)
(* The components that share no row with each other, side by side: every   *)
(* behaviour is one of a single component, chosen at the start.            *)
(***************************************************************************)
EXTENDS ProcessingCost, Accounts, Backups, BulkUploads, InitialStock

VARIABLE part

partVars == <<part, costVars, accountVars, backupVars, uploadVars, stockVars>>

\* Work group 1 was printed and has three LOTs, 2 was cut and has one.
GroupProcessOf == [g \in WorkGroups |-> IF g = 1 THEN "PRINT" ELSE "CUT"]
AreasOf == [g \in WorkGroups |-> IF g = 1 THEN <<1, 1, 1>> ELSE <<1>>]

Versions == [u \in Users |-> IF u = Admin THEN 2 ELSE 3]

OrderRow(o, partner, p, name) ==
  [order |-> o, partner |-> partner, due |-> 1, product |-> p, name |-> name, valid |-> TRUE]

\* Orders of one and of several lines, new names that agree and that clash, an
\* order of two partners, and the same order number in two sheets.
OrderSheetsOf ==
  {<<OrderRow(1, "kim", "p", "New"), OrderRow(1, "kim", "q", KeepName), OrderRow(2, "kim", "q", "New")>>,
   <<OrderRow(3, "lee", "q", "Newer"), OrderRow(2, "lee", "p", KeepName), OrderRow(2, "kim", "p", KeepName)>>,
   <<OrderRow(1, "lee", "q", "Newer"), OrderRow(2, "lee", "p", "New"), OrderRow(2, "lee", "p", "Newer")>>}

MasterRow(c, d) == [code |-> c, drawing |-> d, valid |-> TRUE]

MasterSheetsOf ==
  {<<MasterRow("a", 1), MasterRow("b", 2), [MasterRow("c", 3) EXCEPT !.valid = FALSE]>>,
   <<MasterRow("c", 3), MasterRow("a", 3), MasterRow("c", 4), MasterRow("b", 5)>>}

StockRow(p, l, qty) == [product |-> p, lot |-> l, qty |-> qty]

FirstStockOf ==
  {<<StockRow("p", 1, 2), StockRow("p", 1, 1)>>, <<StockRow("p", 1, 1), StockRow("q", 1, 1), StockRow("p", 2, 0)>>}

PartsInit ==
  /\ part \in {"costs", "accounts", "files", "backups", "orders", "masters", "stock"}
  /\ CostInit /\ AccountInit /\ BackupInit /\ UploadInit /\ StockInit
  /\ part # "files" => saved = 0

Uploading == {s \in Uploaders : upload[s] # NoUpload}

\* One upload at a time while backups are made, of two files, drawings or
\* photos; and none during a rehearsal, which reads nothing but the finished backup.
BackupBound ==
  /\ saved' <= 2
  /\ Cardinality(Uploading') <= 1 /\ \A s \in Uploading' : "PLATE" \notin upload'[s].left
  /\ rehearsal # NoRehearsal => Uploading' = {}

PartsNext ==
  /\ part' = part
  /\ \/ part = "costs" /\ CostNext /\ UNCHANGED <<accountVars, backupVars, uploadVars, stockVars>>
     \/ part = "accounts" /\ AccountNext /\ UNCHANGED <<costVars, backupVars, uploadVars, stockVars>>
     \/ /\ part = "files" /\ FilesNext
        /\ UNCHANGED <<backup, lock, backups, rehearsal, record, costVars, accountVars, uploadVars, stockVars>>
     \/ /\ part = "backups" /\ BackupNext /\ BackupBound
        /\ UNCHANGED <<costVars, accountVars, uploadVars, stockVars>>
     \/ /\ part \in {"orders", "masters"} /\ UploadNext
        /\ \A s \in Importers : sheet'[s] # NoSheet => (sheet'[s].op = "ORDERS") = (part = "orders")
        /\ UNCHANGED <<costVars, accountVars, backupVars, stockVars>>
     \/ part = "stock" /\ StockNext /\ UNCHANGED <<costVars, accountVars, backupVars, uploadVars>>

PartsSpec == PartsInit /\ [][PartsNext]_partVars

\* The types of all components (StockTypeOK: no stock is ever negative).
PartsTypeOK ==
  CostTypeOK /\ AccountTypeOK /\ VersionsIssued /\ FileTypeOK /\ UploadTypeOK /\ StockTypeOK
=============================================================================
