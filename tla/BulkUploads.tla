----------------------------- MODULE BulkUploads -----------------------------
(***************************************************************************)
(* Uploads of whole sheets: order lines, of which every order number is    *)
(* registered or refused by itself, and products or partners, of which     *)
(* every acceptable row is taken.                                          *)
(*                                                                         *)
(* An upload checks its sheet against what is committed and then writes:   *)
(* other uploads, and single requests, come in between.  A row that has a  *)
(* unique key of an open transaction, or is locked by it, is waited for.   *)
(***************************************************************************)
EXTENDS Integers, Sequences, FiniteSets, FiniteSetsExt, Functions

CONSTANTS
  Importers,       \* sessions
  OrderNos,        \* numbers
  Products, LineNos,
  OrderSheets,     \* sequences of rows [order, partner, due, product, name, valid]
  MasterSheets,    \* sequences of rows [code, drawing, valid]
  KeepName,        \* in a row: the product keeps its name
  OldName, NoSheet


VARIABLES
  orderLines,      \* what is committed: [order, line]
  names,           \* of the products
  activeProducts,
  masters,         \* products or partners: [code, drawing]
  sheet            \* what each session is uploading

uploadVars == <<orderLines, names, activeProducts, masters, sheet>>
productVars == <<names, activeProducts>>

UploadInit ==
  /\ orderLines = {}
  /\ names = [p \in Products |-> OldName]
  /\ activeProducts = Products
  /\ masters = {}
  /\ sheet = [s \in Importers |-> NoSheet]

Busy(s, op) == sheet[s] # NoSheet /\ sheet[s].op = op
------------------------------------------------------------------------------
(* Order lines.                                                            *)

\* The rows of an order number, which are its lines in the order of the sheet.
RowsOf(rows, o) == {i \in DOMAIN rows : rows[i].order = o}
LineOf(rows, i) == Cardinality({j \in RowsOf(rows, rows[i].order) : j <= i})
OrdersOf(rows) == {rows[i].order : i \in DOMAIN rows}

ASSUME UploadAssumption ==
  /\ OrderNos \subseteq Nat /\ LineNos \subseteq Nat \ {0}
  /\ \A rows \in OrderSheets :
       /\ DOMAIN rows \subseteq Nat
       /\ \A i \in DOMAIN rows : rows[i].order \in OrderNos /\ LineOf(rows, i) \in LineNos
  /\ \A rows \in MasterSheets : DOMAIN rows \subseteq Nat \ {0}

\* What is wrong with a row by itself.
RowFails(r) == ~r.valid \/ r.product \notin activeProducts

\* An order number may be new only, and has one partner and one due date.
GroupFails(rows, o) ==
  \/ \E i \in RowsOf(rows, o) : RowFails(rows[i])
  \/ \E line \in orderLines : line.order = o
  \/ \E i, j \in RowsOf(rows, o) : rows[i].partner # rows[j].partner \/ rows[i].due # rows[j].due

\* Two rows of an order number may not name a product differently.
NamesClash(rows, o) ==
  \E i, j \in RowsOf(rows, o) :
    /\ rows[i].product = rows[j].product /\ rows[i].name # rows[j].name
    /\ KeepName \notin {rows[i].name, rows[j].name}

\* An upload is checked as a whole before its first order number is written.
UploadOrders(s, rows) ==
  /\ sheet[s] = NoSheet
  /\ sheet' = [sheet EXCEPT ![s] =
       [op |-> "ORDERS", rows |-> rows, left |-> {o \in OrdersOf(rows) : ~GroupFails(rows, o)},
        written |-> {}, lines |-> {}, renamed |-> <<>>, kept |-> [lines |-> {}, renamed |-> <<>>], done |-> {}]]
  /\ UNCHANGED <<orderLines, masters>> /\ UNCHANGED productVars

\* Order numbers are written in their order, row by row, line 1 first.
CurrentOrder(u) == Min(u.left)
CurrentIndex(u) == Min(RowsOf(u.rows, CurrentOrder(u)) \ u.written)
CurrentRow(u) == u.rows[CurrentIndex(u)]
CurrentLine(u) == [order |-> CurrentOrder(u), line |-> LineOf(u.rows, CurrentIndex(u))]

SameKey(a, b) == a.order = b.order /\ a.line = b.line

\* Rows of other open uploads that this row has to wait for.
WaitsForLine(s, t) ==
  /\ s # t /\ Busy(s, "ORDERS") /\ Busy(t, "ORDERS") /\ sheet[s].left # {}
  /\ \/ \E line \in sheet[t].lines : SameKey(line, CurrentLine(sheet[s]))
     \/ /\ CurrentRow(sheet[s]).name # KeepName
        /\ CurrentRow(sheet[s]).product \in DOMAIN sheet[t].renamed

\* Mutant: no savepoint.
UndoNothing(u) == u

\* The savepoint of the group.
Undone(u) == [u EXCEPT !.lines = u.kept.lines, !.renamed = u.kept.renamed]

\* Line taken, product gone, names that clash: nothing of the group remains.
GroupRefused(u) ==
  [Undone(u) EXCEPT !.left = @ \ {CurrentOrder(u)}, !.written = {}]

GroupDone(u, lines, renamed) ==
  [u EXCEPT !.left = @ \ {CurrentOrder(u)}, !.written = {}, !.done = @ \cup {CurrentOrder(u)},
            !.lines = lines, !.renamed = renamed, !.kept = [lines |-> lines, renamed |-> renamed]]

RegisterRow(s) ==
  LET u == sheet[s]
      row == CurrentRow(u)
      written == u.written \cup {CurrentIndex(u)}
      lines == u.lines \cup {CurrentLine(u)}
      renamed == IF row.name = KeepName THEN u.renamed
                 ELSE [p \in DOMAIN u.renamed \cup {row.product} |->
                         IF p = row.product THEN row.name ELSE u.renamed[p]]
  IN  /\ Busy(s, "ORDERS") /\ u.left # {}
      /\ \A t \in Importers : ~WaitsForLine(s, t)
      /\ sheet' = [sheet EXCEPT ![s] =
           CASE \/ NamesClash(u.rows, CurrentOrder(u))
                \/ row.product \notin activeProducts
                \/ \E line \in orderLines : SameKey(line, CurrentLine(u)) -> GroupRefused(u)
             [] OTHER ->
                  IF written = RowsOf(u.rows, CurrentOrder(u)) THEN GroupDone(u, lines, renamed)
                  ELSE [u EXCEPT !.written = written, !.lines = lines, !.renamed = renamed]]
      /\ UNCHANGED <<orderLines, masters>> /\ UNCHANGED productVars

CommitOrders(s) ==
  /\ Busy(s, "ORDERS") /\ sheet[s].left = {}
  /\ orderLines' = orderLines \cup sheet[s].lines
  /\ names' = [p \in Products |-> IF p \in DOMAIN sheet[s].renamed THEN sheet[s].renamed[p] ELSE names[p]]
  /\ sheet' = [sheet EXCEPT ![s] = NoSheet]
  /\ UNCHANGED <<activeProducts, masters>>

\* A wait that is too long, or of two uploads for each other: one is rolled
\* back as a whole.
RollBack(s) ==
  /\ \E t \in Importers : WaitsForLine(s, t)
  /\ sheet' = [sheet EXCEPT ![s] = NoSheet]
  /\ UNCHANGED <<orderLines, masters>> /\ UNCHANGED productVars

\* Single requests in between.
CreateLine(o, n) ==
  /\ ~\E line \in orderLines : line.order = o /\ line.line = n
  /\ \A s \in Importers : Busy(s, "ORDERS") => ~\E line \in sheet[s].lines : line.order = o /\ line.line = n
  /\ orderLines' = orderLines \cup {[order |-> o, line |-> n]}
  /\ UNCHANGED <<masters, sheet>> /\ UNCHANGED productVars

DeactivateProduct(p) ==
  /\ activeProducts' = activeProducts \ {p}
  /\ UNCHANGED <<orderLines, names, masters, sheet>>
------------------------------------------------------------------------------
(* Products and partners: a partner's code is its business number, and its *)
(* drawing is itself.                                                      *)

SameMaster(a, b) == a.code = b.code \/ a.drawing = b.drawing

Repeats(rows, i) == \E j \in 1..(i - 1) : SameMaster(rows[j], rows[i])

Taken(row) == \E m \in masters : m.code = row.code \/ m.drawing = row.drawing

\* Every row that is complete, the first of its code and of its drawing in the
\* sheet, and new.
AcceptedRows(rows) ==
  {rows[i] : i \in {i \in DOMAIN rows : rows[i].valid /\ ~Repeats(rows, i) /\ ~Taken(rows[i])}}

UploadMasters(s, rows) ==
  /\ sheet[s] = NoSheet
  /\ sheet' = [sheet EXCEPT ![s] = [op |-> "MASTERS", rows |-> rows, accepted |-> AcceptedRows(rows)]]
  /\ UNCHANGED <<orderLines, masters>> /\ UNCHANGED productVars

\* One insert for all: the unique keys of the table refuse all or none.
InsertMasters(s) ==
  LET new == sheet[s].accepted
      refused == \/ \E row \in new : Taken(row)
                 \/ \E a, b \in new : a # b /\ (a.code = b.code \/ a.drawing = b.drawing)
  IN  /\ Busy(s, "MASTERS")
      /\ masters' = IF refused THEN masters ELSE masters \cup new
      /\ sheet' = [sheet EXCEPT ![s] = NoSheet]
      /\ UNCHANGED orderLines /\ UNCHANGED productVars

UploadNext ==
  \/ \E s \in Importers :
       \/ \E rows \in OrderSheets : UploadOrders(s, rows)
       \/ RegisterRow(s) \/ CommitOrders(s) \/ RollBack(s)
       \/ \E rows \in MasterSheets : UploadMasters(s, rows)
       \/ InsertMasters(s)
  \/ \E o \in OrderNos, n \in LineNos : CreateLine(o, n)
  \/ \E p \in activeProducts : DeactivateProduct(p)

UploadSpec == UploadInit /\ [][UploadNext]_uploadVars
------------------------------------------------------------------------------
(* Properties.                                                             *)

UploadTypeOK ==
  /\ orderLines \subseteq [order : OrderNos, line : LineNos]
  /\ activeProducts \subseteq Products /\ DOMAIN names = Products
  /\ \A s \in Importers : Busy(s, "ORDERS") => sheet[s].left \cup sheet[s].done \subseteq OrdersOf(sheet[s].rows)

LinesOfGroup(rows, o) == {[order |-> o, line |-> LineOf(rows, i)] : i \in RowsOf(rows, o)}

\* Sheets are taken as they were checked, whatever was registered or switched off
\* since. An order number is registered with all of its lines or with none, and
\* only then are its products renamed: what an upload of orders commits are the
\* groups it reports as done. Of master data, a row that cannot be taken does not
\* lose the others: all of an upload is refused only for a row that somebody
\* registered since it was checked.
SheetsTakenAsChecked ==
  [][\A s \in Importers : sheet[s] # NoSheet /\ sheet'[s] = NoSheet =>
       LET u == sheet[s] IN
       /\ Busy(s, "ORDERS") /\ orderLines' # orderLines =>
            /\ orderLines' \ orderLines = UNION {LinesOfGroup(u.rows, o) : o \in u.done}
            /\ \A p \in Products : names'[p] # names[p] =>
                 \E i \in DOMAIN u.rows : /\ u.rows[i].product = p /\ u.rows[i].name = names'[p]
                                          /\ u.rows[i].order \in u.done
       /\ Busy(s, "MASTERS") /\ masters' = masters =>
            \A row \in u.accepted : \E other \in u.accepted : Taken(other)]_uploadVars
=============================================================================
