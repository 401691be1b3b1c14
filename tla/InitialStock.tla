---------------------------- MODULE InitialStock ----------------------------
(***************************************************************************)
(* The upload of the first stock of products, among adjustments of it.     *)
(* An upload looks for products that have moved before it locks the stock  *)
(* rows there are; a row that is not there yet cannot be locked, and its   *)
(* creation fails when another request was first.                          *)
(***************************************************************************)
EXTENDS Integers, Sequences, FiniteSets, FiniteSetsExt, Functions

CONSTANTS
  Stocktakers,   \* sessions
  Goods,         \* products
  StockLots,     \* their LOT numbers
  FirstStock,    \* sheets: sequences of rows [product, lot, qty]
  NoRow, NoTake,
  MaxStock       \* bound of the model: pieces of a LOT

ASSUME StockAssumption ==
  /\ MaxStock \in Nat /\ NoRow \notin Int
  /\ IsFiniteSet(StockLots)
  /\ \A rows \in FirstStock : rows \in Seq([product : Goods, lot : StockLots, qty : Int])

VARIABLES
  inventory,   \* quantity of a product, or no row
  lotStock,    \* quantity of a LOT, or no row
  moved,       \* sum of a product's movements, or none of them
  take         \* what each session has read

stockVars == <<inventory, lotStock, moved, take>>

StockInit ==
  /\ inventory = [p \in Goods |-> NoRow]
  /\ lotStock = [x \in Goods \X StockLots |-> NoRow]
  /\ moved = [p \in Goods |-> NoRow]
  /\ take = [s \in Stocktakers |-> NoTake]

Pieces(q) == IF q = NoRow THEN 0 ELSE q

Held(p) == \E s \in Stocktakers : take[s] # NoTake /\ p \in take[s].locked

\* The first row of a LOT counts; products that moved are refused.
TakenRows(rows, refused) ==
  {i \in DOMAIN rows : /\ \A j \in 1..(i - 1) : <<rows[j].product, rows[j].lot>> # <<rows[i].product, rows[i].lot>>
                       /\ rows[i].product \notin refused}

BeginFirstStock(s, rows) ==
  /\ take[s] = NoTake
  /\ take' = [take EXCEPT ![s] =
       [rows |-> TakenRows(rows, {p \in Goods : moved[p] # NoRow}), sheet |-> rows,
        step |-> "LOCK", locked |-> {}, seen |-> inventory]]
  /\ UNCHANGED <<inventory, lotStock, moved>>

ProductsOf(t) == {t.sheet[i].product : i \in DOMAIN t.sheet}

\* Mutant: the rows are read without a lock.
ReadStock(s) ==
  /\ take[s] # NoTake /\ take[s].step = "LOCK"
  /\ take' = [take EXCEPT ![s].step = "WRITE", ![s].seen = inventory]
  /\ UNCHANGED <<inventory, lotStock, moved>>

LockStock(s) ==
  LET there == {p \in ProductsOf(take[s]) : inventory[p] # NoRow}
  IN  /\ take[s] # NoTake /\ take[s].step = "LOCK"
      /\ \A p \in there : ~Held(p)
      /\ take' = [take EXCEPT ![s].step = "WRITE", ![s].locked = there, ![s].seen = inventory]
      /\ UNCHANGED <<inventory, lotStock, moved>>

\* Rows of no quantity are skipped, and rows of a LOT that has stock refused.
BookedRows(t) == {i \in t.rows : LET r == t.sheet[i] IN r.qty > 0 /\ Pieces(lotStock[<<r.product, r.lot>>]) = 0}

CommitFirstStock(s) ==
  LET t == take[s]
      booked == BookedRows(t)
      booking(p) == {i \in booked : t.sheet[i].product = p}
      sum(p) == SumFunctionOnSet([i \in booked |-> t.sheet[i].qty], booking(p))
      \* products that get their row here
      new == {p \in Goods : t.seen[p] = NoRow /\ \E i \in t.rows : t.sheet[i].product = p /\ t.sheet[i].qty > 0}
  IN  /\ t # NoTake /\ t.step = "WRITE"
      /\ take' = [take EXCEPT ![s] = NoTake]
      /\ IF \E p \in new : inventory[p] # NoRow
         THEN UNCHANGED <<inventory, lotStock, moved>>
         ELSE /\ inventory' = [p \in Goods |->
                   IF p \in new \/ booking(p) # {} THEN Pieces(t.seen[p]) + sum(p) ELSE inventory[p]]
              /\ lotStock' = [x \in Goods \X StockLots |->
                   IF \E i \in booked : x = <<t.sheet[i].product, t.sheet[i].lot>>
                   THEN (CHOOSE r \in {t.sheet[i] : i \in booked} : x = <<r.product, r.lot>>).qty ELSE lotStock[x]]
              /\ moved' = [p \in Goods |-> IF booking(p) # {} THEN Pieces(moved[p]) + sum(p) ELSE moved[p]]

\* Mutant: what there is of the LOT is not compared.
AdjustUnchecked(p, l, qty) ==
  /\ ~Held(p)
  /\ Pieces(lotStock[<<p, l>>]) + qty <= MaxStock
  /\ inventory' = [inventory EXCEPT ![p] = Pieces(@) + qty]
  /\ lotStock' = [lotStock EXCEPT ![<<p, l>>] = Pieces(@) + qty]
  /\ moved' = [moved EXCEPT ![p] = Pieces(@) + qty]
  /\ UNCHANGED take

\* A manual adjustment, one request; it waits for the row's lock.
Adjust(p, l, qty) ==
  /\ ~Held(p)
  /\ Pieces(lotStock[<<p, l>>]) + qty \in 0..MaxStock
  /\ inventory' = [inventory EXCEPT ![p] = Pieces(@) + qty]
  /\ lotStock' = [lotStock EXCEPT ![<<p, l>>] = Pieces(@) + qty]
  /\ moved' = [moved EXCEPT ![p] = Pieces(@) + qty]
  /\ UNCHANGED take

StockNext ==
  \/ \E s \in Stocktakers :
       \/ \E rows \in FirstStock : BeginFirstStock(s, rows)
       \/ LockStock(s) \/ CommitFirstStock(s)
  \/ \E p \in Goods, l \in StockLots, qty \in {-1, 1} : Adjust(p, l, qty)

StockSpec == StockInit /\ [][StockNext]_stockVars
------------------------------------------------------------------------------
(* Properties.                                                             *)

StockTypeOK ==
  /\ inventory \in [Goods -> Nat \cup {NoRow}]
  /\ lotStock \in [Goods \X StockLots -> Nat \cup {NoRow}]
  /\ moved \in [Goods -> Nat \cup {NoRow}]

\* The three books of a product agree whatever comes between the look at its
\* history and the booking: no adjustment and no other upload is overwritten.
FirstStockBooked ==
  \A p \in Goods :
    /\ Pieces(inventory[p]) = Pieces(moved[p])
    /\ Pieces(inventory[p]) = SumFunctionOnSet([l \in StockLots |-> Pieces(lotStock[<<p, l>>])], StockLots)
=============================================================================
