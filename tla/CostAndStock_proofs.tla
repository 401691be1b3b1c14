------------------------- MODULE CostAndStock_proofs -------------------------
(***************************************************************************)
(* Theorems about InitialStock and ProcessingCost, sums that agree, about  *)
(* BulkUploads, sheets that are taken as they were checked, and about the  *)
(* components side by side.                                                *)
(***************************************************************************)
EXTENDS MCParts, Accounts_proofs, Backups_proofs, SumLemmas

------------------------------------------------------------------------------
(* The invariant of the first stock.                                       *)

SheetLine == [product : Goods, lot : StockLots, qty : Int]

Take ==
  [rows : SUBSET Nat, sheet : FirstStock, step : {"LOCK", "WRITE"}, locked : SUBSET Goods,
   seen : [Goods -> Nat \cup {NoRow}]]

TakesTyped ==
  /\ DOMAIN take = Stocktakers
  /\ \A s \in Stocktakers : take[s] # NoTake => take[s] \in Take

\* A LOT has one row of those an upload takes.
RowsOnce ==
  \A s \in Stocktakers : take[s] # NoTake =>
    /\ take[s].rows \subseteq DOMAIN take[s].sheet
    /\ \A i, j \in take[s].rows :
         /\ take[s].sheet[i].product = take[s].sheet[j].product
         /\ take[s].sheet[i].lot = take[s].sheet[j].lot
         => i = j

\* What an upload read of the rows it has locked is what they hold; the rows of
\* its sheet that it did not lock were not there.
LocksHold ==
  \A s \in Stocktakers : take[s] # NoTake =>
    /\ take[s].step = "LOCK" => take[s].locked = {}
    /\ take[s].step = "WRITE" =>
         take[s].locked = {p \in ProductsOf(take[s]) : take[s].seen[p] # NoRow}
    /\ \A p \in take[s].locked : take[s].seen[p] = inventory[p] /\ inventory[p] # NoRow
    /\ \A t \in Stocktakers \ {s} : take[t] # NoTake => take[s].locked \cap take[t].locked = {}

StockInv == StockTypeOK /\ TakesTyped /\ RowsOnce /\ LocksHold /\ FirstStockBooked

LEMMA StockConstants == MaxStock \in Nat /\ NoRow \notin Int /\ IsFiniteSet(StockLots)
BY StockAssumption

\* A sheet's rows are of their columns' types, and there are finitely many.
LEMMA SheetType ==
  ASSUME NEW first \in FirstStock
  PROVE  /\ \A i \in DOMAIN first : first[i] \in SheetLine /\ first[i].product \in Goods
                                  /\ first[i].lot \in StockLots /\ first[i].qty \in Int
         /\ DOMAIN first \in SUBSET Nat
         /\ IsFiniteSet(DOMAIN first)
<1>1. first \in Seq(SheetLine)
  BY StockAssumption DEF SheetLine
<1>2. DOMAIN first = 1..Len(first) /\ Len(first) \in Nat
  BY <1>1
<1>3. IsFiniteSet(DOMAIN first)
  BY <1>2, FS_Interval
<1>4. \A i \in DOMAIN first : first[i] \in SheetLine
  BY <1>1
<1> QED BY <1>2, <1>3, <1>4 DEF SheetLine

\* There is no stock at the start.
LEMMA InitStock == StockInit => StockInv
<1> SUFFICES ASSUME StockInit PROVE StockInv
  OBVIOUS
<1>1. StockTypeOK /\ TakesTyped /\ RowsOnce /\ LocksHold
  BY DEF StockInit, StockTypeOK, TakesTyped, RowsOnce, LocksHold
<1>2. \A p \in Goods : SumFunctionOnSet([l \in StockLots |-> Pieces(lotStock[<<p, l>>])], StockLots) = 0
  <2> TAKE p \in Goods
  <2> DEFINE f == [l \in StockLots |-> Pieces(lotStock[<<p, l>>])]
  <2>1. \A l \in StockLots : f[l] = 0
    BY DEF StockInit, Pieces
  <2> HIDE DEF f
  <2>2. SumFunctionOnSet(f, StockLots) = 0
    BY <2>1, StockAssumption, SumZero
  <2> QED BY <2>2 DEF f
<1>3. FirstStockBooked
  BY <1>2 DEF StockInit, FirstStockBooked, Pieces
<1> QED BY <1>1, <1>3 DEF StockInv

\* An upload begins with the rows it will take and no lock.
LEMMA BeginStock ==
  ASSUME StockInv, NEW s \in Stocktakers, NEW rows \in FirstStock, BeginFirstStock(s, rows)
  PROVE  StockInv'
<1> DEFINE refused == {p \in Goods : moved[p] # NoRow}
           new == [rows |-> TakenRows(rows, refused), sheet |-> rows, step |-> "LOCK", locked |-> {},
                   seen |-> inventory]
<1>1. /\ take' = [take EXCEPT ![s] = new]
      /\ UNCHANGED <<inventory, lotStock, moved>>
  BY DEF BeginFirstStock
<1>2. DOMAIN rows \in SUBSET Nat
  BY SheetType
<1>3. /\ TakenRows(rows, refused) \subseteq DOMAIN rows
      /\ \A i, j \in TakenRows(rows, refused) : 
           rows[i].product = rows[j].product /\ rows[i].lot = rows[j].lot => i = j
  <2> DEFINE K == TakenRows(rows, refused)
  <2>1. K \subseteq DOMAIN rows
    BY DEF TakenRows
  <2>2. ASSUME NEW i \in K, NEW j \in K, rows[i].product = rows[j].product, rows[i].lot = rows[j].lot, i < j
        PROVE  FALSE
    <3>1. i \in Nat /\ j \in Nat /\ i # 0
      <4>1. DOMAIN rows = 1..Len(rows) /\ Len(rows) \in Nat
        BY StockAssumption
      <4> QED BY <2>1, <4>1
    <3>2. i \in 1..(j - 1)
      BY <2>2, <3>1
    <3> QED BY <2>2, <3>2 DEF TakenRows
  <2>3. \A i, j \in K : i \in Nat /\ j \in Nat
    BY <1>2, <2>1
  <2> HIDE DEF K
  <2>4. \A i, j \in K : rows[i].product = rows[j].product /\ rows[i].lot = rows[j].lot => i = j
    <3> TAKE i, j \in K
    <3> HAVE rows[i].product = rows[j].product /\ rows[i].lot = rows[j].lot
    <3>1. ~(i < j) /\ ~(j < i)
      BY <2>2
    <3> QED BY <2>3, <3>1
  <2> QED BY <2>1, <2>4 DEF K
<1>4. new \in Take
  BY <1>2, <1>3 DEF Take, StockInv, StockTypeOK
<1>5. /\ DOMAIN take' = Stocktakers /\ take'[s] = new
      /\ \A t \in Stocktakers \ {s} : take'[t] = take[t]
      /\ new.sheet = rows /\ new.rows = TakenRows(rows, refused) /\ new.step = "LOCK" /\ new.locked = {}
  BY <1>1 DEF StockInv, TakesTyped
<1> HIDE DEF new, refused
<1>6. TakesTyped'
  BY <1>4, <1>5 DEF StockInv, TakesTyped
<1>7. RowsOnce'
  BY <1>3, <1>5 DEF StockInv, RowsOnce
<1>8. LocksHold'
  <2>1. /\ new.step # "WRITE" /\ new.locked = {}
        /\ \A p \in new.locked : FALSE
    BY <1>5
  <2>2. \A t \in Stocktakers \ {s} : take'[t] # NoTake =>
           /\ take[t].step = "LOCK" => take[t].locked = {}
           /\ take[t].step = "WRITE" => take[t].locked = {p \in ProductsOf(take[t]) : take[t].seen[p] # NoRow}
           /\ \A p \in take[t].locked : take[t].seen[p] = inventory[p] /\ inventory[p] # NoRow
           /\ \A v \in Stocktakers \ {t} : take[v] # NoTake => take[t].locked \cap take[v].locked = {}
    BY <1>5 DEF StockInv, LocksHold
  <2> QED BY <1>1, <1>5, <2>1, <2>2 DEF LocksHold
<1>9. StockTypeOK' /\ FirstStockBooked'
  BY <1>1 DEF StockInv, StockTypeOK, FirstStockBooked
<1> QED BY <1>6, <1>7, <1>8, <1>9 DEF StockInv

\* The rows that are there are locked when nobody else holds them.
LEMMA LockStockInv ==
  ASSUME StockInv, NEW s \in Stocktakers, LockStock(s)
  PROVE  StockInv'
<1> DEFINE there == {p \in ProductsOf(take[s]) : inventory[p] # NoRow}
           new == [[[take[s] EXCEPT !.step = "WRITE"] EXCEPT !.locked = there] EXCEPT !.seen = inventory]
<1>1. /\ take[s] # NoTake /\ \A p \in there : ~Held(p)
      /\ take' = [take EXCEPT ![s] = new]
      /\ UNCHANGED <<inventory, lotStock, moved>>
  <2>1. DOMAIN take = Stocktakers
    BY DEF StockInv, TakesTyped
  <2> QED BY <2>1 DEF LockStock
<1>2. take[s] \in Take
  BY <1>1 DEF StockInv, TakesTyped
<1>3. ProductsOf(take[s]) \subseteq Goods
  <2>1. take[s].sheet \in FirstStock
    BY <1>2 DEF Take
  <2> QED BY <2>1, SheetType DEF ProductsOf
<1>4. inventory \in [Goods -> Nat \cup {NoRow}]
  BY DEF StockInv, StockTypeOK
<1>5. /\ new \in Take
      /\ new.rows = take[s].rows /\ new.sheet = take[s].sheet /\ new.step = "WRITE"
      /\ new.locked = there /\ new.seen = inventory
  <2>1. there \in SUBSET Goods
    BY <1>3
  <2> HIDE DEF there
  <2> QED BY <1>2, <1>4, <2>1 DEF Take
<1>6. /\ DOMAIN take' = Stocktakers /\ take'[s] = new
      /\ \A t \in Stocktakers \ {s} : take'[t] = take[t]
  BY <1>1 DEF StockInv, TakesTyped
<1>7. ProductsOf(new) = ProductsOf(take[s])
  BY <1>5 DEF ProductsOf
<1>8. \A t \in Stocktakers : take[t] # NoTake => there \cap take[t].locked = {}
  BY <1>1 DEF Held
<1>9. new.locked = {p \in ProductsOf(new) : new.seen[p] # NoRow}
  BY <1>5, <1>7
<1>10. \A p \in there : inventory[p] # NoRow
  OBVIOUS
<1> HIDE DEF new, there
<1>11. TakesTyped'
  BY <1>5, <1>6 DEF StockInv, TakesTyped
<1>12. RowsOnce'
  BY <1>1, <1>5, <1>6 DEF StockInv, RowsOnce
<1>13. LocksHold'
  <2>1. \A t \in Stocktakers : take'[t] # NoTake => take[t] # NoTake
    BY <1>1, <1>6
  <2>2. ASSUME NEW t \in Stocktakers, take'[t] # NoTake
        PROVE  /\ take'[t].step = "LOCK" => take'[t].locked = {}
               /\ take'[t].step = "WRITE" =>
                    take'[t].locked = {p \in ProductsOf(take'[t]) : take'[t].seen[p] # NoRow}
               /\ \A p \in take'[t].locked : take'[t].seen[p] = inventory[p] /\ inventory[p] # NoRow
    <3>1. CASE t = s
      BY <1>5, <1>6, <1>9, <1>10, <3>1
    <3>2. CASE t # s
      BY <1>6, <2>2, <3>2 DEF StockInv, LocksHold
    <3> QED BY <3>1, <3>2
  <2>3. ASSUME NEW t \in Stocktakers, take'[t] # NoTake, NEW v \in Stocktakers \ {t}, take'[v] # NoTake
        PROVE  take'[t].locked \cap take'[v].locked = {}
    <3>1. take[t] # NoTake /\ take[v] # NoTake => take[t].locked \cap take[v].locked = {}
      BY DEF StockInv, LocksHold
    <3> QED BY <1>5, <1>6, <1>8, <2>1, <2>3, <3>1
  <2> QED BY <1>1, <2>2, <2>3 DEF LocksHold
<1>14. StockTypeOK' /\ FirstStockBooked'
  BY <1>1 DEF StockInv, StockTypeOK, FirstStockBooked
<1> QED BY <1>11, <1>12, <1>13, <1>14 DEF StockInv

\* Where nothing of the locked rows changes, the locks go on holding, also when
\* a session has gone.
LEMMA LocksStay ==
  ASSUME StockInv, DOMAIN take' = Stocktakers,
         \A s \in Stocktakers : take'[s] # NoTake => take'[s] = take[s],
         \A s \in Stocktakers : take'[s] # NoTake => \A p \in take[s].locked : inventory'[p] = inventory[p]
  PROVE  TakesTyped' /\ RowsOnce' /\ LocksHold'
<1>1. TakesTyped'
  BY DEF StockInv, TakesTyped
<1>2. RowsOnce'
  BY DEF StockInv, RowsOnce
<1>3. LocksHold'
  <2>1. ASSUME NEW t \in Stocktakers, take'[t] # NoTake
        PROVE  /\ take'[t].step = "LOCK" => take'[t].locked = {}
               /\ take'[t].step = "WRITE" =>
                    take'[t].locked = {p \in ProductsOf(take'[t]) : take'[t].seen[p] # NoRow}
               /\ \A p \in take'[t].locked : take'[t].seen[p] = inventory'[p] /\ inventory'[p] # NoRow
    BY <2>1 DEF StockInv, LocksHold
  <2>2. ASSUME NEW t \in Stocktakers, take'[t] # NoTake, NEW v \in Stocktakers \ {t}, take'[v] # NoTake
        PROVE  take'[t].locked \cap take'[v].locked = {}
    BY <2>2 DEF StockInv, LocksHold
  <2> QED BY <2>1, <2>2 DEF LocksHold
<1> QED BY <1>1, <1>2, <1>3

\* The books of one product, and what is booked of it.
OfLots(rows, p) == SumFunctionOnSet([l \in StockLots |-> Pieces(rows[<<p, l>>])], StockLots)

\* One LOT's quantity is changed: the sum of its product's changes by as much.
LotChanged(rows, after, p, l, q) ==
  /\ rows \in [Goods \X StockLots -> Nat \cup {NoRow}]
  /\ Pieces(rows[<<p, l>>]) + q \in Nat
  /\ after = [rows EXCEPT ![<<p, l>>] = Pieces(rows[<<p, l>>]) + q]

LEMMA PiecesType == \A x \in Nat \cup {NoRow} : Pieces(x) \in Nat /\ (x \in Nat => Pieces(x) = x)
<1>1. \A x \in Nat : x # NoRow
  BY StockConstants
<1> QED BY <1>1 DEF Pieces

LEMMA OneLotChanged ==
  ASSUME NEW p \in Goods, NEW l \in StockLots, NEW q \in Int,
         NEW rows, NEW after, LotChanged(rows, after, p, l, q)
  PROVE  /\ after \in [Goods \X StockLots -> Nat \cup {NoRow}]
         /\ OfLots(after, p) = OfLots(rows, p) + q
         /\ OfLots(after, p) \in Nat /\ OfLots(rows, p) \in Nat
         /\ \A r \in Goods \ {p} : OfLots(after, r) = OfLots(rows, r)
<1> DEFINE n == Pieces(rows[<<p, l>>]) + q
           f(r) == [m \in StockLots |-> Pieces(rows[<<r, m>>])]
           g(r) == [m \in StockLots |-> Pieces(after[<<r, m>>])]
<1>1. /\ rows \in [Goods \X StockLots -> Nat \cup {NoRow}]
      /\ after \in [Goods \X StockLots -> Nat \cup {NoRow}]
      /\ n \in Nat /\ after[<<p, l>>] = n
      /\ \A r \in Goods, m \in StockLots : r # p \/ m # l => after[<<r, m>>] = rows[<<r, m>>]
  <2>1. n \in Nat
    BY DEF LotChanged
  <2>2. rows \in [Goods \X StockLots -> Nat \cup {NoRow}] /\ after = [rows EXCEPT ![<<p, l>>] = n]
    BY DEF LotChanged
  <2> HIDE DEF n
  <2>3. <<p, l>> \in Goods \X StockLots
    OBVIOUS
  <2> QED BY <2>1, <2>2, <2>3
<1>2. n = f(p)[l] + q
  OBVIOUS
<1>3. \A r \in Goods, m \in StockLots :
        /\ f(r)[m] = Pieces(rows[<<r, m>>]) /\ g(r)[m] = Pieces(after[<<r, m>>])
        /\ rows[<<r, m>>] \in Nat \cup {NoRow} /\ after[<<r, m>>] \in Nat \cup {NoRow}
  BY <1>1
<1>4. \A r \in Goods : OfLots(rows, r) = SumFunctionOnSet(f(r), StockLots)
                     /\ OfLots(after, r) = SumFunctionOnSet(g(r), StockLots)
  BY DEF OfLots
<1> HIDE DEF f, g, n
<1>5. \A r \in Goods, m \in StockLots : f(r)[m] \in Nat /\ g(r)[m] \in Nat
  BY <1>3, PiecesType
<1>6. \A r \in Goods, m \in StockLots : r # p \/ m # l => g(r)[m] = f(r)[m]
  <2> TAKE r \in Goods, m \in StockLots
  <2> HAVE r # p \/ m # l
  <2>1. after[<<r, m>>] = rows[<<r, m>>]
    BY <1>1
  <2>2. f(r)[m] = Pieces(rows[<<r, m>>]) /\ g(r)[m] = Pieces(after[<<r, m>>])
    BY <1>3
  <2> QED BY <2>1, <2>2
<1>7. g(p)[l] = f(p)[l] + q
  <2>1. g(p)[l] = Pieces(n)
    BY <1>1, <1>3
  <2>2. Pieces(n) = n
    BY <1>1, PiecesType
  <2> QED BY <1>2, <2>1, <2>2
<1>8. \A r \in Goods \ {p} : SumFunctionOnSet(g(r), StockLots) = SumFunctionOnSet(f(r), StockLots)
  <2> TAKE r \in Goods \ {p}
  <2> DEFINE a == f(r)
             b == g(r)
  <2>1. \A m \in StockLots : b[m] = a[m]
    BY <1>6
  <2> HIDE DEF a, b
  <2>2. SumFunctionOnSet(b, StockLots) = SumFunctionOnSet(a, StockLots)
    BY <2>1, StockConstants, SumSame
  <2> QED BY <2>2 DEF a, b
<1>9. /\ SumFunctionOnSet(g(p), StockLots) = SumFunctionOnSet(f(p), StockLots) + g(p)[l] - f(p)[l]
      /\ SumFunctionOnSet(g(p), StockLots) \in Nat /\ SumFunctionOnSet(f(p), StockLots) \in Nat
  <2> DEFINE a == f(p)
             b == g(p)
  <2>1. \A m \in StockLots : a[m] \in Nat /\ b[m] \in Nat
    BY <1>5
  <2>2. \A m \in StockLots : m # l => b[m] = a[m]
    BY <1>6
  <2> HIDE DEF a, b
  <2>3. \A m \in StockLots : a[m] \in Int /\ b[m] \in Int /\ (m # l => b[m] = a[m])
    BY <2>1, <2>2
  <2>4. SumFunctionOnSet(b, StockLots) = SumFunctionOnSet(a, StockLots) + b[l] - a[l]
    BY <2>3, StockConstants, SumChange
  <2>5. SumFunctionOnSet(b, StockLots) \in Nat /\ SumFunctionOnSet(a, StockLots) \in Nat
    BY <2>1, StockConstants, SumNat
  <2> QED BY <2>4, <2>5 DEF a, b
<1>10. OfLots(after, p) = OfLots(rows, p) + q
  <2>1. f(p)[l] \in Nat
    BY <1>5
  <2> QED BY <1>4, <1>7, <1>9, <2>1
<1>11. \A r \in Goods \ {p} : OfLots(after, r) = OfLots(rows, r)
  BY <1>4, <1>8
<1> QED BY <1>1, <1>4, <1>9, <1>10, <1>11

\* An adjustment waits for the locks, and books all three.
LEMMA AdjustInv ==
  ASSUME StockInv, NEW p \in Goods, NEW l \in StockLots, NEW q \in {-1, 1}, Adjust(p, l, q)
  PROVE  StockInv'
<1>1. /\ ~Held(p) /\ Pieces(lotStock[<<p, l>>]) + q \in 0..MaxStock
      /\ inventory' = [inventory EXCEPT ![p] = Pieces(@) + q]
      /\ lotStock' = [lotStock EXCEPT ![<<p, l>>] = Pieces(@) + q]
      /\ moved' = [moved EXCEPT ![p] = Pieces(@) + q]
      /\ UNCHANGED take
  BY DEF Adjust
<1>2. /\ inventory \in [Goods -> Nat \cup {NoRow}]
      /\ lotStock \in [Goods \X StockLots -> Nat \cup {NoRow}]
      /\ moved \in [Goods -> Nat \cup {NoRow}]
  BY DEF StockInv, StockTypeOK
<1>3. Pieces(lotStock[<<p, l>>]) + q \in Nat /\ q \in Int
  BY <1>1
<1>4. /\ lotStock' \in [Goods \X StockLots -> Nat \cup {NoRow}]
      /\ OfLots(lotStock', p) = OfLots(lotStock, p) + q
      /\ OfLots(lotStock', p) \in Nat /\ OfLots(lotStock, p) \in Nat
      /\ \A r \in Goods \ {p} : OfLots(lotStock', r) = OfLots(lotStock, r)
  <2>1. lotStock' = [lotStock EXCEPT ![<<p, l>>] = Pieces(lotStock[<<p, l>>]) + q]
    BY <1>1
  <2>2. LotChanged(lotStock, lotStock', p, l, q)
    BY <1>2, <1>3, <2>1 DEF LotChanged
  <2> QED BY <1>3, <2>2, OneLotChanged
<1>5. \A r \in Goods : Pieces(inventory[r]) = Pieces(moved[r]) /\ Pieces(inventory[r]) = OfLots(lotStock, r)
  BY DEF StockInv, FirstStockBooked, OfLots
<1>6. /\ inventory' \in [Goods -> Nat \cup {NoRow}] /\ moved' \in [Goods -> Nat \cup {NoRow}]
      /\ inventory'[p] = OfLots(lotStock', p) /\ moved'[p] = OfLots(lotStock', p)
      /\ \A r \in Goods \ {p} : inventory'[r] = inventory[r] /\ moved'[r] = moved[r]
  BY <1>1, <1>2, <1>4, <1>5
<1>7. Pieces(OfLots(lotStock', p)) = OfLots(lotStock', p)
  BY <1>4, PiecesType
<1>8. \A r \in Goods : Pieces(inventory'[r]) = Pieces(moved'[r]) /\ Pieces(inventory'[r]) = OfLots(lotStock', r)
  BY <1>4, <1>5, <1>6, <1>7
<1>9. FirstStockBooked'
  BY <1>8 DEF FirstStockBooked, OfLots
<1>10. \A s \in Stocktakers : take[s] # NoTake => p \notin take[s].locked /\ take[s].locked \subseteq Goods
  BY <1>1 DEF Held, StockInv, TakesTyped, Take
<1>11. TakesTyped' /\ RowsOnce' /\ LocksHold'
  <2>1. \A s \in Stocktakers : take'[s] # NoTake => \A r \in take[s].locked : inventory'[r] = inventory[r]
    BY <1>1, <1>6, <1>10
  <2> QED BY <1>1, <2>1, LocksStay DEF StockInv, TakesTyped
<1> QED BY <1>4, <1>6, <1>9, <1>11 DEF StockInv, StockTypeOK

\* What an upload books of a product, and the LOTs' quantities with it.
BookingOf(t, p) == {i \in BookedRows(t) : t.sheet[i].product = p}

BookedPieces(t, p) == SumFunctionOnSet([i \in BookedRows(t) |-> t.sheet[i].qty], BookingOf(t, p))

AfterBooking(t) ==
  [x \in Goods \X StockLots |->
     IF \E i \in BookedRows(t) : x = <<t.sheet[i].product, t.sheet[i].lot>>
     THEN (CHOOSE r \in {t.sheet[i] : i \in BookedRows(t)} : x = <<r.product, r.lot>>).qty
     ELSE lotStock[x]]

\* The rows booked are of one LOT each, for something, and the LOT is empty.
LEMMA BookedRowsType ==
  ASSUME StockInv, NEW s \in Stocktakers, take[s] # NoTake
  PROVE  /\ IsFiniteSet(BookedRows(take[s]))
         /\ \A i \in BookedRows(take[s]) :
              /\ take[s].sheet[i].product \in Goods /\ take[s].sheet[i].lot \in StockLots
              /\ take[s].sheet[i].qty \in Nat
              /\ Pieces(lotStock[<<take[s].sheet[i].product, take[s].sheet[i].lot>>]) = 0
         /\ \A i, j \in BookedRows(take[s]) :
              take[s].sheet[i].product = take[s].sheet[j].product /\ take[s].sheet[i].lot = take[s].sheet[j].lot
              => i = j
<1> DEFINE t == take[s]
           booked == BookedRows(t)
<1>1. t.sheet \in FirstStock /\ t.rows \subseteq DOMAIN t.sheet
  BY DEF StockInv, TakesTyped, Take, RowsOnce
<1>2. \A i, j \in t.rows : t.sheet[i].product = t.sheet[j].product /\ t.sheet[i].lot = t.sheet[j].lot => i = j
  BY DEF StockInv, RowsOnce
<1>3. /\ booked \subseteq t.rows
      /\ \A i \in booked : /\ t.sheet[i].qty > 0
                           /\ Pieces(lotStock[<<t.sheet[i].product, t.sheet[i].lot>>]) = 0
  BY DEF BookedRows
<1> HIDE DEF t, booked
<1>4. \A i \in booked : t.sheet[i].product \in Goods /\ t.sheet[i].lot \in StockLots /\ t.sheet[i].qty \in Int
  BY <1>1, <1>3, SheetType
<1>5. \A i \in booked : t.sheet[i].qty \in Nat
  <2> TAKE i \in booked
  <2> DEFINE q == t.sheet[i].qty
  <2>1. q \in Int /\ q > 0
    BY <1>3, <1>4
  <2> HIDE DEF q
  <2>2. q \in Nat
    BY <2>1
  <2> QED BY <2>2 DEF q
<1>6. IsFiniteSet(booked)
  <2>1. booked \subseteq DOMAIN t.sheet
    BY <1>1, <1>3
  <2> QED BY <1>1, <2>1, SheetType, FS_Subset
<1>7. \A i, j \in booked : t.sheet[i].product = t.sheet[j].product /\ t.sheet[i].lot = t.sheet[j].lot => i = j
  BY <1>2, <1>3
<1> QED BY <1>3, <1>4, <1>5, <1>6, <1>7 DEF t, booked

\* A LOT that is booked holds what its row says, every other what it held.
LEMMA LotsBooked ==
  ASSUME StockInv, NEW s \in Stocktakers, take[s] # NoTake, NEW p \in Goods
  PROVE  /\ \A i \in BookingOf(take[s], p) :
              AfterBooking(take[s])[<<p, take[s].sheet[i].lot>>] = take[s].sheet[i].qty
         /\ \A l \in StockLots : (\A i \in BookingOf(take[s], p) : take[s].sheet[i].lot # l) =>
              AfterBooking(take[s])[<<p, l>>] = lotStock[<<p, l>>]
<1> DEFINE t == take[s]
           booked == BookedRows(t)
           after == AfterBooking(t)
           mine == BookingOf(t, p)
<1>1. /\ \A i \in booked : t.sheet[i].product \in Goods /\ t.sheet[i].lot \in StockLots
      /\ \A i, j \in booked : t.sheet[i].product = t.sheet[j].product /\ t.sheet[i].lot = t.sheet[j].lot => i = j
  BY BookedRowsType
<1>2. after = [x \in Goods \X StockLots |->
        IF \E i \in booked : x = <<t.sheet[i].product, t.sheet[i].lot>>
        THEN (CHOOSE r \in {t.sheet[i] : i \in booked} : x = <<r.product, r.lot>>).qty
        ELSE lotStock[x]]
  BY DEF AfterBooking
<1>3. mine = {i \in booked : t.sheet[i].product = p}
  BY DEF BookingOf
<1> HIDE DEF t, booked, after, mine
<1>4. ASSUME NEW i \in mine PROVE after[<<p, t.sheet[i].lot>>] = t.sheet[i].qty
  <2> DEFINE x == <<p, t.sheet[i].lot>>
             R == {t.sheet[j] : j \in booked}
  <2>1. i \in booked /\ t.sheet[i].product = p /\ x \in Goods \X StockLots
    BY <1>1, <1>3
  <2>2. t.sheet[i] \in R /\ x = <<t.sheet[i].product, t.sheet[i].lot>>
    BY <2>1
  <2>3. \A r \in R : x = <<r.product, r.lot>> => r = t.sheet[i]
    BY <1>1, <2>1
  <2>4. after[x] = (CHOOSE r \in R : x = <<r.product, r.lot>>).qty
    BY <1>2, <2>1, <2>2
  <2> HIDE DEF R, x
  <2>5. (CHOOSE r \in R : x = <<r.product, r.lot>>) = t.sheet[i]
    BY <2>2, <2>3
  <2> QED BY <2>4, <2>5 DEF x
<1>5. ASSUME NEW l \in StockLots, \A i \in mine : t.sheet[i].lot # l
      PROVE  after[<<p, l>>] = lotStock[<<p, l>>]
  BY <1>2, <1>3, <1>5
<1> QED BY <1>4, <1>5 DEF t, after, mine

\* What is added to a product's LOTs is the sum of its rows that are booked.
LEMMA BookedSum ==
  ASSUME StockInv, NEW s \in Stocktakers, take[s] # NoTake, NEW p \in Goods
  PROVE  /\ BookedPieces(take[s], p) \in Nat
         /\ BookingOf(take[s], p) = {} => BookedPieces(take[s], p) = 0
         /\ OfLots(AfterBooking(take[s]), p) = OfLots(lotStock, p) + BookedPieces(take[s], p)
         /\ OfLots(lotStock, p) \in Nat
         /\ \A l \in StockLots : AfterBooking(take[s])[<<p, l>>] \in Nat \cup {NoRow}
<1> DEFINE t == take[s]
           booked == BookedRows(t)
           mine == BookingOf(t, p)
           after == AfterBooking(t)
           f == [i \in booked |-> t.sheet[i].qty]
           key == [i \in mine |-> t.sheet[i].lot]
           a == [l \in StockLots |-> Pieces(lotStock[<<p, l>>])]
           b == [l \in StockLots |-> Pieces(after[<<p, l>>])]
           d == [l \in StockLots |-> b[l] - a[l]]
<1>1. /\ IsFiniteSet(booked)
      /\ \A i \in booked : /\ t.sheet[i].product \in Goods /\ t.sheet[i].lot \in StockLots
                           /\ t.sheet[i].qty \in Nat
                           /\ Pieces(lotStock[<<t.sheet[i].product, t.sheet[i].lot>>]) = 0
      /\ \A i, j \in booked : t.sheet[i].product = t.sheet[j].product /\ t.sheet[i].lot = t.sheet[j].lot => i = j
  BY BookedRowsType
<1>2. /\ \A i \in mine : after[<<p, t.sheet[i].lot>>] = t.sheet[i].qty
      /\ \A l \in StockLots : (\A i \in mine : t.sheet[i].lot # l) => after[<<p, l>>] = lotStock[<<p, l>>]
  BY LotsBooked
<1>3. \A l \in StockLots : lotStock[<<p, l>>] \in Nat \cup {NoRow}
  BY DEF StockInv, StockTypeOK
<1>4. mine \subseteq booked /\ \A i \in mine : t.sheet[i].product = p
  BY DEF BookingOf
<1>5. /\ BookedPieces(t, p) = SumFunctionOnSet(f, mine)
      /\ OfLots(after, p) = SumFunctionOnSet(b, StockLots)
      /\ OfLots(lotStock, p) = SumFunctionOnSet(a, StockLots)
  BY DEF BookedPieces, OfLots
<1> HIDE DEF booked, mine, after
<1>6. /\ \A i \in mine : f[i] = t.sheet[i].qty /\ key[i] = t.sheet[i].lot
      /\ \A l \in StockLots : /\ a[l] = Pieces(lotStock[<<p, l>>]) /\ b[l] = Pieces(after[<<p, l>>])
                              /\ d[l] = b[l] - a[l]
  BY <1>4
<1> HIDE DEF t, f, key, a, b, d
<1>7. \A l \in StockLots : after[<<p, l>>] \in Nat \cup {NoRow}
  BY <1>1, <1>2, <1>3, <1>4
<1>8. \A l \in StockLots : a[l] \in Nat /\ b[l] \in Nat
  BY <1>3, <1>6, <1>7, PiecesType
<1>9. \A l \in StockLots : d[l] \in Int /\ b[l] = a[l] + d[l]
  <2> TAKE l \in StockLots
  <2>1. a[l] \in Nat /\ b[l] \in Nat
    BY <1>8
  <2>2. d[l] = b[l] - a[l]
    BY <1>6
  <2> QED BY <2>1, <2>2
<1>10. \A i \in mine : key[i] \in StockLots /\ f[i] \in Nat /\ d[key[i]] = f[i]
  <2> TAKE i \in mine
  <2>1. i \in booked /\ t.sheet[i].product = p /\ t.sheet[i].lot \in StockLots /\ t.sheet[i].qty \in Nat
    BY <1>1, <1>4
  <2>2. b[t.sheet[i].lot] = t.sheet[i].qty
    BY <1>2, <1>6, <2>1, PiecesType
  <2>3. a[t.sheet[i].lot] = 0
    BY <1>1, <1>6, <2>1
  <2>4. d[t.sheet[i].lot] = t.sheet[i].qty
    <3>1. d[t.sheet[i].lot] = b[t.sheet[i].lot] - a[t.sheet[i].lot]
      BY <1>6, <2>1
    <3> DEFINE q == t.sheet[i].qty
    <3>2. q \in Nat /\ d[t.sheet[i].lot] = q - 0
      BY <2>1, <2>2, <2>3, <3>1
    <3> HIDE DEF q
    <3>3. q - 0 = q
      BY <3>2
    <3> QED BY <3>2, <3>3 DEF q
  <2> QED BY <1>6, <2>1, <2>4
<1>11. \A i, j \in mine : key[i] = key[j] => i = j
  BY <1>1, <1>4, <1>6
<1>12. \A l \in StockLots : (\A i \in mine : key[i] # l) => d[l] = 0
  <2> SUFFICES ASSUME NEW l \in StockLots, \A i \in mine : key[i] # l PROVE d[l] = 0
    OBVIOUS
  <2>1. b[l] = a[l]
    BY <1>2, <1>6
  <2>2. a[l] \in Nat /\ d[l] = b[l] - a[l]
    BY <1>6, <1>8
  <2> QED BY <2>1, <2>2
<1>13. IsFiniteSet(mine) /\ IsFiniteSet(StockLots)
  BY <1>1, <1>4, StockConstants, FS_Subset
<1>14. SumFunctionOnSet(d, StockLots) = SumFunctionOnSet(f, mine)
  <2>1. \A i \in mine : f[i] \in Int /\ key[i] \in StockLots /\ d[key[i]] = f[i]
    BY <1>10
  <2> QED BY <1>11, <1>12, <1>13, <2>1, SumByKey
<1>15. SumFunctionOnSet(b, StockLots) = SumFunctionOnSet(a, StockLots) + SumFunctionOnSet(d, StockLots)
  <2>1. \A l \in StockLots : a[l] \in Int /\ d[l] \in Int /\ b[l] = a[l] + d[l]
    BY <1>8, <1>9
  <2> QED BY <1>13, <2>1, SumLinear
<1>16. SumFunctionOnSet(f, mine) \in Nat
  BY <1>10, <1>13, SumNat
<1>17. SumFunctionOnSet(a, StockLots) \in Nat
  BY <1>8, <1>13, SumNat
<1>18. mine = {} => SumFunctionOnSet(f, mine) = 0
  BY SumOfNone
<1> QED BY <1>5, <1>7, <1>14, <1>15, <1>16, <1>17, <1>18 DEF t, mine, after

\* The commit of an upload books what it has locked, or what was not there.
LEMMA CommitStock ==
  ASSUME StockInv, NEW s \in Stocktakers, CommitFirstStock(s)
  PROVE  StockInv'
<1> DEFINE t == take[s]
           booking(p) == BookingOf(t, p)
           sum(p) == BookedPieces(t, p)
           new == {p \in Goods : t.seen[p] = NoRow /\ \E i \in t.rows : t.sheet[i].product = p /\ t.sheet[i].qty > 0}
           after == AfterBooking(t)
<1>1. /\ t # NoTake /\ t.step = "WRITE" /\ take' = [take EXCEPT ![s] = NoTake]
      /\ IF \E p \in new : inventory[p] # NoRow
         THEN UNCHANGED <<inventory, lotStock, moved>>
         ELSE /\ inventory' = [p \in Goods |->
                   IF p \in new \/ booking(p) # {} THEN Pieces(t.seen[p]) + sum(p) ELSE inventory[p]]
              /\ lotStock' = after
              /\ moved' = [p \in Goods |-> IF booking(p) # {} THEN Pieces(moved[p]) + sum(p) ELSE moved[p]]
  BY Zenon DEF CommitFirstStock, BookingOf, BookedPieces, AfterBooking
<1>2. DOMAIN take' = Stocktakers /\ \A v \in Stocktakers : take'[v] # NoTake => v # s /\ take'[v] = take[v]
  BY <1>1 DEF StockInv, TakesTyped
<1>3. CASE \E p \in new : inventory[p] # NoRow
  <2>1. UNCHANGED <<inventory, lotStock, moved>>
    BY <1>1, <1>3
  <2>2. TakesTyped' /\ RowsOnce' /\ LocksHold'
    BY <1>2, <2>1, LocksStay
  <2> QED BY <2>1, <2>2 DEF StockInv, StockTypeOK, FirstStockBooked
<1>4. CASE \A p \in new : inventory[p] = NoRow
  <2>1. /\ inventory' = [p \in Goods |->
             IF p \in new \/ booking(p) # {} THEN Pieces(t.seen[p]) + sum(p) ELSE inventory[p]]
        /\ lotStock' = after
        /\ moved' = [p \in Goods |-> IF booking(p) # {} THEN Pieces(moved[p]) + sum(p) ELSE moved[p]]
    BY <1>1, <1>4
  <2>2. \A p \in Goods : /\ sum(p) \in Nat
                         /\ booking(p) = {} => sum(p) = 0
                         /\ OfLots(after, p) = OfLots(lotStock, p) + sum(p)
                         /\ OfLots(lotStock, p) \in Nat
                         /\ \A l \in StockLots : after[<<p, l>>] \in Nat \cup {NoRow}
    BY <1>1, BookedSum, Zenon
  <2>3. /\ t \in Take /\ t.sheet \in FirstStock /\ t.rows \subseteq DOMAIN t.sheet
        /\ t.locked = {p \in ProductsOf(t) : t.seen[p] # NoRow}
        /\ \A p \in t.locked : t.seen[p] = inventory[p] /\ inventory[p] # NoRow
    BY <1>1 DEF StockInv, TakesTyped, Take, RowsOnce, LocksHold
  <2>4. \A p \in Goods : booking(p) # {} => p \in new \/ p \in t.locked
    <3> SUFFICES ASSUME NEW p \in Goods, NEW i \in booking(p), p \notin new PROVE p \in t.locked
      OBVIOUS
    <3>1. i \in t.rows /\ t.sheet[i].product = p /\ t.sheet[i].qty > 0
      BY DEF BookingOf, BookedRows
    <3>2. t.seen[p] # NoRow
      BY <3>1
    <3> QED BY <2>3, <3>1, <3>2 DEF ProductsOf
  <2>5. \A p \in new : t.seen[p] = inventory[p]
    BY <1>4
  <2>6. \A p \in Goods : /\ Pieces(inventory[p]) = OfLots(lotStock, p)
                         /\ Pieces(moved[p]) = OfLots(lotStock, p)
    BY DEF StockInv, FirstStockBooked, OfLots
  <2> HIDE DEF booking, sum, new, after
  <2>7. \A p \in Goods :
          /\ inventory'[p] = IF p \in new \/ booking(p) # {} THEN OfLots(after, p) ELSE inventory[p]
          /\ moved'[p] = IF booking(p) # {} THEN OfLots(after, p) ELSE moved[p]
          /\ booking(p) = {} => OfLots(after, p) = OfLots(lotStock, p)
    <3> TAKE p \in Goods
    <3>1. p \in new \/ booking(p) # {} => Pieces(t.seen[p]) = OfLots(lotStock, p)
      BY <2>3, <2>4, <2>5, <2>6
    <3>2. Pieces(moved[p]) = OfLots(lotStock, p)
      BY <2>6
    <3>3. /\ inventory'[p] = IF p \in new \/ booking(p) # {} THEN Pieces(t.seen[p]) + sum(p) ELSE inventory[p]
          /\ moved'[p] = IF booking(p) # {} THEN Pieces(moved[p]) + sum(p) ELSE moved[p]
      BY <2>1
    <3>4. OfLots(after, p) = OfLots(lotStock, p) + sum(p) /\ (booking(p) = {} => sum(p) = 0)
          /\ OfLots(lotStock, p) \in Nat /\ sum(p) \in Nat
      BY <2>2, Zenon
    <3> QED BY <3>1, <3>2, <3>3, <3>4
  <2>8. \A p \in Goods : OfLots(after, p) \in Nat /\ Pieces(OfLots(after, p)) = OfLots(after, p)
    <3> TAKE p \in Goods
    <3>1. OfLots(after, p) \in Nat
      <4> DEFINE x == OfLots(lotStock, p)
                 y == sum(p)
      <4>1. x \in Nat /\ y \in Nat /\ OfLots(after, p) = x + y
        BY <2>2, Zenon
      <4> HIDE DEF x, y
      <4> QED BY <4>1
    <3> QED BY <3>1, PiecesType
  <2>9. StockTypeOK'
    <3>1. lotStock' \in [Goods \X StockLots -> Nat \cup {NoRow}]
      <4>1. \A p \in Goods, l \in StockLots : after[<<p, l>>] \in Nat \cup {NoRow}
        BY <2>2, Zenon
      <4>2. after = [x \in Goods \X StockLots |-> after[x]]
        BY DEF after, AfterBooking
      <4>3. \A x \in Goods \X StockLots : after[x] \in Nat \cup {NoRow}
        BY <4>1
      <4> QED BY <2>1, <4>2, <4>3
    <3>2. inventory' \in [Goods -> Nat \cup {NoRow}] /\ moved' \in [Goods -> Nat \cup {NoRow}]
      BY <2>1, <2>7, <2>8 DEF StockInv, StockTypeOK
    <3> QED BY <3>1, <3>2 DEF StockTypeOK
  <2>10. \A p \in Goods : Pieces(inventory'[p]) = Pieces(moved'[p]) /\ Pieces(inventory'[p]) = OfLots(lotStock', p)
    BY <2>1, <2>6, <2>7, <2>8
  <2>11. FirstStockBooked'
    BY <2>10 DEF FirstStockBooked, OfLots
  <2>12. TakesTyped' /\ RowsOnce' /\ LocksHold'
    <3>1. ASSUME NEW v \in Stocktakers, take'[v] # NoTake, NEW p \in take[v].locked
          PROVE  inventory'[p] = inventory[p]
      <4>1. v # s /\ take[v] # NoTake
        BY <1>2, <3>1
      <4>2. inventory[p] # NoRow /\ p \notin t.locked /\ p \in Goods
        BY <1>1, <4>1 DEF StockInv, LocksHold, TakesTyped, Take
      <4> QED BY <1>4, <2>4, <2>7, <4>2
    <3> QED BY <1>2, <3>1, LocksStay
  <2> QED BY <2>9, <2>11, <2>12 DEF StockInv
<1> QED BY <1>3, <1>4

\* The books of a product agree in every behaviour, whatever comes between the
\* look at its history, the lock and the booking.
THEOREM FirstStockIsBooked == StockSpec => [](StockTypeOK /\ FirstStockBooked)
<1>1. StockInv /\ [StockNext]_stockVars => StockInv'
  <2> SUFFICES ASSUME StockInv, [StockNext]_stockVars PROVE StockInv'
    OBVIOUS
  <2>1. CASE UNCHANGED stockVars
    <3>1. UNCHANGED <<inventory, lotStock, moved, take>>
      BY <2>1 DEF stockVars
    <3>2. DOMAIN take' = Stocktakers
      BY <3>1 DEF StockInv, TakesTyped
    <3>3. TakesTyped' /\ RowsOnce' /\ LocksHold'
      BY <3>1, <3>2, LocksStay
    <3> QED BY <3>1, <3>3 DEF StockInv, StockTypeOK, FirstStockBooked
  <2>2. CASE StockNext
    BY <2>2, BeginStock, LockStockInv, CommitStock, AdjustInv, Zenon DEF StockNext
  <2> QED BY <2>1, <2>2
<1>2. StockInv => StockTypeOK /\ FirstStockBooked
  BY DEF StockInv
<1> QED BY <1>1, <1>2, InitStock, PTL DEF StockSpec

------------------------------------------------------------------------------
(* The invariant of the cost groups.                                       *)

ShareParts == UNION {[Items(T) -> Int \cup {NoAmount}] : T \in SUBSET WorkGroups}

CostRow ==
  [process : CostProcesses, month : Months, number : Nat, status : {"DRAFT", "CLOSED", "CANCELED"},
   amounts : [Kinds -> Amounts \cup {NoAmount}], targets : SUBSET WorkGroups, share : [Kinds -> ShareParts]]

\* A row's work groups may be charged for its process, and have areas to share
\* by; every LOT of theirs has its part.
RowSound(row) ==
  /\ row \in CostRow
  /\ row.targets # {}
  /\ \A g \in row.targets : Chargeable(row.process, g)
  /\ \A x \in Items(row.targets) : AreaOf(x) > 0
  /\ \A k \in Kinds : row.share[k] \in [Items(row.targets) -> Int \cup {NoAmount}]

CostsSound == costs \in Seq(CostRow) /\ \A c \in CostIds : RowSound(costs[c])

\* What requests are going to write is for the work groups of the row it is for.
RequestsSound ==
  /\ DOMAIN request = CostSessions
  /\ \A s \in CostSessions : request[s] # NoRequest =>
       /\ RowSound(request[s].wanted)
       /\ request[s].cost # 0 =>
            /\ request[s].cost \in CostIds
            /\ request[s].wanted.targets = costs[request[s].cost].targets

RowsInv == CostsSound /\ RequestsSound

\* The parts of a row add up to its amounts.
AddsUp(row) ==
  \A k \in Kinds :
    IF row.amounts[k] = NoAmount
    THEN \A x \in Items(row.targets) : row.share[k][x] = NoAmount
    ELSE /\ \A x \in Items(row.targets) : row.share[k][x] \in Int
         /\ SumFunctionOnSet(row.share[k], Items(row.targets)) = Units(row.amounts[k])

RowsAddUp == \A c \in CostIds : AddsUp(costs[c]) /\ NotNegative(costs[c].share)

\* The cost groups of a process that count have no work group in common.
RowsApart ==
  \A c, d \in CostIds :
    c # d /\ Active(c) /\ Active(d) /\ costs[c].process = costs[d].process
    => costs[c].targets \cap costs[d].targets = {}

\* Where one request follows the other, what a request has read is still there.
RequestsFresh ==
  \A s \in CostSessions : request[s] # NoRequest =>
    /\ AddsUp(request[s].wanted)
    /\ request[s].cost = 0 => \A g \in request[s].wanted.targets : ~Registered(request[s].wanted.process, g)
    /\ request[s].cost # 0 =>
         /\ request[s].seen = costs[request[s].cost]
         /\ request[s].seen.status = "CANCELED" => request[s].wanted.status = "CANCELED"

ChargesInv == RowsInv /\ RowsAddUp /\ RowsApart /\ RequestsFresh

LEMMA GreatestMember ==
  ASSUME NEW S \in SUBSET Nat, IsFiniteSet(S), S # {}
  PROVE  Max(S) \in S
BY GreatestNat DEF Max

\* There are finitely many LOTs of work groups, and every work group has some.
LEMMA ItemsType ==
  ASSUME NEW T \in SUBSET WorkGroups
  PROVE  /\ IsFiniteSet(T)
         /\ IsFiniteSet(Items(T))
         /\ \A x \in Items(T) : x[1] \in T /\ AreaOf(x) \in Nat
         /\ \A g \in T : DOMAIN Areas[g] # {} /\ \A i \in DOMAIN Areas[g] : <<g, i>> \in Items(T)
<1> DEFINE slice == [g \in T |-> {g} \X DOMAIN Areas[g]]
           f == [x \in Items(T) |-> 0]
           h == [g \in T |-> SumFunctionOnSet(f, slice[g])]
<1>1. IsFiniteSet(T)
  BY CostAssumption, FS_Subset
<1>2. Items(T) = UNION {slice[g] : g \in T}
  BY DEF Items
<1>3. \A g \in T : IsFiniteSet(slice[g])
  <2> TAKE g \in T
  <2>1. IsFiniteSet({g}) /\ IsFiniteSet(DOMAIN Areas[g])
    BY CostAssumption, FS_Singleton
  <2>2. IsFiniteSet({g} \X DOMAIN Areas[g])
    BY <2>1, FS_Product
  <2> QED BY <2>2
<1>4. \A g, j \in T : g # j => slice[g] \cap slice[j] = {}
  OBVIOUS
<1>5. \A g \in T : \A x \in slice[g] : f[x] \in Int
  BY <1>2
<1>6. \A g \in T : h[g] = SumFunctionOnSet(f, slice[g])
  OBVIOUS
<1>7. IsFiniteSet(Items(T))
  <2>1. /\ \A g \in T : slice[g] \subseteq Items(T)
        /\ \A x \in Items(T) : \E g \in T : x \in slice[g]
    BY <1>2
  <2> HIDE DEF slice, f, h
  <2> QED BY <1>1, <1>3, <1>4, <1>5, <1>6, <2>1, SumOfParts
<1>8. \A x \in Items(T) : x[1] \in T /\ AreaOf(x) \in Nat
  <2> TAKE x \in Items(T)
  <2>1. x[1] \in T /\ x[2] \in DOMAIN Areas[x[1]]
    BY DEF Items
  <2> QED BY <2>1, CostAssumption DEF AreaOf
<1>9. \A g \in T : DOMAIN Areas[g] # {} /\ \A i \in DOMAIN Areas[g] : <<g, i>> \in Items(T)
  BY CostAssumption DEF Items
<1> QED BY <1>1, <1>7, <1>8, <1>9

\* Work groups whose LOTs have an area to share by.
Payable(T) == T \in SUBSET WorkGroups /\ T # {} /\ \A x \in Items(T) : AreaOf(x) > 0

\* A rounded part is a number, as there is an area to divide by.
LEMMA RoundedShareType ==
  ASSUME NEW T, Payable(T), NEW amount \in Amounts, NEW x \in Items(T)
  PROVE  Units(amount) \in Int /\ RoundedShare(Units(amount), x, Items(T)) \in Int
<1>1. amount \in Nat /\ UnitParts \in Nat \ {0}
  BY CostAssumption
<1>2. Units(amount) \in Int
  <2> DEFINE a == 2 * amount + UnitParts
             b == 2 * UnitParts
  <2>1. a \in Nat /\ b \in Nat /\ b > 0
    BY <1>1
  <2> HIDE DEF a, b
  <2>2. a \div b \in Int
    BY <2>1
  <2> QED BY <2>2 DEF a, b, Units
<1>3. Total(Items(T)) \in Nat /\ Total(Items(T)) > 0
  <2> DEFINE f == [y \in Items(T) |-> AreaOf(y)]
             S == Items(T)
  <2>1. IsFiniteSet(S) /\ \A y \in S : f[y] \in Nat /\ f[y] > 0
    BY ItemsType DEF Payable
  <2>2. S # {}
    OBVIOUS
  <2>3. Total(S) = SumFunctionOnSet(f, S)
    BY DEF Total
  <2> HIDE DEF f, S
  <2>4. SumFunctionOnSet(f, S) \in Nat /\ SumFunctionOnSet(f, S) > 0
    BY <2>1, <2>2, SumPositive
  <2> QED BY <2>3, <2>4 DEF S
<1>4. RoundedShare(Units(amount), x, Items(T)) \in Int
  <2> DEFINE u == Units(amount)
             a == AreaOf(x)
             t == Total(Items(T))
             n == 2 * u * a + t
             d == 2 * t
  <2>1. u \in Int /\ a \in Int /\ t \in Nat /\ t > 0
    BY <1>2, <1>3, ItemsType DEF Payable
  <2>2. RoundedShare(u, x, Items(T)) = n \div d
    BY DEF RoundedShare
  <2> HIDE DEF u, a, t
  <2>3. 2 * u \in Int
    BY <2>1
  <2>4. 2 * u * a \in Int
    BY <2>1, <2>3
  <2>5. n \in Int /\ d \in Nat /\ d > 0
    BY <2>1, <2>4
  <2> HIDE DEF n, d
  <2>6. n \div d \in Int
    BY <2>5
  <2> QED BY <2>2, <2>6 DEF u
<1> QED BY <1>2, <1>4

\* What is shared adds up to the amount.
LEMMA ShareAddsUp ==
  ASSUME NEW T, Payable(T), NEW amount \in Amounts \cup {NoAmount}, NEW last \in Items(T),
         NEW share, share = Share(amount, Items(T), last)
  PROVE  /\ share \in [Items(T) -> Int \cup {NoAmount}]
         /\ IF amount = NoAmount
            THEN \A x \in Items(T) : share[x] = NoAmount
            ELSE /\ \A x \in Items(T) : share[x] \in Int
                 /\ SumFunctionOnSet(share, Items(T)) = Units(amount)
<1>1. CASE amount = NoAmount
  BY <1>1 DEF Share
<1>2. CASE amount # NoAmount
  <2> DEFINE S == Items(T)
             u == Units(amount)
             others == [x \in S |-> IF x = last THEN 0 ELSE RoundedShare(u, x, S)]
             n == u - SumFunctionOnSet(others, S)
  <2>1. IsFiniteSet(S) /\ last \in S
    BY ItemsType DEF Payable
  <2>2. u \in Int /\ others \in [S -> Int] /\ others[last] = 0
    BY <1>2, RoundedShareType
  <2>3. share = [others EXCEPT ![last] = n]
    BY <1>2 DEF Share
  <2> HIDE DEF S, u, others
  <2>4. SumFunctionOnSet(others, S) \in Int
    BY <2>1, <2>2, SumType
  <2>5. n \in Int
    BY <2>2, <2>4
  <2>6. n + SumFunctionOnSet(others, S) = u
    BY <2>2, <2>4
  <2> HIDE DEF n
  <2>7. /\ share \in [S -> Int] /\ share[last] = n
        /\ \A x \in S : x # last => share[x] = others[x]
    BY <2>1, <2>2, <2>3, <2>5
  <2>8. SumFunctionOnSet(share, S) = SumFunctionOnSet(others, S) + share[last] - others[last]
    <3>1. \A x \in S : others[x] \in Int /\ share[x] \in Int /\ (x # last => share[x] = others[x])
      BY <2>2, <2>7
    <3> QED BY <2>1, <3>1, SumChange
  <2>9. SumFunctionOnSet(share, S) = u
    BY <2>2, <2>4, <2>5, <2>6, <2>7, <2>8
  <2> QED BY <1>2, <2>7, <2>9 DEF S, u
<1> QED BY <1>1, <1>2

\* A row that is given amounts is shared out anew.
LEMMA SharedAddsUp ==
  ASSUME NEW T, Payable(T), NEW amounts \in [Kinds -> Amounts \cup {NoAmount}], NEW last \in Items(T),
         NEW row, row.amounts = amounts, row.targets = T, row.share = Shared(amounts, Items(T), last)
  PROVE  /\ AddsUp(row)
         /\ row.share \in [Kinds -> ShareParts]
         /\ \A k \in Kinds : row.share[k] \in [Items(T) -> Int \cup {NoAmount}]
<1>1. \A k \in Kinds : row.share[k] = Share(amounts[k], Items(T), last) /\ amounts[k] \in Amounts \cup {NoAmount}
  BY DEF Shared
<1>2. \A k \in Kinds :
        /\ row.share[k] \in [Items(T) -> Int \cup {NoAmount}]
        /\ IF amounts[k] = NoAmount
           THEN \A x \in Items(T) : row.share[k][x] = NoAmount
           ELSE /\ \A x \in Items(T) : row.share[k][x] \in Int
                /\ SumFunctionOnSet(row.share[k], Items(T)) = Units(amounts[k])
  BY <1>1, ShareAddsUp
<1>3. AddsUp(row)
  BY <1>2 DEF AddsUp
<1>4. T \in SUBSET WorkGroups
  BY DEF Payable
<1>5. \A k \in Kinds : row.share[k] \in ShareParts
  BY <1>2, <1>4 DEF ShareParts
<1>6. row.share = [k \in Kinds |-> row.share[k]]
  BY DEF Shared
<1> QED BY <1>2, <1>3, <1>5, <1>6

\* The columns of a sound row.
LEMMA SoundRow ==
  ASSUME NEW row, RowSound(row)
  PROVE  /\ Payable(row.targets)
         /\ row.process \in CostProcesses /\ row.month \in Months /\ row.number \in Nat
         /\ row.status \in {"DRAFT", "CLOSED", "CANCELED"}
         /\ row.amounts \in [Kinds -> Amounts \cup {NoAmount}]
         /\ \A g \in row.targets : Chargeable(row.process, g)
         /\ \A k \in Kinds : row.share[k] \in [Items(row.targets) -> Int \cup {NoAmount}]
<1>1. row \in CostRow
  BY DEF RowSound
<1>2. /\ row.process \in CostProcesses /\ row.month \in Months /\ row.number \in Nat
      /\ row.status \in {"DRAFT", "CLOSED", "CANCELED"}
      /\ row.amounts \in [Kinds -> Amounts \cup {NoAmount}] /\ row.targets \in SUBSET WorkGroups
  BY <1>1 DEF CostRow
<1> QED BY <1>2 DEF RowSound, Payable

\* A new cost group is sound, adds up, and takes no work group of another.
LEMMA CreateWants ==
  ASSUME RowsInv, NEW s \in CostSessions, NEW p \in CostProcesses, NEW m \in Months, NEW T \in SUBSET WorkGroups,
         NEW a \in [Kinds -> Amounts \cup {NoAmount}], CreateCost(s, p, m, T, a)
  PROVE  \E row : /\ Ask(s, 0, {}, row)
                  /\ RowSound(row) /\ AddsUp(row)
                  /\ \A g \in row.targets : ~Registered(row.process, g)
<1> DEFINE items == Items(T)
           lastGroup == Max({x[1] : x \in items})
           last == <<lastGroup, Max(DOMAIN Areas[lastGroup])>>
           share == Shared(a, items, last)
           row == [process |-> p, month |-> m, number |-> NextNumber(p, m), status |-> "DRAFT",
                   amounts |-> a, targets |-> T, share |-> share]
<1>1. /\ items # {}
      /\ \A g \in T : Chargeable(p, g) /\ ~Registered(p, g)
      /\ \A x \in items : AreaOf(x) > 0
      /\ Ask(s, 0, {}, row)
  BY DEF CreateCost
<1>2. Payable(T)
  <2>1. T # {}
    BY <1>1 DEF Items
  <2> QED BY <1>1, <2>1 DEF Payable
<1>3. last \in items
  <2> DEFINE G == {x[1] : x \in items}
  <2>1. \A x \in items : x[1] \in T
    BY ItemsType
  <2>2. G \subseteq T /\ G # {}
    BY <1>1, <2>1
  <2>3. T \subseteq Nat /\ IsFiniteSet(G)
    <3>1. IsFiniteSet(T)
      BY ItemsType
    <3> QED BY <2>2, <3>1, CostAssumption, FS_Subset
  <2> HIDE DEF G
  <2>4. Max(G) \in T
    BY <2>2, <2>3, GreatestMember
  <2> DEFINE g == Max(G)
             D == DOMAIN Areas[g]
  <2>5. g \in WorkGroups /\ g \in T
    BY <2>4
  <2> HIDE DEF g
  <2>6. D \in SUBSET Nat /\ IsFiniteSet(D) /\ D # {}
    BY <2>5, CostAssumption
  <2>7. \A i \in D : <<g, i>> \in Items(T)
    BY <2>5, ItemsType
  <2> HIDE DEF D
  <2>8. Max(D) \in D
    BY <2>6, GreatestMember
  <2>9. <<g, Max(D)>> \in Items(T)
    BY <2>7, <2>8
  <2> QED BY <2>9 DEF D, g, G
<1>4. NextNumber(p, m) \in Nat
  <2> DEFINE S == {c \in CostIds : costs[c].process = p /\ costs[c].month = m}
  <2>1. DOMAIN costs = 1..Len(costs) /\ Len(costs) \in Nat
    BY DEF RowsInv, CostsSound
  <2>2. IsFiniteSet(DOMAIN costs)
    BY <2>1, FS_Interval
  <2>3. S \subseteq DOMAIN costs
    BY DEF CostIds
  <2>4. NextNumber(p, m) = Cardinality(S) + 1
    BY DEF NextNumber
  <2> HIDE DEF S
  <2>5. Cardinality(S) \in Nat
    BY <2>2, <2>3, FS_Subset, FS_CardinalityType
  <2> QED BY <2>4, <2>5
<1>5. /\ row.process = p /\ row.targets = T /\ row.amounts = a /\ row.share = Shared(a, Items(T), last)
      /\ row = [process |-> p, month |-> m, number |-> NextNumber(p, m), status |-> "DRAFT",
                amounts |-> a, targets |-> T, share |-> share]
  OBVIOUS
<1> HIDE DEF row, last, share, items
<1>6. /\ AddsUp(row)
      /\ row.share \in [Kinds -> ShareParts]
      /\ \A k \in Kinds : row.share[k] \in [Items(T) -> Int \cup {NoAmount}]
  BY <1>2, <1>3, <1>5, SharedAddsUp DEF items
<1>7. row \in CostRow
  BY <1>4, <1>5, <1>6 DEF CostRow
<1>8. RowSound(row)
  BY <1>1, <1>2, <1>5, <1>6, <1>7 DEF RowSound, Payable
<1> QED BY <1>1, <1>5, <1>6, <1>8

\* A request that changes a cost group keeps its work groups; a canceled one
\* stays canceled.
Keeps(row, seen) ==
  /\ RowSound(row)
  /\ row.process = seen.process /\ row.targets = seen.targets
  /\ AddsUp(seen) => AddsUp(row)
  /\ seen.status = "CANCELED" => row.status = "CANCELED"

LEMMA UpdateWants ==
  ASSUME RowsInv, NEW s \in CostSessions, NEW c \in CostIds, NEW a \in [Kinds -> Amounts \cup {NoAmount}],
         UpdateCost(s, c, a)
  PROVE  \E row : Ask(s, c, costs[c], row) /\ Keeps(row, costs[c])
<1> DEFINE now == costs[c]
           T == now.targets
<1>1. PICK last \in Items(T) :
        Ask(s, c, now, [now EXCEPT !.amounts = a, !.share = Shared(a, Items(T), last)])
  BY DEF UpdateCost
<1>2. now.status # "CANCELED"
  BY DEF UpdateCost, Editable
<1>3. RowSound(now)
  BY DEF RowsInv, CostsSound
<1> DEFINE share == Shared(a, Items(T), last)
           row == [now EXCEPT !.amounts = a, !.share = share]
<1>4. Ask(s, c, now, row)
  BY <1>1
<1>5. now \in CostRow /\ Payable(T)
  BY <1>3, SoundRow DEF RowSound
<1> HIDE DEF now, share
<1>6. /\ row.amounts = a /\ row.share = share /\ row.targets = now.targets /\ row.process = now.process
      /\ row.status = now.status
      /\ share \in [Kinds -> ShareParts] => row \in CostRow
  BY <1>5 DEF CostRow
<1> HIDE DEF row
<1>7. /\ AddsUp(row)
      /\ row.share \in [Kinds -> ShareParts]
      /\ \A k \in Kinds : row.share[k] \in [Items(T) -> Int \cup {NoAmount}]
  BY <1>5, <1>6, SharedAddsUp DEF share
<1>8. RowSound(row)
  BY <1>3, <1>6, <1>7 DEF RowSound
<1> QED BY <1>2, <1>4, <1>6, <1>7, <1>8 DEF Keeps, now

\* Only the status changes.
LEMMA StatusWants ==
  ASSUME RowsInv, NEW c \in CostIds, NEW st \in {"DRAFT", "CLOSED", "CANCELED"},
         costs[c].status = "CANCELED" => st = "CANCELED"
  PROVE  Keeps([costs[c] EXCEPT !.status = st], costs[c])
<1> DEFINE now == costs[c]
           row == [now EXCEPT !.status = st]
<1>1. RowSound(now)
  BY DEF RowsInv, CostsSound
<1>2. now \in CostRow
  BY <1>1 DEF RowSound
<1>3. now.status = "CANCELED" => st = "CANCELED"
  OBVIOUS
<1> HIDE DEF now
<1>4. /\ row.amounts = now.amounts /\ row.share = now.share /\ row.targets = now.targets
      /\ row.process = now.process /\ row.status = st
      /\ row \in CostRow
  BY <1>2 DEF CostRow
<1> HIDE DEF row
<1>5. RowSound(row)
  BY <1>1, <1>4 DEF RowSound
<1>6. AddsUp(now) => AddsUp(row)
  BY <1>4 DEF AddsUp
<1>7. Keeps(row, now)
  BY <1>3, <1>4, <1>5, <1>6 DEF Keeps
<1> QED BY <1>7 DEF now, row

LEMMA ChangeWants ==
  ASSUME RowsInv, NEW s \in CostSessions, NEW c \in CostIds,
         \/ \E a \in [Kinds -> Amounts \cup {NoAmount}] : UpdateCost(s, c, a)
         \/ CloseCost(s, c)
         \/ ReopenCost(s, c)
         \/ CancelCost(s, c)
  PROVE  \E row : Ask(s, c, costs[c], row) /\ Keeps(row, costs[c])
<1>1. CASE \E a \in [Kinds -> Amounts \cup {NoAmount}] : UpdateCost(s, c, a)
  BY <1>1, UpdateWants
<1>2. CASE CloseCost(s, c)
  BY <1>2, StatusWants DEF CloseCost
<1>3. CASE ReopenCost(s, c)
  BY <1>3, StatusWants DEF ReopenCost
<1>4. CASE CancelCost(s, c)
  BY <1>4, StatusWants DEF CancelCost
<1> QED BY <1>1, <1>2, <1>3, <1>4

\* What a request asks for is remembered; the rows stay as they are.
LEMMA AskRows ==
  ASSUME RowsInv, NEW s \in CostSessions, NEW c, NEW seen, NEW row, Ask(s, c, seen, row), RowSound(row),
         c # 0 => c \in CostIds /\ row.targets = costs[c].targets
  PROVE  /\ RowsInv' /\ UNCHANGED costs
         /\ request'[s] = [cost |-> c, seen |-> seen, wanted |-> row]
         /\ \A t \in CostSessions : t # s => request'[t] = request[t]
<1>1. /\ costs' = costs /\ DOMAIN request' = CostSessions
      /\ request'[s] = [cost |-> c, seen |-> seen, wanted |-> row]
      /\ \A t \in CostSessions : t # s => request'[t] = request[t]
  BY DEF Ask, RowsInv, RequestsSound
<1>2. CostsSound'
  BY <1>1 DEF RowsInv, CostsSound, CostIds
<1>3. RequestsSound'
  <2>1. ASSUME NEW t \in CostSessions, request'[t] # NoRequest
        PROVE  /\ RowSound(request'[t].wanted)
               /\ request'[t].cost # 0 =>
                    /\ request'[t].cost \in CostIds
                    /\ request'[t].wanted.targets = costs[request'[t].cost].targets
    <3>1. CASE t = s
      BY <1>1, <3>1
    <3>2. CASE t # s
      BY <1>1, <2>1, <3>2 DEF RowsInv, RequestsSound
    <3> QED BY <3>1, <3>2
  <2> QED BY <1>1, <2>1 DEF RequestsSound, CostIds
<1> QED BY <1>1, <1>2, <1>3 DEF RowsInv

\* What is written over a row is a row of the same work groups.
LEMMA MergedSound ==
  ASSUME NEW r, NEW now, RowSound(now), RowSound(r.wanted), r.wanted.targets = now.targets
  PROVE  /\ RowSound(Merged(r, now))
         /\ Merged(r, now).targets = now.targets /\ Merged(r, now).process = now.process
<1> DEFINE T == now.targets
           status == Written(r.seen.status, r.wanted.status, now.status)
           amounts == [k \in Kinds |-> Written(r.seen.amounts[k], r.wanted.amounts[k], now.amounts[k])]
           share == [k \in Kinds |-> [x \in DOMAIN now.share[k] |->
                      Written(r.seen.share[k][x], r.wanted.share[k][x], now.share[k][x])]]
           row == [now EXCEPT !.status = status, !.amounts = amounts, !.share = share]
<1>1. Merged(r, now) = row
  BY DEF Merged
<1>2. now \in CostRow /\ T \in SUBSET WorkGroups
  BY SoundRow DEF RowSound, Payable
<1>3. status \in {"DRAFT", "CLOSED", "CANCELED"}
  BY SoundRow DEF Written
<1>4. amounts \in [Kinds -> Amounts \cup {NoAmount}]
  <2>1. r.wanted.amounts \in [Kinds -> Amounts \cup {NoAmount}] /\ now.amounts \in [Kinds -> Amounts \cup {NoAmount}]
    BY SoundRow
  <2> QED BY <2>1 DEF Written
<1>5. \A k \in Kinds : share[k] \in [Items(T) -> Int \cup {NoAmount}]
  <2> TAKE k \in Kinds
  <2>1. now.share[k] \in [Items(T) -> Int \cup {NoAmount}] /\ r.wanted.share[k] \in [Items(T) -> Int \cup {NoAmount}]
    BY SoundRow
  <2>2. DOMAIN now.share[k] = Items(T)
    BY <2>1
  <2>3. \A x \in Items(T) : Written(r.seen.share[k][x], r.wanted.share[k][x], now.share[k][x]) \in Int \cup {NoAmount}
    BY <2>1 DEF Written
  <2>4. share[k] = [x \in Items(T) |-> Written(r.seen.share[k][x], r.wanted.share[k][x], now.share[k][x])]
    BY <2>2
  <2> HIDE DEF share, T
  <2> QED BY <2>3, <2>4
<1>6. share \in [Kinds -> ShareParts]
  <2>1. \A k \in Kinds : share[k] \in ShareParts
    BY <1>2, <1>5 DEF ShareParts
  <2>2. share = [k \in Kinds |-> share[k]]
    OBVIOUS
  <2> HIDE DEF share
  <2> QED BY <2>1, <2>2
<1> HIDE DEF status, amounts, share
<1>7. /\ row.amounts = amounts /\ row.share = share /\ row.targets = now.targets
      /\ row.process = now.process /\ row.status = status
      /\ row \in CostRow
  BY <1>2, <1>3, <1>4, <1>6 DEF CostRow
<1> HIDE DEF row
<1>8. RowSound(row)
  BY <1>5, <1>7 DEF RowSound
<1> QED BY <1>1, <1>7, <1>8

\* Over the row that was read, what is written is what was wanted.
LEMMA MergedWanted ==
  ASSUME NEW r, NEW now, RowSound(now), RowSound(r.wanted), r.wanted.targets = now.targets, r.seen = now
  PROVE  /\ Merged(r, now).status = r.wanted.status
         /\ AddsUp(r.wanted) => AddsUp(Merged(r, now))
         /\ NotNegative(r.wanted.share) => NotNegative(Merged(r, now).share)
<1> DEFINE T == now.targets
           m == Merged(r, now)
           w == r.wanted
           amounts == [k \in Kinds |-> Written(r.seen.amounts[k], r.wanted.amounts[k], now.amounts[k])]
           share == [k \in Kinds |-> [x \in DOMAIN now.share[k] |->
                      Written(r.seen.share[k][x], r.wanted.share[k][x], now.share[k][x])]]
<1>1. /\ m.status = w.status /\ m.amounts = amounts /\ m.share = share /\ m.targets = T
  <2>1. now \in CostRow
    BY DEF RowSound
  <2> HIDE DEF amounts, share
  <2>2. Merged(r, now) = [now EXCEPT !.status = Written(r.seen.status, r.wanted.status, now.status),
                                     !.amounts = amounts, !.share = share]
    BY DEF Merged, amounts, share
  <2> QED BY <2>1, <2>2 DEF CostRow, Written
<1>2. \A k \in Kinds : amounts[k] = w.amounts[k]
  BY DEF Written
<1>3. \A k \in Kinds : share[k] = w.share[k]
  <2> TAKE k \in Kinds
  <2>1. now.share[k] \in [Items(T) -> Int \cup {NoAmount}] /\ w.share[k] \in [Items(T) -> Int \cup {NoAmount}]
    BY SoundRow
  <2>2. share[k] = [x \in DOMAIN now.share[k] |->
                      Written(r.seen.share[k][x], r.wanted.share[k][x], now.share[k][x])]
    OBVIOUS
  <2>3. \A x \in Items(T) : Written(r.seen.share[k][x], r.wanted.share[k][x], now.share[k][x]) = w.share[k][x]
    BY DEF Written
  <2> HIDE DEF share, T, w
  <2> QED BY <2>1, <2>2, <2>3
<1> HIDE DEF amounts, share, m, w, T
<1>4. \A k \in Kinds : m.amounts[k] = w.amounts[k] /\ m.share[k] = w.share[k]
  BY <1>1, <1>2, <1>3
<1>5. w.targets = m.targets
  BY <1>1 DEF w, T
<1>6. AddsUp(w) => AddsUp(m)
  BY <1>4, <1>5 DEF AddsUp
<1>7. NotNegative(w.share) => NotNegative(m.share)
  BY <1>4 DEF NotNegative
<1> QED BY <1>1, <1>6, <1>7 DEF m, w

\* What a commit writes, if anything: the new row, or the row that it changes.
LEMMA CommitWrites ==
  ASSUME RowsInv, NEW s \in CostSessions, CommitCost(s)
  PROVE  LET r == request[s] IN
         /\ r # NoRequest
         /\ DOMAIN request' = CostSessions /\ request'[s] = NoRequest
         /\ \A t \in CostSessions : t # s => request'[t] = request[t]
         /\ \/ UNCHANGED costs
            \/ r.cost = 0 /\ costs' = Append(costs, r.wanted) /\ NotNegative(r.wanted.share)
            \/ r.cost # 0 /\ costs' = [costs EXCEPT ![r.cost] = Merged(r, costs[r.cost])]
               /\ NotNegative(r.wanted.share)
<1> DEFINE r == request[s]
<1>1. r # NoRequest /\ request' = [request EXCEPT ![s] = NoRequest]
  BY DEF CommitCost
<1>2. DOMAIN request = CostSessions
  BY DEF RowsInv, RequestsSound
<1>3. CASE ~NotNegative(r.wanted.share)
  BY <1>1, <1>2, <1>3 DEF CommitCost
<1>4. CASE NotNegative(r.wanted.share) /\ r.cost = 0
  <2>1. costs' = IF NumberFree(r.wanted) THEN Append(costs, r.wanted) ELSE costs
    BY <1>4 DEF CommitCost
  <2> QED BY <1>1, <1>2, <1>4, <2>1
<1>5. CASE NotNegative(r.wanted.share) /\ r.cost # 0
  <2>1. costs' = [costs EXCEPT ![r.cost] = Merged(r, @)]
    BY <1>5 DEF CommitCost
  <2> QED BY <1>1, <1>2, <1>5, <2>1
<1> QED BY <1>3, <1>4, <1>5

\* A commit leaves the rows there are, or adds one, or writes over one of them;
\* no row changes its process or its work groups.
LEMMA CommitAmounts ==
  ASSUME RowsInv, NEW s \in CostSessions, CommitCost(s)
  PROVE  /\ RowsInv'
         /\ \A c \in CostIds : c \in DOMAIN costs' /\ costs'[c].process = costs[c].process
                               /\ costs'[c].targets = costs[c].targets
<1> DEFINE r == request[s]
<1>1. /\ r # NoRequest
      /\ DOMAIN request' = CostSessions /\ request'[s] = NoRequest
      /\ \A t \in CostSessions : t # s => request'[t] = request[t]
      /\ \/ UNCHANGED costs
         \/ r.cost = 0 /\ costs' = Append(costs, r.wanted)
         \/ r.cost # 0 /\ costs' = [costs EXCEPT ![r.cost] = Merged(r, costs[r.cost])]
  BY CommitWrites
<1>2. /\ costs \in Seq(CostRow) /\ \A c \in DOMAIN costs : RowSound(costs[c])
  BY DEF RowsInv, CostsSound, CostIds
<1>3. /\ RowSound(r.wanted)
      /\ r.cost # 0 => r.cost \in DOMAIN costs /\ r.wanted.targets = costs[r.cost].targets
  BY <1>1 DEF RowsInv, RequestsSound, CostIds
<1> HIDE DEF r
<1>4. /\ costs' \in Seq(CostRow) /\ \A c \in DOMAIN costs' : RowSound(costs'[c])
      /\ \A c \in DOMAIN costs : c \in DOMAIN costs' /\ costs'[c].process = costs[c].process
                                 /\ costs'[c].targets = costs[c].targets
  <2>1. CASE UNCHANGED costs
    BY <1>2, <2>1
  <2>2. CASE r.cost = 0 /\ costs' = Append(costs, r.wanted)
    <3> DEFINE w == r.wanted
    <3>1. w \in CostRow /\ RowSound(w) /\ costs' = Append(costs, w)
      BY <1>3, <2>2 DEF RowSound
    <3> HIDE DEF w
    <3>2. /\ costs' \in Seq(CostRow) /\ DOMAIN costs = 1..Len(costs) /\ Len(costs) \in Nat
          /\ DOMAIN costs' = 1..(Len(costs) + 1)
          /\ \A c \in 1..Len(costs) : costs'[c] = costs[c]
          /\ costs'[Len(costs) + 1] = w
      BY <1>2, <3>1
    <3>3. \A c \in DOMAIN costs' : c \in DOMAIN costs \/ c = Len(costs) + 1
      BY <3>2
    <3> QED BY <1>2, <3>1, <3>2, <3>3
  <2>3. CASE r.cost # 0 /\ costs' = [costs EXCEPT ![r.cost] = Merged(r, costs[r.cost])]
    <3> DEFINE m == Merged(r, costs[r.cost])
               c == r.cost
    <3>1. /\ RowSound(m) /\ m.process = costs[c].process /\ m.targets = costs[c].targets
      BY <1>2, <1>3, <2>3, MergedSound
    <3>2. m \in CostRow /\ c \in DOMAIN costs /\ costs' = [costs EXCEPT ![c] = m]
      BY <1>3, <2>3, <3>1 DEF RowSound
    <3> HIDE DEF m, c
    <3>3. /\ costs' \in Seq(CostRow) /\ DOMAIN costs' = DOMAIN costs
          /\ costs'[c] = m /\ \A d \in DOMAIN costs : d # c => costs'[d] = costs[d]
      BY <1>2, <3>2
    <3> QED BY <1>2, <3>1, <3>3
  <2> QED BY <1>1, <2>1, <2>2, <2>3
<1>5. CostsSound'
  BY <1>4 DEF CostsSound, CostIds
<1>6. RequestsSound'
  <2>1. ASSUME NEW t \in CostSessions, request'[t] # NoRequest
        PROVE  /\ RowSound(request'[t].wanted)
               /\ request'[t].cost # 0 =>
                    /\ request'[t].cost \in DOMAIN costs'
                    /\ request'[t].wanted.targets = costs'[request'[t].cost].targets
    <3>1. t # s /\ request'[t] = request[t] /\ request[t] # NoRequest
      BY <1>1, <2>1
    <3>2. /\ RowSound(request[t].wanted)
          /\ request[t].cost # 0 =>
               /\ request[t].cost \in DOMAIN costs
               /\ request[t].wanted.targets = costs[request[t].cost].targets
      BY <3>1 DEF RowsInv, RequestsSound, CostIds
    <3> QED BY <1>4, <3>1, <3>2
  <2> QED BY <1>1, <2>1 DEF RequestsSound, CostIds
<1> QED BY <1>4, <1>5, <1>6 DEF RowsInv, CostIds

LEMMA InitCharges == CostInit => ChargesInv
<1> SUFFICES ASSUME CostInit PROVE ChargesInv
  OBVIOUS
<1>1. costs = <<>> /\ request = [s \in CostSessions |-> NoRequest] /\ CostIds = {}
  BY DEF CostInit, CostIds
<1> QED BY <1>1 DEF ChargesInv, RowsInv, CostsSound, RequestsSound, RowsAddUp, RowsApart, RequestsFresh

\* The steps are those of one kind: a request asks, or it commits.
LEMMA CostSteps ==
  ASSUME RowsInv, CostNext
  PROVE  \/ \E s \in CostSessions : \E row :
              /\ Ask(s, 0, {}, row)
              /\ RowSound(row) /\ AddsUp(row)
              /\ \A g \in row.targets : ~Registered(row.process, g)
         \/ \E s \in CostSessions, c \in CostIds : \E row : Ask(s, c, costs[c], row) /\ Keeps(row, costs[c])
         \/ \E s \in CostSessions : CommitCost(s)
<1>1. PICK s \in CostSessions :
         \/ \E p \in CostProcesses, m \in Months, T \in SUBSET WorkGroups, a \in [Kinds -> Amounts \cup {NoAmount}] :
              CreateCost(s, p, m, T, a)
         \/ \E c \in CostIds, a \in [Kinds -> Amounts \cup {NoAmount}] : UpdateCost(s, c, a)
         \/ \E c \in CostIds : CloseCost(s, c) \/ ReopenCost(s, c) \/ CancelCost(s, c)
         \/ CommitCost(s)
  BY Zenon DEF CostNext
<1>2. CASE \E p \in CostProcesses, m \in Months, T \in SUBSET WorkGroups, a \in [Kinds -> Amounts \cup {NoAmount}] :
             CreateCost(s, p, m, T, a)
  BY <1>2, CreateWants
<1>3. CASE \E c \in CostIds, a \in [Kinds -> Amounts \cup {NoAmount}] : UpdateCost(s, c, a)
  BY <1>3, UpdateWants
<1>4. CASE \E c \in CostIds : CloseCost(s, c) \/ ReopenCost(s, c) \/ CancelCost(s, c)
  BY <1>4, ChangeWants
<1> QED BY <1>1, <1>2, <1>3, <1>4

LEMMA CostIdsType ==
  ASSUME RowsInv
  PROVE  CostIds = 1..Len(costs) /\ Len(costs) \in Nat /\ IsFiniteSet(CostIds) /\ 0 \notin CostIds
<1>1. CostIds = 1..Len(costs) /\ Len(costs) \in Nat
  BY DEF RowsInv, CostsSound, CostIds
<1> QED BY <1>1, FS_Interval

LEMMA RowsStep == RowsInv /\ [CostNext]_costVars => RowsInv'
<1> SUFFICES ASSUME RowsInv, [CostNext]_costVars PROVE RowsInv'
  OBVIOUS
<1>1. CASE UNCHANGED costVars
  BY <1>1 DEF costVars, RowsInv, CostsSound, RequestsSound, CostIds
<1>2. CASE CostNext
  <2>1. CASE \E s \in CostSessions : \E row :
               /\ Ask(s, 0, {}, row)
               /\ RowSound(row) /\ AddsUp(row)
               /\ \A g \in row.targets : ~Registered(row.process, g)
    BY <2>1, AskRows
  <2>2. CASE \E s \in CostSessions, c \in CostIds : \E row : Ask(s, c, costs[c], row) /\ Keeps(row, costs[c])
    BY <2>2, AskRows DEF Keeps
  <2>3. CASE \E s \in CostSessions : CommitCost(s)
    BY <2>3, CommitAmounts
  <2> QED BY <1>2, <2>1, <2>2, <2>3, CostSteps
<1> QED BY <1>1, <1>2

\* The columns keep their types and every LOT of a cost group its part, also
\* where requests overlap.
THEOREM CostsTyped == CostSpec => []CostTypeOK
<1>1. CostInit => RowsInv
  BY InitCharges DEF ChargesInv
<1>2. RowsInv => CostTypeOK
  <2> SUFFICES ASSUME RowsInv, NEW c \in CostIds
               PROVE  /\ costs[c].process \in CostProcesses
                      /\ costs[c].status \in {"DRAFT", "CLOSED", "CANCELED"}
                      /\ costs[c].targets \subseteq WorkGroups
                      /\ \A k \in Kinds : /\ costs[c].amounts[k] \in Amounts \cup {NoAmount}
                                          /\ DOMAIN costs[c].share[k] = Items(costs[c].targets)
    BY DEF CostTypeOK
  <2> DEFINE row == costs[c]
  <2>1. RowSound(row)
    BY DEF RowsInv, CostsSound
  <2> HIDE DEF row
  <2>2. /\ row.process \in CostProcesses /\ row.status \in {"DRAFT", "CLOSED", "CANCELED"}
        /\ row.targets \subseteq WorkGroups
        /\ \A k \in Kinds : /\ row.amounts[k] \in Amounts \cup {NoAmount}
                            /\ DOMAIN row.share[k] = Items(row.targets)
    BY <2>1, SoundRow DEF Payable
  <2> QED BY <2>2 DEF row
<1> QED BY <1>1, <1>2, RowsStep, PTL DEF CostSpec

\* One request is dealt with at a time.
OneAtATime == \A s, t \in CostSessions : s = t

\* A request that asks reads rows which nobody is going to change before it commits.
LEMMA AskCharges ==
  ASSUME ChargesInv, OneAtATime, NEW s \in CostSessions, NEW c, NEW seen, NEW row,
         Ask(s, c, seen, row), RowSound(row), AddsUp(row),
         c = 0 => \A g \in row.targets : ~Registered(row.process, g),
         c # 0 => /\ c \in CostIds /\ row.targets = costs[c].targets
                  /\ seen = costs[c] /\ (seen.status = "CANCELED" => row.status = "CANCELED")
  PROVE  ChargesInv'
<1>1. /\ RowsInv' /\ costs' = costs
      /\ request'[s] = [cost |-> c, seen |-> seen, wanted |-> row]
  BY AskRows DEF ChargesInv
<1>2. RowsAddUp' /\ RowsApart'
  BY <1>1 DEF ChargesInv, RowsAddUp, RowsApart, CostIds, Active
<1>3. RequestsFresh'
  <2>1. \A t \in CostSessions : t = s
    BY DEF OneAtATime
  <2>2. \A p, g : Registered(p, g)' <=> Registered(p, g)
    BY <1>1 DEF Registered, CostIds, Active
  <2> DEFINE q == request'[s]
  <2>3. /\ AddsUp(q.wanted)
        /\ q.cost = 0 => \A g \in q.wanted.targets : ~Registered(q.wanted.process, g)
        /\ q.cost # 0 =>
             /\ q.seen = costs[q.cost]
             /\ q.seen.status = "CANCELED" => q.wanted.status = "CANCELED"
    BY <1>1
  <2> QED BY <1>1, <2>1, <2>2, <2>3 DEF RequestsFresh
<1> QED BY <1>1, <1>2, <1>3 DEF ChargesInv

\* A commit writes what was wanted: a row whose parts add up, and whose work
\* groups are still free.
LEMMA CommitCharges ==
  ASSUME ChargesInv, OneAtATime, NEW s \in CostSessions, CommitCost(s)
  PROVE  ChargesInv'
<1> DEFINE r == request[s]
<1>1. /\ RowsInv'
      /\ \A c \in CostIds : c \in DOMAIN costs' /\ costs'[c].process = costs[c].process
                            /\ costs'[c].targets = costs[c].targets
  BY CommitAmounts DEF ChargesInv
<1>2. /\ r # NoRequest /\ request'[s] = NoRequest
      /\ \/ UNCHANGED costs
         \/ r.cost = 0 /\ costs' = Append(costs, r.wanted) /\ NotNegative(r.wanted.share)
         \/ r.cost # 0 /\ costs' = [costs EXCEPT ![r.cost] = Merged(r, costs[r.cost])] /\ NotNegative(r.wanted.share)
  BY CommitWrites DEF ChargesInv
<1>3. RequestsFresh'
  BY <1>2 DEF OneAtATime, RequestsFresh
<1>4. /\ RowSound(r.wanted) /\ AddsUp(r.wanted)
      /\ r.cost = 0 => \A g \in r.wanted.targets : ~Registered(r.wanted.process, g)
      /\ r.cost # 0 => /\ r.cost \in CostIds /\ r.wanted.targets = costs[r.cost].targets
                       /\ r.seen = costs[r.cost]
                       /\ r.seen.status = "CANCELED" => r.wanted.status = "CANCELED"
  BY <1>2 DEF ChargesInv, RowsInv, RequestsSound, RequestsFresh
<1>5. costs \in Seq(CostRow) /\ \A c \in CostIds : RowSound(costs[c])
  BY DEF ChargesInv, RowsInv, CostsSound
<1>6. /\ \A c \in CostIds : AddsUp(costs[c]) /\ NotNegative(costs[c].share)
      /\ \A c, d \in CostIds :
           c # d /\ Active(c) /\ Active(d) /\ costs[c].process = costs[d].process
           => costs[c].targets \cap costs[d].targets = {}
  BY DEF ChargesInv, RowsAddUp, RowsApart
<1> HIDE DEF r
<1>7. RowsAddUp' /\ RowsApart'
  <2>1. CASE UNCHANGED costs
    BY <1>6, <2>1 DEF RowsAddUp, RowsApart, CostIds, Active
  <2>2. CASE r.cost = 0 /\ costs' = Append(costs, r.wanted) /\ NotNegative(r.wanted.share)
    <3> DEFINE w == r.wanted
               n == Len(costs) + 1
    <3>1. /\ w \in CostRow /\ AddsUp(w) /\ NotNegative(w.share) /\ costs' = Append(costs, w)
          /\ \A g \in w.targets : ~Registered(w.process, g)
      BY <1>4, <2>2 DEF RowSound
    <3> HIDE DEF w
    <3>2. /\ DOMAIN costs = 1..Len(costs) /\ Len(costs) \in Nat
          /\ DOMAIN costs' = 1..(Len(costs) + 1)
          /\ \A c \in 1..Len(costs) : costs'[c] = costs[c]
          /\ costs'[Len(costs) + 1] = w
      BY <1>5, <3>1
    <3>3. /\ \A c \in DOMAIN costs' : c \in CostIds \/ c = n
          /\ \A c \in CostIds : costs'[c] = costs[c] /\ c # n
          /\ costs'[n] = w
      BY <3>2 DEF CostIds
    <3> HIDE DEF n
    <3>4. RowsAddUp'
      BY <1>6, <3>1, <3>3 DEF RowsAddUp, CostIds
    <3>5. \A c \in CostIds : Active(c) /\ costs[c].process = w.process => costs[c].targets \cap w.targets = {}
      BY <3>1 DEF Registered
    <3>6. ASSUME NEW c \in DOMAIN costs', NEW d \in DOMAIN costs', c # d,
                 costs'[c].status \in {"DRAFT", "CLOSED"}, costs'[d].status \in {"DRAFT", "CLOSED"},
                 costs'[c].process = costs'[d].process
          PROVE  costs'[c].targets \cap costs'[d].targets = {}
      <4>1. CASE c \in CostIds /\ d \in CostIds
        BY <1>6, <3>3, <3>6, <4>1 DEF Active
      <4>2. CASE c = n /\ d \in CostIds
        BY <3>3, <3>5, <3>6, <4>2 DEF Active
      <4>3. CASE c \in CostIds /\ d = n
        BY <3>3, <3>5, <3>6, <4>3 DEF Active
      <4> QED BY <3>3, <3>6, <4>1, <4>2, <4>3
    <3>7. RowsApart'
      BY <3>6 DEF RowsApart, CostIds, Active
    <3> QED BY <3>4, <3>7
  <2>3. CASE r.cost # 0 /\ costs' = [costs EXCEPT ![r.cost] = Merged(r, costs[r.cost])] /\ NotNegative(r.wanted.share)
    <3> DEFINE k == r.cost
               m == Merged(r, costs[k])
    <3>1. k \in CostIds /\ RowSound(costs[k]) /\ r.wanted.targets = costs[k].targets /\ r.seen = costs[k]
      BY <1>4, <1>5, <2>3
    <3>2. /\ m.status = r.wanted.status /\ AddsUp(m) /\ NotNegative(m.share)
          /\ m.targets = costs[k].targets /\ m.process = costs[k].process
      BY <1>4, <2>3, <3>1, MergedSound, MergedWanted
    <3>3. m.status # "CANCELED" => costs[k].status # "CANCELED"
      BY <1>4, <2>3, <3>1, <3>2
    <3>4. costs' = [costs EXCEPT ![k] = m]
      BY <2>3
    <3> HIDE DEF k, m
    <3>5. DOMAIN costs' = CostIds /\ costs'[k] = m /\ \A c \in CostIds : c # k => costs'[c] = costs[c]
      BY <1>5, <3>1, <3>4 DEF CostIds
    <3>6. RowsAddUp'
      BY <1>6, <3>2, <3>5 DEF RowsAddUp, CostIds
    <3>7. \A c \in CostIds : /\ costs'[c].targets = costs[c].targets /\ costs'[c].process = costs[c].process
                             /\ costs'[c].status \in {"DRAFT", "CLOSED"} => Active(c)
      <4> TAKE c \in CostIds
      <4>1. CASE c = k
        <5>1. costs[k].status \in {"DRAFT", "CLOSED", "CANCELED"}
          BY <3>1, SoundRow
        <5> QED BY <3>2, <3>3, <3>5, <4>1, <5>1 DEF Active
      <4>2. CASE c # k
        BY <3>5, <4>2 DEF Active
      <4> QED BY <4>1, <4>2
    <3>8. RowsApart'
      BY <1>6, <3>5, <3>7 DEF RowsApart, CostIds, Active
    <3> QED BY <3>6, <3>8
  <2> QED BY <1>2, <2>1, <2>2, <2>3 DEF r
<1> QED BY <1>1, <1>3, <1>7 DEF ChargesInv

LEMMA ChargesStep == OneAtATime /\ ChargesInv /\ [CostNext]_costVars => ChargesInv'
<1> SUFFICES ASSUME OneAtATime, ChargesInv, [CostNext]_costVars PROVE ChargesInv'
  OBVIOUS
<1>1. CASE UNCHANGED costVars
  BY <1>1, RowsStep DEF costVars, ChargesInv, RowsAddUp, RowsApart, RequestsFresh, CostIds, Active, Registered
<1>2. CASE CostNext
  <2>1. ASSUME NEW s \in CostSessions, NEW row, Ask(s, 0, {}, row), RowSound(row), AddsUp(row),
               \A g \in row.targets : ~Registered(row.process, g)
        PROVE  ChargesInv'
    BY <2>1, AskCharges
  <2>2. ASSUME NEW s \in CostSessions, NEW c \in CostIds, NEW row, Ask(s, c, costs[c], row), Keeps(row, costs[c])
        PROVE  ChargesInv'
    <3>1. c # 0
      BY CostIdsType DEF ChargesInv
    <3>2. AddsUp(costs[c])
      BY DEF ChargesInv, RowsAddUp
    <3> QED BY <2>2, <3>1, <3>2, AskCharges DEF Keeps
  <2> QED BY <1>2, <2>1, <2>2, CommitCharges, CostSteps DEF ChargesInv
<1> QED BY <1>1, <1>2

LEMMA ChargesAddUp == ChargesInv => SharesAddUp
<1> SUFFICES ASSUME ChargesInv, NEW c \in CostIds, NEW k \in Kinds
             PROVE  IF costs[c].amounts[k] = NoAmount
                    THEN \A x \in Items(costs[c].targets) : costs[c].share[k][x] = NoAmount
                    ELSE /\ \A x \in Items(costs[c].targets) : costs[c].share[k][x] >= 0
                         /\ SumFunctionOnSet(costs[c].share[k], Items(costs[c].targets)) = Units(costs[c].amounts[k])
  BY DEF SharesAddUp
<1>1. AddsUp(costs[c]) /\ NotNegative(costs[c].share) /\ RowSound(costs[c])
  BY DEF ChargesInv, RowsAddUp, RowsInv, CostsSound
<1>2. DOMAIN costs[c].share[k] = Items(costs[c].targets)
  BY <1>1, SoundRow
<1>3. ASSUME costs[c].amounts[k] # NoAmount, NEW x \in Items(costs[c].targets)
      PROVE  costs[c].share[k][x] >= 0
  <2>1. costs[c].share[k][x] \in Int
    BY <1>1, <1>3 DEF AddsUp
  <2>2. costs[c].share[k][x] # NoAmount
    BY <2>1, CostAssumption
  <2> QED BY <1>1, <1>2, <2>2 DEF NotNegative
<1> QED BY <1>1, <1>3 DEF AddsUp

\* Where one request is dealt with at a time, the parts of every cost group add
\* up to its amounts, through creations, edits, closing and reopening.
THEOREM SharesAlwaysAddUp == OneAtATime => (CostSpec => []SharesAddUp)
<1> SUFFICES ASSUME OneAtATime PROVE CostSpec => []SharesAddUp
  OBVIOUS
<1>1. ChargesInv /\ [CostNext]_costVars => ChargesInv'
  BY ChargesStep
<1> QED BY <1>1, InitCharges, ChargesAddUp, PTL DEF CostSpec

------------------------------------------------------------------------------
(* What the two lists show.                                                *)

\* A row's part for a work group, and the money of a row.
PartOf(row, k, g) == SumFunctionOnSet([x \in Items({g}) |-> Given(row.share[k][x])], Items({g}))

Charge(row, k) == IF row.amounts[k] = NoAmount THEN 0 ELSE Units(row.amounts[k])

\* The parts of a row's work groups add up to what the row charges.
LEMMA PartsAddUp ==
  ASSUME NEW row, RowSound(row), AddsUp(row), NEW k \in Kinds
  PROVE  /\ \A g \in row.targets : PartOf(row, k, g) \in Int
         /\ SumFunctionOnSet([g \in row.targets |-> PartOf(row, k, g)], row.targets) = Charge(row, k)
<1> DEFINE T == row.targets
           f == [x \in Items(T) |-> Given(row.share[k][x])]
           slice == [g \in T |-> Items({g})]
           sum == [g \in T |-> SumFunctionOnSet(f, slice[g])]
           shown == [g \in T |-> PartOf(row, k, g)]
           share == row.share[k]
<1>1. T \in SUBSET WorkGroups
  BY SoundRow DEF Payable
<1>2. IsFiniteSet(T) /\ IsFiniteSet(Items(T))
  BY <1>1, ItemsType
<1>3. \A g \in T : /\ IsFiniteSet(slice[g]) /\ slice[g] \subseteq Items(T)
                   /\ slice[g] = {g} \X DOMAIN Areas[g]
  <2> TAKE g \in T
  <2>1. {g} \in SUBSET WorkGroups
    BY <1>1
  <2>2. IsFiniteSet(Items({g}))
    BY <2>1, ItemsType
  <2>3. Items({g}) \subseteq Items(T)
    BY DEF Items
  <2>4. Items({g}) = UNION {{h} \X DOMAIN Areas[h] : h \in {g}}
    BY DEF Items
  <2>5. \A h : h \in {g} <=> h = g
    OBVIOUS
  <2>6. UNION {{h} \X DOMAIN Areas[h] : h \in {g}} = {g} \X DOMAIN Areas[g]
    BY <2>5
  <2> QED BY <2>2, <2>3, <2>4, <2>6
<1>4. \A g, j \in T : g # j => slice[g] \cap slice[j] = {}
  <2> HIDE DEF slice
  <2>1. \A g \in T : \A x \in slice[g] : x[1] = g
    BY <1>3
  <2> QED BY <2>1
<1>5. \A x \in Items(T) : \E g \in T : x \in slice[g]
  <2>1. \A g \in T : slice[g] = {g} \X DOMAIN Areas[g]
    BY <1>3
  <2> HIDE DEF slice
  <2> QED BY <2>1 DEF Items
<1>6. \A x \in Items(T) : f[x] = Given(share[x])
  OBVIOUS
<1>7. IF row.amounts[k] = NoAmount
      THEN \A x \in Items(T) : share[x] = NoAmount
      ELSE (\A x \in Items(T) : share[x] \in Int) /\ SumFunctionOnSet(share, Items(T)) = Units(row.amounts[k])
  BY DEF AddsUp
<1>8. \A g \in T : shown[g] = PartOf(row, k, g) /\ sum[g] = SumFunctionOnSet(f, slice[g])
  OBVIOUS
<1>9. \A g \in T : PartOf(row, k, g) = SumFunctionOnSet(f, slice[g])
  <2> TAKE g \in T
  <2> DEFINE S == Items({g})
             h == [x \in S |-> Given(row.share[k][x])]
  <2>1. slice[g] = S
    OBVIOUS
  <2>2. IsFiniteSet(S) /\ S \subseteq Items(T)
    BY <1>3, <2>1
  <2>3. \A x \in S : h[x] = f[x]
    BY <2>2
  <2>4. PartOf(row, k, g) = SumFunctionOnSet(h, S)
    BY DEF PartOf
  <2> HIDE DEF S, h, f, slice
  <2>5. SumFunctionOnSet(h, S) = SumFunctionOnSet(f, S)
    BY <2>2, <2>3, SumSame
  <2> QED BY <2>1, <2>4, <2>5
<1> HIDE DEF T, f, slice, sum, shown, share
<1>10. (\A x \in Items(T) : f[x] \in Int) /\ SumFunctionOnSet(f, Items(T)) = Charge(row, k)
  <2>1. CASE row.amounts[k] = NoAmount
    <3>1. \A x \in Items(T) : f[x] = 0
      BY <1>6, <1>7, <2>1 DEF Given
    <3>2. SumFunctionOnSet(f, Items(T)) = 0
      BY <1>2, <3>1, SumZero
    <3> QED BY <2>1, <3>1, <3>2 DEF Charge
  <2>2. CASE row.amounts[k] # NoAmount
    <3>1. \A x \in Items(T) : share[x] \in Int
      BY <1>7, <2>2
    <3>2. \A x \in Items(T) : f[x] = share[x]
      BY <1>6, <3>1, CostAssumption DEF Given
    <3>3. SumFunctionOnSet(f, Items(T)) = SumFunctionOnSet(share, Items(T))
      BY <1>2, <3>2, SumSame
    <3> QED BY <1>7, <2>2, <3>1, <3>2, <3>3 DEF Charge
  <2> QED BY <2>1, <2>2
<1>11. SumFunctionOnSet(f, Items(T)) = SumFunctionOnSet(sum, T)
  <2>1. \A g \in T : \A x \in slice[g] : f[x] \in Int
    BY <1>3, <1>10
  <2>2. /\ \A g \in T : IsFiniteSet(slice[g])
        /\ \A g \in T : slice[g] \subseteq Items(T)
        /\ \A g \in T : sum[g] = SumFunctionOnSet(f, slice[g])
    BY <1>3, <1>8
  <2> QED BY <1>2, <1>4, <1>5, <2>1, <2>2, SumOfParts
<1>12. SumFunctionOnSet(shown, T) = SumFunctionOnSet(sum, T)
  BY <1>2, <1>8, <1>9, SumSame
<1>13. \A g \in T : PartOf(row, k, g) \in Int
  <2> TAKE g \in T
  <2> DEFINE S == slice[g]
  <2>1. IsFiniteSet(S) /\ \A x \in S : f[x] \in Int
    BY <1>3, <1>10
  <2> HIDE DEF S
  <2>2. SumFunctionOnSet(f, S) \in Int
    BY <2>1, SumType
  <2> QED BY <1>9, <2>2 DEF S
<1> QED BY <1>10, <1>11, <1>12, <1>13 DEF T, shown

\* A work group is shown with the one cost group of the process that counts.
LEMMA ShownIsIt ==
  ASSUME ChargesInv, NEW p, NEW g
  PROVE  /\ \A c \in CostIds : Active(c) /\ costs[c].process = p /\ g \in costs[c].targets
                               => ShownCost(p, g, FALSE) = c
         /\ ~Registered(p, g) => ShownCost(p, g, FALSE) = 0
<1> DEFINE of == {c \in CostIds : costs[c].process = p /\ g \in costs[c].targets
                                  /\ (FALSE \/ costs[c].status # "CANCELED")}
<1>1. \A c \in CostIds : Active(c) <=> costs[c].status # "CANCELED"
  <2> TAKE c \in CostIds
  <2>1. costs[c].status \in {"DRAFT", "CLOSED", "CANCELED"}
    BY SoundRow DEF ChargesInv, RowsInv, CostsSound
  <2> QED BY <2>1 DEF Active
<1>2. ShownCost(p, g, FALSE) = IF of = {} THEN 0 ELSE Max(of)
  BY Zenon DEF ShownCost
<1>3. of = {c \in CostIds : Active(c) /\ costs[c].process = p /\ g \in costs[c].targets}
  BY <1>1
<1> HIDE DEF of
<1>4. ASSUME NEW c \in CostIds, Active(c), costs[c].process = p, g \in costs[c].targets
      PROVE  ShownCost(p, g, FALSE) = c
  <2>1. \A d \in of : d = c
    BY <1>3, <1>4 DEF ChargesInv, RowsApart
  <2>2. of = {c}
    BY <1>3, <1>4, <2>1
  <2>3. c \in Nat
    BY CostIdsType DEF ChargesInv
  <2>4. {c} \in SUBSET Nat /\ IsFiniteSet({c}) /\ {c} # {}
    BY <2>3, FS_Singleton
  <2>5. Max({c}) = c
    BY <2>4, GreatestMember
  <2> QED BY <1>2, <2>2, <2>5
<1>5. ~Registered(p, g) => ShownCost(p, g, FALSE) = 0
  BY <1>2, <1>3 DEF Registered
<1> QED BY <1>4, <1>5

Filters == {"DRAFT", "CLOSED", "COST_VARIANCE"}

\* Both lists filter by the same question, asked of a cost group that counts.
LEMMA FilterIsOne ==
  ASSUME ChargesInv, NEW p, NEW status \in Filters
  PROVE  /\ ListCosts(p, status) = {c \in CostIds : costs[c].process = p /\ MatchesTargetStatus(c, status)}
         /\ ListTargets(p, status) =
              {g \in WorkGroups : /\ Chargeable(p, g) /\ DOMAIN Areas[g] # {}
                                  /\ MatchesTargetStatus(ShownCost(p, g, FALSE), status)}
         /\ \A c \in CostIds : MatchesTargetStatus(c, status) => Active(c)
         /\ ~MatchesTargetStatus(0, status)
<1>1. 0 \notin CostIds
  BY CostIdsType DEF ChargesInv
<1>2. CASE status = "COST_VARIANCE"
  <2>1. \A c : MatchesTargetStatus(c, status) <=> c # 0 /\ HasVariance(c)
    BY <1>2 DEF MatchesTargetStatus
  <2>2. ListCosts(p, status) = {c \in CostIds : costs[c].process = p /\ HasVariance(c)}
    BY <1>2 DEF ListCosts
  <2>3. (status = "CANCELED") = FALSE
    BY <1>2
  <2> QED BY <1>1, <2>1, <2>2, <2>3 DEF ListTargets, HasVariance, Active
<1>3. CASE status \in {"DRAFT", "CLOSED"}
  <2>1. \A c : MatchesTargetStatus(c, status) <=> c # 0 /\ costs[c].status = status
    BY <1>3 DEF MatchesTargetStatus
  <2>2. ListCosts(p, status) = {c \in CostIds : costs[c].process = p /\ costs[c].status = status}
    BY <1>3 DEF ListCosts
  <2>3. (status = "CANCELED") = FALSE
    BY <1>3
  <2> QED BY <1>1, <1>3, <2>1, <2>2, <2>3 DEF ListTargets, Active
<1> QED BY <1>2, <1>3 DEF Filters

\* The work groups listed are those of the cost groups listed.
LEMMA ListsAgree ==
  ASSUME ChargesInv, NEW p, NEW status \in Filters
  PROVE  ListTargets(p, status) = UNION {costs[c].targets : c \in ListCosts(p, status)}
<1> DEFINE listed == ListCosts(p, status)
           targets == ListTargets(p, status)
<1>1. /\ listed = {c \in CostIds : costs[c].process = p /\ MatchesTargetStatus(c, status)}
      /\ targets = {g \in WorkGroups : /\ Chargeable(p, g) /\ DOMAIN Areas[g] # {}
                                       /\ MatchesTargetStatus(ShownCost(p, g, FALSE), status)}
      /\ \A c \in CostIds : MatchesTargetStatus(c, status) => Active(c)
      /\ ~MatchesTargetStatus(0, status)
  BY FilterIsOne
<1> HIDE DEF listed, targets
<1>2. ASSUME NEW c \in listed, NEW g \in costs[c].targets PROVE g \in targets
  <2>1. c \in CostIds /\ costs[c].process = p /\ Active(c) /\ MatchesTargetStatus(c, status)
    BY <1>1
  <2>2. ShownCost(p, g, FALSE) = c
    BY <2>1, ShownIsIt
  <2>3. RowSound(costs[c])
    BY <2>1 DEF ChargesInv, RowsInv, CostsSound
  <2>4. g \in WorkGroups /\ Chargeable(p, g)
    BY <2>1, <2>3, SoundRow DEF Payable
  <2>5. DOMAIN Areas[g] # {}
    BY <2>4, CostAssumption
  <2> QED BY <1>1, <2>1, <2>2, <2>4, <2>5
<1>3. ASSUME NEW g \in targets PROVE \E c \in listed : g \in costs[c].targets
  <2>1. MatchesTargetStatus(ShownCost(p, g, FALSE), status)
    BY <1>1
  <2>2. Registered(p, g)
    BY <1>1, <2>1, ShownIsIt
  <2>3. PICK c \in CostIds : Active(c) /\ costs[c].process = p /\ g \in costs[c].targets
    BY <2>2 DEF Registered
  <2>4. ShownCost(p, g, FALSE) = c
    BY <2>3, ShownIsIt
  <2> QED BY <1>1, <2>1, <2>3, <2>4
<1>4. targets = UNION {costs[c].targets : c \in listed}
  BY <1>2, <1>3
<1> QED BY <1>4 DEF targets, listed

\* They show the same money.
LEMMA MoneyAgrees ==
  ASSUME ChargesInv, NEW p, NEW status \in Filters, NEW k \in Kinds
  PROVE  LET targets == ListTargets(p, status)
             listed == ListCosts(p, status)
         IN  SumFunctionOnSet([g \in targets |-> ShownAmount(k, p, g)], targets) =
             SumFunctionOnSet([c \in listed |-> IF costs[c].amounts[k] = NoAmount THEN 0
                                                ELSE Units(costs[c].amounts[k])], listed)
<1> DEFINE I == ListCosts(p, status)
           U == ListTargets(p, status)
           slice == [c \in I |-> costs[c].targets]
           f == [g \in U |-> ShownAmount(k, p, g)]
           sum == [c \in I |-> SumFunctionOnSet(f, slice[c])]
           charge == [c \in I |-> IF costs[c].amounts[k] = NoAmount THEN 0 ELSE Units(costs[c].amounts[k])]
<1>1. U = UNION {slice[c] : c \in I}
  <2>1. U = UNION {costs[c].targets : c \in I}
    BY ListsAgree
  <2> HIDE DEF U, I
  <2> QED BY <2>1
<1>2. \A c \in I : c \in CostIds /\ costs[c].process = p /\ Active(c)
  <2>1. /\ I = {c \in CostIds : costs[c].process = p /\ MatchesTargetStatus(c, status)}
        /\ \A c \in CostIds : MatchesTargetStatus(c, status) => Active(c)
    BY FilterIsOne
  <2> HIDE DEF I
  <2> QED BY <2>1
<1>3. IsFiniteSet(I)
  <2>1. I \subseteq CostIds /\ IsFiniteSet(CostIds)
    BY <1>2, CostIdsType DEF ChargesInv
  <2> QED BY <2>1, FS_Subset
<1> HIDE DEF I, U
<1>4. \A c \in I : RowSound(costs[c]) /\ AddsUp(costs[c])
  BY <1>2 DEF ChargesInv, RowsInv, CostsSound, RowsAddUp
<1>5. \A c, d \in I : c # d => slice[c] \cap slice[d] = {}
  BY <1>2 DEF ChargesInv, RowsApart
<1>6. \A c \in I : slice[c] = costs[c].targets /\ slice[c] \subseteq U
  BY <1>1
<1>7. \A c \in I : \A g \in slice[c] : f[g] = PartOf(costs[c], k, g)
  <2> TAKE c \in I
  <2> TAKE g \in slice[c]
  <2>1. ShownCost(p, g, FALSE) = c /\ c # 0
    BY <1>2, <1>6, ShownIsIt, CostIdsType DEF ChargesInv
  <2>2. ShownAmount(k, p, g) = PartOf(costs[c], k, g)
    BY <2>1 DEF ShownAmount, PartOf
  <2>3. g \in U
    BY <1>6
  <2> QED BY <2>2, <2>3
<1>8. /\ \A c \in I : sum[c] = SumFunctionOnSet(f, slice[c])
      /\ \A c \in I : charge[c] = Charge(costs[c], k)
  BY DEF Charge
<1> HIDE DEF slice, f, sum, charge
<1>9. \A c \in I : IsFiniteSet(slice[c]) /\ \A g \in slice[c] : f[g] \in Int
  <2> TAKE c \in I
  <2>1. costs[c].targets \in SUBSET WorkGroups
    BY <1>4, SoundRow DEF Payable
  <2>2. IsFiniteSet(costs[c].targets)
    BY <2>1, ItemsType
  <2>3. \A g \in costs[c].targets : PartOf(costs[c], k, g) \in Int
    BY <1>4, PartsAddUp
  <2> QED BY <1>6, <1>7, <2>2, <2>3
<1>10. \A c \in I : sum[c] = charge[c]
  <2> TAKE c \in I
  <2> DEFINE T == costs[c].targets
             shown == [g \in T |-> PartOf(costs[c], k, g)]
  <2>1. IsFiniteSet(T) /\ slice[c] = T
    BY <1>6, <1>9
  <2>2. \A g \in T : f[g] = shown[g]
    BY <1>6, <1>7
  <2>3. SumFunctionOnSet(shown, T) = Charge(costs[c], k)
    BY <1>4, PartsAddUp
  <2> HIDE DEF T, shown
  <2>4. SumFunctionOnSet(f, T) = SumFunctionOnSet(shown, T)
    BY <2>1, <2>2, SumSame
  <2> QED BY <1>8, <2>1, <2>3, <2>4
<1>11. SumFunctionOnSet(f, U) = SumFunctionOnSet(sum, I)
  <2>1. /\ \A c \in I : IsFiniteSet(slice[c])
        /\ \A c \in I : \A g \in slice[c] : f[g] \in Int
        /\ \A c \in I : sum[c] = SumFunctionOnSet(f, slice[c])
    BY <1>8, <1>9
  <2>2. \A x \in U : \E c \in I : x \in slice[c]
    BY <1>1
  <2>3. \A c \in I : slice[c] \subseteq U
    BY <1>6
  <2> QED BY <1>3, <1>5, <2>1, <2>2, <2>3, SumOfParts
<1>12. SumFunctionOnSet(sum, I) = SumFunctionOnSet(charge, I)
  BY <1>3, <1>10, SumSame
<1> QED BY <1>11, <1>12, Zenon DEF f, charge, U, I

\* A work group that is offered as unregistered is in no cost group that counts.
LEMMA OfferedAreFree ==
  ASSUME ChargesInv, NEW p, NEW g \in ListTargets(p, "UNREGISTERED")
  PROVE  ~Registered(p, g)
<1>1. ShownCost(p, g, FALSE) = 0
  <2>1. ("UNREGISTERED" = "CANCELED") = FALSE
    OBVIOUS
  <2>2. MatchesTargetStatus(ShownCost(p, g, FALSE), "UNREGISTERED")
    BY <2>1 DEF ListTargets
  <2> QED BY <2>2 DEF MatchesTargetStatus
<1>2. 0 \notin CostIds
  BY CostIdsType DEF ChargesInv
<1> QED BY <1>1, <1>2, ShownIsIt DEF Registered

\* Where one request is dealt with at a time, the two lists show the same work
\* and the same money under every filter, and offer no work that is charged.
THEOREM ChargedOnceOnly == OneAtATime => (CostSpec => []ChargedOnce)
<1> SUFFICES ASSUME OneAtATime PROVE CostSpec => []ChargedOnce
  OBVIOUS
<1>1. ChargesInv /\ [CostNext]_costVars => ChargesInv'
  BY ChargesStep
<1>2. ChargesInv => ChargedOnce
  BY ListsAgree, MoneyAgrees, OfferedAreFree, Zenon DEF ChargedOnce, Filters
<1> QED BY <1>1, <1>2, InitCharges, PTL DEF CostSpec

------------------------------------------------------------------------------
(* The invariant of the bulk uploads.                                      *)

LinesDone(u) == UNION {LinesOfGroup(u.rows, o) : o \in u.done}

\* What an upload of orders has in its transaction: the fields of its record.
OrderFields == {"op", "rows", "left", "written", "lines", "renamed", "kept", "done"}
OrderUpload(u) == u.op = "ORDERS" /\ u = [x \in OrderFields |-> u[x]]

\* A new name of a product is that of a row of one of the orders.
NamedByRows(rows, renamed, orders) ==
  \A p \in DOMAIN renamed :
    \E i \in DOMAIN rows : rows[i].product = p /\ rows[i].name = renamed[p] /\ rows[i].order \in orders

\* The orders that are still to come, and those that are done.
OrdersLeft(u) == u.left \cup u.done \subseteq OrdersOf(u.rows) /\ u.left \cap u.done = {}

\* What the savepoint keeps are the lines and the names of the orders that are done.
KeptIsDone(u) ==
  u.kept.lines = LinesDone(u) /\ NamedByRows(u.rows, u.kept.renamed, u.done)

\* Between two orders there is nothing else, within one its first rows.
WithinGroup(u) ==
  /\ u.written = {} => u.lines = u.kept.lines /\ u.renamed = u.kept.renamed
  /\ u.left = {} => u.written = {}
  /\ u.left # {} =>
       /\ u.written \subseteq RowsOf(u.rows, CurrentOrder(u)) /\ u.written # RowsOf(u.rows, CurrentOrder(u))
       /\ u.lines = u.kept.lines \cup {[order |-> CurrentOrder(u), line |-> LineOf(u.rows, i)] : i \in u.written}
       /\ NamedByRows(u.rows, u.renamed, u.done \cup {CurrentOrder(u)})

UploadOf(u) ==
  u.rows \in OrderSheets /\ OrderUpload(u) /\ OrdersLeft(u) /\ KeptIsDone(u) /\ WithinGroup(u)

\* Nobody else has a line of an open upload.
LinesApart ==
  \A s \in Importers : Busy(s, "ORDERS") =>
    /\ sheet[s].lines \cap orderLines = {}
    /\ \A t \in Importers \ {s} : Busy(t, "ORDERS") => sheet[s].lines \cap sheet[t].lines = {}

MastersDiffer(rows) == \A a, b \in rows : a # b => ~SameMaster(a, b)

UploadInv ==
  /\ UploadTypeOK /\ DOMAIN sheet = Importers /\ LinesApart
  /\ \A s \in Importers : Busy(s, "ORDERS") => UploadOf(sheet[s])
  /\ \A s \in Importers : Busy(s, "MASTERS") => MastersDiffer(sheet[s].accepted)

LEMMA UploadInitInv == UploadInit => UploadInv
<1> SUFFICES ASSUME UploadInit PROVE UploadInv
  OBVIOUS
<1>1. \A s \in Importers : \A op : ~Busy(s, op)
  BY DEF UploadInit, Busy
<1>2. UploadTypeOK /\ DOMAIN sheet = Importers
  BY <1>1 DEF UploadInit, UploadTypeOK
<1> QED BY <1>1, <1>2 DEF UploadInv, LinesApart

\* The least of a set of naturals is one of it.
LEMMA MinIsMember ==
  ASSUME NEW S \in SUBSET Nat, S # {}
  PROVE  Min(S) \in S
BY LeastNat DEF Min

LEMMA OrdersAreNumbers ==
  ASSUME NEW u, UploadOf(u)
  PROVE  u.left \subseteq Nat
BY UploadAssumption DEF UploadOf, OrdersLeft, OrdersOf

\* The order and the row an upload is at.
LEMMA CurrentIsThere ==
  ASSUME NEW u, UploadOf(u), u.left # {}
  PROVE  /\ CurrentOrder(u) \in u.left
         /\ CurrentIndex(u) \in RowsOf(u.rows, CurrentOrder(u)) \ u.written
         /\ u.rows[CurrentIndex(u)].order = CurrentOrder(u)
         /\ CurrentLine(u) \in LinesOfGroup(u.rows, CurrentOrder(u))
<1>1. u.left \subseteq Nat
  BY OrdersAreNumbers
<1>2. CurrentOrder(u) \in u.left
  BY <1>1, MinIsMember DEF CurrentOrder
<1>3. RowsOf(u.rows, CurrentOrder(u)) \ u.written \subseteq Nat
  BY UploadAssumption DEF UploadOf, RowsOf
<1>4. RowsOf(u.rows, CurrentOrder(u)) \ u.written # {}
  BY DEF UploadOf, WithinGroup
<1>5. CurrentIndex(u) \in RowsOf(u.rows, CurrentOrder(u)) \ u.written
  BY <1>3, <1>4, MinIsMember DEF CurrentIndex
<1>6. u.rows[CurrentIndex(u)].order = CurrentOrder(u)
  BY <1>5 DEF RowsOf
<1>7. CurrentLine(u) \in LinesOfGroup(u.rows, CurrentOrder(u))
  BY <1>5 DEF CurrentLine, LinesOfGroup
<1> QED BY <1>2, <1>5, <1>6, <1>7

\* Every line of an order of a sheet is typed.
LEMMA GroupTyped ==
  ASSUME NEW rows \in OrderSheets, NEW o
  PROVE  LinesOfGroup(rows, o) \subseteq [order : OrderNos, line : LineNos]
BY UploadAssumption DEF LinesOfGroup, RowsOf

\* The lines of an upload are lines of its orders.
LEMMA LinesOfUpload ==
  ASSUME NEW u, UploadOf(u)
  PROVE  u.kept.lines \subseteq u.lines /\ u.lines \subseteq [order : OrderNos, line : LineNos]
<1>1. LinesDone(u) \subseteq [order : OrderNos, line : LineNos]
  BY GroupTyped DEF LinesDone, UploadOf
<1>2. CASE u.left = {}
  BY <1>1, <1>2 DEF UploadOf, WithinGroup, KeptIsDone
<1>3. CASE u.left # {}
  <2>1. {[order |-> CurrentOrder(u), line |-> LineOf(u.rows, i)] : i \in u.written}
          \subseteq LinesOfGroup(u.rows, CurrentOrder(u))
    BY <1>3 DEF UploadOf, WithinGroup, LinesOfGroup
  <2>2. LinesOfGroup(u.rows, CurrentOrder(u)) \subseteq [order : OrderNos, line : LineNos]
    BY GroupTyped DEF UploadOf
  <2> QED BY <1>1, <1>3, <2>1, <2>2 DEF UploadOf, WithinGroup, KeptIsDone
<1> QED BY <1>2, <1>3
------------------------------------------------------------------------------
(* What one request does to its own upload.                                *)

\* An upload that begins has written nothing.
LEMMA BegunUpload ==
  ASSUME NEW rows \in OrderSheets, NEW left \in SUBSET OrdersOf(rows),
         NEW u, u = [op |-> "ORDERS", rows |-> rows, left |-> left, written |-> {}, lines |-> {}, renamed |-> <<>>,
                     kept |-> [lines |-> {}, renamed |-> <<>>], done |-> {}]
  PROVE  UploadOf(u) /\ u.op = "ORDERS" /\ u.lines = {}
<1>1. u.rows = rows /\ u.left = left /\ u.written = {} /\ u.lines = {} /\ u.renamed = <<>> /\ u.done = {}
  OBVIOUS
<1>2. u.kept.lines = {} /\ u.kept.renamed = <<>> /\ u.op = "ORDERS"
  OBVIOUS
<1>3. OrderUpload(u)
  BY DEF OrderUpload, OrderFields
<1>4. KeptIsDone(u)
  BY <1>1, <1>2 DEF KeptIsDone, LinesDone, NamedByRows
<1>5. ASSUME u.left # {} PROVE RowsOf(u.rows, CurrentOrder(u)) # {}
  <2>1. left \subseteq Nat
    BY UploadAssumption DEF OrdersOf
  <2>2. CurrentOrder(u) \in OrdersOf(rows)
    BY <1>1, <1>5, <2>1, MinIsMember DEF CurrentOrder
  <2> QED BY <1>1, <2>2 DEF OrdersOf, RowsOf
<1>6. WithinGroup(u)
  <2>1. NamedByRows(u.rows, u.renamed, u.done \cup {CurrentOrder(u)})
    BY <1>1 DEF NamedByRows
  <2>2. u.lines = u.kept.lines \cup {[order |-> CurrentOrder(u), line |-> LineOf(u.rows, i)] : i \in u.written}
    BY <1>1, <1>2
  <2> QED BY <1>1, <1>2, <1>5, <2>1, <2>2 DEF WithinGroup
<1> QED BY <1>1, <1>2, <1>3, <1>4, <1>6 DEF UploadOf, OrdersLeft

\* An upload that goes on to its next order.
LEMMA NextGroup ==
  ASSUME NEW u, NEW v, UploadOf(u), u.left # {}, OrderUpload(v),
         v.rows = u.rows, v.left = u.left \ {CurrentOrder(u)}, v.written = {},
         v.lines = v.kept.lines, v.renamed = v.kept.renamed, KeptIsDone(v),
         v.done \subseteq u.done \cup {CurrentOrder(u)}
  PROVE  UploadOf(v)
<1>1. OrdersLeft(v)
  BY CurrentIsThere DEF UploadOf, OrdersLeft
<1>2. ASSUME v.left # {} PROVE RowsOf(v.rows, CurrentOrder(v)) # {}
  <2>1. v.left \subseteq Nat
    BY OrdersAreNumbers
  <2>2. CurrentOrder(v) \in OrdersOf(v.rows)
    BY <1>1, <1>2, <2>1, MinIsMember DEF CurrentOrder, OrdersLeft
  <2> QED BY <2>2 DEF OrdersOf, RowsOf
<1>3. NamedByRows(v.rows, v.renamed, v.done \cup {CurrentOrder(v)})
  BY DEF KeptIsDone, NamedByRows
<1>4. WithinGroup(v)
  BY <1>2, <1>3 DEF WithinGroup
<1> QED BY <1>1, <1>4 DEF UploadOf

\* A refused group leaves what was kept.
LEMMA RefusedUpload ==
  ASSUME NEW u, UploadOf(u), u.left # {}
  PROVE  UploadOf(GroupRefused(u)) /\ GroupRefused(u).lines \subseteq u.lines
<1> DEFINE v == GroupRefused(u)
<1>1. /\ v.rows = u.rows /\ v.left = u.left \ {CurrentOrder(u)} /\ v.written = {} /\ v.lines = u.kept.lines
      /\ v.renamed = u.kept.renamed /\ v.kept = u.kept /\ v.done = u.done /\ OrderUpload(v)
  BY DEF UploadOf, OrderUpload, OrderFields, GroupRefused, Undone
<1> HIDE DEF v
<1>2. KeptIsDone(v)
  BY <1>1 DEF UploadOf, KeptIsDone, LinesDone
<1>3. UploadOf(v)
  BY <1>1, <1>2, NextGroup
<1>4. v.lines \subseteq u.lines
  BY <1>1, LinesOfUpload
<1> QED BY <1>3, <1>4 DEF v

\* The names after a row.
RenamedBy(u) ==
  LET row == CurrentRow(u) IN
  IF row.name = KeepName THEN u.renamed
  ELSE [p \in DOMAIN u.renamed \cup {row.product} |-> IF p = row.product THEN row.name ELSE u.renamed[p]]

LEMMA RowRenames ==
  ASSUME NEW u, UploadOf(u), u.left # {}
  PROVE  NamedByRows(u.rows, RenamedBy(u), u.done \cup {CurrentOrder(u)})
<1> DEFINE row == u.rows[CurrentIndex(u)]
           orders == u.done \cup {CurrentOrder(u)}
<1>1. CurrentIndex(u) \in DOMAIN u.rows /\ row.order \in orders
  BY CurrentIsThere DEF RowsOf
<1>2. NamedByRows(u.rows, u.renamed, orders)
  BY DEF UploadOf, WithinGroup
<1>3. CASE row.name = KeepName
  BY <1>2, <1>3 DEF RenamedBy, CurrentRow
<1>4. CASE row.name # KeepName
  <2>1. RenamedBy(u) = [p \in DOMAIN u.renamed \cup {row.product} |-> IF p = row.product THEN row.name ELSE u.renamed[p]]
    BY <1>4 DEF RenamedBy, CurrentRow
  <2> HIDE DEF orders
  <2>2. SUFFICES ASSUME NEW p \in DOMAIN RenamedBy(u)
                 PROVE  \E i \in DOMAIN u.rows : /\ u.rows[i].product = p /\ u.rows[i].name = RenamedBy(u)[p]
                                                 /\ u.rows[i].order \in orders
    BY DEF NamedByRows, orders
  <2>3. CASE p = row.product
    <3>1. RenamedBy(u)[p] = row.name
      BY <2>1, <2>3
    <3> QED BY <1>1, <2>3, <3>1
  <2>4. CASE p # row.product
    <3>1. p \in DOMAIN u.renamed /\ RenamedBy(u)[p] = u.renamed[p]
      BY <2>1, <2>4
    <3> QED BY <1>2, <3>1 DEF NamedByRows
  <2> QED BY <2>3, <2>4
<1> QED BY <1>3, <1>4

\* A row that is not the last of its order.
LEMMA RowWritten ==
  ASSUME NEW u, UploadOf(u), u.left # {},
         u.written \cup {CurrentIndex(u)} # RowsOf(u.rows, CurrentOrder(u)),
         NEW v, v = [u EXCEPT !.written = u.written \cup {CurrentIndex(u)}, !.lines = u.lines \cup {CurrentLine(u)},
                              !.renamed = RenamedBy(u)]
  PROVE  UploadOf(v) /\ v.lines = u.lines \cup {CurrentLine(u)}
<1>1. /\ v.rows = u.rows /\ v.left = u.left /\ v.written = u.written \cup {CurrentIndex(u)}
      /\ v.lines = u.lines \cup {CurrentLine(u)} /\ v.renamed = RenamedBy(u) /\ v.kept = u.kept /\ v.done = u.done
      /\ OrderUpload(v)
  BY DEF UploadOf, OrderUpload, OrderFields
<1>2. OrdersLeft(v) /\ KeptIsDone(v)
  BY <1>1 DEF UploadOf, OrdersLeft, KeptIsDone, LinesDone
<1>3. CurrentOrder(v) = CurrentOrder(u)
  BY <1>1 DEF CurrentOrder
<1>4. v.written \subseteq RowsOf(v.rows, CurrentOrder(v)) /\ v.written # RowsOf(v.rows, CurrentOrder(v))
  BY <1>1, <1>3, CurrentIsThere DEF UploadOf, WithinGroup
<1>5. v.lines = v.kept.lines \cup {[order |-> CurrentOrder(v), line |-> LineOf(v.rows, i)] : i \in v.written}
  BY <1>1, <1>3 DEF UploadOf, WithinGroup, CurrentLine
<1>6. NamedByRows(v.rows, v.renamed, v.done \cup {CurrentOrder(v)})
  BY <1>1, <1>3, RowRenames
<1>7. v.written # {} /\ v.left # {}
  BY <1>1
<1>8. WithinGroup(v)
  BY <1>4, <1>5, <1>6, <1>7 DEF WithinGroup
<1> QED BY <1>1, <1>2, <1>8 DEF UploadOf

LEMMA OneMoreDone ==
  ASSUME NEW u, NEW v, NEW o, v.rows = u.rows, v.done = u.done \cup {o}
  PROVE  LinesDone(v) = LinesDone(u) \cup LinesOfGroup(u.rows, o)
<1>1. \A x : x \in LinesDone(v) <=> \E y \in v.done : x \in LinesOfGroup(v.rows, y)
  BY DEF LinesDone
<1>2. \A x : x \in LinesDone(u) <=> \E y \in u.done : x \in LinesOfGroup(u.rows, y)
  BY DEF LinesDone
<1> QED BY <1>1, <1>2

\* The last row of an order.
LEMMA LastRowWritten ==
  ASSUME NEW u, UploadOf(u), u.left # {},
         u.written \cup {CurrentIndex(u)} = RowsOf(u.rows, CurrentOrder(u)),
         NEW v, v = GroupDone(u, u.lines \cup {CurrentLine(u)}, RenamedBy(u))
  PROVE  UploadOf(v) /\ v.lines = u.lines \cup {CurrentLine(u)}
<1> DEFINE o == CurrentOrder(u)
<1>1. /\ v.rows = u.rows /\ v.left = u.left \ {o} /\ v.written = {} /\ v.done = u.done \cup {o}
      /\ v.lines = u.lines \cup {CurrentLine(u)} /\ v.renamed = RenamedBy(u)
      /\ v.kept = [lines |-> v.lines, renamed |-> v.renamed] /\ OrderUpload(v)
  BY DEF UploadOf, OrderUpload, OrderFields, GroupDone
<1>2. v.kept.lines = v.lines /\ v.kept.renamed = v.renamed
  BY <1>1
<1>3. v.lines = LinesDone(u) \cup LinesOfGroup(u.rows, o)
  <2>1. u.lines = LinesDone(u) \cup {[order |-> o, line |-> LineOf(u.rows, i)] : i \in u.written}
    BY DEF UploadOf, WithinGroup, KeptIsDone
  <2> QED BY <1>1, <2>1 DEF CurrentLine, LinesOfGroup
<1>4. LinesDone(v) = LinesDone(u) \cup LinesOfGroup(u.rows, o)
  <2>1. v.rows = u.rows /\ v.done = u.done \cup {o}
    BY <1>1
  <2> HIDE DEF o
  <2> QED BY <2>1, OneMoreDone
<1>5. NamedByRows(v.rows, v.renamed, v.done)
  <2>1. v.rows = u.rows /\ v.done = u.done \cup {o} /\ v.renamed = RenamedBy(u)
    BY <1>1
  <2>2. NamedByRows(u.rows, RenamedBy(u), u.done \cup {o})
    BY RowRenames
  <2> HIDE DEF o
  <2> QED BY <2>1, <2>2
<1>6. KeptIsDone(v)
  BY <1>2, <1>3, <1>4, <1>5 DEF KeptIsDone
<1>7. UploadOf(v)
  <2> HIDE DEF o
  <2>1. v.done \subseteq u.done \cup {CurrentOrder(u)}
    BY <1>1 DEF o
  <2>2. v.left = u.left \ {CurrentOrder(u)}
    BY <1>1 DEF o
  <2> QED BY <1>1, <1>2, <1>6, <2>1, <2>2, NextGroup
<1> QED BY <1>1, <1>7
------------------------------------------------------------------------------
(* The requests.                                                           *)

\* A step that leaves committed lines alone, and in which one session goes on
\* with lines of its own that nobody has.
LEMMA OneUploads ==
  ASSUME UploadInv, NEW s \in Importers, NEW v, sheet' = [sheet EXCEPT ![s] = v],
         UNCHANGED <<orderLines, names, activeProducts>>,
         v # NoSheet /\ v.op = "ORDERS" =>
           /\ UploadOf(v) /\ v.lines \cap orderLines = {}
           /\ \A t \in Importers \ {s} : Busy(t, "ORDERS") => v.lines \cap sheet[t].lines = {},
         v # NoSheet /\ v.op = "MASTERS" => MastersDiffer(v.accepted)
  PROVE  UploadInv'
<1>1. DOMAIN sheet' = Importers /\ sheet'[s] = v /\ \A t \in Importers \ {s} : sheet'[t] = sheet[t]
  BY DEF UploadInv
<1>2. \A op : /\ Busy(s, op)' <=> v # NoSheet /\ v.op = op
              /\ \A t \in Importers \ {s} : Busy(t, op)' <=> Busy(t, op)
  BY <1>1 DEF Busy
<1>3. \A t \in Importers : Busy(t, "ORDERS")' => UploadOf(sheet'[t])
  BY <1>1, <1>2 DEF UploadInv
<1>4. \A t \in Importers : Busy(t, "MASTERS")' => MastersDiffer(sheet'[t].accepted)
  BY <1>1, <1>2 DEF UploadInv
<1>5. UploadTypeOK'
  BY <1>3 DEF UploadInv, UploadTypeOK, UploadOf, OrdersLeft
<1>6. LinesApart'
  BY <1>1, <1>2 DEF UploadInv, LinesApart
<1> QED BY <1>1, <1>3, <1>4, <1>5, <1>6 DEF UploadInv

LEMMA BeginOrders ==
  ASSUME UploadInv, NEW s \in Importers, NEW rows \in OrderSheets, UploadOrders(s, rows)
  PROVE  UploadInv'
<1> DEFINE v == [op |-> "ORDERS", rows |-> rows, left |-> {o \in OrdersOf(rows) : ~GroupFails(rows, o)},
                 written |-> {}, lines |-> {}, renamed |-> <<>>, kept |-> [lines |-> {}, renamed |-> <<>>], done |-> {}]
<1>1. UploadOf(v) /\ v.op = "ORDERS" /\ v.lines = {}
  <2>1. {o \in OrdersOf(rows) : ~GroupFails(rows, o)} \in SUBSET OrdersOf(rows)
    OBVIOUS
  <2> QED BY <2>1, BegunUpload
<1>2. sheet' = [sheet EXCEPT ![s] = v] /\ UNCHANGED <<orderLines, names, activeProducts>>
  BY DEF UploadOrders, productVars
<1> HIDE DEF v
<1> QED BY <1>1, <1>2, OneUploads

LEMMA RegisterInv ==
  ASSUME UploadInv, NEW s \in Importers, RegisterRow(s)
  PROVE  UploadInv'
<1> DEFINE u == sheet[s]
           v == sheet'[s]
<1>1. UploadOf(u) /\ u.left # {} /\ Busy(s, "ORDERS")
  BY DEF RegisterRow, UploadInv
<1>2. sheet' = [sheet EXCEPT ![s] = v] /\ UNCHANGED <<orderLines, names, activeProducts>>
  BY DEF RegisterRow, productVars, UploadInv
<1>3. \/ v = GroupRefused(u)
      \/ /\ ~\E line \in orderLines : SameKey(line, CurrentLine(u))
         /\ \/ /\ u.written \cup {CurrentIndex(u)} = RowsOf(u.rows, CurrentOrder(u))
               /\ v = GroupDone(u, u.lines \cup {CurrentLine(u)}, RenamedBy(u))
            \/ /\ u.written \cup {CurrentIndex(u)} # RowsOf(u.rows, CurrentOrder(u))
               /\ v = [u EXCEPT !.written = u.written \cup {CurrentIndex(u)}, !.lines = u.lines \cup {CurrentLine(u)},
                                !.renamed = RenamedBy(u)]
  BY DEF RegisterRow, UploadInv, RenamedBy
<1>4. \A t \in Importers \ {s} : Busy(t, "ORDERS") => CurrentLine(u) \notin sheet[t].lines
  BY <1>1 DEF RegisterRow, WaitsForLine, SameKey
<1>5. UploadOf(v) /\ v.lines \cap orderLines = {}
      /\ \A t \in Importers \ {s} : Busy(t, "ORDERS") => v.lines \cap sheet[t].lines = {}
  <2>1. /\ u.lines \cap orderLines = {}
        /\ \A t \in Importers \ {s} : Busy(t, "ORDERS") => u.lines \cap sheet[t].lines = {}
    BY <1>1 DEF UploadInv, LinesApart
  <2>2. CASE v = GroupRefused(u)
    <3>1. UploadOf(v) /\ v.lines \subseteq u.lines
      BY <1>1, <2>2, RefusedUpload
    <3> QED BY <2>1, <3>1
  <2>3. CASE v # GroupRefused(u)
    <3>1. UploadOf(v) /\ v.lines = u.lines \cup {CurrentLine(u)}
      BY <1>1, <1>3, <2>3, RowWritten, LastRowWritten
    <3>2. CurrentLine(u) \notin orderLines
      BY <1>3, <2>3 DEF SameKey
    <3> QED BY <1>4, <2>1, <3>1, <3>2
  <2> QED BY <2>2, <2>3
<1>6. v.op = "ORDERS"
  BY <1>5 DEF UploadOf, OrderUpload
<1> HIDE DEF v
<1> QED BY <1>2, <1>5, <1>6, OneUploads

\* The lines of an upload that is committed are lines of its own.
LEMMA CommitOrdersInv ==
  ASSUME UploadInv, NEW s \in Importers, CommitOrders(s)
  PROVE  UploadInv'
<1>1. /\ Busy(s, "ORDERS") /\ UploadOf(sheet[s])
      /\ sheet'[s] = NoSheet /\ \A t \in Importers \ {s} : sheet'[t] = sheet[t]
      /\ DOMAIN sheet' = Importers
  BY DEF CommitOrders, UploadInv
<1>2. \A op : ~Busy(s, op)' /\ \A t \in Importers \ {s} : Busy(t, op)' <=> Busy(t, op)
  BY <1>1 DEF Busy
<1>3. \A t \in Importers : Busy(t, "ORDERS")' => UploadOf(sheet'[t])
  BY <1>1, <1>2 DEF UploadInv
<1>4. \A t \in Importers : Busy(t, "MASTERS")' => MastersDiffer(sheet'[t].accepted)
  BY <1>1, <1>2 DEF UploadInv
<1>5. sheet[s].lines \subseteq [order : OrderNos, line : LineNos]
  BY <1>1, LinesOfUpload
<1>6. UploadTypeOK'
  <2>1. orderLines' \subseteq [order : OrderNos, line : LineNos]
    BY <1>5 DEF CommitOrders, UploadInv, UploadTypeOK
  <2>2. activeProducts' \subseteq Products /\ DOMAIN names' = Products
    BY DEF CommitOrders, UploadInv, UploadTypeOK
  <2>3. \A t \in Importers : Busy(t, "ORDERS")' =>
          sheet'[t].left \cup sheet'[t].done \subseteq OrdersOf(sheet'[t].rows)
    BY <1>3 DEF UploadOf, OrdersLeft
  <2> QED BY <2>1, <2>2, <2>3 DEF UploadTypeOK
<1>7. LinesApart'
  BY <1>1, <1>2 DEF UploadInv, LinesApart, CommitOrders
<1> QED BY <1>1, <1>3, <1>4, <1>6, <1>7 DEF UploadInv

LEMMA RollBackInv ==
  ASSUME UploadInv, NEW s \in Importers, RollBack(s)
  PROVE  UploadInv'
<1>1. sheet' = [sheet EXCEPT ![s] = NoSheet] /\ UNCHANGED <<orderLines, names, activeProducts>>
  BY DEF RollBack, productVars
<1> QED BY <1>1, OneUploads

\* A single order line or product: the open uploads stay as they are.
LEMMA SingleRequestInv ==
  ASSUME UploadInv,
         \/ \E o \in OrderNos, n \in LineNos : CreateLine(o, n)
         \/ \E p \in activeProducts : DeactivateProduct(p)
  PROVE  UploadInv'
<1>1. UNCHANGED <<sheet, names>> /\ activeProducts' \subseteq activeProducts
  BY DEF CreateLine, DeactivateProduct, productVars
<1>2. \A s \in Importers : \A op : Busy(s, op)' <=> Busy(s, op)
  BY <1>1 DEF Busy
<1>3. \A line \in orderLines' \ orderLines :
        /\ line \in [order : OrderNos, line : LineNos]
        /\ \A s \in Importers : Busy(s, "ORDERS") => line \notin sheet[s].lines
  BY DEF CreateLine, DeactivateProduct
<1>4. UploadTypeOK'
  BY <1>1, <1>2, <1>3 DEF UploadInv, UploadTypeOK
<1>5. LinesApart'
  BY <1>1, <1>2, <1>3 DEF UploadInv, LinesApart
<1> QED BY <1>1, <1>2, <1>4, <1>5 DEF UploadInv

\* Of the rows that are accepted, no two have a code or a drawing in common: the
\* second repeats the first.
LEMMA AcceptedDiffer ==
  ASSUME NEW rows \in MasterSheets
  PROVE  MastersDiffer(AcceptedRows(rows))
<1>1. DOMAIN rows \subseteq Nat \ {0}
  BY UploadAssumption
<1>2. ASSUME NEW i \in DOMAIN rows, NEW j \in DOMAIN rows, i < j, ~Repeats(rows, j)
      PROVE  ~SameMaster(rows[i], rows[j])
  <2>1. i \in 1..(j - 1)
    BY <1>1, <1>2
  <2> QED BY <1>2, <2>1 DEF Repeats
<1>3. \A a, b : SameMaster(a, b) => SameMaster(b, a)
  BY DEF SameMaster
<1>4. ASSUME NEW i \in DOMAIN rows, NEW j \in DOMAIN rows, ~Repeats(rows, i), ~Repeats(rows, j), rows[i] # rows[j]
      PROVE  ~SameMaster(rows[i], rows[j])
  <2>1. i < j \/ j < i
    BY <1>1, <1>4
  <2> QED BY <1>2, <1>3, <1>4, <2>1
<1> QED BY <1>4 DEF MastersDiffer, AcceptedRows

LEMMA BeginMasters ==
  ASSUME UploadInv, NEW s \in Importers, NEW rows \in MasterSheets, UploadMasters(s, rows)
  PROVE  UploadInv'
<1> DEFINE v == [op |-> "MASTERS", rows |-> rows, accepted |-> AcceptedRows(rows)]
<1>1. v.op = "MASTERS" /\ MastersDiffer(v.accepted)
  BY AcceptedDiffer
<1>2. sheet' = [sheet EXCEPT ![s] = v] /\ UNCHANGED <<orderLines, names, activeProducts>>
  BY DEF UploadMasters, productVars
<1> HIDE DEF v
<1> QED BY <1>1, <1>2, OneUploads

LEMMA InsertInv ==
  ASSUME UploadInv, NEW s \in Importers, InsertMasters(s)
  PROVE  UploadInv'
<1>1. sheet' = [sheet EXCEPT ![s] = NoSheet] /\ UNCHANGED <<orderLines, names, activeProducts>>
  BY DEF InsertMasters, productVars
<1> QED BY <1>1, OneUploads

LEMMA UploadStep ==
  ASSUME UploadInv, [UploadNext]_uploadVars
  PROVE  UploadInv'
<1>1. CASE UNCHANGED uploadVars
  <2>1. UNCHANGED <<orderLines, names, activeProducts, sheet>>
    BY <1>1 DEF uploadVars
  <2>2. \A s \in Importers : \A op : Busy(s, op)' <=> Busy(s, op)
    BY <2>1 DEF Busy
  <2>3. UploadTypeOK' /\ LinesApart'
    BY <2>1, <2>2 DEF UploadInv, UploadTypeOK, LinesApart
  <2> QED BY <2>1, <2>2, <2>3 DEF UploadInv
<1>2. CASE UploadNext
  BY <1>2, BeginOrders, RegisterInv, CommitOrdersInv, RollBackInv, SingleRequestInv, BeginMasters, InsertInv, Zenon DEF UploadNext
<1> QED BY <1>1, <1>2

\* What a step that ends an upload may do.
SheetTaken(s) ==
  LET u == sheet[s] IN
  /\ Busy(s, "ORDERS") /\ orderLines' # orderLines =>
       /\ orderLines' \ orderLines = UNION {LinesOfGroup(u.rows, o) : o \in u.done}
       /\ \A p \in Products : names'[p] # names[p] =>
            \E i \in DOMAIN u.rows : /\ u.rows[i].product = p /\ u.rows[i].name = names'[p]
                                     /\ u.rows[i].order \in u.done
  /\ Busy(s, "MASTERS") /\ masters' = masters => \A row \in u.accepted : \E other \in u.accepted : Taken(other)

LEMMA CommitTakes ==
  ASSUME UploadInv, NEW s \in Importers, CommitOrders(s)
  PROVE  SheetTaken(s)
<1> DEFINE u == sheet[s]
<1>1. Busy(s, "ORDERS") /\ UploadOf(u) /\ u.left = {} /\ ~Busy(s, "MASTERS")
  BY DEF CommitOrders, UploadInv, Busy
<1>2. u.lines = LinesDone(u) /\ NamedByRows(u.rows, u.renamed, u.done)
  BY <1>1 DEF UploadOf, WithinGroup, KeptIsDone
<1>3. orderLines' \ orderLines = u.lines
  BY <1>1 DEF UploadInv, LinesApart, CommitOrders
<1>4. ASSUME NEW p \in Products, names'[p] # names[p]
      PROVE  \E i \in DOMAIN u.rows : u.rows[i].product = p /\ u.rows[i].name = names'[p] /\ u.rows[i].order \in u.done
  <2>1. p \in DOMAIN u.renamed /\ names'[p] = u.renamed[p]
    BY <1>4 DEF CommitOrders
  <2> QED BY <1>2, <2>1 DEF NamedByRows
<1> QED BY <1>1, <1>2, <1>3, <1>4 DEF SheetTaken, LinesDone

LEMMA InsertTakes ==
  ASSUME UploadInv, NEW s \in Importers, InsertMasters(s)
  PROVE  SheetTaken(s)
<1> DEFINE new == sheet[s].accepted
<1>1. Busy(s, "MASTERS") /\ ~Busy(s, "ORDERS")
  BY DEF InsertMasters, Busy
<1>2. ~\E a, b \in new : a # b /\ (a.code = b.code \/ a.drawing = b.drawing)
  BY <1>1 DEF UploadInv, MastersDiffer, SameMaster
<1>3. \/ \E row \in new : Taken(row)
      \/ masters' = masters \cup new
  BY <1>2 DEF InsertMasters
<1>4. ASSUME masters' = masters, NEW row \in new PROVE \E other \in new : Taken(other)
  BY <1>3, <1>4 DEF Taken
<1> QED BY <1>1, <1>4 DEF SheetTaken

\* What an upload commits are the lines and the names of the orders it reports as
\* done, and master data is refused only for a row that came in between.
THEOREM SheetsAreTaken == UploadSpec => []UploadTypeOK /\ SheetsTakenAsChecked
<1> DEFINE step == \A s \in Importers : sheet[s] # NoSheet /\ sheet'[s] = NoSheet => SheetTaken(s)
<1>1. ASSUME UploadInv, UploadNext, NEW s \in Importers, sheet[s] # NoSheet, sheet'[s] = NoSheet
      PROVE  SheetTaken(s)
  <2>1. CASE \E t \in Importers : CommitOrders(t)
    <3>1. PICK t \in Importers : CommitOrders(t)
      BY <2>1
    <3>2. s = t
      BY <1>1, <3>1 DEF CommitOrders, UploadInv
    <3> QED BY <1>1, <3>1, <3>2, CommitTakes
  <2>2. CASE \E t \in Importers : InsertMasters(t)
    <3>1. PICK t \in Importers : InsertMasters(t)
      BY <2>2
    <3>2. s = t
      BY <1>1, <3>1 DEF InsertMasters, UploadInv
    <3> QED BY <1>1, <3>1, <3>2, InsertTakes
  <2>3. CASE \E t \in Importers : \/ \E rows \in MasterSheets : UploadMasters(t, rows)
                                  \/ \E rows \in OrderSheets : UploadOrders(t, rows)
    BY <1>1, <2>3 DEF UploadMasters, UploadOrders, UploadInv
  <2>4. CASE \E t \in Importers : RegisterRow(t) \/ RollBack(t)
    <3>1. UNCHANGED <<orderLines, masters>> /\ \E t \in Importers : Busy(t, "ORDERS") /\ sheet' = [sheet EXCEPT ![t] = sheet'[t]]
      BY <2>4 DEF RegisterRow, RollBack, WaitsForLine, UploadInv
    <3>2. Busy(s, "ORDERS") /\ ~Busy(s, "MASTERS")
      BY <1>1, <3>1 DEF Busy, UploadInv
    <3> QED BY <3>1, <3>2 DEF SheetTaken
  <2>5. CASE \/ \E o \in OrderNos, n \in LineNos : CreateLine(o, n)
             \/ \E p \in activeProducts : DeactivateProduct(p)
    BY <1>1, <2>5 DEF CreateLine, DeactivateProduct
  <2> QED BY <1>1, <2>1, <2>2, <2>3, <2>4, <2>5, Zenon DEF UploadNext
<1>2. UploadInv /\ [UploadNext]_uploadVars => [step]_uploadVars
  BY <1>1
<1>3. UploadInv => UploadTypeOK
  BY DEF UploadInv
<1>4. UploadInv /\ [UploadNext]_uploadVars => UploadInv'
  BY UploadStep
<1>5. SheetsTakenAsChecked <=> [][step]_uploadVars
  BY DEF SheetsTakenAsChecked, SheetTaken
<1> QED BY <1>2, <1>3, <1>4, <1>5, UploadInitInv, PTL DEF UploadSpec
------------------------------------------------------------------------------
(* The components side by side.                                            *)

\* Each component goes its own way.
LEMMA PartsAreComponents ==
  PartsSpec => CostSpec /\ AccountSpec /\ UploadSpec /\ StockSpec
<1>1. PartsInit => CostInit /\ AccountInit /\ UploadInit /\ StockInit
  BY DEF PartsInit
<1>2. [PartsNext]_partVars => [CostNext]_costVars
  BY Zenon DEF PartsNext, partVars
<1>3. [PartsNext]_partVars => [AccountNext]_accountVars
  BY Zenon DEF PartsNext, partVars
<1>4. [PartsNext]_partVars => [UploadNext]_uploadVars
  BY Zenon DEF PartsNext, partVars
<1>5. [PartsNext]_partVars => [StockNext]_stockVars
  BY Zenon DEF PartsNext, partVars
<1> QED BY <1>1, <1>2, <1>3, <1>4, <1>5, PTL
  DEF PartsSpec, CostSpec, AccountSpec, UploadSpec, StockSpec

\* The files, with backups or without.
LEMMA PartsFiles == PartsSpec => []FilesInv
<1> DEFINE Inv == FilesInv /\ (part = "backups" => BackupInv)
<1>1. PartsInit => Inv
  BY InitBackup DEF PartsInit, BackupInv
<1>2. ASSUME Inv, [PartsNext]_partVars PROVE Inv'
  <2>1. CASE UNCHANGED partVars
    <3>1. UNCHANGED backupVars /\ part' = part
      BY <2>1 DEF partVars
    <3>2. UNCHANGED fileVars
      BY <3>1 DEF backupVars
    <3>3. FilesInv'
      BY <1>2, <3>2, FilesNextInv
    <3>4. part = "backups" => BackupInv'
      BY <1>2, <3>1, BackupStep
    <3> QED BY <3>1, <3>3, <3>4
  <2>2. CASE PartsNext /\ part = "files"
    <3>1. FilesNext /\ part' = part
      BY <2>2 DEF PartsNext
    <3> QED BY <1>2, <2>2, <3>1, FilesNextInv
  <2>3. CASE PartsNext /\ part = "backups"
    <3>1. BackupNext /\ part' = part
      BY <2>3 DEF PartsNext
    <3>2. BackupInv'
      BY <1>2, <2>3, <3>1, BackupStep
    <3> QED BY <3>2 DEF BackupInv
  <2>4. CASE PartsNext /\ part \notin {"files", "backups"}
    <3>1. UNCHANGED backupVars /\ part' = part
      BY <2>4 DEF PartsNext
    <3>2. UNCHANGED fileVars
      BY <3>1 DEF backupVars
    <3> QED BY <1>2, <2>4, <3>1, <3>2, FilesNextInv
  <2> QED BY <1>2, <2>1, <2>2, <2>3, <2>4
<1>3. Inv => FilesInv
  OBVIOUS
<1> QED BY <1>1, <1>2, <1>3, PTL DEF PartsSpec

\* The columns of all components keep their types when they stand side by side:
\* each keeps its own, whichever of them is at work.
THEOREM PartsTypeCorrect == PartsSpec => []PartsTypeOK
<1>1. FilesInv => FileTypeOK
  BY RowsFollow
<1> QED BY <1>1, PartsAreComponents, PartsFiles, CostsTyped, AccountsTypeCorrect, SheetsAreTaken,
           FirstStockIsBooked, PTL
     DEF PartsTypeOK
=============================================================================
