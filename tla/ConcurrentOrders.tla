-------------------------- MODULE ConcurrentOrders --------------------------
(***************************************************************************)
(* Overlapping requests on the order lines of one product.                 *)
(*                                                                         *)
(* Fulfilment runs a request as one step.  Here a request is the sequence  *)
(* of its SQL statements: each statement sees what is committed when it    *)
(* runs (READ COMMITTED), a row that was read without a lock may be stale  *)
(* when it is used, SELECT ... FOR UPDATE, an UPDATE and the foreign key   *)
(* of an INSERT wait for the locks of other sessions, and what a request   *)
(* writes appears when it commits.                                         *)
(*                                                                         *)
(* The variables orders to manual are the committed rows; the others are   *)
(* what the sessions hold.  A LOT number is the position of the LOT in     *)
(* lots.  LOTs are WAITING: nothing has been inspected.                    *)
(***************************************************************************)
EXTENDS QuantityPolicy, Sequences, FiniteSets, FiniteSetsExt, Functions

CONSTANTS
  Sessions,       \* database sessions, each serves one request at a time
  OrderLines,     \* order_line ids of one product, with direct partners
  LotsByAge,      \* its inventory lots, by created_at and id
  OrderQtys,      \* quantities that may be ordered
  StockQtys,      \* quantities that an inventory lot may start with
  AdjustQtys,     \* quantities of a stock adjustment
  Requests,       \* the kinds of request that are made
  MaxRequests     \* bound on the number of requests

RequestKinds == {"plan", "base_lot", "cancel", "short_close", "change", "ship",
                 "increase", "decrease"}

ASSUME ConcurrentOrdersAssumption ==
  /\ IsFiniteSet(Sessions)
  /\ OrderLines \subseteq Nat /\ IsFiniteSet(OrderLines)
  /\ LotsByAge \in Seq(Range(LotsByAge))
  /\ \A i, j \in DOMAIN LotsByAge : LotsByAge[i] = LotsByAge[j] => i = j
  /\ OrderQtys \subseteq Nat \ {0}
  /\ StockQtys \subseteq Nat
  /\ AdjustQtys \subseteq Nat \ {0}
  /\ Requests \subseteq RequestKinds
  /\ MaxRequests \in Nat

VARIABLES
  orders,      \* order_line with the latest row of its plan history
  lots,        \* lot: the primary LOTs in the order of their numbers
  lines,       \* shipment_line (source_type STOCK) in id order
  inventory,   \* product_inventory.current_qty
  lotQty,      \* product_inventory_lot.current_qty
  manual,      \* net quantity of manual movements per inventory lot
  sess,        \* the request a session serves, and what it has read
  locks,       \* the row locks a session holds
  todo,        \* the rows its statement still has to lock
  left         \* requests that may still be made

tables == <<orders, lots, lines, inventory, lotQty, manual>>
vars == <<orders, lots, lines, inventory, lotQty, manual, sess, locks, todo, left>>

StockLots == Range(LotsByAge)
MaxTries == 3

NoPlan == [type |-> "NONE", stock |-> 0, production |-> 0]
NoRow == [status |-> "NONE", qty |-> 0, decided |-> FALSE, plan |-> NoPlan]
Nothing == [l \in StockLots |-> 0]
Idle == [pc |-> "idle", req |-> "none", order |-> 0, type |-> "none", qty |-> 0,
         row |-> NoRow, free |-> 0, plan |-> NoPlan, queue |-> <<>>, ids |-> {},
         take |-> Nothing, seen |-> 0, seenLots |-> Nothing, number |-> 0, tries |-> 0]
-----------------------------------------------------------------------------
(* The rows.                                                               *)

Target(qty) == CalculateShipQty("DIRECT", qty)

LineQtys == [i \in DOMAIN lines |-> lines[i].qty]
LinesOf(o, statuses) ==
  {i \in DOMAIN lines : lines[i].order = o /\ lines[i].status \in statuses}
WaitingOn(l) ==
  SumFunctionOnSet(LineQtys, {i \in DOMAIN lines : lines[i].lot = l /\ lines[i].status = "WAITING"})
ShippedFrom(l) ==
  SumFunctionOnSet(LineQtys, {i \in DOMAIN lines : lines[i].lot = l /\ lines[i].status = "DONE"})
Reserved == SumFunction([l \in StockLots |-> WaitingOn(l)])
Shipped(o) == SumFunctionOnSet(LineQtys, LinesOf(o, {"DONE"}))
LotsOf(o) == {n \in DOMAIN lots : lots[n].order = o}

\* The members of a set of numbers, in order.
Ascending(S) ==
  LET n == Cardinality(S)
  IN  CHOOSE q \in [1..n -> S] : \A i, j \in 1..n : i < j => q[i] < q[j]

ByAge(S) ==
  LET at == Ascending({i \in DOMAIN LotsByAge : LotsByAge[i] \in S})
  IN  [k \in DOMAIN at |-> LotsByAge[at[k]]]

\* What need pieces take from a queue of lots, first come first served.
FifoTake(queue, avail, need) ==
  [l \in StockLots |->
     IF l \notin Range(queue) THEN 0
     ELSE LET k == CHOOSE j \in DOMAIN queue : queue[j] = l
          IN  Least(avail[l],
                    AtLeastZero(need - SumFunctionOnSet(avail, {queue[j] : j \in 1..(k - 1)})))]

\* The lines of a request that takes these pieces, in the order of the lots.
NewLines(o, take, status) ==
  LET used == ByAge({l \in StockLots : take[l] > 0})
  IN  [i \in DOMAIN used |-> [order |-> o, lot |-> used[i], qty |-> take[used[i]],
                              status |-> status]]
-----------------------------------------------------------------------------
(* Row locks.                                                              *)

Row(table, id) == <<table, id>>
Order(o) == Row("order_line", o)
Line(i) == Row("shipment_line", i)
Stock(l) == Row("product_inventory_lot", l)
LotNo(n) == Row("lot_no", n)
Inventory == Row("product_inventory", 0)

Need(rows, mode) == [i \in DOMAIN rows |-> [row |-> rows[i], mode |-> mode]]
ForUpdate(rows) == Need(rows, "update")

\* PostgreSQL: key share (a foreign key), no key update (an UPDATE), update.
Compatible(m, n) ==
  \/ m = "keyshare" /\ n \in {"keyshare", "nokey"}
  \/ n = "keyshare" /\ m = "nokey"

Granted(s, want) ==
  \A t \in Sessions \ {s} : \A held \in locks[t] :
    held.row = want.row => Compatible(held.mode, want.mode)

LockNext(s) ==
  /\ todo[s] # <<>>
  /\ Granted(s, Head(todo[s]))
  /\ locks' = [locks EXCEPT ![s] = @ \cup {Head(todo[s])}]
  /\ todo' = [todo EXCEPT ![s] = Tail(@)]
  /\ UNCHANGED <<sess, left>> /\ UNCHANGED tables
-----------------------------------------------------------------------------
(* The life of a request.                                                  *)

Begin(s, kind, request, want) ==
  /\ kind \in Requests
  /\ left > 0
  /\ sess[s] = Idle
  /\ left' = left - 1
  /\ sess' = [sess EXCEPT ![s] = request]
  /\ todo' = [todo EXCEPT ![s] = want]
  /\ UNCHANGED locks /\ UNCHANGED tables

\* The session is between two statements.
At(s, pc) == sess[s].pc = pc /\ todo[s] = <<>>

\* The statement ends with these values and the next one locks rows.
Continue(s, new, want) ==
  /\ sess' = [sess EXCEPT ![s] = new]
  /\ todo' = [todo EXCEPT ![s] = want]
  /\ UNCHANGED <<locks, left>> /\ UNCHANGED tables

\* Mutant: no rollback and no commit, the locks stay.
EndKeepingLocks(s) ==
  /\ sess' = [sess EXCEPT ![s] = Idle]
  /\ todo' = [todo EXCEPT ![s] = <<>>]
  /\ UNCHANGED <<locks, left>>

End(s) ==
  /\ sess' = [sess EXCEPT ![s] = Idle]
  /\ locks' = [locks EXCEPT ![s] = {}]
  /\ todo' = [todo EXCEPT ![s] = <<>>]
  /\ UNCHANGED left

\* HTTPException: the transaction is rolled back.
Refuse(s) == End(s) /\ UNCHANGED tables

\* lock_timeout, or the victim of a deadlock.
LockTimeout(s) ==
  /\ todo[s] # <<>>
  /\ ~Granted(s, Head(todo[s]))
  /\ Refuse(s)

\* The stock is read under its locks, and written as what was read less what is taken.
WriteStock(s) ==
  /\ inventory' = sess[s].seen - SumFunction(sess[s].take)
  /\ lotQty' = [l \in StockLots |->
       IF sess[s].take[l] # 0 THEN sess[s].seenLots[l] - sess[s].take[l] ELSE lotQty[l]]
-----------------------------------------------------------------------------
Init ==
  /\ orders \in [OrderLines -> {[NoRow EXCEPT !.status = "OPEN", !.qty = q] : q \in OrderQtys}]
  /\ lots = <<>>
  /\ lines = <<>>
  /\ manual \in [StockLots -> StockQtys]
  /\ SumFunction(manual) > 0
  /\ lotQty = manual
  /\ inventory = SumFunction(manual)
  /\ sess = [s \in Sessions |-> Idle]
  /\ locks = [s \in Sessions |-> {}]
  /\ todo = [s \in Sessions |-> <<>>]
  /\ left = MaxRequests

(* Every order line has reserved the one piece of a lot of its own under a *)
(* partial plan, the next lot having come after the plan of the one before. *)
ReservedInit ==
  LET os == Ascending(OrderLines) IN
  /\ orders \in [OrderLines -> {[status |-> "OPEN", qty |-> q, decided |-> TRUE,
                                 plan |-> [type |-> "PARTIAL_STOCK_PLUS_PRODUCTION",
                                           stock |-> 1, production |-> Target(q) - 1]]
                                : q \in {n \in OrderQtys : Target(n) > 1}}]
  /\ lots = <<>>
  /\ Len(LotsByAge) = Len(os)
  /\ lines = [i \in DOMAIN os |-> [order |-> os[i], lot |-> LotsByAge[i], qty |-> 1,
                                   status |-> "WAITING"]]
  /\ manual = [l \in StockLots |-> 1]
  /\ lotQty = manual
  /\ inventory = SumFunction(manual)
  /\ sess = [s \in Sessions |-> Idle]
  /\ locks = [s \in Sessions |-> {}]
  /\ todo = [s \in Sessions |-> <<>>]
  /\ left = MaxRequests
-----------------------------------------------------------------------------
(* Confirmation of a plan: the order line is read without a lock, the stock *)
(* twice, the inventory lots under locks.                                   *)

\* The row read by db.get stays in the session until it commits.
BeginPlan(s) ==
  \E o \in OrderLines, type \in PlanTypes :
    /\ orders[o].status \notin {"DONE", "CANCELED"}
    /\ ~orders[o].decided
    /\ Begin(s, "plan", [Idle EXCEPT !.pc = "inventory", !.req = "plan", !.order = o,
                                     !.type = type, !.row = orders[o]], <<>>)

ReadInventory(s) ==
  /\ At(s, "inventory")
  /\ Continue(s, [sess[s] EXCEPT !.pc = "reserved", !.free = inventory], <<>>)

ReadReserved(s) ==
  /\ At(s, "reserved")
  /\ LET free == AtLeastZero(sess[s].free - Reserved) IN
     IF sess[s].type # "STOCK_REPLENISHMENT"
     THEN Continue(s, [sess[s] EXCEPT !.pc = "shipped", !.free = free], <<>>)
     ELSE IF free > 0
     THEN Continue(s, [sess[s] EXCEPT !.pc = "history", !.free = free,
            !.qty = sess[s].row.qty,
            !.plan = [type |-> sess[s].type, stock |-> 0, production |-> sess[s].row.qty]], <<>>)
     ELSE Refuse(s)

ReadShipped(s) ==
  /\ At(s, "shipped")
  /\ LET type == sess[s].type
         free == sess[s].free
         remaining == AtLeastZero(Target(sess[s].row.qty) - Shipped(sess[s].order))
         plan == [type |-> type, stock |-> PlannedStock(type, free, remaining),
                  production |-> PlannedProduction(type, sess[s].row.qty, free, remaining)]
     IN  IF type \in AcceptedPlans(free, remaining)
         THEN Continue(s, [sess[s] EXCEPT !.pc = IF plan.stock > 0 THEN "existing" ELSE "history",
                                          !.plan = plan], <<>>)
         ELSE Refuse(s)

CheckExistingLines(s) ==
  /\ At(s, "existing")
  /\ IF LinesOf(sess[s].order, {"WAITING", "DONE"}) = {}
     THEN Continue(s, [sess[s] EXCEPT !.pc = "stock"], <<>>)
     ELSE Refuse(s)

\* Mutant: allocate_inventory_lots_fifo without for_update.
ReadLots(s) ==
  /\ At(s, "stock")
  /\ LET queue == ByAge({l \in StockLots : lotQty[l] > 0}) IN
     Continue(s, [sess[s] EXCEPT !.pc = "allocate", !.queue = queue], <<>>)

LockLots(s) ==
  /\ At(s, "stock")
  /\ LET queue == ByAge({l \in StockLots : lotQty[l] > 0}) IN
     Continue(s, [sess[s] EXCEPT !.pc = "allocate", !.queue = queue],
              ForUpdate([i \in DOMAIN queue |-> Stock(queue[i])]))

\* The lines are inserted, which locks the key of the order line.
Allocate(s) ==
  /\ At(s, "allocate")
  /\ LET need == sess[s].plan.stock
         free == [l \in StockLots |-> AtLeastZero(lotQty[l] - WaitingOn(l))]
         take == FifoTake(sess[s].queue, free, need)
     IN  IF SumFunction(take) < need THEN Refuse(s)
         ELSE Continue(s, [sess[s] EXCEPT !.take = take, !.pc =
                             IF sess[s].type = "PARTIAL_STOCK_PLUS_PRODUCTION"
                             THEN "history" ELSE "confirm"],
                       Need(<<Order(sess[s].order)>>, "keyshare"))

\* confirm_shipment_lines_in_session for the lines just made.
ConfirmOwnLines(s) ==
  /\ At(s, "confirm")
  /\ Continue(s, [sess[s] EXCEPT !.pc = "read_stock"],
              ForUpdate(<<Order(sess[s].order), Inventory>>))

\* The flush of the plan history updates the order line.
WriteHistory(s) ==
  /\ At(s, "history")
  /\ Continue(s, [sess[s] EXCEPT !.pc = IF sess[s].type = "STOCK_REPLENISHMENT"
                                        THEN "create" ELSE "commit_plan"],
              Need(<<Order(sess[s].order)>>, "nokey"))

\* The latest plan is the one of the transaction that began last: another one
\* recorded since the order line was read may be the latest or not.
LatestPlan(s) ==
  LET there == orders[sess[s].order].plan
  IN  {sess[s].plan} \cup IF there = sess[s].row.plan THEN {} ELSE {there}

Ships(s) == sess[s].plan.type \in {"STOCK_SHIP_COMPLETE", "AUTO_STOCK_SHIP",
                                   "PARTIAL_STOCK_ONLY_CLOSE"}

CommitPlan(s) ==
  /\ At(s, "commit_plan")
  /\ \E plan \in LatestPlan(s) :
       orders' = [orders EXCEPT ![sess[s].order].decided = TRUE,
                                ![sess[s].order].plan = plan,
                                ![sess[s].order].status = IF Ships(s) THEN "DONE" ELSE @]
  /\ lines' = lines \o NewLines(sess[s].order, sess[s].take,
                                IF Ships(s) THEN "DONE" ELSE "WAITING")
  /\ IF Ships(s) THEN WriteStock(s) ELSE UNCHANGED <<inventory, lotQty>>
  /\ End(s)
  /\ UNCHANGED <<lots, manual>>
-----------------------------------------------------------------------------
(* Creation of the primary LOT.                                            *)

\* create_base_lot_from_plan
BeginBaseLot(s) ==
  \E o \in OrderLines :
    /\ orders[o].status = "OPEN"
    /\ orders[o].decided
    /\ Begin(s, "base_lot", [Idle EXCEPT !.pc = "lots", !.req = "base_lot", !.order = o,
                                         !.row = orders[o]], <<>>)

CheckNoLot(s) ==
  /\ At(s, "lots")
  /\ IF LotsOf(sess[s].order) # {} THEN Refuse(s)
     ELSE IF sess[s].req = "base_lot"
     THEN Continue(s, [sess[s] EXCEPT !.pc = "plan"], <<>>)
     ELSE Continue(s, [sess[s] EXCEPT !.pc = "commit_status"],
                   Need(<<Order(sess[s].order)>>, "nokey"))

ReadPlan(s) ==
  /\ At(s, "plan")
  /\ LET production == orders[sess[s].order].plan.production IN
     IF production > 0
     THEN Continue(s, [sess[s] EXCEPT !.pc = "create", !.qty = production], <<>>)
     ELSE Refuse(s)

\* create_primary_lot_for_order_line: the status is the one read at the beginning.
NumberLot(s) ==
  /\ At(s, "create")
  /\ IF sess[s].row.status = "OPEN"
     THEN Continue(s, [sess[s] EXCEPT !.pc = "insert", !.number = Len(lots) + 1],
                   ForUpdate(<<LotNo(Len(lots) + 1)>>))
     ELSE Refuse(s)

\* A number that was taken meanwhile is an IntegrityError, and the next is tried.
InsertLot(s) ==
  /\ At(s, "insert")
  /\ IF sess[s].number > Len(lots)
     THEN Continue(s, [sess[s] EXCEPT !.pc = "commit_lot"],
                   Need(<<Order(sess[s].order)>>, "keyshare")
                     \o Need(<<Order(sess[s].order)>>, "nokey"))
     ELSE IF sess[s].tries + 1 < MaxTries
     THEN /\ sess' = [sess EXCEPT ![s].pc = "create", ![s].tries = @ + 1]
          /\ locks' = [locks EXCEPT ![s] = {held \in @ : held.row # LotNo(sess[s].number)}]
          /\ UNCHANGED <<todo, left>> /\ UNCHANGED tables
     ELSE Refuse(s)

\* For a stock replenishment plan the LOT is the end of its confirmation.
CommitLot(s) ==
  /\ At(s, "commit_lot")
  /\ lots' = Append(lots, [order |-> sess[s].order, qty |-> sess[s].qty])
  /\ IF sess[s].req = "plan"
     THEN \E plan \in LatestPlan(s) :
            orders' = [orders EXCEPT ![sess[s].order].status = "CLOSED",
                                     ![sess[s].order].decided = TRUE,
                                     ![sess[s].order].plan = plan]
     ELSE orders' = [orders EXCEPT ![sess[s].order].status = "CLOSED"]
  /\ End(s)
  /\ UNCHANGED <<lines, inventory, lotQty, manual>>
-----------------------------------------------------------------------------
(* Cancellation and short close.                                           *)

BeginCancel(s) ==
  \E o \in OrderLines :
    /\ orders[o].status \notin {"DONE", "CANCELED"}
    /\ Begin(s, "cancel", [Idle EXCEPT !.pc = "lots", !.req = "cancel", !.order = o,
                                       !.row = orders[o]], <<>>)

BeginShortClose(s) ==
  \E o \in OrderLines :
    /\ orders[o].status = "CLOSED"
    /\ Begin(s, "short_close", [Idle EXCEPT !.pc = "remaining", !.req = "short_close",
                                            !.order = o, !.row = orders[o]], <<>>)

ReadRemaining(s) ==
  /\ At(s, "remaining")
  /\ IF Target(sess[s].row.qty) > Shipped(sess[s].order)
     THEN Continue(s, [sess[s] EXCEPT !.pc = "commit_status"],
                   Need(<<Order(sess[s].order)>>, "nokey"))
     ELSE Refuse(s)

CommitStatus(s) ==
  /\ At(s, "commit_status")
  /\ orders' = [orders EXCEPT ![sess[s].order].status =
                  IF sess[s].req = "cancel" THEN "CANCELED" ELSE "DONE"]
  /\ End(s)
  /\ UNCHANGED <<lots, lines, inventory, lotQty, manual>>
-----------------------------------------------------------------------------
(* A change of the ordered quantity: order line, then shipment lines.      *)

BeginChange(s) ==
  \E o \in OrderLines, q \in OrderQtys :
    Begin(s, "change", [Idle EXCEPT !.pc = "edit", !.req = "change", !.order = o, !.qty = q],
          ForUpdate(<<Order(o)>>))

\* No other request modelled here locks the LOT rows that this one locks too.
EditOrder(s) ==
  /\ At(s, "edit")
  /\ LET o == sess[s].order
         withLot == LotsOf(o) # {}
         statuses == IF withLot THEN {"WAITING", "DONE"} ELSE {"WAITING"}
         ids == Ascending(LinesOf(o, statuses))
     IN  IF /\ orders[o].status \notin {"DONE", "CANCELED"}
            /\ orders[o].qty # sess[s].qty
            /\ Cardinality(LotsOf(o)) <= 1
         THEN Continue(s, [sess[s] EXCEPT !.pc = IF withLot THEN "resize" ELSE "void",
                                          !.row = orders[o], !.ids = LinesOf(o, statuses)],
                       ForUpdate([i \in DOMAIN ids |-> Line(ids[i])]))
         ELSE Refuse(s)

\* _invalidate_unreleased_plan: the lines that are still WAITING are canceled.
CommitVoid(s) ==
  /\ At(s, "void")
  /\ orders' = [orders EXCEPT ![sess[s].order].qty = sess[s].qty,
                              ![sess[s].order].decided = FALSE,
                              ![sess[s].order].status = IF @ = "CLOSED" THEN "OPEN" ELSE @]
  /\ lines' = [i \in DOMAIN lines |->
                 IF i \in sess[s].ids /\ lines[i].status = "WAITING"
                 THEN [lines[i] EXCEPT !.status = "CANCELED"] ELSE lines[i]]
  /\ End(s)
  /\ UNCHANGED <<lots, inventory, lotQty, manual>>

\* apply_order_quantity_change for an order line with one primary LOT.
CommitResize(s) ==
  /\ At(s, "resize")
  /\ LET o == sess[s].order
         plan == orders[o].plan
         partial == plan.type = "PARTIAL_STOCK_PLUS_PRODUCTION"
         kept == SumFunctionOnSet(LineQtys, LinesOf(o, {"WAITING"}))
         production == IF plan.type = "STOCK_REPLENISHMENT" THEN sess[s].qty
                       ELSE Target(sess[s].qty) - kept
         lot == CHOOSE n \in LotsOf(o) : TRUE
     IN  IF /\ LinesOf(o, {"DONE"}) = {}
            /\ partial <=> kept > 0
            /\ plan.stock = kept
            /\ production > 0
            /\ partial => lots[lot].qty = plan.production
         THEN /\ orders' = [orders EXCEPT ![o].qty = sess[s].qty, ![o].plan =
                              [type |-> plan.type, stock |-> kept, production |-> production]]
              /\ lots' = [lots EXCEPT ![lot].qty = production]
              /\ End(s)
              /\ UNCHANGED <<lines, inventory, lotQty, manual>>
         ELSE Refuse(s)
-----------------------------------------------------------------------------
(* Confirmation of shipment lines: order lines, lines, product, lots.      *)

\* Mutant: the lines first, then the order lines.
BeginShipmentLinesFirst(s) ==
  \E ids \in SUBSET {i \in DOMAIN lines : lines[i].status = "WAITING"} :
    /\ ids # {}
    /\ LET affected == Ascending({lines[i].order : i \in ids})
           rows == Ascending(ids)
       IN  Begin(s, "ship", [Idle EXCEPT !.pc = "lines", !.req = "ship", !.ids = ids],
                 ForUpdate([k \in DOMAIN rows |-> Line(rows[k])])
                   \o ForUpdate([k \in DOMAIN affected |-> Order(affected[k])]))

\* Lines are shown to the user while they are WAITING.
BeginShipment(s) ==
  \E ids \in SUBSET {i \in DOMAIN lines : lines[i].status = "WAITING"} :
    /\ ids # {}
    /\ LET affected == Ascending({lines[i].order : i \in ids}) IN
       Begin(s, "ship", [Idle EXCEPT !.pc = "lines", !.req = "ship", !.ids = ids],
             ForUpdate([k \in DOMAIN affected |-> Order(affected[k])]))

LockLines(s) ==
  /\ At(s, "lines")
  /\ LET rows == Ascending({i \in sess[s].ids : lines[i].status = "WAITING"}) IN
     Continue(s, [sess[s] EXCEPT !.pc = "count"],
              ForUpdate([k \in DOMAIN rows |-> Line(rows[k])]))

TakenBy(ids) == [l \in StockLots |-> SumFunctionOnSet(LineQtys, {i \in ids : lines[i].lot = l})]

\* Mutant: lines that are no longer WAITING are not refused.
CountNothing(s) ==
  /\ At(s, "count")
  /\ LET rows == Ascending(sess[s].ids) IN
     Continue(s, [sess[s] EXCEPT !.pc = "read_stock", !.take = TakenBy(sess[s].ids)],
              ForUpdate(<<Inventory>> \o [k \in DOMAIN rows |-> Stock(lines[rows[k]].lot)]))

\* All the lines must have been WAITING when they were locked.
CountLines(s) ==
  /\ At(s, "count")
  /\ LET rows == Ascending(sess[s].ids) IN
     IF \A i \in sess[s].ids : lines[i].status = "WAITING"
     THEN Continue(s, [sess[s] EXCEPT !.pc = "read_stock", !.take = TakenBy(sess[s].ids)],
                   ForUpdate(<<Inventory>> \o [k \in DOMAIN rows |-> Stock(lines[rows[k]].lot)]))
     ELSE Refuse(s)

\* The stock covers what is taken; it is written when the request commits.
ReadStock(s) ==
  /\ At(s, "read_stock")
  /\ IF /\ inventory >= SumFunction(sess[s].take)
        /\ \A l \in StockLots : lotQty[l] >= sess[s].take[l]
     THEN Continue(s, [sess[s] EXCEPT !.pc = IF sess[s].req = "plan" THEN "history"
                                             ELSE "commit_shipment",
                                      !.seen = inventory, !.seenLots = lotQty], <<>>)
     ELSE Refuse(s)

\* Order lines are synced one by one; the first does not see the movements of
\* this request yet, which are flushed with its snapshot.
CommitShipment(s) ==
  /\ At(s, "commit_shipment")
  /\ lines' = [i \in DOMAIN lines |-> IF i \in sess[s].ids
                                      THEN [lines[i] EXCEPT !.status = "DONE"] ELSE lines[i]]
  /\ LET affected == {lines[i].order : i \in sess[s].ids} IN
     \E first \in affected :
       orders' = [o \in OrderLines |->
         IF /\ o \in affected
            /\ orders[o].status \notin {"CANCELED", "DONE"}
            /\ Target(orders[o].qty) <= Shipped(o)
                 + IF o = first THEN 0
                   ELSE SumFunctionOnSet(LineQtys, {i \in sess[s].ids : lines[i].order = o})
         THEN [orders[o] EXCEPT !.status = "DONE"]
         ELSE orders[o]]
  /\ WriteStock(s)
  /\ End(s)
  /\ UNCHANGED <<lots, manual>>
-----------------------------------------------------------------------------
(* Manual adjustments: the product, then one lot, or for a decrease all     *)
(* its lots, reserved or not.                                              *)

BeginIncrease(s) ==
  \E n \in AdjustQtys, l \in StockLots :
    Begin(s, "increase", [Idle EXCEPT !.pc = "increase", !.req = "increase",
                                      !.take = [Nothing EXCEPT ![l] = -n]],
          ForUpdate(<<Inventory, Stock(l)>>))

\* The lot is there already; one that the increase creates is left to Fulfilment.
ReadIncrease(s) ==
  /\ At(s, "increase")
  /\ Continue(s, [sess[s] EXCEPT !.pc = "commit_adjust", !.seen = inventory,
                                 !.seenLots = lotQty], <<>>)

\* Mutant: the product is not locked.
BeginDecreaseUnlocked(s) ==
  \E n \in AdjustQtys :
    Begin(s, "decrease", [Idle EXCEPT !.pc = "decrease", !.req = "decrease", !.qty = n], <<>>)

BeginDecrease(s) ==
  \E n \in AdjustQtys :
    Begin(s, "decrease", [Idle EXCEPT !.pc = "decrease", !.req = "decrease", !.qty = n],
          ForUpdate(<<Inventory>>))

LockDecrease(s) ==
  /\ At(s, "decrease")
  /\ LET queue == ByAge({l \in StockLots : lotQty[l] > 0}) IN
     IF inventory >= sess[s].qty
     THEN Continue(s, [sess[s] EXCEPT !.pc = "take", !.queue = queue, !.seen = inventory],
                   ForUpdate([i \in DOMAIN queue |-> Stock(queue[i])]))
     ELSE Refuse(s)

TakeDecrease(s) ==
  /\ At(s, "take")
  /\ LET take == FifoTake(sess[s].queue, lotQty, sess[s].qty) IN
     IF SumFunction(take) = sess[s].qty
     THEN Continue(s, [sess[s] EXCEPT !.pc = "commit_adjust", !.take = take,
                                      !.seenLots = lotQty], <<>>)
     ELSE Refuse(s)

CommitAdjust(s) ==
  /\ At(s, "commit_adjust")
  /\ manual' = [l \in StockLots |-> manual[l] - sess[s].take[l]]
  /\ WriteStock(s)
  /\ End(s)
  /\ UNCHANGED <<orders, lots, lines>>
-----------------------------------------------------------------------------
Statement(s) ==
  \/ ReadInventory(s) \/ ReadReserved(s) \/ ReadShipped(s) \/ CheckExistingLines(s)
  \/ LockLots(s) \/ Allocate(s) \/ ConfirmOwnLines(s) \/ WriteHistory(s) \/ CommitPlan(s)
  \/ CheckNoLot(s) \/ ReadPlan(s) \/ NumberLot(s) \/ InsertLot(s) \/ CommitLot(s)
  \/ ReadRemaining(s) \/ CommitStatus(s)
  \/ EditOrder(s) \/ CommitVoid(s) \/ CommitResize(s)
  \/ LockLines(s) \/ CountLines(s) \/ ReadStock(s) \/ CommitShipment(s)
  \/ ReadIncrease(s) \/ LockDecrease(s) \/ TakeDecrease(s) \/ CommitAdjust(s)

BeginRequest(s) ==
  \/ BeginPlan(s) \/ BeginBaseLot(s) \/ BeginCancel(s) \/ BeginShortClose(s)
  \/ BeginChange(s) \/ BeginShipment(s) \/ BeginIncrease(s) \/ BeginDecrease(s)

\* A session at work goes on: it runs, it gets its lock, or it gives up waiting.
Work(s) == Statement(s) \/ LockNext(s) \/ LockTimeout(s)

Next == \E s \in Sessions : BeginRequest(s) \/ Work(s)

Spec == Init /\ [][Next]_vars
ReservedSpec == ReservedInit /\ [][Next]_vars

\* A session runs on and gets a lock that is free; nobody has to time out.
FairSpec == ReservedSpec /\ \A s \in Sessions : WF_vars(Statement(s) \/ LockNext(s))
-----------------------------------------------------------------------------
OrderRows == [status: {"OPEN", "CLOSED", "DONE", "CANCELED"}, qty: Nat, decided: BOOLEAN,
              plan: [type: PlanTypes \cup {"NONE"}, stock: Nat, production: Nat]]

(* Every row holds what its columns allow, quantities are never negative.  *)
TypeOK ==
  /\ orders \in [OrderLines -> OrderRows]
  /\ lots \in Seq([order: OrderLines, qty: Nat \ {0}])
  /\ lines \in Seq([order: OrderLines, lot: StockLots, qty: Nat \ {0},
                    status: {"WAITING", "DONE", "CANCELED"}])
  /\ inventory \in Nat
  /\ lotQty \in [StockLots -> Nat]
  /\ manual \in [StockLots -> Int]
  /\ left \in 0..MaxRequests
  /\ \A s \in Sessions : sess[s] = Idle => locks[s] = {} /\ todo[s] = <<>>

(* No movement of stock is lost when requests overlap: each lot holds what *)
(* its movements say, and the product what its lots hold.                  *)
BooksAgree ==
  /\ inventory = SumFunction(lotQty)
  /\ \A l \in StockLots : lotQty[l] = manual[l] - ShippedFrom(l)

(* Overlapping plans never promise the same pieces twice: a lot has fewer  *)
(* pieces than its WAITING lines only after a manual decrease of the lot.  *)
PromisedOnce ==
  [][\A l \in StockLots :
       WaitingOn(l) <= lotQty[l] /\ WaitingOn(l)' > lotQty'[l] => manual'[l] < manual[l]]_vars

(* A line that was shipped or canceled stays so: a confirmation and a      *)
(* quantity change of the same order line do not both get its lines.       *)
LinesSettleOnce ==
  [][\A i \in DOMAIN lines : lines[i].status # "WAITING" => lines'[i] = lines[i]]_vars

\* Sessions each of which waits for a lock of another one of them.
Deadlocked(D) ==
  \A s \in D : /\ todo[s] # <<>>
               /\ \E t \in D \ {s} : \E held \in locks[t] :
                    /\ held.row = Head(todo[s]).row
                    /\ ~Compatible(held.mode, Head(todo[s]).mode)

(* The lock order order line, shipment line, product, lot is kept by all   *)
(* but plan confirmations, which lock lots first: no deadlock on these     *)
(* rows is without one (comment at shipment_confirm_service.py:93).        *)
DeadlockNeedsPlan ==
  \A D \in (SUBSET Sessions) \ {{}} : Deadlocked(D) => \E s \in D : sess[s].req = "plan"

(* Every request ends, committed or refused, without the help of a timeout *)
(* (lock_timeout in build_engine_kwargs): what it waits for is released,   *)
(* unless a plan confirmation is in a deadlock.                            *)
WaitsEnd ==
  \A s \in Sessions : sess[s] # Idle ~> sess[s] = Idle \/ \E D \in (SUBSET Sessions) \ {{}} :
    Deadlocked(D) /\ \E t \in D : sess[t].req = "plan"
-----------------------------------------------------------------------------
(* What the documents say of order lines, which unlocked reads break when  *)
(* requests overlap.                                                       *)

(* A processing plan ships an order line once: it is refused when the plan *)
(* was confirmed before, so stock shipments do not exceed the target.      *)
ShippedWithinTarget == \A o \in OrderLines : Shipped(o) <= Target(orders[o].qty)

(* An order line with a LOT that is not canceled is not canceled.          *)
CanceledWithoutLots == \A o \in OrderLines : orders[o].status = "CANCELED" => LotsOf(o) = {}
=============================================================================
