----------------------------- MODULE Fulfilment -----------------------------
(***************************************************************************)
(* How an order line is fulfilled, from its registration to its shipment,  *)
(* for the order lines of one product.  An order line keeps its product,   *)
(* and a partner its name: the requests that edit these are left out.      *)
(*                                                                         *)
(* An order line is served from stock, from production, or from both.  Its *)
(* processing plan reserves stock (WAITING shipment lines) and creates a   *)
(* production LOT; the LOT is inspected in rounds, and every saved round   *)
(* settles its sellable pieces at once: ship, put into stock, discard.     *)
(* Every request is one transaction, so every action is one request; what  *)
(* overlapping requests do to each other is not a matter of this module.   *)
(*                                                                         *)
(* The rows of product_inventory_movement are kept where their source is:  *)
(* manual[l] is what adjustments brought into lot l;                       *)
(* confirmed[o][l] what confirmed shipment lines of order line o took from *)
(* l; a round's stockIn and ship what its inspection result brought in and *)
(* shipped.  WAITING lines are reserved[o][l], in id order waitingOrder[o].*)
(***************************************************************************)
EXTENDS QuantityPolicy, Sequences, FiniteSets, Functions

CONSTANTS
  OrderLines,     \* order lines of one product
  NoOrder,        \* the order line of a LOT not created yet
  StockLots,      \* inventory lot numbers that no production LOT has
  ProdLots,       \* production LOTs (LOT numbers)
  Partners,       \* the partners that order
  PartnerClass,   \* the class of each partner
  Replenish,      \* the partners that order for stock
  OrderNumbers,   \* the numbers of orders; an order has one line or several
  OrderQtys,      \* quantities that may be ordered
  RoundQtys,      \* quantities that may be inspected or shipped in a round
  AdjustQtys,     \* quantities of a stock adjustment
  AdjustLots,     \* inventory lots that adjustments add to
  MaxStock,       \* bound on the stock that adjustments may build
  MaxRounds       \* bound on the inspection rounds of a LOT

ASSUME FulfilmentAssumption ==
  /\ IsFiniteSet(OrderLines) /\ IsFiniteSet(StockLots) /\ IsFiniteSet(ProdLots)
  /\ NoOrder \notin OrderLines
  /\ StockLots \cap ProdLots = {}
  /\ Partners # {} /\ OrderNumbers # {}
  /\ PartnerClass \in [Partners -> PartnerClasses]
  /\ Replenish \subseteq Partners
  /\ OrderQtys \subseteq Nat \ {0}
  /\ RoundQtys \subseteq Nat
  /\ AdjustQtys \subseteq Nat \ {0}
  /\ AdjustLots \subseteq StockLots \cup ProdLots
  /\ MaxStock \in Nat
  /\ MaxRounds \in Nat \ {0}

VARIABLES
  orders,        \* order_line and the latest row of its plan history
  lots,          \* lot
  rounds,        \* inspection_schedule with its inspection_result and movements
  reserved,      \* WAITING stock shipment lines, per order line and inventory lot
  waitingOrder,  \* the lots of an order line's WAITING lines, in id order
  confirmed,     \* stock shipped by confirming WAITING lines
  inventory,     \* product_inventory.current_qty
  lotQty,        \* product_inventory_lot.current_qty
  fifo,          \* the inventory lots that exist, oldest first
  manual         \* net quantity of adjustments per lot

vars == <<orders, lots, rounds, reserved, waitingOrder, confirmed,
          inventory, lotQty, fifo, manual>>

stockVars == <<inventory, lotQty, fifo, manual>>

InvLots == StockLots \cup ProdLots
RoundNos == 1..MaxRounds

NoPlan == [type |-> "NONE", target |-> 0, stock |-> 0, production |-> 0]
\* An order line not registered yet; its partner and its number are no matter.
NoOrderLine == [status |-> "NONE", partner |-> CHOOSE r \in Partners : TRUE,
                number |-> CHOOSE n \in OrderNumbers : TRUE,
                qty |-> 0, decided |-> FALSE, plan |-> NoPlan]
NoLot == [order |-> NoOrder, rework |-> FALSE, qty |-> 0, status |-> "NONE"]
Nothing == [l \in InvLots |-> 0]
NoRound == [status |-> "NONE", received |-> 0, sellable |-> 0, discard |-> 0,
            settled |-> FALSE, stockIn |-> 0, ship |-> Nothing]

OrderStatuses == {"NONE", "OPEN", "CLOSED", "DONE", "CANCELED"}
LotStatuses == {"NONE"} \cup ScheduleStatuses
-----------------------------------------------------------------------------
(* Sums over the rows.                                                     *)

Plus(f, g) == [l \in InvLots |-> f[l] + g[l]]
Minus(f, g) == [l \in InvLots |-> f[l] - g[l]]
Only(lot, n) == [l \in InvLots |-> IF l = lot THEN n ELSE 0]

TargetOf(partner, q) == CalculateShipQty(PartnerClass[partner], q)
Target(o) == TargetOf(orders[o].partner, orders[o].qty)

\* Stock of a lot that WAITING lines of any order line hold.
ReservedOf(lot) == SumFunction([o \in OrderLines |-> reserved[o][lot]])
ReservedBy(o) == SumFunction(reserved[o])
Reserved == SumFunction([o \in OrderLines |-> ReservedBy(o)])

\* get_available_inventory_qty: physical inventory minus reserved inventory.
Available == AtLeastZero(inventory - Reserved)

RoundsOf(o, ls) == {pk \in ProdLots \X RoundNos : ls[pk[1]].order = o}

\* SHIP_OUT movements of order line o, when the rows are these.
ShippedGiven(o, cf, ls, rs) ==
  SumFunction(cf[o])
  + SumFunctionOnSet([pk \in ProdLots \X RoundNos |-> SumFunction(rs[pk[1]][pk[2]].ship)],
                     RoundsOf(o, ls))
Shipped(o) == ShippedGiven(o, confirmed, lots, rounds)

LotsOf(o) == {p \in ProdLots : lots[p].order = o}
Remaining(o) == AtLeastZero(Target(o) - Shipped(o))

Takes(n) == [InvLots -> 0..n]

(* take is what need pieces take from the lots of a queue, first come first *)
(* served, when at most avail[l] may be taken from lot l.                   *)
TakesInOrder(take, avail, queue, need) ==
  /\ SumFunction(take) = need
  /\ \A l \in InvLots : take[l] <= AtLeastZero(avail[l])
  /\ \A l \in InvLots : take[l] > 0 => l \in Range(queue)
  /\ \A i, j \in DOMAIN queue :
       i < j /\ take[queue[j]] > 0 => take[queue[i]] = AtLeastZero(avail[queue[i]])

\* get_available_inventory_lots_fifo: current quantity minus WAITING lines.
FreeStock == [l \in InvLots |-> lotQty[l] - ReservedOf(l)]

\* The lots of a sequence that still hold something.
Holding(queue, held) == SelectSeq(queue, LAMBDA l : held[l] > 0)
-----------------------------------------------------------------------------
Init ==
  /\ orders = [o \in OrderLines |-> NoOrderLine]
  /\ lots = [p \in ProdLots |-> NoLot]
  /\ rounds = [p \in ProdLots |-> [k \in RoundNos |-> NoRound]]
  /\ reserved = [o \in OrderLines |-> Nothing]
  /\ waitingOrder = [o \in OrderLines |-> <<>>]
  /\ confirmed = [o \in OrderLines |-> Nothing]
  /\ inventory = 0
  /\ lotQty = Nothing
  /\ fifo = <<>>
  /\ manual = Nothing

(* A database taken over from before rounds were settled at once: a LOT in *)
(* its second round whose split first round found pieces that were neither *)
(* shipped nor put into stock (settled_at is null).                        *)
LegacyInit ==
  /\ \E o \in OrderLines, p \in ProdLots, q \in OrderQtys, n \in RoundQtys \ {0} :
       LET target == TargetOf(NoOrderLine.partner, q) IN
       /\ orders = [x \in OrderLines |->
            IF x = o THEN [NoOrderLine EXCEPT !.status = "CLOSED", !.qty = q, !.decided = TRUE,
                             !.plan = [type |-> "AUTO_PRODUCTION", target |-> target,
                                       stock |-> 0, production |-> target]]
                     ELSE NoOrderLine]
       /\ lots = [x \in ProdLots |->
            IF x = p THEN [order |-> o, rework |-> FALSE, qty |-> target,
                           status |-> "IN_PROGRESS"]
                     ELSE NoLot]
       /\ MaxRounds > 1
       /\ rounds = [x \in ProdLots |-> [k \in RoundNos |->
            IF x = p /\ k = 1 THEN [NoRound EXCEPT !.status = "PARTIAL_DONE",
                                       !.received = n, !.sellable = n]
            ELSE IF x = p /\ k = 2 THEN [NoRound EXCEPT !.status = "IN_PROGRESS"]
            ELSE NoRound]]
  /\ reserved = [o \in OrderLines |-> Nothing]
  /\ waitingOrder = [o \in OrderLines |-> <<>>]
  /\ confirmed = [o \in OrderLines |-> Nothing]
  /\ inventory = 0
  /\ lotQty = Nothing
  /\ fifo = <<>>
  /\ manual = Nothing
-----------------------------------------------------------------------------
(* Order lines and their plans.                                            *)

\* Mutant: the parent of a rework LOT is forgotten.
NewLotWithoutParent(o, p, q, rework) ==
  lots' = [lots EXCEPT ![p] = [order |-> o, rework |-> FALSE, qty |-> q,
                               status |-> "WAITING"]]

NewLot(o, p, q, rework) ==
  lots' = [lots EXCEPT ![p] = [order |-> o, rework |-> rework, qty |-> q,
                               status |-> "WAITING"]]

IsUnused(p) == lots[p] = NoLot

\* create_primary_lot_for_order_line, for an order line that is OPEN.
CreatePrimaryLot(o, p, q) ==
  /\ q > 0
  /\ IsUnused(p)
  /\ NewLot(o, p, q, FALSE)

\* Registration: produce at once when there is no stock, else wait for a plan.
CreateOrderLine(o, partner, number, q) ==
  /\ orders[o].status = "NONE"
  /\ LET row(status, decided, plan) ==
           [status |-> status, partner |-> partner, number |-> number, qty |-> q,
            decided |-> decided, plan |-> plan]
         produce(type, target, n) ==
           /\ orders' = [orders EXCEPT ![o] = row("CLOSED", TRUE,
                [type |-> type, target |-> target, stock |-> 0, production |-> n])]
           /\ \E p \in ProdLots : CreatePrimaryLot(o, p, n)
         target == TargetOf(partner, q)
     IN  \/ partner \in Replenish /\ produce("STOCK_REPLENISHMENT", 0, q)
         \/ partner \notin Replenish /\ Available <= 0 /\ produce("AUTO_PRODUCTION", target, target)
         \/ /\ partner \notin Replenish /\ Available > 0
            /\ orders' = [orders EXCEPT ![o] = row("OPEN", FALSE, NoPlan)]
            /\ UNCHANGED lots
  /\ UNCHANGED <<rounds, reserved, waitingOrder, confirmed>>
  /\ UNCHANGED stockVars

\* No stock line of o without an inspection result that is not canceled.
HasNoStockLine(o) == reserved[o] = Nothing /\ confirmed[o] = Nothing

Decide(o, type, available, remaining, status) ==
  orders' = [orders EXCEPT
    ![o].status = status,
    ![o].decided = TRUE,
    ![o].plan = [type |-> type,
                 target |-> IF type = "STOCK_REPLENISHMENT" THEN 0 ELSE Target(o),
                 stock |-> PlannedStock(type, available, remaining),
                 production |-> PlannedProduction(type, orders[o].qty, available, remaining)]]

MayDecide(o, type) ==
  /\ orders[o].status \in {"OPEN", "CLOSED"}
  /\ ~orders[o].decided
  /\ type \in AcceptedPlans(Available, Remaining(o))

\* The plan leaves the stock alone; stock replenishment also creates its LOT.
ConfirmProductionPlan(o, type) ==
  /\ type \in {"AUTO_PRODUCTION", "STOCK_REPLENISHMENT"}
  /\ MayDecide(o, type)
  /\ \/ /\ type = "AUTO_PRODUCTION"
        /\ Decide(o, type, Available, Remaining(o), orders[o].status)
        /\ UNCHANGED lots
     \/ /\ type = "STOCK_REPLENISHMENT"
        /\ orders[o].status = "OPEN"
        /\ Decide(o, type, Available, Remaining(o), "CLOSED")
        /\ \E p \in ProdLots : CreatePrimaryLot(o, p, orders[o].qty)
  /\ UNCHANGED <<rounds, reserved, waitingOrder, confirmed>>
  /\ UNCHANGED stockVars

\* The plan ships from stock and closes: the lines are created and confirmed.
ConfirmStockPlan(o, type) ==
  /\ type \in {"STOCK_SHIP_COMPLETE", "AUTO_STOCK_SHIP", "PARTIAL_STOCK_ONLY_CLOSE"}
  /\ MayDecide(o, type)
  /\ HasNoStockLine(o)
  /\ Decide(o, type, Available, Remaining(o), "DONE")
  /\ \E take \in Takes(Available) :
       /\ TakesInOrder(take, FreeStock, fifo, PlannedStock(type, Available, Remaining(o)))
       /\ confirmed' = [confirmed EXCEPT ![o] = take]
       /\ lotQty' = Minus(lotQty, take)
  /\ inventory' = inventory - PlannedStock(type, Available, Remaining(o))
  /\ UNCHANGED <<lots, rounds, reserved, waitingOrder, fifo, manual>>

\* The plan reserves the stock there is; the shortage is produced.
ConfirmPartialPlan(o) ==
  /\ MayDecide(o, "PARTIAL_STOCK_PLUS_PRODUCTION")
  /\ HasNoStockLine(o)
  /\ Decide(o, "PARTIAL_STOCK_PLUS_PRODUCTION", Available, Remaining(o), orders[o].status)
  /\ \E take \in Takes(Available) :
       /\ TakesInOrder(take, FreeStock, fifo, Available)
       /\ reserved' = [reserved EXCEPT ![o] = take]
       /\ waitingOrder' = [waitingOrder EXCEPT ![o] = Holding(fifo, take)]
  /\ UNCHANGED <<lots, rounds, confirmed>>
  /\ UNCHANGED stockVars

\* create_base_lot_from_plan
CreateBaseLot(o, p) ==
  /\ orders[o].status = "OPEN"
  /\ \A x \in LotsOf(o) : lots[x].rework
  /\ orders[o].decided
  /\ CreatePrimaryLot(o, p, orders[o].plan.production)
  /\ orders' = [orders EXCEPT ![o].status = "CLOSED"]
  /\ UNCHANGED <<rounds, reserved, waitingOrder, confirmed>>
  /\ UNCHANGED stockVars
-----------------------------------------------------------------------------
(* Changes of an order line.                                               *)

\* update_order_line_fields: the partner and the order number of an OPEN order
\* line.  Its plan and its WAITING lines stay, though the target follows the
\* partner.  A quantity in the same request is changed first, with the partner
\* that the order line had.
EditOrderLine(o, partner, number) ==
  /\ orders[o].status = "OPEN"
  /\ orders' = [orders EXCEPT ![o].partner = partner, ![o].number = number]
  /\ UNCHANGED <<lots, rounds, reserved, waitingOrder, confirmed>>
  /\ UNCHANGED stockVars

\* No LOT yet: the plan is void, its reservations are canceled.
ChangeQuantityBeforeLot(o, q) ==
  /\ orders[o].status \in {"OPEN", "CLOSED"}
  /\ q # orders[o].qty
  /\ LotsOf(o) = {}
  /\ orders' = [orders EXCEPT ![o].qty = q, ![o].decided = FALSE, ![o].status = "OPEN"]
  /\ reserved' = [reserved EXCEPT ![o] = Nothing]
  /\ waitingOrder' = [waitingOrder EXCEPT ![o] = <<>>]
  /\ UNCHANGED <<lots, rounds, confirmed>>
  /\ UNCHANGED stockVars

\* Mutant: the kept stock is not taken off the production.
RevisedPlanInFull(o, q) ==
  LET plan == orders[o].plan
      kept == IF plan.type = "PARTIAL_STOCK_PLUS_PRODUCTION" THEN ReservedBy(o) ELSE 0
      target == TargetOf(orders[o].partner, q)
  IN  [type |-> plan.type, target |-> target, stock |-> kept, production |-> target]

\* The plan after a quantity edit keeps the stock part of a partial plan.
RevisedPlan(o, q) ==
  LET plan == orders[o].plan
      kept == IF plan.type = "PARTIAL_STOCK_PLUS_PRODUCTION" THEN ReservedBy(o) ELSE 0
      type == IF kept > 0 THEN "PARTIAL_STOCK_PLUS_PRODUCTION"
              ELSE IF orders[o].partner \in Replenish THEN "STOCK_REPLENISHMENT"
              ELSE IF plan.type \in PlanTypes THEN plan.type ELSE "AUTO_PRODUCTION"
      target == TargetOf(orders[o].partner, q)
  IN  [type |-> type,
       target |-> IF type = "STOCK_REPLENISHMENT" THEN 0 ELSE target,
       stock |-> kept,
       production |-> IF type = "STOCK_REPLENISHMENT" THEN q ELSE target - kept]

\* _get_reusable_partial_stock_qty refuses any other state of the reservation.
ReservationReusable(o) ==
  LET plan == orders[o].plan IN
  IF plan.type = "PARTIAL_STOCK_PLUS_PRODUCTION"
  THEN /\ reserved[o] # Nothing
       /\ plan.stock > 0
       /\ ReservedBy(o) = plan.stock
  ELSE reserved[o] = Nothing /\ plan.stock = 0

\* One primary LOT on which nothing has started: it is resized with the plan.
ChangeQuantityOfLot(o, p, q) ==
  /\ orders[o].status \in {"OPEN", "CLOSED"}
  /\ q # orders[o].qty
  /\ LotsOf(o) = {p}
  /\ ~lots[p].rework
  /\ lots[p].status = "WAITING"
  /\ \A k \in RoundNos : rounds[p][k].status \in {"NONE", "CANCELED"}
  /\ confirmed[o] = Nothing
  /\ ReservationReusable(o)
  /\ RevisedPlan(o, q).production > 0
  /\ RevisedPlan(o, q).stock > 0 => lots[p].qty = orders[o].plan.production
  /\ lots' = [lots EXCEPT ![p].qty = RevisedPlan(o, q).production]
  /\ orders' = [orders EXCEPT ![o].qty = q, ![o].plan = RevisedPlan(o, q)]
  /\ UNCHANGED <<rounds, reserved, waitingOrder, confirmed>>
  /\ UNCHANGED stockVars

\* Mutants: LOTs are not looked at; the status is misspelt.
CancelWithLots(o) ==
  /\ orders[o].status \in {"OPEN", "CLOSED"}
  /\ orders' = [orders EXCEPT ![o].status = "CANCELED"]
  /\ UNCHANGED <<lots, rounds, reserved, waitingOrder, confirmed>>
  /\ UNCHANGED stockVars

CancelMisspelt(o) ==
  /\ orders[o].status \in {"OPEN", "CLOSED"}
  /\ \A p \in LotsOf(o) : lots[p].status = "CANCELED"
  /\ orders' = [orders EXCEPT ![o].status = "CANCELLED"]
  /\ UNCHANGED <<lots, rounds, reserved, waitingOrder, confirmed>>
  /\ UNCHANGED stockVars

\* Cancellation leaves the WAITING lines of the order line as they are.
CancelOrderLine(o) ==
  /\ orders[o].status \in {"OPEN", "CLOSED"}
  /\ \A p \in LotsOf(o) : lots[p].status = "CANCELED"
  /\ orders' = [orders EXCEPT ![o].status = "CANCELED"]
  /\ UNCHANGED <<lots, rounds, reserved, waitingOrder, confirmed>>
  /\ UNCHANGED stockVars

ShortClose(o) ==
  /\ orders[o].status = "CLOSED"
  /\ Remaining(o) > 0
  /\ orders' = [orders EXCEPT ![o].status = "DONE"]
  /\ UNCHANGED <<lots, rounds, reserved, waitingOrder, confirmed>>
  /\ UNCHANGED stockVars

\* Nothing of these order lines and their LOTs has progressed, been shipped or moved.
MayDelete(group, gone) ==
  /\ \A p \in gone : lots[p].status \in {"WAITING", "CANCELED"}
  /\ \A p \in gone, k \in RoundNos : rounds[p][k].status \in {"NONE", "WAITING", "CANCELED"}
  /\ \A x \in group : confirmed[x] = Nothing

\* All lines of an order number go together, when none of them has progressed.
DeleteOrderLines(o) ==
  LET group == {x \in OrderLines : /\ orders[x].status # "NONE"
                                   /\ orders[x].number = orders[o].number}
      gone  == {p \in ProdLots : lots[p].order \in group}
  IN  /\ orders[o].status # "NONE"
      /\ MayDelete(group, gone)
      /\ orders' = [x \in OrderLines |-> IF x \in group THEN NoOrderLine ELSE orders[x]]
      /\ lots' = [p \in ProdLots |-> IF p \in gone THEN NoLot ELSE lots[p]]
      /\ rounds' = [p \in ProdLots |->
                      IF p \in gone THEN [k \in RoundNos |-> NoRound] ELSE rounds[p]]
      /\ reserved' = [x \in OrderLines |-> IF x \in group THEN Nothing ELSE reserved[x]]
      /\ waitingOrder' = [x \in OrderLines |-> IF x \in group THEN <<>> ELSE waitingOrder[x]]
      /\ UNCHANGED confirmed
      /\ UNCHANGED stockVars

\* A rework LOT of a finished primary LOT; it reopens a finished order line.
CreateReworkLot(parent, p, q) ==
  LET o == lots[parent].order IN
  /\ lots[parent].status \in {"DONE", "CANCELED"}
  /\ ~lots[parent].rework
  /\ IsUnused(p)
  /\ NewLot(o, p, q, TRUE)
  /\ orders' = [orders EXCEPT ![o].status = IF @ = "DONE" THEN "CLOSED" ELSE @]
  /\ UNCHANGED <<rounds, reserved, waitingOrder, confirmed>>
  /\ UNCHANGED stockVars
-----------------------------------------------------------------------------
(* Stock.                                                                  *)

\* Confirmation of WAITING lines: the lines of S, each an order line and a lot.
\* An order line's status follows what is shipped, but the first one to be
\* looked at does not see the movements of this request: the session flushes
\* them only afterwards.
ConfirmShipment(S, first) ==
  LET affected == {ol[1] : ol \in S}
      shippedOf(o) == [l \in InvLots |-> IF <<o, l>> \in S THEN reserved[o][l] ELSE 0]
      out == [l \in InvLots |-> SumFunction([o \in OrderLines |-> shippedOf(o)[l]])]
      confirmedNext == [o \in OrderLines |-> Plus(confirmed[o], shippedOf(o))]
      seen(o) == IF o = first THEN Shipped(o) ELSE ShippedGiven(o, confirmedNext, lots, rounds)
  IN  /\ S # {}
      /\ first \in affected
      /\ \A ol \in S : reserved[ol[1]][ol[2]] > 0
      /\ SumFunction(out) <= inventory
      /\ \A l \in InvLots : out[l] > 0 => out[l] <= lotQty[l]
      /\ confirmed' = confirmedNext
      /\ reserved' = [o \in OrderLines |-> Minus(reserved[o], shippedOf(o))]
      /\ waitingOrder' = [o \in OrderLines |->
           Holding(waitingOrder[o], Minus(reserved[o], shippedOf(o)))]
      /\ lotQty' = Minus(lotQty, out)
      /\ inventory' = inventory - SumFunction(out)
      /\ orders' = [o \in OrderLines |->
           IF o \in affected /\ orders[o].status \in {"OPEN", "CLOSED"} /\ seen(o) >= Target(o)
           THEN [orders[o] EXCEPT !.status = "DONE"]
           ELSE orders[o]]
      /\ UNCHANGED <<lots, rounds, fifo, manual>>

\* The inventory lots with l, created last when it is new.
WithLot(queue, l) == IF l \in Range(queue) THEN queue ELSE Append(queue, l)

AdjustIn(l, n) ==
  /\ inventory + n <= MaxStock
  /\ inventory' = inventory + n
  /\ lotQty' = [lotQty EXCEPT ![l] = @ + n]
  /\ manual' = [manual EXCEPT ![l] = @ + n]
  /\ fifo' = WithLot(fifo, l)
  /\ UNCHANGED <<orders, lots, rounds, reserved, waitingOrder, confirmed>>

\* Takes from the oldest lots first, whatever of them is reserved.
AdjustOut(n) ==
  /\ n <= inventory
  /\ inventory' = inventory - n
  /\ \E take \in Takes(n) :
       /\ TakesInOrder(take, lotQty, fifo, n)
       /\ lotQty' = Minus(lotQty, take)
       /\ manual' = Minus(manual, take)
  /\ UNCHANGED <<orders, lots, rounds, reserved, waitingOrder, confirmed, fifo>>
-----------------------------------------------------------------------------
(* Inspection.                                                             *)

StatusesOf(p, rs) == {rs[p][k].status : k \in RoundNos} \ {"NONE"}

\* Mutant: the shipment is not looked at.
IsInspected(o, ls, rs) == \A x \in LotsOf(o) : ls[x].status \in {"CANCELED", "DONE"}

\* All LOTs of o are done and what the order line asked for is shipped.
IsComplete(o, ls, rs) ==
  /\ \A x \in LotsOf(o) : ls[x].status \in {"CANCELED", "DONE"}
  /\ ShippedGiven(o, confirmed, ls, rs) >= Target(o)

\* sync_lot_status_from_inspection_schedules: the LOT follows its schedules,
\* and the order line follows its LOTs once they are all done and it is shipped.
SyncStatus(p, rs) ==
  LET o == lots[p].order
      lotsNext == [lots EXCEPT ![p].status = DeriveLotStatus(StatusesOf(p, rs), @)]
      done == /\ StatusesOf(p, rs) \ {"CANCELED"} # {}
              /\ lotsNext[p].status = "DONE"
              /\ orders[o].status # "CANCELED"
              /\ IsComplete(o, lotsNext, rs)
  IN  /\ rounds' = rs
      /\ lots' = lotsNext
      /\ orders' = IF done THEN [orders EXCEPT ![o].status = "DONE"] ELSE orders

FreeRound(p, k) ==
  /\ rounds[p][k].status = "NONE"
  /\ \A j \in RoundNos : j < k => rounds[p][j].status # "NONE"

\* A new schedule does not look at the LOT's status and does not change it.
CreateSchedule(p, k) ==
  /\ ~IsUnused(p)
  /\ FreeRound(p, k)
  /\ rounds' = [rounds EXCEPT ![p][k].status = "WAITING"]
  /\ UNCHANGED <<orders, lots, reserved, waitingOrder, confirmed>>
  /\ UNCHANGED stockVars

\* Whether the LOT came back from the vendor is for the module of outsourced work.
ReceiveSchedule(p, k) ==
  /\ rounds[p][k].status = "WAITING"
  /\ SyncStatus(p, [rounds EXCEPT ![p][k].status = "RECEIVED"])
  /\ UNCHANGED <<reserved, waitingOrder, confirmed>>
  /\ UNCHANGED stockVars

StartSchedule(p, k) ==
  /\ rounds[p][k].status = "RECEIVED"
  /\ SyncStatus(p, [rounds EXCEPT ![p][k].status = "IN_PROGRESS"])
  /\ UNCHANGED <<reserved, waitingOrder, confirmed>>
  /\ UNCHANGED stockVars

CancelSchedule(p, k) ==
  /\ rounds[p][k].status \in {"WAITING", "RECEIVED"}
  /\ SyncStatus(p, [rounds EXCEPT ![p][k].status = "CANCELED"])
  /\ UNCHANGED <<reserved, waitingOrder, confirmed>>
  /\ UNCHANGED stockVars

\* Split rounds of p, other than k, whose pieces are still to be settled.
Unsettled(p, k) ==
  {j \in RoundNos \ {k} : rounds[p][j].status = "PARTIAL_DONE" /\ ~rounds[p][j].settled}
Carried(p, k) == SumFunctionOnSet([j \in RoundNos |-> rounds[p][j].sellable], Unsettled(p, k))

\* Mutant: the pieces the round had put into stock stay there.
LotQtyKeepingStockIn(p, k) == Plus(lotQty, rounds[p][k].ship)

\* The stock as it is once the movements of round k of p are taken back.
LotQtyWithout(p, k) ==
  [l \in InvLots |-> lotQty[l] + rounds[p][k].ship[l]
                     - (IF l = p THEN rounds[p][k].stockIn ELSE 0)]
InventoryWithout(p, k) == inventory + SumFunction(rounds[p][k].ship) - rounds[p][k].stockIn

\* Mutant: no check when nothing is asked for.
StockSufficesIfAsked(p, k, n) == n > 0 => n <= InventoryWithout(p, k)

StockSuffices(p, k, n) == n <= InventoryWithout(p, k)

\* Mutant: the lots are taken at the word of their lines.
LotsTrusted(held, qty) == TRUE

\* The reserved lines are only used when their lots still have the pieces.
LotsHold(held, qty) == \A l \in InvLots : held[l] > 0 => held[l] <= qty[l]

\* Mutant: only what this result ships counts against the target.
RemainingIgnoringOthers(p, k) == Target(lots[p].order)

\* What may still be shipped for the order line, round k not counted.
RemainingFor(p, k) ==
  LET o == lots[p].order IN
  RemainingBefore(Target(o), Shipped(o), SumFunction(rounds[p][k].ship))

\* The final round may not leave the LOT below its planned quantity.
CoversLot(p, k, received) ==
  received + SumFunctionOnSet([j \in RoundNos |-> rounds[p][j].received],
               {j \in RoundNos \ {k} : rounds[p][j].status \in {"PARTIAL_DONE", "DONE"}})
  >= lots[p].qty

\* The reservation of o becomes left; the rest of a line that was used in part
\* is a new line, the last one.
LeaveReserved(o, left) ==
  LET partly == {l \in InvLots : 0 < left[l] /\ left[l] < reserved[o][l]} IN
  /\ reserved' = [reserved EXCEPT ![o] = left]
  /\ waitingOrder' = [waitingOrder EXCEPT ![o] =
       SelectSeq(@, LAMBDA l : left[l] > 0 /\ l \notin partly)
       \o SelectSeq(@, LAMBDA l : l \in partly)]

\* Mutant: a split round is not marked as settled.
RoundsLeftOpen(p, k, partial, saved) ==
  [j \in RoundNos |->
     IF j = k THEN [saved EXCEPT !.settled = ~partial]
     ELSE IF partial /\ FreeRound(p, j) THEN [NoRound EXCEPT !.status = "RECEIVED"]
     ELSE rounds[p][j]]

\* The rounds of p once round k is saved: a split round is followed by a new
\* schedule, and the pieces carried into round k are settled with it.
RoundsSettled(p, k, partial, saved) ==
  [j \in RoundNos |->
     IF j = k THEN saved
     ELSE IF partial /\ FreeRound(p, j) THEN [NoRound EXCEPT !.status = "RECEIVED"]
     ELSE IF j \in Unsettled(p, k) THEN [rounds[p][j] EXCEPT !.settled = TRUE]
     ELSE rounds[p][j]]

\* Mutant: what others reserved is free, too.
FreeForAll(held, qty) == Minus(qty, held)

(* The stock the FIFO allocation of a result finds free.  It is computed   *)
(* before the use of the reservation is flushed: the held pieces count as  *)
(* reserved still, though their lot has given them away already.           *)
FreeAfterHeld(held, qty) == [l \in InvLots |-> qty[l] - held[l] - ReservedOf(l)]

(* upsert_inspection_result for round k of p: r.received pieces went        *)
(* through, r.sellable of them (and those carried in) are settled, r.discard*)
(* are thrown away, r.fromRound shipped, the rest put into stock; besides,  *)
(* r.fromStock pieces are shipped from stock, first those reserved for the  *)
(* order line (held), then what is free, oldest lot first (free).           *)
Settle(p, k, partial, r) ==
  LET o == lots[p].order
      stockIn == r.sellable + Carried(p, k) - r.discard
      before == LotQtyWithout(p, k)
      made == Only(p, r.fromRound)
  IN  /\ r.sellable <= r.received
      /\ stockIn >= r.fromRound
      /\ partial \/ CoversLot(p, k, r.received)
      /\ StockSuffices(p, k, r.fromStock)
      /\ r.fromStock + r.fromRound <= RemainingFor(p, k)
      /\ inventory' = InventoryWithout(p, k) - r.fromStock + stockIn - r.fromRound
      /\ fifo' = IF stockIn > 0 THEN WithLot(fifo, p) ELSE fifo
      /\ \E held \in Takes(r.fromStock) :
           /\ TakesInOrder(held, reserved[o], waitingOrder[o], Least(r.fromStock, ReservedBy(o)))
           /\ LotsHold(held, before)
           /\ \E free \in Takes(r.fromStock) :
                /\ TakesInOrder(free, FreeAfterHeld(held, before), fifo,
                                r.fromStock - SumFunction(held))
                /\ lotQty' = [l \in InvLots |-> before[l] - held[l] - free[l]
                                                + Only(p, stockIn)[l] - made[l]]
                /\ LeaveReserved(o, IF partial THEN Minus(reserved[o], held) ELSE Nothing)
                /\ SyncStatus(p, [rounds EXCEPT ![p] = RoundsSettled(p, k, partial,
                     [status |-> IF partial THEN "PARTIAL_DONE" ELSE "DONE",
                      received |-> r.received, sellable |-> r.sellable, discard |-> r.discard,
                      settled |-> TRUE, stockIn |-> stockIn,
                      ship |-> Plus(Plus(held, free), made)])])
      /\ UNCHANGED <<confirmed, manual>>

Results == [received : RoundQtys, sellable : RoundQtys, discard : RoundQtys,
            fromStock : RoundQtys, fromRound : RoundQtys]

SaveSplit(p, k, r) ==
  /\ rounds[p][k].status = "IN_PROGRESS"
  /\ \E j \in RoundNos : FreeRound(p, j)   \* MaxRounds
  /\ Settle(p, k, TRUE, r)

SaveFinal(p, k, r) ==
  /\ rounds[p][k].status = "IN_PROGRESS"
  /\ Settle(p, k, FALSE, r)

\* The result of a final round is saved again.
CorrectFinal(p, k, r) ==
  /\ rounds[p][k].status = "DONE"
  /\ Settle(p, k, FALSE, r)
-----------------------------------------------------------------------------
OrderNext ==
  \E o \in OrderLines :
    \/ \E partner \in Partners, number \in OrderNumbers :
         \/ \E q \in OrderQtys : CreateOrderLine(o, partner, number, q)
         \/ EditOrderLine(o, partner, number)
    \/ \E q \in OrderQtys :
         \/ ChangeQuantityBeforeLot(o, q)
         \/ \E p \in ProdLots : ChangeQuantityOfLot(o, p, q)
    \/ \E type \in PlanTypes : ConfirmProductionPlan(o, type)
    \/ \E type \in PlanTypes : ConfirmStockPlan(o, type)
    \/ ConfirmPartialPlan(o)
    \/ \E p \in ProdLots : CreateBaseLot(o, p)
    \/ CancelOrderLine(o)
    \/ ShortClose(o)
    \/ DeleteOrderLines(o)

ReworkNext == \E parent, p \in ProdLots, q \in OrderQtys : CreateReworkLot(parent, p, q)

WaitingLines == {ol \in OrderLines \X InvLots : reserved[ol[1]][ol[2]] > 0}

StockNext ==
  \/ \E S \in SUBSET WaitingLines, first \in OrderLines : ConfirmShipment(S, first)
  \/ \E l \in AdjustLots, n \in AdjustQtys : AdjustIn(l, n)
  \/ \E n \in AdjustQtys : AdjustOut(n)

ScheduleNext ==
  \E p \in ProdLots, k \in RoundNos :
    CreateSchedule(p, k) \/ ReceiveSchedule(p, k) \/ StartSchedule(p, k) \/ CancelSchedule(p, k)

ResultNext ==
  \E p \in ProdLots, k \in RoundNos, r \in Results :
    SaveSplit(p, k, r) \/ SaveFinal(p, k, r) \/ CorrectFinal(p, k, r)

Next == OrderNext \/ ReworkNext \/ StockNext \/ ScheduleNext \/ ResultNext

Spec == Init /\ [][Next]_vars
LegacySpec == LegacyInit /\ [][Next]_vars
-----------------------------------------------------------------------------
(* Types.                                                                  *)

Plan == [type : PlanTypes \cup {"NONE"}, target : Nat, stock : Nat, production : Int]
OrderLine == [status : OrderStatuses, partner : Partners, number : OrderNumbers,
              qty : Nat, decided : BOOLEAN, plan : Plan]
Lot == [order : OrderLines \cup {NoOrder}, rework : BOOLEAN, qty : Nat, status : LotStatuses]
Round == [status : {"NONE"} \cup ScheduleStatuses, received : Nat, sellable : Nat,
          discard : Nat, settled : BOOLEAN, stockIn : Int, ship : [InvLots -> Nat]]

\* Every row has the columns its table declares.  Current quantities have no
\* check constraint, so they are integers.
TypeOK ==
  /\ orders \in [OrderLines -> OrderLine]
  /\ lots \in [ProdLots -> Lot]
  /\ rounds \in [ProdLots -> [RoundNos -> Round]]
  /\ reserved \in [OrderLines -> [InvLots -> Nat]]
  /\ confirmed \in [OrderLines -> [InvLots -> Nat]]
  /\ inventory \in Int
  /\ lotQty \in [InvLots -> Int]
  /\ fifo \in Seq(InvLots)
  /\ manual \in [InvLots -> Int]
-----------------------------------------------------------------------------
(* Safety.                                                                 *)

\* What came into lot l and what left it, according to its movements.
LedgerOf(l) ==
  manual[l]
  + (IF l \in ProdLots THEN SumFunction([k \in RoundNos |-> rounds[l][k].stockIn]) ELSE 0)
  - SumFunction([o \in OrderLines |-> confirmed[o][l]])
  - SumFunction([pk \in ProdLots \X RoundNos |-> rounds[pk[1]][pk[2]].ship[l]])

\* The three books of the consistency screen agree: a product's current quantity
\* is what its lots hold, and each lot holds what its movements add up to, also
\* after a result is saved again and its movements are rewritten.
BooksAgree ==
  /\ inventory = SumFunction(lotQty)
  /\ \A l \in InvLots : lotQty[l] = LedgerOf(l)

\* A product is never shipped or adjusted below zero, whatever is corrected.
NoNegativeStock == inventory >= 0

\* An order line that has a LOT was released, and a released one has a LOT: no
\* sequence of quantity changes, cancellations, deletions and rework leaves a LOT
\* without a released order line, or a released order line without its LOT.
ReleasedWithLot ==
  \A o \in OrderLines :
    /\ LotsOf(o) # {} => orders[o].status \in {"CLOSED", "DONE"}
    /\ orders[o].status = "CLOSED" => LotsOf(o) # {}

\* An order line has at most one LOT that is not a rework LOT.
OnePrimaryLot ==
  \A p, q \in ProdLots :
    lots[p] # NoLot /\ ~lots[p].rework /\ ~lots[q].rework /\ lots[p].order = lots[q].order
      => p = q

\* Every piece found sellable in a settled round was shipped, put into stock or
\* discarded, exactly once: what came in for a LOT is what was found less what
\* was thrown away.
SellableSettledOnce ==
  \A p \in ProdLots :
    SumFunction([k \in RoundNos |-> rounds[p][k].stockIn])
    = SumFunction([k \in RoundNos |->
        IF rounds[p][k].settled THEN rounds[p][k].sellable - rounds[p][k].discard ELSE 0])

Untouched(o) ==
  /\ Shipped(o) = 0
  /\ \A p \in LotsOf(o), k \in RoundNos : rounds[p][k].status \in {"NONE", "WAITING", "CANCELED"}

-----------------------------------------------------------------------------
(* What a step may never do.                                               *)

Stands(o) ==
  /\ orders[o].status \in {"OPEN", "CLOSED"} /\ Untouched(o)
  /\ orders[o].decided
  /\ orders[o].plan.type \in {"AUTO_PRODUCTION", "PARTIAL_STOCK_PLUS_PRODUCTION"}

\* What is reserved is what the plan says; with the production planned, and the
\* LOT made for it, it fills the target that the plan was made for.
PlanCovers(o) ==
  LET plan == orders[o].plan IN
  /\ ReservedBy(o) = plan.stock
  /\ plan.stock + plan.production = plan.target
  /\ \A p \in LotsOf(o) : ~lots[p].rework => lots[p].qty = plan.production

\* A decided plan that was made for another target than its order line has now.
Outdated(o) ==
  /\ orders[o].decided
  /\ orders[o].plan.type # "STOCK_REPLENISHMENT"
  /\ orders[o].plan.target # Target(o)

\* Until something is shipped or received, a plan of partial stock and production
\* stands for all of the target it was made for, after every quantity change.
\* That is the target of its order line, unless another partner was entered while
\* the order line was OPEN: the plan is kept then, and so is what it reserves.
PlanCoversTarget ==
  [][\A o \in OrderLines :
       /\ Stands(o)' => PlanCovers(o)'
       /\ Outdated(o)' => \/ Outdated(o)
                          \/ /\ orders[o].status = "OPEN"
                             /\ orders'[o].partner # orders[o].partner]_vars

\* Beyond its target an order line is shipped only out of its own reservation:
\* saving a result never adds to an order line more than remains of it.
OverShippedOnlyFromReservation ==
  [][\A o \in OrderLines :
       Shipped(o)' > Shipped(o) /\ Shipped(o)' > Target(o)'
         => Shipped(o)' - Shipped(o) <= ReservedBy(o) - ReservedBy(o)'
            /\ lots' = lots]_vars

\* Only a corrected result can overdraw a lot, and only its own: the pieces the
\* round had put into stock were shipped by others meanwhile.
LotOverdrawnOnlyByCorrection ==
  [][\A l \in InvLots : lotQty[l] >= 0 /\ lotQty'[l] < 0 =>
       /\ l \in ProdLots
       /\ \E k \in RoundNos : rounds[l][k].status = "DONE" /\ rounds'[l][k] # rounds[l][k]]_vars

\* A lot's stock that was promised to WAITING lines is not given to somebody else:
\* when the lot no longer covers its lines, stock was adjusted down or a saved
\* result was corrected.
Covered(l) == ReservedOf(l) <= lotQty[l]
CoverLostOnlyByHand ==
  [][\A l \in InvLots : Covered(l) /\ ~Covered(l)' =>
       \/ manual'[l] < manual[l]
       \/ \E p \in ProdLots, k \in RoundNos :
            rounds[p][k].status = "DONE" /\ rounds[p][k] # rounds'[p][k]]_vars

\* An order line becomes DONE by an inspection only with all of its LOTs done and
\* its target shipped; else by its stock plan, a confirmation or a short close.
InspectionDoneIsComplete ==
  [][\A o \in OrderLines :
       /\ orders[o].status # "DONE" /\ orders'[o].status = "DONE"
       /\ rounds' # rounds
       => /\ Shipped(o)' >= Target(o)'
          /\ \A p \in LotsOf(o)' : lots'[p].status \in {"DONE", "CANCELED"}]_vars

\* docs/project-operations.md:28: the order line becomes DONE only after all
\* active LOTs are done and its target is shipped; closing it short, on purpose,
\* and closing it from stock are documented besides.
DoneOnlyAfterLots ==
  [][\A o \in OrderLines :
       /\ orders[o].status # "DONE" /\ orders'[o].status = "DONE"
       /\ Shipped(o)' >= Target(o)'
       => \A p \in LotsOf(o)' : lots'[p].status \in {"DONE", "CANCELED"}]_vars

\* docs/project-operations.md:253: what a result ships beyond the reservation is
\* allocated from the available inventory; so a request within the reservation
\* and the stock that nobody has reserved is not refused for want of stock.
StockRequestIsServed ==
  \A p \in ProdLots, k \in RoundNos, n \in RoundQtys :
    LET o == lots[p].order IN
    rounds[p][k].status = "IN_PROGRESS" =>
      LET heldQty == Least(n, ReservedBy(o)) IN
      \A held \in Takes(n) :
        /\ TakesInOrder(held, reserved[o], waitingOrder[o], heldQty)
        /\ \A l \in InvLots : ReservedOf(l) <= lotQty[l]
        /\ n <= ReservedBy(o) + Available
        => \E free \in Takes(n) :
             TakesInOrder(free, FreeAfterHeld(held, lotQty), fifo, n - heldQty)
-----------------------------------------------------------------------------
\* Whatever the rows do, order lines live the life they promise: a canceled one
\* is never taken up again, a released one never goes back to planning, nothing
\* shipped is deleted, and only rework reopens what is done.
Lifecycle == INSTANCE OrderLifecycle WITH
  phase <- [o \in OrderLines |-> orders[o].status],
  shipped <- [o \in OrderLines |-> Shipped(o)]
LifecycleSpec == Lifecycle!Spec
=============================================================================
