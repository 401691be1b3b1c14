------------------------- MODULE Fulfilment_proofs -------------------------
(***************************************************************************)
(* Theorems about Fulfilment, for every set of order lines and LOTs, every *)
(* set of quantities and every bound.                                      *)
(***************************************************************************)
EXTENDS Fulfilment, SumLemmas

USE FulfilmentAssumption
-----------------------------------------------------------------------------
(* The sums of the module are over finite sets of rows.                    *)

\* The rows the sums of the module range over are finitely many.
LEMMA FiniteRows ==
  /\ IsFiniteSet(InvLots)
  /\ IsFiniteSet(RoundNos)
  /\ IsFiniteSet(ProdLots \X RoundNos)
<1>1. IsFiniteSet(InvLots)
  BY FS_Union DEF InvLots
<1>2. IsFiniteSet(RoundNos)
  BY FS_Interval DEF RoundNos
<1> QED BY <1>1, <1>2, FS_Product

\* A quantity per inventory lot sums to a quantity.
LEMMA SumOverLots ==
  /\ \A f \in [InvLots -> Int] : SumFunction(f) \in Int
  /\ \A f \in [InvLots -> Nat] : SumFunction(f) \in Nat
<1>1. ASSUME NEW f \in [InvLots -> Int] PROVE SumFunction(f) \in Int
  BY FiniteRows, SumType DEF SumFunction
<1>2. ASSUME NEW f \in [InvLots -> Nat] PROVE SumFunction(f) \in Nat
  BY FiniteRows, SumNat DEF SumFunction
<1> QED BY <1>1, <1>2

\* A quantity per order line sums to a quantity.
LEMMA SumOverOrders ==
  \A f \in [OrderLines -> Nat] : SumFunction(f) \in Nat
BY SumNat DEF SumFunction

\* What WAITING lines hold, of a lot, for an order line and in all, is a quantity.
LEMMA ReservedType ==
  ASSUME TypeOK
  PROVE  /\ \A o \in OrderLines : ReservedBy(o) \in Nat
         /\ \A l \in InvLots : ReservedOf(l) \in Nat
         /\ Reserved \in Nat
<1>1. \A o \in OrderLines : ReservedBy(o) \in Nat
  BY SumOverLots DEF TypeOK, ReservedBy
<1>2. ASSUME NEW l \in InvLots PROVE ReservedOf(l) \in Nat
  <2>1. [o \in OrderLines |-> reserved[o][l]] \in [OrderLines -> Nat]
    BY DEF TypeOK
  <2> QED BY <2>1, SumOverOrders DEF ReservedOf
<1>3. [o \in OrderLines |-> ReservedBy(o)] \in [OrderLines -> Nat]
  BY <1>1
<1>4. Reserved \in Nat
  BY <1>3, SumOverOrders DEF Reserved
<1> QED BY <1>1, <1>2, <1>4

\* What an order line is shipped is a quantity, whichever rows it is summed over.
LEMMA ShippedType ==
  ASSUME NEW o, NEW ls, NEW cf, cf[o] \in [InvLots -> Nat],
         NEW rs \in [ProdLots -> [RoundNos -> Round]]
  PROVE  ShippedGiven(o, cf, ls, rs) \in Nat
<1> DEFINE g == [pk \in ProdLots \X RoundNos |-> SumFunction(rs[pk[1]][pk[2]].ship)]
<1>1. \A pk \in ProdLots \X RoundNos : rs[pk[1]][pk[2]].ship \in [InvLots -> Nat]
  BY DEF Round
<1>2. \A pk \in ProdLots \X RoundNos : g[pk] \in Nat
  BY <1>1, SumOverLots
<1>3. RoundsOf(o, ls) \subseteq ProdLots \X RoundNos
  BY DEF RoundsOf
<1>4. IsFiniteSet(RoundsOf(o, ls))
  BY <1>3, FiniteRows, FS_Subset
<1>5. SumFunctionOnSet(g, RoundsOf(o, ls)) \in Nat
  <2> HIDE DEF g
  <2> QED BY <1>2, <1>3, <1>4, SumNat
<1>6. SumFunction(cf[o]) \in Nat
  BY SumOverLots
<1> QED BY <1>5, <1>6 DEF ShippedGiven

\* The shipment target of an ordered quantity is a quantity.
LEMMA ShipQtyType ==
  \A partner \in Partners, q \in Nat : TargetOf(partner, q) \in Nat
<1>1. \A class \in PartnerClasses, q \in Nat : CalculateShipQty(class, q) \in Nat
  BY DEF PartnerClasses, CalculateShipQty
<1> QED BY <1>1, FulfilmentAssumption DEF TargetOf

\* Targets, shipped, remaining and available quantities are quantities.
LEMMA QuantityTypes ==
  ASSUME TypeOK
  PROVE  /\ Available \in Nat
         /\ \A o \in OrderLines : /\ Target(o) \in Nat
                                  /\ Shipped(o) \in Nat
                                  /\ Remaining(o) \in Nat
<1>1. Available \in Nat
  BY ReservedType DEF TypeOK, Available, AtLeastZero
<1>2. ASSUME NEW o \in OrderLines PROVE Target(o) \in Nat
  BY ShipQtyType DEF TypeOK, Target, OrderLine
<1>3. ASSUME NEW o \in OrderLines PROVE Shipped(o) \in Nat
  BY ShippedType DEF TypeOK, Shipped
<1>4. \A o \in OrderLines : Remaining(o) \in Nat
  BY <1>2, <1>3 DEF Remaining, AtLeastZero
<1> QED BY <1>1, <1>2, <1>3, <1>4
-----------------------------------------------------------------------------
(* What the shared parts of the actions make of the rows.                  *)

\* A row without any quantity is a row of quantities.
LEMMA NothingType == Nothing \in [InvLots -> Nat]
BY DEF Nothing

\* What a request may take of the lots is a row of quantities.
LEMMA TakeType ==
  ASSUME NEW n \in Nat, NEW take \in Takes(n)
  PROVE  take \in [InvLots -> Nat]
BY DEF Takes

\* Rows of stock, added or subtracted, are rows of stock.
LEMMA MinusType ==
  ASSUME NEW f \in [InvLots -> Int], NEW g \in [InvLots -> Int]
  PROVE  Minus(f, g) \in [InvLots -> Int] /\ Plus(f, g) \in [InvLots -> Int]
BY DEF Minus, Plus

\* An order line keeps its columns when its status changes.
LEMMA StatusType ==
  ASSUME TypeOK, NEW o, NEW st \in OrderStatuses
  PROVE  [orders EXCEPT ![o].status = st] \in [OrderLines -> OrderLine]
<1>1. ASSUME NEW r \in OrderLine PROVE [r EXCEPT !.status = st] \in OrderLine
  BY DEF OrderLine
<1>2. ASSUME NEW x \in OrderLines
      PROVE  [orders EXCEPT ![o].status = st][x] \in OrderLine
  <2>1. orders[x] \in OrderLine
    BY DEF TypeOK
  <2>2. [orders[x] EXCEPT !.status = st] \in OrderLine
    BY <1>1, <2>1
  <2>3. CASE x = o
    BY <2>2, <2>3 DEF TypeOK
  <2>4. CASE x # o
    BY <2>1, <2>4 DEF TypeOK
  <2> QED BY <2>3, <2>4
<1> QED BY <1>2 DEF TypeOK

\* A new primary LOT has the columns of a LOT.
LEMMA CreatePrimaryLotType ==
  ASSUME TypeOK, NEW o \in OrderLines, NEW p \in ProdLots, NEW q \in Int,
         CreatePrimaryLot(o, p, q)
  PROVE  lots' \in [ProdLots -> Lot]
BY DEF TypeOK, CreatePrimaryLot, NewLot, Lot, LotStatuses, ScheduleStatuses

\* A confirmed plan has the columns of a plan.
LEMMA PlanType ==
  ASSUME NEW type \in PlanTypes, NEW target \in Nat, NEW qty \in Nat,
         NEW available \in Nat, NEW remaining \in Nat
  PROVE  [type |-> type, target |-> target, stock |-> PlannedStock(type, available, remaining),
          production |-> PlannedProduction(type, qty, available, remaining)] \in Plan
<1>1. PlannedStock(type, available, remaining) \in Nat
  BY DEF PlannedStock
<1>2. PlannedProduction(type, qty, available, remaining) \in Int
  BY DEF PlannedProduction
<1> QED BY <1>1, <1>2 DEF Plan

\* Deciding the plan of an order line keeps the columns of order lines.
LEMMA DecideType ==
  ASSUME TypeOK, NEW o \in OrderLines, NEW type \in PlanTypes, NEW status \in OrderStatuses,
         Decide(o, type, Available, Remaining(o), status)
  PROVE  orders' \in [OrderLines -> OrderLine]
<1>1. orders[o].qty \in Nat
  BY DEF TypeOK, OrderLine
<1> DEFINE target == IF type = "STOCK_REPLENISHMENT" THEN 0 ELSE Target(o)
           plan == [type |-> type, target |-> target,
                    stock |-> PlannedStock(type, Available, Remaining(o)),
                    production |-> PlannedProduction(type, orders[o].qty, Available, Remaining(o))]
<1>2. plan \in Plan
  <2>1. target \in Nat
    BY QuantityTypes
  <2> HIDE DEF target
  <2> QED BY <1>1, <2>1, PlanType, QuantityTypes
<1>3. orders' = [orders EXCEPT ![o].status = status, ![o].decided = TRUE, ![o].plan = plan]
  BY DEF Decide
<1>4. orders[o] \in OrderLine
  BY DEF TypeOK
<1>5. [orders[o] EXCEPT !.status = status, !.decided = TRUE, !.plan = plan] \in OrderLine
  <2> HIDE DEF plan
  <2> QED BY <1>2, <1>4 DEF OrderLine
<1>6. orders' = [orders EXCEPT ![o] =
                   [orders[o] EXCEPT !.status = status, !.decided = TRUE, !.plan = plan]]
  <2> HIDE DEF plan
  <2> QED BY <1>3 DEF TypeOK
<1> HIDE DEF plan
<1> QED BY <1>5, <1>6 DEF TypeOK

\* A LOT derives its status from schedules within the statuses of a LOT.
LEMMA LotStatusType ==
  ASSUME NEW S \in SUBSET ScheduleStatuses, NEW old \in LotStatuses
  PROVE  DeriveLotStatus(S, old) \in LotStatuses
BY DEF DeriveLotStatus, LotStatuses, ScheduleStatuses

\* Following the schedules keeps the columns of LOTs and of order lines.
LEMMA SyncStatusType ==
  ASSUME TypeOK, NEW p \in ProdLots, NEW rs \in [ProdLots -> [RoundNos -> Round]],
         SyncStatus(p, rs)
  PROVE  /\ orders' \in [OrderLines -> OrderLine]
         /\ lots' \in [ProdLots -> Lot]
         /\ rounds' \in [ProdLots -> [RoundNos -> Round]]
<1>1. StatusesOf(p, rs) \in SUBSET ScheduleStatuses
  BY DEF StatusesOf, Round
<1>2. lots[p].status \in LotStatuses
  BY DEF TypeOK, Lot
<1>3. DeriveLotStatus(StatusesOf(p, rs), lots[p].status) \in LotStatuses
  BY <1>1, <1>2, LotStatusType
<1>4. lots' = [lots EXCEPT ![p] =
                 [lots[p] EXCEPT !.status = DeriveLotStatus(StatusesOf(p, rs), lots[p].status)]]
  BY DEF SyncStatus, TypeOK
<1>5. lots' \in [ProdLots -> Lot]
  <2> DEFINE st == DeriveLotStatus(StatusesOf(p, rs), lots[p].status)
  <2>1. lots[p] \in Lot
    BY DEF TypeOK
  <2>2. [lots[p] EXCEPT !.status = st] \in Lot
    <3> HIDE DEF st
    <3>1. st \in LotStatuses
      BY <1>3 DEF st
    <3> QED BY <2>1, <3>1 DEF Lot
  <2> QED BY <1>4, <2>2 DEF TypeOK
<1>6. \/ orders' = orders
      \/ orders' = [orders EXCEPT ![lots[p].order].status = "DONE"]
  BY DEF SyncStatus
<1>7. orders' \in [OrderLines -> OrderLine]
  <2>1. "DONE" \in OrderStatuses
    BY DEF OrderStatuses
  <2>2. [orders EXCEPT ![lots[p].order].status = "DONE"] \in [OrderLines -> OrderLine]
    BY <2>1, StatusType
  <2> QED BY <1>6, <2>2 DEF TypeOK
<1>8. rounds' = rs
  BY DEF SyncStatus
<1> QED BY <1>5, <1>7, <1>8
-----------------------------------------------------------------------------
(* Every request leaves rows of their types.                               *)

\* A registration keeps the types.
LEMMA CreateOrderLineType ==
  ASSUME TypeOK, NEW o \in OrderLines, NEW partner \in Partners, NEW number \in OrderNumbers,
         NEW q \in OrderQtys, CreateOrderLine(o, partner, number, q)
  PROVE  TypeOK'
<1> DEFINE target == TargetOf(partner, q)
           row(st, dec, plan) == [status |-> st, partner |-> partner, number |-> number,
                                  qty |-> q, decided |-> dec, plan |-> plan]
           planned(type, t, n) == [type |-> type, target |-> t, stock |-> 0, production |-> n]
<1>1. target \in Nat /\ q \in Nat
  BY ShipQtyType
<1>2. \/ \E type \in PlanTypes, t, n \in Nat :
            /\ orders' = [orders EXCEPT ![o] = row("CLOSED", TRUE, planned(type, t, n))]
            /\ \E p \in ProdLots : CreatePrimaryLot(o, p, n)
      \/ /\ orders' = [orders EXCEPT ![o] = row("OPEN", FALSE, NoPlan)]
         /\ lots' = lots
  BY <1>1 DEF CreateOrderLine, PlanTypes
<1>3. /\ \A type \in PlanTypes, t, n \in Nat : row("CLOSED", TRUE, planned(type, t, n)) \in OrderLine
      /\ row("OPEN", FALSE, NoPlan) \in OrderLine
  BY <1>1 DEF OrderLine, OrderStatuses, NoPlan, Plan
<1>4. orders' \in [OrderLines -> OrderLine] /\ lots' \in [ProdLots -> Lot]
  <2>1. CASE \E type \in PlanTypes, t, n \in Nat :
            /\ orders' = [orders EXCEPT ![o] = row("CLOSED", TRUE, planned(type, t, n))]
            /\ \E p \in ProdLots : CreatePrimaryLot(o, p, n)
    <3>1. PICK type \in PlanTypes, t \in Nat, n \in Nat :
            /\ orders' = [orders EXCEPT ![o] = row("CLOSED", TRUE, planned(type, t, n))]
            /\ \E p \in ProdLots : CreatePrimaryLot(o, p, n)
      BY <2>1
    <3>2. row("CLOSED", TRUE, planned(type, t, n)) \in OrderLine
      BY <1>3
    <3>3. orders' \in [OrderLines -> OrderLine]
      <4> HIDE DEF row, planned
      <4> QED BY <3>1, <3>2 DEF TypeOK
    <3>4. lots' \in [ProdLots -> Lot]
      BY <3>1, CreatePrimaryLotType
    <3> QED BY <3>3, <3>4
  <2>2. CASE /\ orders' = [orders EXCEPT ![o] = row("OPEN", FALSE, NoPlan)]
             /\ lots' = lots
    <3> HIDE DEF row
    <3> QED BY <2>2, <1>3 DEF TypeOK
  <2> QED BY <1>2, <2>1, <2>2
<1> QED BY <1>4 DEF TypeOK, CreateOrderLine, stockVars

\* A confirmed plan that leaves the stock alone keeps the types.
LEMMA ConfirmProductionPlanType ==
  ASSUME TypeOK, NEW o \in OrderLines, NEW type \in PlanTypes, ConfirmProductionPlan(o, type)
  PROVE  TypeOK'
<1>1. orders[o].status \in OrderStatuses /\ orders[o].qty \in Int
  BY DEF TypeOK, OrderLine
<1>2. orders' \in [OrderLines -> OrderLine]
  BY <1>1, DecideType DEF ConfirmProductionPlan, OrderStatuses
<1>3. lots' \in [ProdLots -> Lot]
  BY <1>1, CreatePrimaryLotType DEF ConfirmProductionPlan, TypeOK
<1> QED BY <1>2, <1>3 DEF TypeOK, ConfirmProductionPlan, stockVars

\* A confirmed plan that ships from stock keeps the types.
LEMMA ConfirmStockPlanType ==
  ASSUME TypeOK, NEW o \in OrderLines, NEW type \in PlanTypes, ConfirmStockPlan(o, type)
  PROVE  TypeOK'
<1>1. orders' \in [OrderLines -> OrderLine]
  BY DecideType DEF ConfirmStockPlan, OrderStatuses
<1>2. PICK take \in Takes(Available) :
        /\ confirmed' = [confirmed EXCEPT ![o] = take]
        /\ lotQty' = Minus(lotQty, take)
  BY DEF ConfirmStockPlan
<1>3. take \in [InvLots -> Nat]
  BY QuantityTypes, TakeType
<1>4. confirmed' \in [OrderLines -> [InvLots -> Nat]]
  BY <1>2, <1>3 DEF TypeOK
<1>7. lotQty' \in [InvLots -> Int]
  <2>1. take \in [InvLots -> Int]
    BY <1>3
  <2> QED BY <1>2, <2>1, MinusType DEF TypeOK
<1>5. PlannedStock(type, Available, Remaining(o)) \in Nat
  BY QuantityTypes DEF PlannedStock
<1>6. inventory' \in Int
  BY <1>5 DEF TypeOK, ConfirmStockPlan
<1> QED BY <1>1, <1>4, <1>6, <1>7 DEF TypeOK, ConfirmStockPlan

\* A confirmed plan that reserves stock keeps the types.
LEMMA ConfirmPartialPlanType ==
  ASSUME TypeOK, NEW o \in OrderLines, ConfirmPartialPlan(o)
  PROVE  TypeOK'
<1>1. orders[o].status \in OrderStatuses
  BY DEF TypeOK, OrderLine
<1>2. orders' \in [OrderLines -> OrderLine]
  BY <1>1, DecideType DEF ConfirmPartialPlan, PlanTypes
<1>3. PICK take \in Takes(Available) : reserved' = [reserved EXCEPT ![o] = take]
  BY DEF ConfirmPartialPlan
<1>4. take \in [InvLots -> Nat]
  BY QuantityTypes, TakeType
<1>5. reserved' \in [OrderLines -> [InvLots -> Nat]]
  BY <1>3, <1>4 DEF TypeOK
<1> QED BY <1>2, <1>5 DEF TypeOK, ConfirmPartialPlan, stockVars

\* The LOT created from a plan keeps the types.
LEMMA CreateBaseLotType ==
  ASSUME TypeOK, NEW o \in OrderLines, NEW p \in ProdLots, CreateBaseLot(o, p)
  PROVE  TypeOK'
<1>1. orders[o].plan.production \in Int
  BY DEF TypeOK, OrderLine, Plan
<1>2. lots' \in [ProdLots -> Lot]
  BY <1>1, CreatePrimaryLotType DEF CreateBaseLot
<1>3. orders' \in [OrderLines -> OrderLine]
  BY StatusType DEF CreateBaseLot, OrderStatuses
<1> QED BY <1>2, <1>3 DEF TypeOK, CreateBaseLot, stockVars

\* A quantity change that voids the plan keeps the types.
LEMMA ChangeQuantityBeforeLotType ==
  ASSUME TypeOK, NEW o \in OrderLines, NEW q \in OrderQtys, ChangeQuantityBeforeLot(o, q)
  PROVE  TypeOK'
<1>1. orders[o] \in OrderLine /\ q \in Nat
  BY DEF TypeOK
<1>2. [orders[o] EXCEPT !.qty = q, !.decided = FALSE, !.status = "OPEN"] \in OrderLine
  BY <1>1 DEF OrderLine, OrderStatuses
<1>3. orders' = [orders EXCEPT ![o] =
                   [orders[o] EXCEPT !.qty = q, !.decided = FALSE, !.status = "OPEN"]]
  BY DEF ChangeQuantityBeforeLot, TypeOK
<1>4. orders' \in [OrderLines -> OrderLine]
  BY <1>2, <1>3 DEF TypeOK
<1>5. reserved' \in [OrderLines -> [InvLots -> Nat]]
  BY NothingType DEF TypeOK, ChangeQuantityBeforeLot
<1> QED BY <1>4, <1>5 DEF TypeOK, ChangeQuantityBeforeLot, stockVars

\* A revised plan has the columns of a plan.
LEMMA RevisedPlanType ==
  ASSUME TypeOK, NEW o \in OrderLines, NEW q \in Nat
  PROVE  RevisedPlan(o, q) \in Plan
<1>1. ReservedBy(o) \in Nat /\ TargetOf(orders[o].partner, q) \in Nat
  BY ReservedType, ShipQtyType DEF TypeOK, OrderLine
<1> QED BY <1>1 DEF RevisedPlan, Plan, PlanTypes

\* A quantity change that resizes the LOT keeps the types.
LEMMA ChangeQuantityOfLotType ==
  ASSUME TypeOK, NEW o \in OrderLines, NEW p \in ProdLots, NEW q \in OrderQtys,
         ChangeQuantityOfLot(o, p, q)
  PROVE  TypeOK'
<1> DEFINE plan == RevisedPlan(o, q)
<1>1. orders[o] \in OrderLine /\ lots[p] \in Lot /\ q \in Nat
  BY DEF TypeOK
<1>2. plan \in Plan /\ plan.production \in Nat
  <2>1. plan \in Plan
    BY <1>1, RevisedPlanType
  <2>2. plan.production > 0
    BY DEF ChangeQuantityOfLot
  <2> HIDE DEF plan
  <2> QED BY <2>1, <2>2 DEF Plan
<1>3. /\ [orders[o] EXCEPT !.qty = q, !.plan = plan] \in OrderLine
      /\ [lots[p] EXCEPT !.qty = plan.production] \in Lot
  <2> HIDE DEF plan
  <2> QED BY <1>1, <1>2 DEF OrderLine, Lot
<1>4. /\ orders' = [orders EXCEPT ![o] = [orders[o] EXCEPT !.qty = q, !.plan = plan]]
      /\ lots' = [lots EXCEPT ![p] = [lots[p] EXCEPT !.qty = plan.production]]
  BY DEF ChangeQuantityOfLot, TypeOK
<1>5. orders' \in [OrderLines -> OrderLine] /\ lots' \in [ProdLots -> Lot]
  <2> HIDE DEF plan
  <2> QED BY <1>3, <1>4 DEF TypeOK
<1> QED BY <1>5 DEF TypeOK, ChangeQuantityOfLot, stockVars

\* What an edit leaves of the row of an order line.
LEMMA EditedRow ==
  ASSUME TypeOK, NEW o \in OrderLines, NEW partner \in Partners, NEW number \in OrderNumbers,
         EditOrderLine(o, partner, number)
  PROVE  /\ orders[o].status = "OPEN"
         /\ orders'[o] = [orders[o] EXCEPT !.partner = partner, !.number = number]
         /\ \A x \in OrderLines :
              /\ x # o => orders'[x] = orders[x]
              /\ orders'[x].status = orders[x].status
              /\ orders'[x].qty = orders[x].qty
              /\ orders'[x].decided = orders[x].decided
              /\ orders'[x].plan = orders[x].plan
         /\ UNCHANGED <<lots, rounds, reserved, waitingOrder, confirmed>>
         /\ UNCHANGED <<inventory, lotQty, fifo, manual>>
<1>1. orders[o] \in OrderLine
  BY DEF TypeOK
<1>2. /\ orders[o].status = "OPEN"
      /\ orders' = [orders EXCEPT ![o] = [orders[o] EXCEPT !.partner = partner, !.number = number]]
      /\ UNCHANGED <<lots, rounds, reserved, waitingOrder, confirmed>>
      /\ UNCHANGED <<inventory, lotQty, fifo, manual>>
  BY DEF EditOrderLine, TypeOK, stockVars
<1>3. /\ orders'[o] = [orders[o] EXCEPT !.partner = partner, !.number = number]
      /\ \A x \in OrderLines : x # o => orders'[x] = orders[x]
  BY <1>2 DEF TypeOK
<1>4. /\ orders'[o].status = orders[o].status /\ orders'[o].qty = orders[o].qty
      /\ orders'[o].decided = orders[o].decided /\ orders'[o].plan = orders[o].plan
  BY <1>1, <1>3 DEF OrderLine
<1> QED BY <1>2, <1>3, <1>4

\* An edit keeps the types.
LEMMA EditOrderLineType ==
  ASSUME TypeOK, NEW o \in OrderLines, NEW partner \in Partners, NEW number \in OrderNumbers,
         EditOrderLine(o, partner, number)
  PROVE  TypeOK'
<1>1. [orders[o] EXCEPT !.partner = partner, !.number = number] \in OrderLine
  <2>1. orders[o] \in OrderLine
    BY DEF TypeOK
  <2> QED BY <2>1 DEF OrderLine
<1>2. orders' = [orders EXCEPT ![o] = [orders[o] EXCEPT !.partner = partner, !.number = number]]
  BY DEF EditOrderLine, TypeOK
<1>3. orders' \in [OrderLines -> OrderLine]
  BY <1>1, <1>2 DEF TypeOK
<1> QED BY <1>3, EditedRow DEF TypeOK

\* Cancellation and short close keep the types.
LEMMA CloseType ==
  ASSUME TypeOK, NEW o \in OrderLines, CancelOrderLine(o) \/ ShortClose(o)
  PROVE  TypeOK'
<1>1. \A st \in {"CANCELED", "DONE"} :
        [orders EXCEPT ![o].status = st] \in [OrderLines -> OrderLine]
  BY StatusType DEF OrderStatuses
<1>2. orders' \in [OrderLines -> OrderLine]
  BY <1>1 DEF CancelOrderLine, ShortClose
<1> QED BY <1>2 DEF TypeOK, CancelOrderLine, ShortClose, stockVars

\* Rows that do not exist have the columns of rows that do.
LEMMA EmptyRowTypes ==
  /\ NoOrderLine \in OrderLine
  /\ NoLot \in Lot
  /\ NoRound \in Round
BY NothingType, FulfilmentAssumption DEF
   NoOrderLine, NoPlan, OrderLine, OrderStatuses, Plan, NoLot, Lot, LotStatuses, NoRound, Round

\* Deletion keeps the types.
LEMMA DeleteOrderLinesType ==
  ASSUME TypeOK, NEW o \in OrderLines, DeleteOrderLines(o)
  PROVE  TypeOK'
<1>1. orders' \in [OrderLines -> OrderLine]
  BY EmptyRowTypes DEF TypeOK, DeleteOrderLines
<1>2. lots' \in [ProdLots -> Lot]
  BY EmptyRowTypes DEF TypeOK, DeleteOrderLines
<1>3. rounds' \in [ProdLots -> [RoundNos -> Round]]
  BY EmptyRowTypes DEF TypeOK, DeleteOrderLines
<1>4. reserved' \in [OrderLines -> [InvLots -> Nat]]
  BY NothingType DEF TypeOK, DeleteOrderLines
<1> QED BY <1>1, <1>2, <1>3, <1>4 DEF TypeOK, DeleteOrderLines, stockVars

\* A rework LOT keeps the types.
LEMMA CreateReworkLotType ==
  ASSUME TypeOK, NEW parent \in ProdLots, NEW p \in ProdLots, NEW q \in OrderQtys,
         CreateReworkLot(parent, p, q)
  PROVE  TypeOK'
<1> DEFINE o == lots[parent].order
           st == IF orders[o].status = "DONE" THEN "CLOSED" ELSE orders[o].status
<1>1. o \in OrderLines \cup {NoOrder}
  BY DEF TypeOK, Lot
<1>2. lots' \in [ProdLots -> Lot]
  BY <1>1 DEF TypeOK, CreateReworkLot, NewLot, Lot, LotStatuses, ScheduleStatuses
<1>3. orders' \in [OrderLines -> OrderLine]
  <2>1. CASE o \in OrderLines
    <3>1. st \in OrderStatuses
      BY <2>1 DEF TypeOK, OrderLine, OrderStatuses
    <3>2. orders' = [orders EXCEPT ![o].status = st]
      BY <2>1 DEF CreateReworkLot, TypeOK
    <3> HIDE DEF st, o
    <3> QED BY <3>1, <3>2, StatusType
  <2>2. CASE o \notin OrderLines
    <3>1. orders' = orders
      BY <2>2 DEF CreateReworkLot, TypeOK
    <3> QED BY <3>1 DEF TypeOK
  <2> QED BY <2>1, <2>2
<1> QED BY <1>2, <1>3 DEF TypeOK, CreateReworkLot, stockVars

\* Stock adjustments keep the types.
LEMMA AdjustType ==
  ASSUME TypeOK, NEW n \in AdjustQtys, AdjustOut(n) \/ \E l \in AdjustLots : AdjustIn(l, n)
  PROVE  TypeOK'
<1>1. n \in Nat
  OBVIOUS
<1>2. CASE AdjustOut(n)
  <2>1. PICK take \in Takes(n) : lotQty' = Minus(lotQty, take) /\ manual' = Minus(manual, take)
    BY <1>2 DEF AdjustOut
  <2>2. take \in [InvLots -> Int]
    BY <1>1, TakeType
  <2>3. lotQty' \in [InvLots -> Int] /\ manual' \in [InvLots -> Int]
    BY <2>1, <2>2, MinusType DEF TypeOK
  <2> QED BY <1>1, <1>2, <2>3 DEF TypeOK, AdjustOut
<1>3. ASSUME NEW l \in AdjustLots, AdjustIn(l, n) PROVE TypeOK'
  <2>1. l \in InvLots
    BY DEF InvLots
  <2>2. WithLot(fifo, l) \in Seq(InvLots)
    BY <2>1 DEF TypeOK, WithLot
  <2>3. inventory' \in Int
    BY <1>1, <1>3 DEF TypeOK, AdjustIn
  <2>4. lotQty[l] + n \in Int /\ manual[l] + n \in Int
    BY <1>1, <2>1 DEF TypeOK
  <2>5. lotQty' \in [InvLots -> Int] /\ manual' \in [InvLots -> Int]
    BY <1>3, <2>4 DEF TypeOK, AdjustIn
  <2> QED BY <1>3, <2>2, <2>3, <2>5 DEF TypeOK, AdjustIn
<1> QED BY <1>2, <1>3

\* A confirmed shipment keeps the types: no line gives more than it holds.
LEMMA ConfirmShipmentType ==
  ASSUME TypeOK, NEW S \in SUBSET WaitingLines, NEW first \in OrderLines,
         ConfirmShipment(S, first)
  PROVE  TypeOK'
<1> DEFINE shippedOf(o) == [l \in InvLots |-> IF <<o, l>> \in S THEN reserved[o][l] ELSE 0]
           out == [l \in InvLots |-> SumFunction([o \in OrderLines |-> shippedOf(o)[l]])]
<1>1. \A o \in OrderLines : /\ shippedOf(o) \in [InvLots -> Nat]
                            /\ \A l \in InvLots : shippedOf(o)[l] \in {0, reserved[o][l]}
  BY DEF TypeOK
<1>2. out \in [InvLots -> Nat]
  <2>1. \A l \in InvLots : [o \in OrderLines |-> shippedOf(o)[l]] \in [OrderLines -> Nat]
    BY <1>1
  <2> HIDE DEF shippedOf
  <2> QED BY <2>1, SumOverOrders
<1>3. confirmed' = [o \in OrderLines |-> Plus(confirmed[o], shippedOf(o))]
  BY DEF ConfirmShipment
<1>4. confirmed' \in [OrderLines -> [InvLots -> Nat]]
  <2> HIDE DEF shippedOf
  <2> QED BY <1>1, <1>3 DEF TypeOK, Plus
<1>5. reserved' = [o \in OrderLines |-> Minus(reserved[o], shippedOf(o))]
  BY DEF ConfirmShipment
<1>6. reserved' \in [OrderLines -> [InvLots -> Nat]]
  <2>1. \A o \in OrderLines, l \in InvLots : reserved[o][l] - shippedOf(o)[l] \in Nat
    <3> TAKE o \in OrderLines, l \in InvLots
    <3>1. reserved[o][l] \in Nat /\ shippedOf(o)[l] \in {0, reserved[o][l]}
      BY <1>1 DEF TypeOK
    <3> HIDE DEF shippedOf
    <3> QED BY <3>1
  <2> HIDE DEF shippedOf
  <2> QED BY <1>5, <2>1 DEF Minus
<1>7. lotQty' = Minus(lotQty, out) /\ inventory' = inventory - SumFunction(out)
  BY DEF ConfirmShipment
<1>8. lotQty' \in [InvLots -> Int] /\ inventory' \in Int
  <2>1. out \in [InvLots -> Int]
    BY <1>2
  <2> HIDE DEF out
  <2>2. Minus(lotQty, out) \in [InvLots -> Int]
    BY <2>1, MinusType DEF TypeOK
  <2>3. SumFunction(out) \in Int
    BY <2>1, SumOverLots
  <2> QED BY <1>7, <2>2, <2>3 DEF TypeOK
<1>9. orders' \in [OrderLines -> OrderLine]
  <2>1. ASSUME NEW o \in OrderLines PROVE [orders[o] EXCEPT !.status = "DONE"] \in OrderLine
    <3>1. orders[o] \in OrderLine
      BY DEF TypeOK
    <3> QED BY <3>1 DEF OrderLine, OrderStatuses
  <2>2. \A o \in OrderLines : \/ orders'[o] = orders[o]
                              \/ orders'[o] = [orders[o] EXCEPT !.status = "DONE"]
    BY DEF ConfirmShipment
  <2>3. ASSUME NEW o \in OrderLines PROVE orders'[o] \in OrderLine
    <3>1. orders[o] \in OrderLine
      BY DEF TypeOK
    <3> QED BY <2>1, <2>2, <3>1
  <2>4. orders' = [o \in OrderLines |-> orders'[o]]
    BY DEF ConfirmShipment
  <2> QED BY <2>3, <2>4
<1> QED BY <1>4, <1>6, <1>8, <1>9 DEF TypeOK, ConfirmShipment

\* A schedule that moves to another status keeps the types.
LEMMA MovedType ==
  ASSUME TypeOK, NEW p \in ProdLots, NEW k \in RoundNos, NEW st \in ScheduleStatuses
  PROVE  [rounds EXCEPT ![p][k].status = st] \in [ProdLots -> [RoundNos -> Round]]
<1>1. rounds[p] \in [RoundNos -> Round] /\ rounds[p][k] \in Round
  BY DEF TypeOK
<1>2. [rounds[p][k] EXCEPT !.status = st] \in Round
  BY <1>1 DEF Round
<1>3. [rounds[p] EXCEPT ![k] = [rounds[p][k] EXCEPT !.status = st]] \in [RoundNos -> Round]
  BY <1>1, <1>2
<1>4. [rounds EXCEPT ![p][k].status = st] =
        [rounds EXCEPT ![p] = [rounds[p] EXCEPT ![k] = [rounds[p][k] EXCEPT !.status = st]]]
  BY <1>1 DEF TypeOK
<1> QED BY <1>3, <1>4 DEF TypeOK

\* The requests about inspection schedules keep the types.
LEMMA ScheduleType ==
  ASSUME TypeOK, NEW p \in ProdLots, NEW k \in RoundNos,
         \/ CreateSchedule(p, k) \/ ReceiveSchedule(p, k)
         \/ StartSchedule(p, k) \/ CancelSchedule(p, k)
  PROVE  TypeOK'
<1> DEFINE moved(st) == [rounds EXCEPT ![p][k].status = st]
<1>1. ASSUME NEW st \in ScheduleStatuses
      PROVE  moved(st) \in [ProdLots -> [RoundNos -> Round]]
  BY MovedType
<1>2. CASE CreateSchedule(p, k)
  <2>1. rounds' = moved("WAITING")
    BY <1>2 DEF CreateSchedule
  <2>2. rounds' \in [ProdLots -> [RoundNos -> Round]]
    BY <1>1, <2>1 DEF ScheduleStatuses
  <2> QED BY <1>2, <2>2 DEF TypeOK, CreateSchedule, stockVars
<1>3. CASE ReceiveSchedule(p, k) \/ StartSchedule(p, k) \/ CancelSchedule(p, k)
  <2>1. PICK st \in ScheduleStatuses : SyncStatus(p, moved(st))
    BY <1>3 DEF ReceiveSchedule, StartSchedule, CancelSchedule, ScheduleStatuses
  <2>2. moved(st) \in [ProdLots -> [RoundNos -> Round]]
    BY <1>1
  <2>3. /\ orders' \in [OrderLines -> OrderLine]
        /\ lots' \in [ProdLots -> Lot]
        /\ rounds' \in [ProdLots -> [RoundNos -> Round]]
    <3> HIDE DEF moved
    <3> QED BY <2>1, <2>2, SyncStatusType
  <2> QED BY <1>3, <2>3
          DEF TypeOK, ReceiveSchedule, StartSchedule, CancelSchedule, stockVars
<1> QED BY <1>2, <1>3

\* The stock without the movements of a round, and the pieces carried into it.
LEMMA RoundTypes ==
  ASSUME TypeOK, NEW p \in ProdLots, NEW k \in RoundNos
  PROVE  /\ LotQtyWithout(p, k) \in [InvLots -> Int]
         /\ InventoryWithout(p, k) \in Int
         /\ Carried(p, k) \in Nat
<1>1. rounds[p][k] \in Round
  BY DEF TypeOK
<1>2. rounds[p][k].ship \in [InvLots -> Nat] /\ rounds[p][k].stockIn \in Int
  BY <1>1 DEF Round
<1>3. LotQtyWithout(p, k) \in [InvLots -> Int]
  <2>1. ASSUME NEW l \in InvLots
        PROVE  lotQty[l] + rounds[p][k].ship[l] - (IF l = p THEN rounds[p][k].stockIn ELSE 0) \in Int
    <3>1. lotQty[l] \in Int /\ rounds[p][k].ship[l] \in Int
      BY <1>2 DEF TypeOK
    <3> QED BY <1>2, <3>1
  <2> QED BY <2>1 DEF LotQtyWithout
<1>4. InventoryWithout(p, k) \in Int
  <2>1. SumFunction(rounds[p][k].ship) \in Int /\ inventory \in Int
    BY <1>2, SumOverLots DEF TypeOK
  <2> QED BY <1>2, <2>1 DEF InventoryWithout
<1>5. Carried(p, k) \in Nat
  <2> DEFINE g == [j \in RoundNos |-> rounds[p][j].sellable]
  <2>1. Unsettled(p, k) \subseteq RoundNos
    BY DEF Unsettled
  <2>2. IsFiniteSet(Unsettled(p, k))
    BY <2>1, FiniteRows, FS_Subset
  <2>3. \A j \in RoundNos : g[j] \in Nat
    BY DEF TypeOK, Round
  <2>4. SumFunctionOnSet(g, Unsettled(p, k)) \in Nat
    <3> HIDE DEF g
    <3> QED BY <2>1, <2>2, <2>3, SumNat
  <2> QED BY <2>4 DEF Carried
<1> QED BY <1>3, <1>4, <1>5

\* The rounds of a LOT keep their columns when one of them is saved.
LEMMA RoundsSettledType ==
  ASSUME TypeOK, NEW p \in ProdLots, NEW k \in RoundNos, NEW partial, NEW saved \in Round
  PROVE  [rounds EXCEPT ![p] = RoundsSettled(p, k, partial, saved)]
           \in [ProdLots -> [RoundNos -> Round]]
<1>1. [NoRound EXCEPT !.status = "RECEIVED"] \in Round
  <2>1. "RECEIVED" \in ScheduleStatuses
    BY DEF ScheduleStatuses
  <2>2. NoRound \in Round
    BY EmptyRowTypes
  <2> HIDE DEF NoRound
  <2> QED BY <2>1, <2>2 DEF Round
<1>2. \A j \in RoundNos : /\ rounds[p][j] \in Round
                          /\ [rounds[p][j] EXCEPT !.settled = TRUE] \in Round
  <2> TAKE j \in RoundNos
  <2>1. rounds[p][j] \in Round
    BY DEF TypeOK
  <2> QED BY <2>1 DEF Round
<1>3. RoundsSettled(p, k, partial, saved) \in [RoundNos -> Round]
  BY <1>1, <1>2 DEF RoundsSettled
<1> QED BY <1>3 DEF TypeOK

\* A saved result keeps the types.
LEMMA SettleType ==
  ASSUME TypeOK, NEW p \in ProdLots, NEW k \in RoundNos, NEW partial \in BOOLEAN,
         NEW r \in Results, Settle(p, k, partial, r)
  PROVE  TypeOK'
<1> DEFINE o == lots[p].order
           stockIn == r.sellable + Carried(p, k) - r.discard
           before == LotQtyWithout(p, k)
           made == Only(p, r.fromRound)
           saved(held, free) ==
             [status |-> IF partial THEN "PARTIAL_DONE" ELSE "DONE",
              received |-> r.received, sellable |-> r.sellable, discard |-> r.discard,
              settled |-> TRUE, stockIn |-> stockIn,
              ship |-> Plus(Plus(held, free), made)]
           left(held) == IF partial THEN Minus(reserved[o], held) ELSE Nothing
<1>1. /\ r.received \in Nat /\ r.sellable \in Nat /\ r.discard \in Nat
      /\ r.fromStock \in Nat /\ r.fromRound \in Nat
  BY DEF Results
<1>2. stockIn \in Int /\ before \in [InvLots -> Int] /\ made \in [InvLots -> Nat]
  BY <1>1, RoundTypes DEF Only
<1>3. PICK held \in Takes(r.fromStock), free \in Takes(r.fromStock) :
        /\ TakesInOrder(held, reserved[o], waitingOrder[o], Least(r.fromStock, ReservedBy(o)))
        /\ lotQty' = [l \in InvLots |-> before[l] - held[l] - free[l]
                                        + Only(p, stockIn)[l] - made[l]]
        /\ LeaveReserved(o, left(held))
        /\ SyncStatus(p, [rounds EXCEPT ![p] = RoundsSettled(p, k, partial, saved(held, free))])
  BY DEF Settle
<1>4. held \in [InvLots -> Nat] /\ free \in [InvLots -> Nat]
  BY <1>1, TakeType
<1>5. saved(held, free) \in Round
  <2>1. Plus(Plus(held, free), made) \in [InvLots -> Nat]
    <3> HIDE DEF made
    <3> QED BY <1>2, <1>4 DEF Plus
  <2> HIDE DEF made, stockIn
  <2> QED BY <1>1, <1>2, <2>1 DEF Round, ScheduleStatuses
<1>6. /\ orders' \in [OrderLines -> OrderLine]
      /\ lots' \in [ProdLots -> Lot]
      /\ rounds' \in [ProdLots -> [RoundNos -> Round]]
  <2> HIDE DEF saved
  <2> QED BY <1>3, <1>5, RoundsSettledType, SyncStatusType
<1>7. lotQty' \in [InvLots -> Int]
  <2>1. Only(p, stockIn) \in [InvLots -> Int]
    BY <1>2 DEF Only
  <2> HIDE DEF before, made, stockIn
  <2> QED BY <1>2, <1>3, <1>4, <2>1
<1>8. inventory' \in Int
  BY <1>1, <1>2, RoundTypes DEF Settle
<1>9. reserved' \in [OrderLines -> [InvLots -> Nat]]
  <2>1. reserved' = [reserved EXCEPT ![o] = left(held)]
    BY <1>3 DEF LeaveReserved
  <2>2. CASE o \in OrderLines
    <3>1. reserved[o] \in [InvLots -> Nat]
      BY <2>2 DEF TypeOK
    <3>2. \A l \in InvLots : held[l] <= reserved[o][l]
      BY <1>3, <3>1 DEF TakesInOrder, AtLeastZero
    <3>3. left(held) \in [InvLots -> Nat]
      BY <1>4, <3>1, <3>2, NothingType DEF Minus
    <3> HIDE DEF left
    <3> QED BY <2>1, <3>3 DEF TypeOK
  <2>3. CASE o \notin OrderLines
    <3>1. reserved' = reserved
      BY <2>1, <2>3 DEF TypeOK
    <3> QED BY <3>1 DEF TypeOK
  <2> QED BY <2>2, <2>3
<1>10. fifo' \in Seq(InvLots)
  BY DEF Settle, WithLot, TypeOK, InvLots
<1>11. confirmed' = confirmed /\ manual' = manual
  BY DEF Settle
<1> QED BY <1>6, <1>7, <1>8, <1>9, <1>10, <1>11 DEF TypeOK

\* Every request keeps the types.
LEMMA TypeStep ==
  ASSUME TypeOK, [Next]_vars
  PROVE  TypeOK'
<1>1. CASE OrderNext
  BY <1>1, CreateOrderLineType, EditOrderLineType, ConfirmProductionPlanType, ConfirmStockPlanType,
     ConfirmPartialPlanType, CreateBaseLotType, ChangeQuantityBeforeLotType,
     ChangeQuantityOfLotType, CloseType, DeleteOrderLinesType DEF OrderNext
<1>2. CASE ReworkNext
  BY <1>2, CreateReworkLotType DEF ReworkNext
<1>3. CASE StockNext
  BY <1>3, ConfirmShipmentType, AdjustType DEF StockNext
<1>4. CASE ScheduleNext
  BY <1>4, ScheduleType DEF ScheduleNext
<1>5. CASE ResultNext
  BY <1>5, SettleType DEF ResultNext, SaveSplit, SaveFinal, CorrectFinal
<1>6. CASE UNCHANGED vars
  BY <1>6 DEF vars, TypeOK
<1> QED BY <1>1, <1>2, <1>3, <1>4, <1>5, <1>6 DEF Next

\* An empty database has the types.
LEMMA TypeInit == Init => TypeOK
BY EmptyRowTypes, NothingType DEF Init, TypeOK

\* Whatever requests come, every row keeps the columns its table declares: no
\* reservation and no shipped quantity ever becomes negative.
THEOREM TypeCorrect == Spec => []TypeOK
BY TypeInit, TypeStep, PTL DEF Spec
-----------------------------------------------------------------------------
(* Order lines and their LOTs.  ReleasedWithLot is not inductive by itself: *)
(* it needs that no LOT is ever canceled (a cancellation would be allowed   *)
(* then), and that only a LOT that exists has schedules (a schedule moves   *)
(* its LOT's status).                                                       *)

LotsLinked ==
  \A p \in ProdLots :
    /\ lots[p].order = NoOrder => lots[p] = NoLot
    /\ lots[p].status # "CANCELED"
    /\ lots[p] = NoLot => \A k \in RoundNos : rounds[p][k].status = "NONE"

LifeInv == LotsLinked /\ ReleasedWithLot /\ OnePrimaryLot

\* A step that leaves LOTs and rounds alone may move an order line without LOTs
\* anywhere but to CLOSED, and finish any order line.
LEMMA LifeOfUnmovedLots ==
  ASSUME TypeOK, LifeInv, UNCHANGED <<lots, rounds>>,
         \A o \in OrderLines :
           \/ orders'[o].status = orders[o].status
           \/ orders'[o].status = "DONE"
           \/ LotsOf(o) = {} /\ orders'[o].status # "CLOSED"
  PROVE  LifeInv'
<1>1. \A o \in OrderLines : LotsOf(o)' = LotsOf(o)
  BY DEF LotsOf
<1>2. ReleasedWithLot'
  BY <1>1 DEF LifeInv, ReleasedWithLot
<1>3. LotsLinked' /\ OnePrimaryLot'
  BY DEF LifeInv, LotsLinked, OnePrimaryLot
<1> QED BY <1>2, <1>3 DEF LifeInv

\* A step that makes a LOT for an order line without one, or a rework LOT.
LEMMA LifeOfNewLot ==
  ASSUME TypeOK, LifeInv, UNCHANGED rounds,
         NEW o \in OrderLines, NEW p \in ProdLots, NEW q, NEW rework \in BOOLEAN,
         IsUnused(p), NewLot(o, p, q, rework),
         rework \/ \A x \in LotsOf(o) : lots[x].rework,
         orders'[o].status \in {"CLOSED", "DONE"},
         \A x \in OrderLines : x # o => orders'[x].status = orders[x].status
  PROVE  LifeInv'
<1>1. /\ lots'[p] = [order |-> o, rework |-> rework, qty |-> q, status |-> "WAITING"]
      /\ \A x \in ProdLots : x # p => lots'[x] = lots[x]
  BY DEF NewLot, TypeOK
<1>2. lots[p] = NoLot /\ lots[p].order = NoOrder /\ o # NoOrder
  BY DEF IsUnused, NoLot
<1>3. p \in LotsOf(o)' /\ \A x \in OrderLines : x # o => LotsOf(x)' = LotsOf(x)
  BY <1>1, <1>2 DEF LotsOf
<1>4. LotsLinked'
  <2>1. lots'[p] # NoLot /\ lots'[p].order # NoOrder /\ lots'[p].status # "CANCELED"
    BY <1>1, <1>2 DEF NoLot
  <2> QED BY <1>1, <2>1 DEF LifeInv, LotsLinked
<1>5. ReleasedWithLot'
  BY <1>3 DEF LifeInv, ReleasedWithLot
<1>6. OnePrimaryLot'
  <2>1. SUFFICES ASSUME NEW x \in ProdLots, NEW y \in ProdLots,
                        lots'[x] # NoLot, ~lots'[x].rework, ~lots'[y].rework,
                        lots'[x].order = lots'[y].order, x # y
                 PROVE  FALSE
    BY DEF OnePrimaryLot, NoLot
  <2>2. CASE x # p /\ y # p
    BY <1>1, <2>1, <2>2 DEF LifeInv, OnePrimaryLot
  <2>3. CASE x = p
    <3>1. y \in LotsOf(o) /\ ~rework /\ lots[y] = lots'[y]
      BY <1>1, <2>1, <2>3 DEF LotsOf
    <3> QED BY <2>1, <3>1
  <2>4. CASE y = p
    <3>1. x \in LotsOf(o) /\ ~rework /\ lots[x] = lots'[x]
      BY <1>1, <2>1, <2>4 DEF LotsOf
    <3> QED BY <2>1, <3>1
  <2> QED BY <2>2, <2>3, <2>4
<1> QED BY <1>4, <1>5, <1>6 DEF LifeInv

\* The status of a LOT and of its order line after one of its rounds moved.
LEMMA LifeOfSync ==
  ASSUME TypeOK, LifeInv, NEW p \in ProdLots, lots[p] # NoLot,
         NEW rs \in [ProdLots -> [RoundNos -> Round]],
         \A x \in ProdLots : x # p => rs[x] = rounds[x],
         SyncStatus(p, rs)
  PROVE  LifeInv'
<1> DEFINE o == lots[p].order
           st == DeriveLotStatus(StatusesOf(p, rs), lots[p].status)
<1>1. o \in OrderLines
  BY DEF LifeInv, LotsLinked, TypeOK, Lot
<1>2. lots' = [lots EXCEPT ![p].status = st] /\ rounds' = rs
  BY DEF SyncStatus, TypeOK
<1>3. st # "CANCELED"
  BY DEF DeriveLotStatus, LifeInv, LotsLinked
<1>4. /\ \A x \in ProdLots : x # p => lots'[x] = lots[x]
      /\ lots'[p].order = o /\ lots'[p].rework = lots[p].rework /\ lots'[p].status = st
  <2>1. lots[p] \in Lot
    BY DEF TypeOK
  <2> HIDE DEF st
  <2> QED BY <1>2, <2>1 DEF TypeOK, Lot
<1>5. \A x \in OrderLines : LotsOf(x)' = LotsOf(x)
  BY <1>4 DEF LotsOf
<1>6. p \in LotsOf(o)
  BY DEF LotsOf
<1>7. LotsLinked'
  <2>1. lots'[p] # NoLot /\ lots'[p].order # NoOrder
    BY <1>1, <1>4 DEF NoLot
  <2>2. lots'[p].status # "CANCELED"
    BY <1>3, <1>4
  <2>3. ASSUME NEW x \in ProdLots, x # p
        PROVE  /\ lots'[x].order = NoOrder => lots'[x] = NoLot
               /\ lots'[x].status # "CANCELED"
               /\ lots'[x] = NoLot => \A k \in RoundNos : rounds'[x][k].status = "NONE"
    BY <1>2, <1>4, <2>3 DEF LifeInv, LotsLinked
  <2> QED BY <2>1, <2>2, <2>3 DEF LotsLinked
<1>8. orders' = orders \/ orders' = [orders EXCEPT ![o].status = "DONE"]
  BY DEF SyncStatus
<1>9. \A x \in OrderLines : \/ orders'[x].status = orders[x].status
                            \/ x = o /\ orders'[x].status = "DONE"
  BY <1>1, <1>8 DEF TypeOK, OrderLine
<1>10. ReleasedWithLot'
  BY <1>5, <1>6, <1>9 DEF LifeInv, ReleasedWithLot
<1>11. OnePrimaryLot'
  <2>1. \A x \in ProdLots : /\ lots'[x] # NoLot => lots[x] # NoLot
                            /\ lots'[x].order = lots[x].order
                            /\ lots'[x].rework = lots[x].rework
    BY <1>4
  <2> QED BY <2>1 DEF LifeInv, OnePrimaryLot
<1> QED BY <1>7, <1>10, <1>11 DEF LifeInv

\* Registration creates the released order line with its LOT, or neither.
LEMMA LifeOfCreateOrderLine ==
  ASSUME TypeOK, LifeInv, NEW o \in OrderLines, NEW partner \in Partners,
         NEW number \in OrderNumbers, NEW q \in OrderQtys, CreateOrderLine(o, partner, number, q)
  PROVE  LifeInv'
<1>1. orders[o].status = "NONE" /\ LotsOf(o) = {}
  BY DEF CreateOrderLine, LifeInv, ReleasedWithLot
<1>2. /\ \A x \in OrderLines : x # o => orders'[x] = orders[x]
      /\ rounds' = rounds
      /\ \/ /\ orders'[o].status = "CLOSED"
            /\ \E p \in ProdLots, n \in Int : CreatePrimaryLot(o, p, n)
         \/ orders'[o].status = "OPEN" /\ lots' = lots
  <2>1. q \in Int /\ TargetOf(partner, q) \in Int
    BY ShipQtyType
  <2> QED BY <2>1 DEF CreateOrderLine, TypeOK
<1>3. CASE orders'[o].status = "OPEN" /\ lots' = lots
  BY <1>1, <1>2, <1>3, LifeOfUnmovedLots
<1>4. ASSUME orders'[o].status = "CLOSED",
             NEW p \in ProdLots, NEW n \in Int, CreatePrimaryLot(o, p, n)
      PROVE  LifeInv'
  <2>1. IsUnused(p) /\ NewLot(o, p, n, FALSE)
    BY <1>4 DEF CreatePrimaryLot
  <2> QED BY <1>1, <1>2, <1>4, <2>1, LifeOfNewLot
<1> QED BY <1>2, <1>3, <1>4

\* A plan releases an order line with its LOT, or touches no LOT.
LEMMA LifeOfPlans ==
  ASSUME TypeOK, LifeInv, NEW o \in OrderLines,
         \/ \E type \in PlanTypes : ConfirmProductionPlan(o, type)
         \/ \E type \in PlanTypes : ConfirmStockPlan(o, type)
         \/ ConfirmPartialPlan(o)
  PROVE  LifeInv'
<1>1. \A type, available, remaining, st : Decide(o, type, available, remaining, st) =>
        /\ orders'[o].status = st
        /\ \A x \in OrderLines : x # o => orders'[x] = orders[x]
  BY DEF Decide, TypeOK, OrderLine
<1>2. CASE ConfirmPartialPlan(o)
  BY <1>1, <1>2, LifeOfUnmovedLots DEF ConfirmPartialPlan
<1>3. ASSUME NEW type \in PlanTypes, ConfirmStockPlan(o, type) PROVE LifeInv'
  BY <1>1, <1>3, LifeOfUnmovedLots DEF ConfirmStockPlan
<1>4. ASSUME NEW type \in PlanTypes, ConfirmProductionPlan(o, type) PROVE LifeInv'
  <2>1. CASE type = "AUTO_PRODUCTION"
    BY <1>1, <1>4, <2>1, LifeOfUnmovedLots DEF ConfirmProductionPlan, stockVars
  <2>2. CASE type = "STOCK_REPLENISHMENT"
    <3>1. PICK p \in ProdLots : CreatePrimaryLot(o, p, orders[o].qty)
      BY <1>4, <2>2 DEF ConfirmProductionPlan
    <3>2. IsUnused(p) /\ NewLot(o, p, orders[o].qty, FALSE)
      BY <3>1 DEF CreatePrimaryLot
    <3>3. LotsOf(o) = {}
      BY <1>4, <2>2 DEF ConfirmProductionPlan, LifeInv, ReleasedWithLot
    <3>4. /\ orders'[o].status = "CLOSED"
          /\ \A x \in OrderLines : x # o => orders'[x] = orders[x]
          /\ rounds' = rounds
      BY <1>1, <1>4, <2>2 DEF ConfirmProductionPlan
    <3> QED BY <3>2, <3>3, <3>4, LifeOfNewLot
  <2> QED BY <1>4, <2>1, <2>2 DEF ConfirmProductionPlan
<1> QED BY <1>2, <1>3, <1>4

\* The LOT created from a plan is the first that is not rework, and releases.
LEMMA LifeOfBaseLot ==
  ASSUME TypeOK, LifeInv, NEW o \in OrderLines, NEW p \in ProdLots, CreateBaseLot(o, p)
  PROVE  LifeInv'
<1>1. IsUnused(p) /\ NewLot(o, p, orders[o].plan.production, FALSE)
  BY DEF CreateBaseLot, CreatePrimaryLot
<1>2. /\ orders'[o].status = "CLOSED"
      /\ \A x \in OrderLines : x # o => orders'[x] = orders[x]
      /\ rounds' = rounds
      /\ \A x \in LotsOf(o) : lots[x].rework
  BY DEF CreateBaseLot, TypeOK, OrderLine
<1> QED BY <1>1, <1>2, LifeOfNewLot

\* A rework LOT belongs to an order line that stays released.
LEMMA LifeOfRework ==
  ASSUME TypeOK, LifeInv, NEW parent \in ProdLots, NEW p \in ProdLots, NEW q \in OrderQtys,
         CreateReworkLot(parent, p, q)
  PROVE  LifeInv'
<1> DEFINE o == lots[parent].order
<1>1. o \in OrderLines /\ parent \in LotsOf(o)
  <2>1. lots[parent] # NoLot
    BY DEF CreateReworkLot, NoLot
  <2> QED BY <2>1 DEF LifeInv, LotsLinked, TypeOK, Lot, LotsOf
<1>2. orders[o].status \in {"CLOSED", "DONE"}
  BY <1>1 DEF LifeInv, ReleasedWithLot
<1>3. /\ orders'[o].status \in {"CLOSED", "DONE"}
      /\ \A x \in OrderLines : x # o => orders'[x] = orders[x]
  BY <1>1, <1>2 DEF CreateReworkLot, TypeOK, OrderLine
<1>4. IsUnused(p) /\ NewLot(o, p, q, TRUE) /\ rounds' = rounds
  BY DEF CreateReworkLot
<1> HIDE DEF o
<1> QED BY <1>1, <1>3, <1>4, LifeOfNewLot

\* Quantity changes reopen only order lines without a LOT.
LEMMA LifeOfQuantityChange ==
  ASSUME TypeOK, LifeInv, NEW o \in OrderLines, NEW q \in OrderQtys,
         \/ ChangeQuantityBeforeLot(o, q)
         \/ \E p \in ProdLots : ChangeQuantityOfLot(o, p, q)
  PROVE  LifeInv'
<1>1. CASE ChangeQuantityBeforeLot(o, q)
  <2>1. /\ orders'[o].status = "OPEN" /\ LotsOf(o) = {}
        /\ \A x \in OrderLines : x # o => orders'[x] = orders[x]
        /\ UNCHANGED <<lots, rounds>>
    BY <1>1 DEF ChangeQuantityBeforeLot, TypeOK, OrderLine
  <2> QED BY <2>1, LifeOfUnmovedLots
<1>2. ASSUME NEW p \in ProdLots, ChangeQuantityOfLot(o, p, q) PROVE LifeInv'
  <2>1. /\ p \in LotsOf(o) /\ lots[p].status = "WAITING"
        /\ lots' = [lots EXCEPT ![p].qty = RevisedPlan(o, q).production]
        /\ rounds' = rounds
    BY <1>2 DEF ChangeQuantityOfLot
  <2>2. \A x \in OrderLines : orders'[x].status = orders[x].status
    BY <1>2 DEF ChangeQuantityOfLot, TypeOK, OrderLine
  <2>3. \A x \in ProdLots : /\ lots'[x].order = lots[x].order
                            /\ lots'[x].rework = lots[x].rework
                            /\ lots'[x].status = lots[x].status
                            /\ x # p => lots'[x] = lots[x]
    BY <2>1 DEF TypeOK, Lot
  <2>4. \A x \in OrderLines : LotsOf(x)' = LotsOf(x)
    BY <2>3 DEF LotsOf
  <2>5. lots[p] # NoLot /\ lots'[p] # NoLot /\ lots[p].order # NoOrder
    BY <2>1, <2>3 DEF LotsOf, NoLot
  <2>6. LotsLinked'
    BY <2>1, <2>3, <2>5 DEF LifeInv, LotsLinked
  <2>7. ReleasedWithLot'
    BY <2>2, <2>4 DEF LifeInv, ReleasedWithLot
  <2>8. OnePrimaryLot'
    BY <2>3, <2>5 DEF LifeInv, OnePrimaryLot
  <2> QED BY <2>6, <2>7, <2>8 DEF LifeInv
<1> QED BY <1>1, <1>2

\* An edit leaves status and LOTs.
LEMMA LifeOfEdit ==
  ASSUME TypeOK, LifeInv, NEW o \in OrderLines, NEW partner \in Partners,
         NEW number \in OrderNumbers, EditOrderLine(o, partner, number)
  PROVE  LifeInv'
BY EditedRow, LifeOfUnmovedLots

\* Cancellation and short close leave no LOT without a released order line.
LEMMA LifeOfClosing ==
  ASSUME TypeOK, LifeInv, NEW o \in OrderLines, CancelOrderLine(o) \/ ShortClose(o)
  PROVE  LifeInv'
<1>1. CASE ShortClose(o)
  <2>1. \A x \in OrderLines : orders'[x].status \in {orders[x].status, "DONE"}
    BY <1>1 DEF ShortClose, TypeOK, OrderLine
  <2> QED BY <1>1, <2>1, LifeOfUnmovedLots DEF ShortClose
<1>2. CASE CancelOrderLine(o)
  <2>1. LotsOf(o) = {}
    BY <1>2 DEF CancelOrderLine, LifeInv, LotsLinked, LotsOf
  <2>2. /\ orders'[o].status = "CANCELED"
        /\ \A x \in OrderLines : x # o => orders'[x] = orders[x]
    BY <1>2 DEF CancelOrderLine, TypeOK, OrderLine
  <2> QED BY <1>2, <2>1, <2>2, LifeOfUnmovedLots DEF CancelOrderLine
<1> QED BY <1>1, <1>2

\* Deletion takes the LOTs and their rounds with the order line.
LEMMA LifeOfDeletion ==
  ASSUME TypeOK, LifeInv, NEW o \in OrderLines, DeleteOrderLines(o)
  PROVE  LifeInv'
<1> DEFINE group == {x \in OrderLines : /\ orders[x].status # "NONE"
                                        /\ orders[x].number = orders[o].number}
           gone == {p \in ProdLots : lots[p].order \in group}
<1>1. /\ \A x \in group : orders'[x] = NoOrderLine
      /\ \A x \in OrderLines \ group : orders'[x] = orders[x]
      /\ \A p \in gone : lots'[p] = NoLot /\ rounds'[p] = [k \in RoundNos |-> NoRound]
      /\ \A p \in ProdLots \ gone : lots'[p] = lots[p] /\ rounds'[p] = rounds[p]
  BY DEF DeleteOrderLines
<1>2. \A x \in group : LotsOf(x)' = {}
  <2> TAKE x \in group
  <2>1. \A p \in ProdLots : lots'[p].order # x
    BY <1>1 DEF NoLot
  <2> QED BY <2>1 DEF LotsOf
<1>3. \A x \in OrderLines \ group : LotsOf(x)' = LotsOf(x)
  <2> TAKE x \in OrderLines \ group
  <2>1. \A p \in ProdLots : lots'[p].order = x <=> lots[p].order = x
    BY <1>1 DEF NoLot
  <2> QED BY <2>1 DEF LotsOf
<1>4. ReleasedWithLot'
  <2>1. NoOrderLine.status = "NONE"
    BY DEF NoOrderLine
  <2> QED BY <1>1, <1>2, <1>3, <2>1 DEF LifeInv, ReleasedWithLot
<1>5. LotsLinked'
  <2> SUFFICES ASSUME NEW p \in ProdLots
               PROVE  /\ lots'[p].order = NoOrder => lots'[p] = NoLot
                      /\ lots'[p].status # "CANCELED"
                      /\ lots'[p] = NoLot => \A k \in RoundNos : rounds'[p][k].status = "NONE"
    BY DEF LotsLinked
  <2>1. CASE p \in gone
    <3>1. lots'[p] = NoLot /\ rounds'[p] = [k \in RoundNos |-> NoRound]
      BY <1>1, <2>1
    <3> QED BY <3>1 DEF NoLot, NoRound
  <2>2. CASE p \notin gone
    <3>1. lots'[p] = lots[p] /\ rounds'[p] = rounds[p]
      BY <1>1, <2>2
    <3> QED BY <3>1 DEF LifeInv, LotsLinked
  <2> QED BY <2>1, <2>2
<1>6. OnePrimaryLot'
  <2> SUFFICES ASSUME NEW p \in ProdLots, NEW q \in ProdLots,
                      lots'[p] # NoLot, ~lots'[p].rework, ~lots'[q].rework,
                      lots'[p].order = lots'[q].order
               PROVE  p = q
    BY DEF OnePrimaryLot
  <2>1. p \notin gone
    BY <1>1
  <2>2. q \notin gone
    <3>1. lots[p].order # NoOrder
      BY <1>1, <2>1 DEF LifeInv, LotsLinked
    <3> QED BY <1>1, <2>1, <3>1 DEF NoLot
  <2> QED BY <1>1, <2>1, <2>2 DEF LifeInv, OnePrimaryLot
<1> QED BY <1>4, <1>5, <1>6 DEF LifeInv

\* Stock requests touch no LOT, and finish order lines at most.
LEMMA LifeOfStock ==
  ASSUME TypeOK, LifeInv, StockNext
  PROVE  LifeInv'
<1>1. UNCHANGED <<lots, rounds>>
  BY DEF StockNext, ConfirmShipment, AdjustIn, AdjustOut
<1>2. \A o \in OrderLines : orders'[o].status \in {orders[o].status, "DONE"}
  <2>1. ASSUME NEW S \in SUBSET WaitingLines, NEW first \in OrderLines,
               ConfirmShipment(S, first), NEW o \in OrderLines
        PROVE  orders'[o].status \in {orders[o].status, "DONE"}
    <3>1. orders'[o] = orders[o] \/ orders'[o] = [orders[o] EXCEPT !.status = "DONE"]
      BY <2>1 DEF ConfirmShipment
    <3>2. orders[o] \in OrderLine
      BY DEF TypeOK
    <3> QED BY <3>1, <3>2 DEF OrderLine
  <2> QED BY <2>1 DEF StockNext, AdjustIn, AdjustOut
<1> QED BY <1>1, <1>2, LifeOfUnmovedLots

\* Schedules move the status of a LOT that exists, and finish order lines.
LEMMA LifeOfSchedules ==
  ASSUME TypeOK, LifeInv, ScheduleNext
  PROVE  LifeInv'
<1>1. PICK p \in ProdLots, k \in RoundNos :
        CreateSchedule(p, k) \/ ReceiveSchedule(p, k) \/ StartSchedule(p, k) \/ CancelSchedule(p, k)
  BY DEF ScheduleNext
<1>2. CASE CreateSchedule(p, k)
  <2>1. lots[p] # NoLot /\ UNCHANGED <<orders, lots>>
    BY <1>2 DEF CreateSchedule, IsUnused
  <2>2. \A x \in ProdLots : x # p => rounds'[x] = rounds[x]
    BY <1>2 DEF CreateSchedule, TypeOK
  <2>3. LotsLinked'
    BY <2>1, <2>2 DEF LifeInv, LotsLinked
  <2> QED BY <2>1, <2>3 DEF LifeInv, ReleasedWithLot, OnePrimaryLot, LotsOf
<1>3. CASE ReceiveSchedule(p, k) \/ StartSchedule(p, k) \/ CancelSchedule(p, k)
  <2>1. PICK st \in ScheduleStatuses : SyncStatus(p, [rounds EXCEPT ![p][k].status = st])
    BY <1>3 DEF ReceiveSchedule, StartSchedule, CancelSchedule, ScheduleStatuses
  <2> DEFINE rs == [rounds EXCEPT ![p][k].status = st]
  <2>2. rs \in [ProdLots -> [RoundNos -> Round]]
    BY MovedType
  <2>3. \A x \in ProdLots : x # p => rs[x] = rounds[x]
    BY DEF TypeOK
  <2>4. lots[p] # NoLot
    <3>1. rounds[p][k].status # "NONE"
      BY <1>3 DEF ReceiveSchedule, StartSchedule, CancelSchedule
    <3> QED BY <3>1 DEF LifeInv, LotsLinked
  <2> HIDE DEF rs
  <2> QED BY <2>1, <2>2, <2>3, <2>4, LifeOfSync DEF rs
<1> QED BY <1>1, <1>2, <1>3

\* What saving a round makes of the rounds.
LEMMA SettleRounds ==
  ASSUME TypeOK, NEW p \in ProdLots, NEW k \in RoundNos, NEW partial \in BOOLEAN,
         NEW r \in Results, Settle(p, k, partial, r)
  PROVE  \E saved \in Round :
           /\ saved.status = IF partial THEN "PARTIAL_DONE" ELSE "DONE"
           /\ saved.settled
           /\ saved.received = r.received /\ saved.sellable = r.sellable /\ saved.discard = r.discard
           /\ saved.stockIn = r.sellable + Carried(p, k) - r.discard
           /\ SyncStatus(p, [rounds EXCEPT ![p] = RoundsSettled(p, k, partial, saved)])
<1> DEFINE stockIn == r.sellable + Carried(p, k) - r.discard
           made == Only(p, r.fromRound)
           saved(held, free) ==
             [status |-> IF partial THEN "PARTIAL_DONE" ELSE "DONE",
              received |-> r.received, sellable |-> r.sellable, discard |-> r.discard,
              settled |-> TRUE, stockIn |-> stockIn,
              ship |-> Plus(Plus(held, free), made)]
<1>1. /\ r.received \in Nat /\ r.sellable \in Nat /\ r.discard \in Nat
      /\ r.fromStock \in Nat /\ r.fromRound \in Nat
  BY DEF Results
<1>2. stockIn \in Int /\ made \in [InvLots -> Nat]
  BY <1>1, RoundTypes DEF Only
<1>3. PICK held \in Takes(r.fromStock), free \in Takes(r.fromStock) :
        SyncStatus(p, [rounds EXCEPT ![p] = RoundsSettled(p, k, partial, saved(held, free))])
  BY DEF Settle
<1>4. held \in [InvLots -> Nat] /\ free \in [InvLots -> Nat]
  BY <1>1, TakeType
<1>5. saved(held, free) \in Round
  <2>1. Plus(Plus(held, free), made) \in [InvLots -> Nat]
    <3> HIDE DEF made
    <3> QED BY <1>2, <1>4 DEF Plus
  <2> HIDE DEF made, stockIn
  <2> QED BY <1>1, <1>2, <2>1 DEF Round, ScheduleStatuses
<1>6. /\ saved(held, free).status = IF partial THEN "PARTIAL_DONE" ELSE "DONE"
      /\ saved(held, free).settled /\ saved(held, free).received = r.received
      /\ saved(held, free).sellable = r.sellable /\ saved(held, free).discard = r.discard
      /\ saved(held, free).stockIn = stockIn
  OBVIOUS
<1> HIDE DEF saved
<1> QED BY <1>3, <1>5, <1>6

\* Results move the status of a LOT that exists, and finish order lines.
LEMMA LifeOfResults ==
  ASSUME TypeOK, LifeInv, ResultNext
  PROVE  LifeInv'
<1>1. PICK p \in ProdLots, k \in RoundNos, r \in Results, partial \in BOOLEAN :
        rounds[p][k].status # "NONE" /\ Settle(p, k, partial, r)
  BY DEF ResultNext, SaveSplit, SaveFinal, CorrectFinal
<1>2. PICK saved \in Round :
        SyncStatus(p, [rounds EXCEPT ![p] = RoundsSettled(p, k, partial, saved)])
  BY <1>1, SettleRounds
<1> DEFINE rs == [rounds EXCEPT ![p] = RoundsSettled(p, k, partial, saved)]
<1>3. rs \in [ProdLots -> [RoundNos -> Round]]
  BY RoundsSettledType
<1>4. \A x \in ProdLots : x # p => rs[x] = rounds[x]
  BY DEF TypeOK
<1>5. lots[p] # NoLot
  BY <1>1 DEF LifeInv, LotsLinked
<1> HIDE DEF rs
<1> QED BY <1>2, <1>3, <1>4, <1>5, LifeOfSync DEF rs

\* Every request keeps the life of order lines and their LOTs.
LEMMA LifeStep ==
  ASSUME TypeOK, LifeInv, [Next]_vars
  PROVE  LifeInv'
<1>1. CASE OrderNext
  BY <1>1, LifeOfCreateOrderLine, LifeOfPlans, LifeOfBaseLot, LifeOfQuantityChange,
     LifeOfEdit, LifeOfClosing, LifeOfDeletion DEF OrderNext
<1>2. CASE ReworkNext
  BY <1>2, LifeOfRework DEF ReworkNext
<1>3. CASE UNCHANGED vars
  BY <1>3 DEF vars, LifeInv, LotsLinked, ReleasedWithLot, OnePrimaryLot, LotsOf
<1> QED BY <1>1, <1>2, <1>3, LifeOfStock, LifeOfSchedules, LifeOfResults DEF Next

\* An empty database has neither order lines nor LOTs.
LEMMA LifeInit == Init => LifeInv
BY DEF Init, LifeInv, LotsLinked, ReleasedWithLot, OnePrimaryLot, LotsOf, NoLot, NoRound, NoOrderLine

\* The strengthened invariant holds in every reachable state.
LEMMA LifeInvariant == Spec => []LifeInv
BY LifeInit, LifeStep, TypeCorrect, PTL DEF Spec

\* An order line with a LOT is released, and a released one has a LOT, whatever
\* quantity changes, cancellations, deletions and rework it goes through.
THEOREM ReleasedAlwaysWithLot == Spec => []ReleasedWithLot
BY LifeInvariant, PTL DEF LifeInv

\* No order line is ever produced twice: it has at most one LOT besides rework.
THEOREM PrimaryLotIsUnique == Spec => []OnePrimaryLot
BY LifeInvariant, PTL DEF LifeInv
=============================================================================
