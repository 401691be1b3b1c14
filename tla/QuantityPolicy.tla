--------------------------- MODULE QuantityPolicy ---------------------------
(***************************************************************************)
(* The pure quantity rules of backend/app/services: the shipment target of *)
(* a partner, the progress of a shipment, the fulfilment plans an order    *)
(* line may take, the settlement of an inspection round, and the status a  *)
(* LOT derives from its inspection schedules.                              *)
(*                                                                         *)
(* Partners are abstracted to the class their normalized name puts them    *)
(* in: "DIRECT" (ship what was ordered), "CAREGEN" (order plus 100) and    *)
(* "STANDARD" (order plus two percent, rounded up).                        *)
(***************************************************************************)
EXTENDS Integers

PartnerClasses == {"DIRECT", "CAREGEN", "STANDARD"}

AtLeastZero(n) == IF n > 0 THEN n ELSE 0

Least(m, n) == IF m < n THEN m ELSE n

\* math.ceil(order_qty * 1.02) in whole numbers.
CalculateShipQty(class, orderQty) ==
  CASE class = "DIRECT"   -> orderQty
    [] class = "CAREGEN"  -> orderQty + 100
    [] class = "STANDARD" -> (102 * orderQty + 99) \div 100

\* What may still be shipped for a result when total pieces are shipped in all,
\* current of them by the result itself.
RemainingBefore(target, total, current) ==
  AtLeastZero(AtLeastZero(target)
              - (AtLeastZero(total) - Least(AtLeastZero(current), AtLeastZero(total))))

PlanTypes == {"AUTO_PRODUCTION", "STOCK_SHIP_COMPLETE", "AUTO_STOCK_SHIP",
              "PARTIAL_STOCK_PLUS_PRODUCTION", "PARTIAL_STOCK_ONLY_CLOSE",
              "STOCK_REPLENISHMENT"}

\* The plans the planning screen offers for an order line.
OfferedPlans(available, target) ==
  IF AtLeastZero(available) = 0 THEN {}
  ELSE IF AtLeastZero(available) >= AtLeastZero(target)
       THEN {"STOCK_SHIP_COMPLETE", "STOCK_REPLENISHMENT"}
       ELSE {"PARTIAL_STOCK_PLUS_PRODUCTION", "PARTIAL_STOCK_ONLY_CLOSE",
             "STOCK_REPLENISHMENT"}

\* The plans the confirmation accepts, branch by branch of its own conditions.
AcceptedPlans(available, remaining) ==
  {t \in PlanTypes :
     \/ t = "STOCK_REPLENISHMENT" /\ available > 0
     \/ /\ remaining > 0
        /\ \/ available <= 0 /\ t = "AUTO_PRODUCTION"
           \/ /\ available > 0 /\ available >= remaining
              /\ t \in {"STOCK_SHIP_COMPLETE", "AUTO_STOCK_SHIP"}
           \/ /\ available > 0 /\ available < remaining
              /\ t \in {"PARTIAL_STOCK_ONLY_CLOSE", "PARTIAL_STOCK_PLUS_PRODUCTION"}}

\* What the confirmed plan takes from stock and puts into production.
PlannedStock(type, available, remaining) ==
  CASE type \in {"STOCK_SHIP_COMPLETE", "AUTO_STOCK_SHIP"} -> remaining
    [] type \in {"PARTIAL_STOCK_ONLY_CLOSE", "PARTIAL_STOCK_PLUS_PRODUCTION"} -> available
    [] OTHER -> 0

PlannedProduction(type, orderQty, available, remaining) ==
  CASE type = "STOCK_REPLENISHMENT" -> orderQty
    [] type = "AUTO_PRODUCTION" -> remaining
    [] type = "PARTIAL_STOCK_PLUS_PRODUCTION" -> remaining - available
    [] OTHER -> 0

\* A round settles: shipment, stock-in and disposal take up exactly the pieces
\* found sellable now and those carried in.
Settles(sellable, carried, resultShip, stockIn, discard) ==
  resultShip + stockIn + discard = sellable + carried

ScheduleStatuses == {"WAITING", "RECEIVED", "IN_PROGRESS", "PARTIAL_DONE", "DONE", "CANCELED"}

\* The status of a LOT whose schedules have these statuses; old when there is none.
DeriveLotStatus(statuses, old) ==
  LET active == statuses \ {"CANCELED"}
  IN  CASE active = {}               -> old
        [] "IN_PROGRESS" \in active  -> "IN_PROGRESS"
        [] "RECEIVED" \in active     -> "RECEIVED"
        [] "WAITING" \in active      -> "WAITING"
        [] OTHER -> IF "DONE" \in active THEN "DONE" ELSE "PARTIAL_DONE"
=============================================================================
