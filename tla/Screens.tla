------------------------------- MODULE Screens -------------------------------
(***************************************************************************)
(* What the screens of order lines, LOTs and inspections show of the rows  *)
(* of Fulfilment, and so what their users are offered to do next.  The     *)
(* queries read the database again, with conditions of their own; whether  *)
(* these agree with the guards of the requests is what is checked here.    *)
(*                                                                         *)
(* Screens are ordered by inspection date; the rounds of a LOT are taken   *)
(* to be inspected in the order in which they were scheduled.              *)
(***************************************************************************)
EXTENDS Fulfilment

Finished == {"PARTIAL_DONE", "DONE"}

------------------------------------------------------------------------------
(* The order grid and the order line's detail.                             *)

\* Plans after which production_policy is INVENTORY_ONLY_CLOSE.
StockOnlyPlans == {"STOCK_SHIP_COMPLETE", "AUTO_STOCK_SHIP", "PARTIAL_STOCK_ONLY_CLOSE"}

\* Mutant: a shortage is shown once the order line is closed for good.
ListedLineUntilDone(o) ==
  [offered  |-> IF ~orders[o].decided /\ orders[o].status = "OPEN" /\ LotsOf(o) = {}
                THEN OfferedPlans(Available, Target(o)) ELSE {},
   shortage |-> orders[o].status = "DONE" /\ Remaining(o) > 0]

\* Mutant: a decided order line without a LOT is offered plans again.
ListedLineWithoutLot(o) ==
  [offered  |-> IF orders[o].status = "OPEN" /\ LotsOf(o) = {}
                THEN OfferedPlans(Available, Target(o)) ELSE {},
   shortage |-> /\ orders[o].status = "CLOSED"
                /\ Remaining(o) > 0
                /\ orders[o].plan.type \notin StockOnlyPlans
                /\ LotsOf(o) # {}]

\* decision_required with allowed_plan_types, and needs_shortage_action.
ListedLine(o) ==
  [offered  |-> IF ~orders[o].decided /\ orders[o].status = "OPEN" /\ LotsOf(o) = {}
                THEN OfferedPlans(Available, Target(o)) ELSE {},
   shortage |-> /\ orders[o].status = "CLOSED"
                /\ Remaining(o) > 0
                /\ orders[o].plan.type \notin StockOnlyPlans
                /\ LotsOf(o) # {}]

\* The buttons of the order line's detail.
Buttons(o) ==
  (IF orders[o].status \in {"OPEN", "CLOSED"} THEN {"EDIT"} ELSE {})
  \cup (IF /\ orders[o].status \notin {"DONE", "CANCELED"}
           /\ \A p \in LotsOf(o) : lots[p].status = "CANCELED"
        THEN {"CANCEL"} ELSE {})
  \cup (IF orders[o].status = "OPEN" /\ \A p \in LotsOf(o) : lots[p].rework
        THEN {"BASE_LOT"} ELSE {})

\* The grid of shipments with status WAITING: lines and what is left after each.
WaitingShipments ==
  {[order |-> ol[1], lot |-> ol[2], after |-> AtLeastZero(inventory - reserved[ol[1]][ol[2]])]
     : ol \in WaitingLines}
------------------------------------------------------------------------------
(* The form of an inspection result.                                       *)

HasResult(p, k) == rounds[p][k].status \in Finished

\* Earlier rounds that are done: what the form lists as accumulated.
Accumulated(p, k) ==
  LET earlier == {j \in RoundNos : j < k /\ HasResult(p, j)}
  IN  [received |-> SumFunctionOnSet([j \in RoundNos |-> rounds[p][j].received], earlier),
       sellable |-> SumFunctionOnSet([j \in RoundNos |-> rounds[p][j].sellable], earlier)]

\* Pieces of earlier split rounds that are still to be settled.
PriorUnsettled(p, k) ==
  SumFunctionOnSet([j \in RoundNos |-> rounds[p][j].sellable],
                   {j \in RoundNos : j < k /\ rounds[p][j].status = "PARTIAL_DONE"
                                     /\ ~rounds[p][j].settled})

\* When the form is opened again, what the result had taken over is inferred
\* from what it put into stock.
ShownCarryIn(p, k) ==
  IF HasResult(p, k)
  THEN LET r == rounds[p][k]
           inferred == AtLeastZero(r.stockIn + r.discard - r.sellable)
       IN  IF inferred > PriorUnsettled(p, k) THEN inferred ELSE PriorUnsettled(p, k)
  ELSE PriorUnsettled(p, k)

\* The stock that a form without a result offers: what no WAITING line holds,
\* and what is held for this very order line.
ShownStock(p, k) ==
  Least(AtLeastZero(inventory),
        SumFunction([l \in InvLots |-> IF lotQty[l] > 0 THEN AtLeastZero(FreeStock[l]) ELSE 0])
        + ReservedBy(lots[p].order))
------------------------------------------------------------------------------
(* The grid of results, and the trace of a LOT.                            *)

\* The rows of the grid that belong to LOT p: its finished rounds.
ResultRows(p) == {k \in RoundNos : HasResult(p, k)}

GridReceived(p) ==
  SumFunctionOnSet([k \in RoundNos |-> rounds[p][k].received], ResultRows(p))

Scheduled(p) == {k \in RoundNos : rounds[p][k].status # "NONE"}
LastOf(S) == CHOOSE k \in S : \A j \in S : j <= k

\* Mutant: the last schedule is shown, whether it has a result or not.
TraceOfLastSchedule(p) ==
  LET done == {k \in Scheduled(p) : HasResult(p, k)}
  IN  [shown    |-> IF Scheduled(p) = {} THEN "NONE" ELSE rounds[p][LastOf(Scheduled(p))].status,
       sellable |-> SumFunctionOnSet([k \in RoundNos |-> rounds[p][k].sellable], done)]

\* The inspection of a LOT: the last round with a result, else the last one that
\* is scheduled, with the totals of all results.
TraceInspection(p) ==
  LET done == {k \in Scheduled(p) : HasResult(p, k)}
  IN  [shown    |-> IF done # {} THEN rounds[p][LastOf(done)].status
                    ELSE IF Scheduled(p) # {} THEN rounds[p][LastOf(Scheduled(p))].status
                    ELSE "NONE",
       sellable |-> SumFunctionOnSet([k \in RoundNos |-> rounds[p][k].sellable], done)]

\* inspection_done in the trace's progress.
InspectionDoneShown(p) == TraceInspection(p).shown \in Finished
------------------------------------------------------------------------------
(* Properties.                                                             *)

\* What a screen offers, the server accepts: a plan that the order grid offers is
\* not refused, unless stock of the order line was already confirmed before its
\* quantity was changed; a decided order line whose LOT can be made
\* has something to produce; and the stock that the form of a result offers is
\* not promised to somebody else, as long as the lots cover their lines.
OffersAreAccepted ==
  /\ \A o \in OrderLines : confirmed[o] = Nothing =>
       \A type \in ListedLine(o).offered :
         LET planned == PlannedStock(type, Available, Remaining(o)) IN
         /\ MayDecide(o, type)
         /\ planned > 0 =>
              /\ HasNoStockLine(o)
              /\ planned <= SumFunction([l \in InvLots |-> AtLeastZero(FreeStock[l])])
  /\ \A o \in OrderLines :
       "BASE_LOT" \in Buttons(o) /\ orders[o].decided => orders[o].plan.production > 0
  /\ \A p \in ProdLots, k \in RoundNos :
       rounds[p][k].status = "IN_PROGRESS" /\ (\A l \in InvLots : ReservedOf(l) <= lotQty[l])
       => ShownStock(p, k) + (Reserved - ReservedBy(lots[p].order)) <= inventory

UnfinishedLots(o) == {p \in LotsOf(o) : lots[p].status \notin {"DONE", "CANCELED"}}

\* The stock was used up by others before the plan of o was decided: the order
\* grid offers no plan, though the server would accept production.
OutOfStockUndecided(o) ==
  orders[o].status = "OPEN" /\ ~orders[o].decided /\ OfferedPlans(Available, Target(o)) = {}

\* No order line is forgotten: as long as it is not finished, a screen shows what
\* it waits for (a plan, its base LOT, a LOT at work, a reserved shipment, or a
\* decision about its shortage), but for the case above.
NothingWaitsUnseen ==
  \A o \in OrderLines : orders[o].status \in {"OPEN", "CLOSED"} =>
    \/ ListedLine(o).offered # {}
    \/ orders[o].decided /\ "BASE_LOT" \in Buttons(o)
    \/ UnfinishedLots(o) # {}
    \/ \E line \in WaitingShipments : line.order = o
    \/ ListedLine(o).shortage
    \/ OutOfStockUndecided(o)

\* The inspection screens tell the truth about a saved round: opened again, its
\* form adds up (what was shipped of the round or put into stock, and what was
\* thrown away, is what was sellable and what was taken over); grid and trace
\* count the same pieces, and a LOT that is done is shown as inspected, in full.
InspectionScreensAgree ==
  \A p \in ProdLots :
    /\ \A k \in RoundNos : HasResult(p, k) /\ rounds[p][k].settled =>
         Settles(rounds[p][k].sellable, ShownCarryIn(p, k), 0, rounds[p][k].stockIn, rounds[p][k].discard)
    /\ \A k \in ResultRows(p) : k = LastOf(ResultRows(p)) =>
         /\ Accumulated(p, k).received + rounds[p][k].received = GridReceived(p)
         /\ Accumulated(p, k).sellable + rounds[p][k].sellable = TraceInspection(p).sellable
    /\ lots[p].status = "DONE" => InspectionDoneShown(p) /\ GridReceived(p) >= lots[p].qty

\* docs/project-operations.md:22: production shipment, stock-in and disposal must
\* equal the sellable quantity plus the carry-in that is explicitly shown; so the
\* carry-in a form shows is the one that saving it counts.
ShownCarryInCounts ==
  \A p \in ProdLots, k \in RoundNos :
    rounds[p][k].status \in {"IN_PROGRESS", "DONE"} => ShownCarryIn(p, k) = Carried(p, k)
=============================================================================
