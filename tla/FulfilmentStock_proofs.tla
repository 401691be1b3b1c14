----------------------- MODULE FulfilmentStock_proofs -----------------------
(***************************************************************************)
(* Theorems about what Fulfilment promises and moves.  The stock: nothing  *)
(* is shipped or adjusted below zero, every sellable piece is settled      *)
(* once, the three books agree, and who may overdraw a lot or break what   *)
(* was promised of it.  The order lines: what their plans cover, what is   *)
(* shipped beyond their target, the life they live, and that the screens   *)
(* show what they wait for, offer what is accepted and count what there is.*)
(* And the queue of the lots: what is taken first come, first served is    *)
(* determined, and is there whenever the product has it.                   *)
(***************************************************************************)
EXTENDS Fulfilment_proofs, Screens

USE FulfilmentAssumption
-----------------------------------------------------------------------------
(* What is planned to be shipped from stock, the stock has.                *)

\* An accepted plan ships from stock no more than is available.
LEMMA PlannedStockIsAvailable ==
  ASSUME NEW available \in Nat, NEW remaining \in Nat,
         NEW type \in AcceptedPlans(available, remaining)
  PROVE  PlannedStock(type, available, remaining) <= available
BY DEF AcceptedPlans, PlannedStock

\* What is available is in stock.
LEMMA AvailableIsStocked ==
  ASSUME TypeOK, inventory >= 0
  PROVE  Available <= inventory
BY ReservedType DEF TypeOK, Available, AtLeastZero

\* Requests about an order line move stock only to ship it from stock.
LEMMA PlanningMovesNoStock ==
  ASSUME OrderNext
  PROVE  \/ \E o \in OrderLines, type \in PlanTypes : ConfirmStockPlan(o, type)
         \/ UNCHANGED stockVars /\ UNCHANGED <<rounds, confirmed>>
         \/ UNCHANGED stockVars /\ \E o \in OrderLines : DeleteOrderLines(o)
<1>1. PICK o \in OrderLines :
        \/ \E partner \in Partners, number \in OrderNumbers :
             \/ \E q \in OrderQtys : CreateOrderLine(o, partner, number, q)
             \/ EditOrderLine(o, partner, number)
        \/ \E q \in OrderQtys :
             \/ ChangeQuantityBeforeLot(o, q)
             \/ \E p \in ProdLots : ChangeQuantityOfLot(o, p, q)
        \/ \E type \in PlanTypes : ConfirmProductionPlan(o, type)
        \/ \E type \in PlanTypes : ConfirmStockPlan(o, type)
        \/ ConfirmPartialPlan(o)
        \/ \E p \in ProdLots : CreateBaseLot(o, p)
        \/ CancelOrderLine(o)
        \/ ShortClose(o)
        \/ DeleteOrderLines(o)
  BY DEF OrderNext
<1>2. CASE \E partner \in Partners, number \in OrderNumbers :
             \/ \E q \in OrderQtys : CreateOrderLine(o, partner, number, q)
             \/ EditOrderLine(o, partner, number)
  BY <1>2 DEF CreateOrderLine, EditOrderLine
<1>3. CASE \E q \in OrderQtys : \/ ChangeQuantityBeforeLot(o, q)
                                \/ \E p \in ProdLots : ChangeQuantityOfLot(o, p, q)
  BY <1>3 DEF ChangeQuantityBeforeLot, ChangeQuantityOfLot
<1>4. CASE \E type \in PlanTypes : ConfirmProductionPlan(o, type)
  BY <1>4 DEF ConfirmProductionPlan
<1>5. CASE ConfirmPartialPlan(o) \/ \E p \in ProdLots : CreateBaseLot(o, p)
  BY <1>5 DEF ConfirmPartialPlan, CreateBaseLot
<1>6. CASE CancelOrderLine(o) \/ ShortClose(o)
  BY <1>6 DEF CancelOrderLine, ShortClose
<1>7. CASE DeleteOrderLines(o)
  BY <1>7 DEF DeleteOrderLines
<1> QED BY <1>1, <1>2, <1>3, <1>4, <1>5, <1>6, <1>7

\* No request takes more from a product than it has.
LEMMA StockStep ==
  ASSUME TypeOK, NoNegativeStock, [Next]_vars
  PROVE  NoNegativeStock'
<1>1. ASSUME NEW o \in OrderLines, NEW type \in PlanTypes, ConfirmStockPlan(o, type)
      PROVE  NoNegativeStock'
  <2> DEFINE planned == PlannedStock(type, Available, Remaining(o))
  <2>1. Available \in Nat /\ Remaining(o) \in Nat
    BY QuantityTypes
  <2>2. type \in AcceptedPlans(Available, Remaining(o))
    BY <1>1 DEF ConfirmStockPlan, MayDecide
  <2>3. planned <= Available /\ planned \in Nat
    BY <2>1, <2>2, PlannedStockIsAvailable DEF PlannedStock
  <2>4. inventory' = inventory - planned
    BY <1>1 DEF ConfirmStockPlan
  <2>5. Available <= inventory
    BY AvailableIsStocked DEF NoNegativeStock
  <2> HIDE DEF planned
  <2> QED BY <2>1, <2>3, <2>4, <2>5 DEF TypeOK, NoNegativeStock
<1>2. ASSUME NEW S \in SUBSET WaitingLines, NEW first \in OrderLines, ConfirmShipment(S, first)
      PROVE  NoNegativeStock'
  <2> DEFINE out == [l \in InvLots |-> SumFunction([o \in OrderLines |->
                       [x \in InvLots |-> IF <<o, x>> \in S THEN reserved[o][x] ELSE 0][l]])]
  <2>1. SumFunction(out) <= inventory /\ inventory' = inventory - SumFunction(out)
    BY <1>2 DEF ConfirmShipment
  <2>2. out \in [InvLots -> Nat]
    <3>1. \A l \in InvLots :
            [o \in OrderLines |->
               [x \in InvLots |-> IF <<o, x>> \in S THEN reserved[o][x] ELSE 0][l]]
            \in [OrderLines -> Nat]
      BY DEF TypeOK
    <3> QED BY <3>1, SumOverOrders
  <2>3. SumFunction(out) \in Nat
    BY <2>2, SumOverLots
  <2> HIDE DEF out
  <2> QED BY <2>1, <2>3 DEF TypeOK, NoNegativeStock
<1>3. ASSUME NEW n \in AdjustQtys, AdjustOut(n) \/ \E l \in AdjustLots : AdjustIn(l, n)
      PROVE  NoNegativeStock'
  BY <1>3 DEF AdjustOut, AdjustIn, TypeOK, NoNegativeStock
<1>4. ASSUME NEW p \in ProdLots, NEW k \in RoundNos, NEW partial \in BOOLEAN,
             NEW r \in Results, Settle(p, k, partial, r)
      PROVE  NoNegativeStock'
  <2>1. r.fromStock \in Nat /\ r.fromRound \in Nat /\ r.sellable \in Nat /\ r.discard \in Nat
    BY DEF Results
  <2>2. InventoryWithout(p, k) \in Int /\ Carried(p, k) \in Nat
    BY RoundTypes
  <2>3. /\ r.fromStock <= InventoryWithout(p, k)
        /\ r.sellable + Carried(p, k) - r.discard >= r.fromRound
        /\ inventory' = InventoryWithout(p, k) - r.fromStock
                        + (r.sellable + Carried(p, k) - r.discard) - r.fromRound
    BY <1>4 DEF Settle, StockSuffices
  <2> QED BY <2>1, <2>2, <2>3 DEF NoNegativeStock
<1>5. CASE UNCHANGED inventory
  BY <1>5 DEF NoNegativeStock
<1>6. CASE OrderNext
  BY <1>1, <1>5, <1>6, PlanningMovesNoStock DEF stockVars
<1>7. CASE StockNext
  BY <1>2, <1>3, <1>7 DEF StockNext
<1>8. CASE ReworkNext \/ ScheduleNext
  BY <1>5, <1>8 DEF ReworkNext, CreateReworkLot, ScheduleNext, CreateSchedule,
     ReceiveSchedule, StartSchedule, CancelSchedule, stockVars
<1>9. CASE ResultNext
  BY <1>4, <1>9 DEF ResultNext, SaveSplit, SaveFinal, CorrectFinal
<1>10. CASE UNCHANGED vars
  BY <1>5, <1>10 DEF vars
<1> QED BY <1>6, <1>7, <1>8, <1>9, <1>10 DEF Next

\* A product's stock never goes below zero: neither a plan, a confirmation, an
\* adjustment nor a saved or corrected result takes more than there is.
THEOREM StockNeverNegative == Spec => []NoNegativeStock
<1>1. Init => NoNegativeStock
  BY DEF Init, NoNegativeStock
<1> QED BY <1>1, StockStep, TypeCorrect, PTL DEF Spec
-----------------------------------------------------------------------------
(* The books of a round.  A split round is settled when it is saved, so     *)
(* nothing is ever carried into a later one.                                *)

RoundBooked(r) ==
  /\ r.stockIn = IF r.settled THEN r.sellable - r.discard ELSE 0
  /\ r.status \in {"PARTIAL_DONE", "DONE"} => r.settled
  /\ r.status \notin {"PARTIAL_DONE", "DONE"} => ~r.settled /\ r.ship = Nothing

RoundsBooked == \A p \in ProdLots, k \in RoundNos : RoundBooked(rounds[p][k])

\* A schedule without a result has no movements.
LEMMA NewRoundBooked ==
  /\ RoundBooked(NoRound)
  /\ RoundBooked([NoRound EXCEPT !.status = "RECEIVED"])
BY DEF RoundBooked, NoRound

\* The movements of every round stay.
MovementsKept ==
  \A x \in ProdLots, j \in RoundNos : /\ rounds'[x][j].stockIn = rounds[x][j].stockIn
                                      /\ rounds'[x][j].ship = rounds[x][j].ship

\* The movements of every round but round k of p stay.
OtherMovementsKept(p, k) ==
  \A x \in ProdLots, j \in RoundNos :
    x # p \/ j # k => /\ rounds'[x][j].stockIn = rounds[x][j].stockIn
                      /\ rounds'[x][j].ship = rounds[x][j].ship

\* A schedule that moves before it is inspected.
LEMMA MovedBooked ==
  ASSUME TypeOK, RoundsBooked, NEW p \in ProdLots, NEW k \in RoundNos,
         NEW st \in ScheduleStatuses \ {"PARTIAL_DONE", "DONE"},
         rounds[p][k].status \notin {"PARTIAL_DONE", "DONE"},
         rounds' = [rounds EXCEPT ![p][k].status = st]
  PROVE  RoundsBooked' /\ MovementsKept
<1>1. rounds[p] \in [RoundNos -> Round] /\ rounds[p][k] \in Round
  BY DEF TypeOK
<1>2. \A x \in ProdLots, j \in RoundNos :
        rounds'[x][j] = IF x = p /\ j = k THEN [rounds[p][k] EXCEPT !.status = st]
                        ELSE rounds[x][j]
  BY <1>1 DEF TypeOK
<1> DEFINE r == [rounds[p][k] EXCEPT !.status = st]
<1>3. /\ r.status = st /\ r.settled = rounds[p][k].settled
      /\ r.stockIn = rounds[p][k].stockIn /\ r.ship = rounds[p][k].ship
      /\ r.sellable = rounds[p][k].sellable /\ r.discard = rounds[p][k].discard
  BY <1>1 DEF Round
<1>4. RoundBooked(r)
  <2> HIDE DEF r
  <2> QED BY <1>3 DEF RoundsBooked, RoundBooked
<1> HIDE DEF r
<1>5. RoundsBooked'
  BY <1>2, <1>4 DEF RoundsBooked, r
<1>6. MovementsKept
  BY <1>2, <1>3 DEF r, MovementsKept
<1> QED BY <1>5, <1>6

\* Only the saved round's movements change when a round is saved.
LEMMA SavedBooked ==
  ASSUME TypeOK, RoundsBooked, NEW p \in ProdLots, NEW k \in RoundNos,
         NEW partial \in BOOLEAN, NEW saved \in Round,
         saved.status = IF partial THEN "PARTIAL_DONE" ELSE "DONE",
         saved.settled,
         saved.stockIn = saved.sellable + Carried(p, k) - saved.discard,
         rounds' = [rounds EXCEPT ![p] = RoundsSettled(p, k, partial, saved)]
  PROVE  /\ RoundsBooked'
         /\ rounds'[p][k] = saved
         /\ OtherMovementsKept(p, k)
<1>1. Unsettled(p, k) = {}
  BY DEF Unsettled, RoundsBooked, RoundBooked
<1>2. Carried(p, k) = 0
  BY <1>1, SumOfNone DEF Carried
<1>3. RoundBooked(saved)
  <2>1. saved.sellable \in Int /\ saved.discard \in Int
    BY DEF Round
  <2> QED BY <1>2, <2>1 DEF RoundBooked
<1>4. rounds'[p][k] = saved
  BY DEF TypeOK, RoundsSettled
<1>5. \A x \in ProdLots, j \in RoundNos :
        x # p \/ j # k =>
          \/ rounds'[x][j] = rounds[x][j]
          \/ /\ rounds[x][j].status = "NONE"
             /\ rounds'[x][j] = [NoRound EXCEPT !.status = "RECEIVED"]
  BY <1>1 DEF TypeOK, RoundsSettled, FreeRound
<1>6. RoundsBooked'
  BY <1>3, <1>4, <1>5, NewRoundBooked DEF RoundsBooked
<1>7. ASSUME NEW x \in ProdLots, NEW j \in RoundNos, x # p \/ j # k
      PROVE  /\ rounds'[x][j].stockIn = rounds[x][j].stockIn
             /\ rounds'[x][j].ship = rounds[x][j].ship
  <2>1. CASE rounds'[x][j] = rounds[x][j]
    BY <2>1
  <2>2. CASE /\ rounds[x][j].status = "NONE"
             /\ rounds'[x][j] = [NoRound EXCEPT !.status = "RECEIVED"]
    <3>1. rounds[x][j].stockIn = 0 /\ rounds[x][j].ship = Nothing
      BY <2>2 DEF RoundsBooked, RoundBooked
    <3>2. rounds'[x][j].stockIn = 0 /\ rounds'[x][j].ship = Nothing
      BY <2>2 DEF NoRound
    <3> QED BY <3>1, <3>2
  <2> QED BY <1>5, <1>7, <2>1, <2>2
<1>8. OtherMovementsKept(p, k)
  BY <1>7 DEF OtherMovementsKept
<1> QED BY <1>4, <1>6, <1>8

\* Deletion leaves rounds without movements.
LEMMA DeletionBooked ==
  ASSUME TypeOK, RoundsBooked, NEW o \in OrderLines, DeleteOrderLines(o)
  PROVE  RoundsBooked' /\ MovementsKept
<1> DEFINE group == {x \in OrderLines : /\ orders[x].status # "NONE"
                                        /\ orders[x].number = orders[o].number}
           gone == {p \in ProdLots : lots[p].order \in group}
<1>1. /\ \A p \in gone : rounds'[p] = [k \in RoundNos |-> NoRound]
      /\ \A p \in ProdLots \ gone : rounds'[p] = rounds[p]
      /\ \A p \in gone, k \in RoundNos : rounds[p][k].status \in {"NONE", "WAITING", "CANCELED"}
  BY DEF DeleteOrderLines, MayDelete
<1>2. ASSUME NEW p \in ProdLots, NEW k \in RoundNos
      PROVE  /\ RoundBooked(rounds'[p][k])
             /\ rounds'[p][k].stockIn = rounds[p][k].stockIn
             /\ rounds'[p][k].ship = rounds[p][k].ship
  <2>1. CASE p \notin gone
    <3>1. rounds'[p][k] = rounds[p][k]
      BY <1>1, <2>1
    <3> QED BY <3>1 DEF RoundsBooked
  <2>2. CASE p \in gone
    <3>1. rounds'[p][k] = NoRound
      BY <1>1, <2>2
    <3>2. rounds[p][k].status \notin {"PARTIAL_DONE", "DONE"}
      BY <1>1, <2>2
    <3>3. rounds[p][k].stockIn = 0 /\ rounds[p][k].ship = Nothing
      BY <3>2 DEF RoundsBooked, RoundBooked
    <3>4. NoRound.stockIn = 0 /\ NoRound.ship = Nothing
      BY DEF NoRound
    <3> QED BY <3>1, <3>3, <3>4, NewRoundBooked
  <2> QED BY <2>1, <2>2
<1>3. RoundsBooked'
  BY <1>2 DEF RoundsBooked
<1>4. MovementsKept
  BY <1>2 DEF MovementsKept
<1> QED BY <1>3, <1>4

\* Requests about schedules keep every round and its movements in step.
LEMMA ScheduleBooked ==
  ASSUME TypeOK, RoundsBooked, ScheduleNext
  PROVE  RoundsBooked' /\ MovementsKept /\ UNCHANGED stockVars /\ UNCHANGED confirmed
<1>1. PICK p \in ProdLots, k \in RoundNos :
        CreateSchedule(p, k) \/ ReceiveSchedule(p, k) \/ StartSchedule(p, k) \/ CancelSchedule(p, k)
  BY DEF ScheduleNext
<1>2. \E st \in ScheduleStatuses \ {"PARTIAL_DONE", "DONE"} :
         rounds' = [rounds EXCEPT ![p][k].status = st]
  BY <1>1 DEF CreateSchedule, ReceiveSchedule, StartSchedule, CancelSchedule, SyncStatus,
     ScheduleStatuses
<1>3. rounds[p][k].status \notin {"PARTIAL_DONE", "DONE"}
  BY <1>1 DEF CreateSchedule, ReceiveSchedule, StartSchedule, CancelSchedule, FreeRound
<1>4. UNCHANGED stockVars /\ UNCHANGED confirmed
  BY <1>1 DEF CreateSchedule, ReceiveSchedule, StartSchedule, CancelSchedule
<1> QED BY <1>2, <1>3, <1>4, MovedBooked

\* Stock requests touch no round.
LEMMA StockKeepsRounds ==
  ASSUME StockNext \/ ReworkNext \/ \E o \in OrderLines, type \in PlanTypes : ConfirmStockPlan(o, type)
  PROVE  UNCHANGED rounds
BY DEF StockNext, ConfirmShipment, AdjustIn, AdjustOut, ReworkNext, CreateReworkLot, ConfirmStockPlan

\* A saved result has brought in what it found less what it threw away.
LEMMA ResultBooked ==
  ASSUME TypeOK, RoundsBooked, NEW p \in ProdLots, NEW k \in RoundNos,
         NEW partial \in BOOLEAN, NEW r \in Results, Settle(p, k, partial, r)
  PROVE  /\ RoundsBooked'
         /\ OtherMovementsKept(p, k)
<1>1. PICK saved \in Round :
        /\ saved.status = IF partial THEN "PARTIAL_DONE" ELSE "DONE"
        /\ saved.settled
        /\ saved.sellable = r.sellable /\ saved.discard = r.discard
        /\ saved.stockIn = r.sellable + Carried(p, k) - r.discard
        /\ SyncStatus(p, [rounds EXCEPT ![p] = RoundsSettled(p, k, partial, saved)])
  BY SettleRounds
<1>2. rounds' = [rounds EXCEPT ![p] = RoundsSettled(p, k, partial, saved)]
  BY <1>1 DEF SyncStatus
<1>3. saved.stockIn = saved.sellable + Carried(p, k) - saved.discard
  BY <1>1
<1>4. saved.status = (IF partial THEN "PARTIAL_DONE" ELSE "DONE") /\ saved.settled
  BY <1>1
<1>5. RoundsBooked'
  BY <1>2, <1>3, <1>4, SavedBooked
<1>6. OtherMovementsKept(p, k)
  BY <1>2, <1>3, <1>4, SavedBooked
<1> QED BY <1>5, <1>6

\* Every request keeps the rounds and their movements in step.
LEMMA BookedStep ==
  ASSUME TypeOK, RoundsBooked, [Next]_vars
  PROVE  RoundsBooked'
<1>1. CASE UNCHANGED rounds
  BY <1>1 DEF RoundsBooked
<1>2. CASE OrderNext
  BY <1>1, <1>2, PlanningMovesNoStock, StockKeepsRounds, DeletionBooked
<1>3. CASE ResultNext
  BY <1>3, ResultBooked DEF ResultNext, SaveSplit, SaveFinal, CorrectFinal
<1>4. CASE UNCHANGED vars
  BY <1>1, <1>4 DEF vars
<1> QED BY <1>1, <1>2, <1>3, <1>4, ScheduleBooked, StockKeepsRounds DEF Next

\* Before any request no round has movements.
LEMMA BookedInit == Init => RoundsBooked
BY NewRoundBooked DEF Init, RoundsBooked

\* In every reachable state a round has the movements its result accounts for.
LEMMA BookedInvariant == Spec => []RoundsBooked
BY BookedInit, BookedStep, TypeCorrect, PTL DEF Spec

\* Every piece found sellable in a settled round was shipped, put into stock or
\* discarded exactly once, also when the result is saved again.
THEOREM SellableIsSettledOnce == Spec => []SellableSettledOnce
<1>1. RoundsBooked => SellableSettledOnce
  <2> SUFFICES ASSUME RoundsBooked, NEW p \in ProdLots
               PROVE  [k \in RoundNos |-> rounds[p][k].stockIn]
                      = [k \in RoundNos |->
                           IF rounds[p][k].settled
                           THEN rounds[p][k].sellable - rounds[p][k].discard ELSE 0]
    BY DEF SellableSettledOnce
  <2> QED BY DEF RoundsBooked, RoundBooked
<1> QED BY <1>1, BookedInvariant, PTL
-----------------------------------------------------------------------------
(* The three books: a product, its lots, and the movements of a lot.       *)

\* Adding and subtracting the stock of lots moves their sum alike.
LEMMA LotSums ==
  ASSUME NEW f \in [InvLots -> Int], NEW g \in [InvLots -> Int]
  PROVE  /\ SumFunction(Plus(f, g)) = SumFunction(f) + SumFunction(g)
         /\ SumFunction(Minus(f, g)) = SumFunction(f) - SumFunction(g)
<1>1. DOMAIN Plus(f, g) = InvLots /\ \A l \in InvLots : Plus(f, g)[l] = f[l] + g[l]
  BY DEF Plus
<1>2. DOMAIN Minus(f, g) = InvLots /\ \A l \in InvLots : Minus(f, g)[l] = f[l] - g[l]
  BY DEF Minus
<1>3. \A l \in InvLots : f[l] \in Int /\ g[l] \in Int
  OBVIOUS
<1>4. SumFunction(Plus(f, g)) = SumFunction(f) + SumFunction(g)
  BY <1>1, <1>3, FiniteRows, SumLinear DEF SumFunction
<1>5. SumFunction(Minus(f, g)) = SumFunction(f) - SumFunction(g)
  BY <1>2, <1>3, FiniteRows, SumDifference DEF SumFunction
<1> QED BY <1>4, <1>5

\* What is put into one lot adds up to just that.
LEMMA OnlySum ==
  ASSUME NEW l \in InvLots, NEW n \in Int
  PROVE  Only(l, n) \in [InvLots -> Int] /\ SumFunction(Only(l, n)) = n
<1>1. DOMAIN Only(l, n) = InvLots /\ \A x \in InvLots : Only(l, n)[x] = IF x = l THEN n ELSE 0
  BY DEF Only
<1>2. SumFunction(Only(l, n)) = n
  BY <1>1, FiniteRows, SumOnly DEF SumFunction
<1> QED BY <1>2 DEF Only

\* The parts of a lot's ledger.
StockInOf(l) == IF l \in ProdLots THEN SumFunction([k \in RoundNos |-> rounds[l][k].stockIn]) ELSE 0
ConfirmedOf(l) == SumFunction([o \in OrderLines |-> confirmed[o][l]])
ShipOf(l) == SumFunction([pk \in ProdLots \X RoundNos |-> rounds[pk[1]][pk[2]].ship[l]])

\* The ledger of a lot, part by part: adjusted, brought in, confirmed, shipped.
LEMMA LedgerParts ==
  ASSUME TypeOK, NEW l \in InvLots
  PROVE  /\ LedgerOf(l) = manual[l] + StockInOf(l) - ConfirmedOf(l) - ShipOf(l)
         /\ manual[l] \in Int /\ StockInOf(l) \in Int /\ ConfirmedOf(l) \in Int /\ ShipOf(l) \in Int
<1>1. StockInOf(l) \in Int
  <2>1. CASE l \in ProdLots
    <3> DEFINE g == [k \in RoundNos |-> rounds[l][k].stockIn]
    <3>1. ASSUME NEW k \in RoundNos PROVE g[k] \in Int
      <4>1. rounds[l][k] \in Round
        BY <2>1 DEF TypeOK
      <4> QED BY <4>1 DEF Round
    <3>2. SumFunctionOnSet(g, RoundNos) \in Int
      <4> HIDE DEF g
      <4> QED BY <3>1, FiniteRows, SumType
    <3> QED BY <2>1, <3>2 DEF StockInOf, SumFunction
  <2> QED BY <2>1 DEF StockInOf
<1>2. ConfirmedOf(l) \in Int
  <2>1. [o \in OrderLines |-> confirmed[o][l]] \in [OrderLines -> Nat]
    BY DEF TypeOK
  <2> QED BY <2>1, SumOverOrders DEF ConfirmedOf
<1>3. ShipOf(l) \in Int
  <2> DEFINE g == [pk \in ProdLots \X RoundNos |-> rounds[pk[1]][pk[2]].ship[l]]
  <2>1. ASSUME NEW pk \in ProdLots \X RoundNos PROVE g[pk] \in Int
    <3>1. rounds[pk[1]][pk[2]] \in Round
      BY DEF TypeOK
    <3> QED BY <3>1 DEF Round
  <2>2. SumFunctionOnSet(g, ProdLots \X RoundNos) \in Int
    <3> HIDE DEF g
    <3> QED BY <2>1, FiniteRows, SumType
  <2> QED BY <2>2 DEF ShipOf, SumFunction
<1>4. LedgerOf(l) = manual[l] + StockInOf(l) - ConfirmedOf(l) - ShipOf(l)
  BY DEF LedgerOf, StockInOf, ConfirmedOf, ShipOf
<1> QED BY <1>1, <1>2, <1>3, <1>4 DEF TypeOK

\* Rounds that keep their movements keep the sums of them.
LEMMA KeptSums ==
  ASSUME MovementsKept, NEW l \in InvLots
  PROVE  StockInOf(l)' = StockInOf(l) /\ ShipOf(l)' = ShipOf(l)
<1>1. l \in ProdLots => [k \in RoundNos |-> rounds'[l][k].stockIn] = [k \in RoundNos |-> rounds[l][k].stockIn]
  BY DEF MovementsKept
<1>2. [pk \in ProdLots \X RoundNos |-> rounds'[pk[1]][pk[2]].ship[l]]
      = [pk \in ProdLots \X RoundNos |-> rounds[pk[1]][pk[2]].ship[l]]
  BY DEF MovementsKept
<1> QED BY <1>1, <1>2 DEF StockInOf, ShipOf

\* Saving a round moves the sums of movements by what it changed.
LEMMA SavedSums ==
  ASSUME TypeOK, TypeOK', NEW p \in ProdLots, NEW k \in RoundNos,
         OtherMovementsKept(p, k), NEW l \in InvLots
  PROVE  /\ StockInOf(l)' = StockInOf(l)
               + (IF l = p THEN rounds'[p][k].stockIn - rounds[p][k].stockIn ELSE 0)
         /\ ShipOf(l)' = ShipOf(l) + rounds'[p][k].ship[l] - rounds[p][k].ship[l]
<1>1. StockInOf(l)' = StockInOf(l)
               + (IF l = p THEN rounds'[p][k].stockIn - rounds[p][k].stockIn ELSE 0)
  <2>1. CASE l = p
    <3> DEFINE f == [j \in RoundNos |-> rounds[p][j].stockIn]
               g == [j \in RoundNos |-> rounds'[p][j].stockIn]
    <3>1. ASSUME NEW j \in RoundNos
          PROVE  f[j] \in Int /\ g[j] \in Int /\ (j # k => g[j] = f[j])
      <4>1. rounds[p][j] \in Round /\ rounds'[p][j] \in Round
        BY DEF TypeOK
      <4>2. rounds[p][j].stockIn \in Int /\ rounds'[p][j].stockIn \in Int
        BY <4>1 DEF Round
      <4> QED BY <4>2 DEF OtherMovementsKept
    <3>2. SumFunctionOnSet(g, RoundNos) = SumFunctionOnSet(f, RoundNos) + g[k] - f[k]
      <4> HIDE DEF f, g
      <4> QED BY <3>1, FiniteRows, SumChange
    <3>3. SumFunctionOnSet(f, RoundNos) \in Int
      <4> HIDE DEF f, g
      <4> QED BY <3>1, FiniteRows, SumType
    <3>4. /\ StockInOf(l) = SumFunctionOnSet(f, RoundNos)
          /\ StockInOf(l)' = SumFunctionOnSet(g, RoundNos)
      BY <2>1 DEF StockInOf, SumFunction
    <3>5. f[k] = rounds[p][k].stockIn /\ g[k] = rounds'[p][k].stockIn
      OBVIOUS
    <3>6. f[k] \in Int /\ g[k] \in Int
      BY <3>1
    <3> HIDE DEF f, g
    <3> QED BY <2>1, <3>2, <3>3, <3>4, <3>5, <3>6
  <2>2. CASE l # p
    <3>1. l \in ProdLots => [j \in RoundNos |-> rounds'[l][j].stockIn] = [j \in RoundNos |-> rounds[l][j].stockIn]
      BY <2>2 DEF OtherMovementsKept
    <3>2. StockInOf(l)' = StockInOf(l)
      BY <3>1 DEF StockInOf
    <3> QED BY <2>2, <3>2, LedgerParts
  <2> QED BY <2>1, <2>2
<1>2. ShipOf(l)' = ShipOf(l) + rounds'[p][k].ship[l] - rounds[p][k].ship[l]
  <2> DEFINE D == ProdLots \X RoundNos
             f == [pk \in D |-> rounds[pk[1]][pk[2]].ship[l]]
             g == [pk \in D |-> rounds'[pk[1]][pk[2]].ship[l]]
  <2>1. ASSUME NEW pk \in D
        PROVE  f[pk] \in Int /\ g[pk] \in Int /\ (pk # <<p, k>> => g[pk] = f[pk])
    <3>1. pk[1] \in ProdLots /\ pk[2] \in RoundNos /\ pk = <<pk[1], pk[2]>>
      OBVIOUS
    <3>2. /\ rounds[pk[1]][pk[2]].ship \in [InvLots -> Nat]
          /\ rounds'[pk[1]][pk[2]].ship \in [InvLots -> Nat]
      <4>1. rounds[pk[1]][pk[2]] \in Round /\ rounds'[pk[1]][pk[2]] \in Round
        BY <3>1 DEF TypeOK
      <4> QED BY <4>1 DEF Round
    <3>3. pk # <<p, k>> => rounds'[pk[1]][pk[2]].ship = rounds[pk[1]][pk[2]].ship
      BY <3>1 DEF OtherMovementsKept
    <3> QED BY <3>2, <3>3
  <2>2. <<p, k>> \in D /\ IsFiniteSet(D)
    BY FiniteRows
  <2>3. f[<<p, k>>] = rounds[p][k].ship[l] /\ g[<<p, k>>] = rounds'[p][k].ship[l]
    OBVIOUS
  <2>4. ShipOf(l) = SumFunctionOnSet(f, D) /\ ShipOf(l)' = SumFunctionOnSet(g, D)
    BY DEF ShipOf, SumFunction
  <2> HIDE DEF f, g, D
  <2>5. SumFunctionOnSet(g, D) = SumFunctionOnSet(f, D) + g[<<p, k>>] - f[<<p, k>>]
    BY <2>1, <2>2, SumChange
  <2> QED BY <2>3, <2>4, <2>5
<1> QED BY <1>1, <1>2

\* Requests that touch neither stock nor movements keep the books.
LEMMA BooksOfKept ==
  ASSUME BooksAgree, MovementsKept, UNCHANGED <<inventory, lotQty, manual, confirmed>>
  PROVE  BooksAgree'
<1>1. ASSUME NEW l \in InvLots PROVE LedgerOf(l)' = LedgerOf(l)
  BY KeptSums DEF LedgerOf, StockInOf, ShipOf
<1> QED BY <1>1 DEF BooksAgree

\* A stock plan takes from lots and product what its lines ship.
LEMMA BooksOfStockPlan ==
  ASSUME TypeOK, TypeOK', BooksAgree, NEW o \in OrderLines, NEW type \in PlanTypes,
         ConfirmStockPlan(o, type)
  PROVE  BooksAgree'
<1> DEFINE planned == PlannedStock(type, Available, Remaining(o))
<1>1. PICK take \in Takes(Available) :
        /\ SumFunction(take) = planned
        /\ confirmed' = [confirmed EXCEPT ![o] = take]
        /\ lotQty' = Minus(lotQty, take)
  BY DEF ConfirmStockPlan, TakesInOrder
<1>2. take \in [InvLots -> Int]
  BY QuantityTypes, TakeType
<1>3. inventory' = inventory - planned
  BY DEF ConfirmStockPlan
<1>4. inventory' = SumFunction(lotQty')
  <2>1. SumFunction(lotQty') = SumFunction(lotQty) - SumFunction(take)
    BY <1>1, <1>2, LotSums DEF TypeOK
  <2> HIDE DEF planned
  <2> QED BY <1>1, <1>3, <2>1 DEF BooksAgree
<1>5. MovementsKept /\ manual' = manual
  BY DEF ConfirmStockPlan, MovementsKept
<1>6. ASSUME NEW l \in InvLots PROVE lotQty'[l] = LedgerOf(l)'
  <2> DEFINE f == [x \in OrderLines |-> confirmed[x][l]]
             g == [x \in OrderLines |-> confirmed'[x][l]]
  <2>1. f[o] = 0 /\ g[o] = take[l]
    BY <1>1 DEF TypeOK, ConfirmStockPlan, HasNoStockLine, Nothing
  <2>2. \A x \in OrderLines : f[x] \in Int /\ g[x] \in Int /\ (x # o => g[x] = f[x])
    BY <1>1 DEF TypeOK
  <2>3. ConfirmedOf(l) = SumFunctionOnSet(f, OrderLines) /\ ConfirmedOf(l)' = SumFunctionOnSet(g, OrderLines)
    BY DEF ConfirmedOf, SumFunction
  <2>4. SumFunctionOnSet(g, OrderLines) = SumFunctionOnSet(f, OrderLines) + g[o] - f[o]
    <3> HIDE DEF f, g
    <3> QED BY <2>2, SumChange
  <2>5. ConfirmedOf(l)' = ConfirmedOf(l) + take[l] - 0
    BY <2>1, <2>3, <2>4
  <2>6. StockInOf(l)' = StockInOf(l) /\ ShipOf(l)' = ShipOf(l)
    BY <1>5, KeptSums
  <2>7. lotQty'[l] = lotQty[l] - take[l]
    BY <1>1 DEF Minus
  <2>8. LedgerOf(l)' = manual[l]' + StockInOf(l)' - ConfirmedOf(l)' - ShipOf(l)'
    BY DEF LedgerOf, StockInOf, ConfirmedOf, ShipOf
  <2>9. lotQty[l] = LedgerOf(l) /\ take[l] \in Int
    BY <1>2 DEF BooksAgree
  <2> QED BY <1>5, <2>5, <2>6, <2>7, <2>8, <2>9, LedgerParts
<1> QED BY <1>4, <1>6 DEF BooksAgree

\* A confirmed shipment takes from lots and product what its lines held.
LEMMA BooksOfShipment ==
  ASSUME TypeOK, TypeOK', BooksAgree, NEW S \in SUBSET WaitingLines, NEW first \in OrderLines,
         ConfirmShipment(S, first)
  PROVE  BooksAgree'
<1> DEFINE shippedOf(o) == [l \in InvLots |-> IF <<o, l>> \in S THEN reserved[o][l] ELSE 0]
           out == [l \in InvLots |-> SumFunction([o \in OrderLines |-> shippedOf(o)[l]])]
<1>1. /\ confirmed' = [o \in OrderLines |-> Plus(confirmed[o], shippedOf(o))]
      /\ lotQty' = Minus(lotQty, out)
      /\ inventory' = inventory - SumFunction(out)
  BY DEF ConfirmShipment
<1>2. \A o \in OrderLines : shippedOf(o) \in [InvLots -> Nat]
  BY DEF TypeOK
<1>3. \A l \in InvLots : [o \in OrderLines |-> shippedOf(o)[l]] \in [OrderLines -> Nat]
  BY <1>2
<1>4. out \in [InvLots -> Int]
  <2> HIDE DEF shippedOf
  <2> QED BY <1>3, SumOverOrders
<1>5. inventory' = SumFunction(lotQty')
  <2> HIDE DEF out
  <2>1. SumFunction(lotQty') = SumFunction(lotQty) - SumFunction(out)
    BY <1>1, <1>4, LotSums DEF TypeOK
  <2> QED BY <1>1, <2>1 DEF BooksAgree
<1>6. MovementsKept /\ manual' = manual
  BY DEF ConfirmShipment, MovementsKept
<1>7. ASSUME NEW l \in InvLots PROVE lotQty'[l] = LedgerOf(l)'
  <2> DEFINE f == [o \in OrderLines |-> confirmed[o][l]]
             g == [o \in OrderLines |-> shippedOf(o)[l]]
             h == [o \in OrderLines |-> confirmed'[o][l]]
  <2>1. \A o \in OrderLines : f[o] \in Int /\ g[o] \in Int /\ h[o] = f[o] + g[o]
    <3> HIDE DEF shippedOf
    <3> QED BY <1>1, <1>2 DEF TypeOK, Plus
  <2>2. SumFunctionOnSet(h, OrderLines) = SumFunctionOnSet(f, OrderLines) + SumFunctionOnSet(g, OrderLines)
    <3> HIDE DEF f, g, h
    <3> QED BY <2>1, SumLinear
  <2>3. /\ ConfirmedOf(l) = SumFunctionOnSet(f, OrderLines)
        /\ ConfirmedOf(l)' = SumFunctionOnSet(h, OrderLines)
        /\ out[l] = SumFunctionOnSet(g, OrderLines)
    BY DEF ConfirmedOf, SumFunction
  <2>4. lotQty'[l] = lotQty[l] - out[l]
    <3> HIDE DEF out
    <3> QED BY <1>1 DEF Minus
  <2>5. StockInOf(l)' = StockInOf(l) /\ ShipOf(l)' = ShipOf(l)
    BY <1>6, KeptSums
  <2>6. LedgerOf(l)' = manual[l]' + StockInOf(l)' - ConfirmedOf(l)' - ShipOf(l)'
    BY DEF LedgerOf, StockInOf, ConfirmedOf, ShipOf
  <2>7. lotQty[l] = LedgerOf(l) /\ out[l] \in Int
    BY <1>4 DEF BooksAgree
  <2> HIDE DEF f, g, h, out
  <2>8. ConfirmedOf(l)' = ConfirmedOf(l) + out[l]
    BY <2>2, <2>3
  <2> QED BY <1>6, <2>4, <2>5, <2>6, <2>7, <2>8, LedgerParts
<1> QED BY <1>5, <1>7 DEF BooksAgree

\* An adjustment moves the lots, the product and the ledger alike.
LEMMA BooksOfAdjustment ==
  ASSUME TypeOK, TypeOK', BooksAgree, NEW n \in AdjustQtys,
         AdjustOut(n) \/ \E l \in AdjustLots : AdjustIn(l, n)
  PROVE  BooksAgree'
<1> DEFINE Moves(d) == /\ lotQty' = Plus(lotQty, d) /\ manual' = Plus(manual, d)
                       /\ inventory' = inventory + SumFunction(d)
                       /\ UNCHANGED <<rounds, confirmed>>
<1>1. PICK d \in [InvLots -> Int] : Moves(d)
  <2>1. CASE AdjustOut(n)
    <3>1. PICK take \in Takes(n) :
            /\ SumFunction(take) = n
            /\ lotQty' = Minus(lotQty, take) /\ manual' = Minus(manual, take)
      BY <2>1 DEF AdjustOut, TakesInOrder
    <3>2. take \in [InvLots -> Int]
      BY TakeType
    <3> DEFINE d == Minus(Nothing, take)
    <3>3. d \in [InvLots -> Int] /\ SumFunction(d) = 0 - n
      <4>1. Nothing \in [InvLots -> Int]
        BY DEF Nothing
      <4>2. SumFunction(Nothing) = 0
        BY FiniteRows, SumZero DEF Nothing, SumFunction
      <4> QED BY <3>1, <3>2, <4>1, <4>2, LotSums, MinusType
    <3>4. \A l \in InvLots : /\ lotQty[l] \in Int /\ manual[l] \in Int /\ take[l] \in Int
                             /\ d[l] = 0 - take[l]
      BY <3>2 DEF TypeOK, Minus, Nothing
    <3>5. lotQty' = Plus(lotQty, d) /\ manual' = Plus(manual, d)
      <4> HIDE DEF d
      <4> QED BY <3>1, <3>4 DEF Plus, Minus
    <3>6. inventory' = inventory + SumFunction(d)
      <4> HIDE DEF d
      <4> QED BY <2>1, <3>3 DEF AdjustOut, TypeOK
    <3> HIDE DEF d
    <3> QED BY <2>1, <3>3, <3>5, <3>6 DEF AdjustOut
  <2>2. ASSUME NEW l \in AdjustLots, AdjustIn(l, n) PROVE \E d \in [InvLots -> Int] : Moves(d)
    <3>1. l \in InvLots /\ n \in Int
      BY DEF InvLots
    <3>2. Only(l, n) \in [InvLots -> Int] /\ SumFunction(Only(l, n)) = n
      BY <3>1, OnlySum
    <3>3. lotQty' = Plus(lotQty, Only(l, n)) /\ manual' = Plus(manual, Only(l, n))
      <4>1. \A x \in InvLots : lotQty[x] \in Int /\ manual[x] \in Int
        BY DEF TypeOK
      <4>2. /\ lotQty' = [lotQty EXCEPT ![l] = lotQty[l] + n]
            /\ manual' = [manual EXCEPT ![l] = manual[l] + n]
        BY <2>2 DEF AdjustIn
      <4>3. /\ lotQty' = [x \in InvLots |-> IF x = l THEN lotQty[x] + n ELSE lotQty[x]]
            /\ manual' = [x \in InvLots |-> IF x = l THEN manual[x] + n ELSE manual[x]]
        BY <4>2 DEF TypeOK
      <4>4. \A x \in InvLots : /\ Plus(lotQty, Only(l, n))[x] = lotQty'[x]
                               /\ Plus(manual, Only(l, n))[x] = manual'[x]
        BY <3>1, <4>1, <4>3 DEF Plus, Only
      <4> QED BY <4>3, <4>4 DEF Plus
    <3>4. inventory' = inventory + n /\ UNCHANGED <<rounds, confirmed>>
      BY <2>2 DEF AdjustIn
    <3> QED BY <3>2, <3>3, <3>4
  <2> QED BY <2>1, <2>2
<1>2. inventory' = SumFunction(lotQty')
  <2>1. SumFunction(lotQty') = SumFunction(lotQty) + SumFunction(d)
    BY <1>1, LotSums DEF TypeOK
  <2> QED BY <1>1, <2>1 DEF BooksAgree
<1>3. ASSUME NEW l \in InvLots PROVE lotQty'[l] = LedgerOf(l)'
  <2>1. lotQty'[l] = lotQty[l] + d[l] /\ manual'[l] = manual[l] + d[l]
    BY <1>1 DEF Plus
  <2>2. StockInOf(l)' = StockInOf(l) /\ ShipOf(l)' = ShipOf(l) /\ ConfirmedOf(l)' = ConfirmedOf(l)
    BY <1>1, KeptSums DEF MovementsKept, ConfirmedOf
  <2>3. LedgerOf(l)' = manual[l]' + StockInOf(l)' - ConfirmedOf(l)' - ShipOf(l)'
    BY DEF LedgerOf, StockInOf, ConfirmedOf, ShipOf
  <2>4. lotQty[l] = LedgerOf(l) /\ d[l] \in Int
    BY DEF BooksAgree
  <2> QED BY <2>1, <2>2, <2>3, <2>4, LedgerParts
<1> QED BY <1>2, <1>3 DEF BooksAgree

\* A saved round: its old movements leave the books, its new ones enter them.
LEMMA BooksOfResult ==
  ASSUME TypeOK, TypeOK', RoundsBooked, BooksAgree, NEW p \in ProdLots, NEW k \in RoundNos,
         NEW partial \in BOOLEAN, NEW r \in Results, Settle(p, k, partial, r)
  PROVE  BooksAgree'
<1> DEFINE o == lots[p].order
           stockIn == r.sellable + Carried(p, k) - r.discard
           before == LotQtyWithout(p, k)
           made == Only(p, r.fromRound)
           old == rounds[p][k]
           saved(held, free) ==
             [status |-> IF partial THEN "PARTIAL_DONE" ELSE "DONE",
              received |-> r.received, sellable |-> r.sellable, discard |-> r.discard,
              settled |-> TRUE, stockIn |-> stockIn,
              ship |-> Plus(Plus(held, free), made)]
<1>1. /\ r.received \in Nat /\ r.sellable \in Nat /\ r.discard \in Nat
      /\ r.fromStock \in Nat /\ r.fromRound \in Nat
  BY DEF Results
<1>2. stockIn \in Int /\ p \in InvLots
  BY <1>1, RoundTypes DEF InvLots
<1>3. PICK held \in Takes(r.fromStock), free \in Takes(r.fromStock) :
        /\ SumFunction(free) = r.fromStock - SumFunction(held)
        /\ lotQty' = [l \in InvLots |-> before[l] - held[l] - free[l]
                                        + Only(p, stockIn)[l] - made[l]]
        /\ SyncStatus(p, [rounds EXCEPT ![p] = RoundsSettled(p, k, partial, saved(held, free))])
  BY DEF Settle, TakesInOrder
<1>4. /\ held \in [InvLots -> Int] /\ free \in [InvLots -> Int]
      /\ made \in [InvLots -> Int] /\ SumFunction(made) = r.fromRound
      /\ Only(p, stockIn) \in [InvLots -> Int] /\ SumFunction(Only(p, stockIn)) = stockIn
  <2>1. held \in [InvLots -> Nat] /\ free \in [InvLots -> Nat]
    BY <1>1, TakeType
  <2>2. held \in [InvLots -> Int] /\ free \in [InvLots -> Int]
    BY <2>1
  <2>3. made \in [InvLots -> Int] /\ SumFunction(made) = r.fromRound
    BY <1>1, <1>2, OnlySum
  <2>4. Only(p, stockIn) \in [InvLots -> Int] /\ SumFunction(Only(p, stockIn)) = stockIn
    <3> HIDE DEF stockIn
    <3> QED BY <1>2, OnlySum
  <2> QED BY <2>2, <2>3, <2>4
<1>5. rounds'[p][k] = saved(held, free)
  <2>1. rounds' = [rounds EXCEPT ![p] = RoundsSettled(p, k, partial, saved(held, free))]
    BY <1>3 DEF SyncStatus
  <2> HIDE DEF saved
  <2> QED BY <2>1 DEF TypeOK, RoundsSettled
<1>6. /\ rounds'[p][k].stockIn = stockIn
      /\ rounds'[p][k].ship = Plus(Plus(held, free), made)
  BY <1>5
<1>7. OtherMovementsKept(p, k)
  BY ResultBooked
<1>8. old.ship \in [InvLots -> Int] /\ old.stockIn \in Int
  <2>1. old \in Round
    BY DEF TypeOK
  <2> HIDE DEF old
  <2> QED BY <2>1 DEF Round
<1>9. /\ confirmed' = confirmed /\ manual' = manual
      /\ inventory' = InventoryWithout(p, k) - r.fromStock + stockIn - r.fromRound
  BY DEF Settle
<1>10. before \in [InvLots -> Int]
  BY RoundTypes
<1>11. inventory' = SumFunction(lotQty')
  <2> DEFINE start == Minus(Plus(lotQty, old.ship), Only(p, old.stockIn))
             end == Minus(Plus(Minus(Minus(start, held), free), Only(p, stockIn)), made)
  <2>1. Only(p, old.stockIn) \in [InvLots -> Int] /\ SumFunction(Only(p, old.stockIn)) = old.stockIn
    BY <1>2, <1>8, OnlySum
  <2>2. lotQty \in [InvLots -> Int]
    BY DEF TypeOK
  <2>3. /\ start \in [InvLots -> Int]
        /\ SumFunction(start) = SumFunction(lotQty) + SumFunction(old.ship) - old.stockIn
    <3>1. /\ Plus(lotQty, old.ship) \in [InvLots -> Int]
          /\ SumFunction(Plus(lotQty, old.ship)) = SumFunction(lotQty) + SumFunction(old.ship)
      <4> HIDE DEF old
      <4> QED BY <1>8, <2>2, LotSums, MinusType
    <3> DEFINE more == Plus(lotQty, old.ship)
               back == Only(p, old.stockIn)
    <3>2. Minus(more, back) \in [InvLots -> Int]
      <4> HIDE DEF more, back
      <4> QED BY <2>1, <3>1, MinusType DEF more, back
    <3>3. SumFunction(Minus(more, back)) = SumFunction(more) - SumFunction(back)
      <4> HIDE DEF more, back
      <4> QED BY <2>1, <3>1, LotSums DEF more, back
    <3>4. SumFunction(lotQty) \in Int /\ SumFunction(old.ship) \in Int
      <4> HIDE DEF old
      <4> QED BY <1>8, <2>2, SumOverLots
    <3>5. start = Minus(more, back)
      OBVIOUS
    <3>6. SumFunction(more) = SumFunction(lotQty) + SumFunction(old.ship)
      BY <3>1
    <3>7. SumFunction(back) = old.stockIn
      BY <2>1
    <3> HIDE DEF more, back, start, old
    <3> QED BY <1>8, <3>2, <3>3, <3>4, <3>5, <3>6, <3>7
  <2>4. \A l \in InvLots : start[l] = before[l]
    <3> HIDE DEF old
    <3> QED BY <1>8, <2>2 DEF Minus, Plus, Only, LotQtyWithout, old
  <2> HIDE DEF start
  <2>5. /\ Minus(start, held) \in [InvLots -> Int]
        /\ SumFunction(Minus(start, held)) = SumFunction(start) - SumFunction(held)
    BY <1>4, <2>3, LotSums, MinusType
  <2>6. /\ Minus(Minus(start, held), free) \in [InvLots -> Int]
        /\ SumFunction(Minus(Minus(start, held), free))
             = SumFunction(start) - SumFunction(held) - SumFunction(free)
    BY <1>4, <2>5, LotSums, MinusType
  <2> DEFINE mid == Plus(Minus(Minus(start, held), free), Only(p, stockIn))
  <2>7. /\ mid \in [InvLots -> Int]
        /\ SumFunction(mid) = SumFunction(start) - SumFunction(held) - SumFunction(free) + stockIn
    <3> HIDE DEF stockIn
    <3> QED BY <1>4, <2>6, LotSums, MinusType
  <2>8. SumFunction(end) = SumFunction(start) - SumFunction(held) - SumFunction(free)
                           + stockIn - r.fromRound
    <3>1. end = Minus(mid, made)
      OBVIOUS
    <3> HIDE DEF stockIn, mid, made, end
    <3>2. SumFunction(Minus(mid, made)) = SumFunction(mid) - SumFunction(made)
      BY <1>4, <2>7, LotSums
    <3>3. SumFunction(start) \in Int /\ SumFunction(held) \in Int /\ SumFunction(free) \in Int
      BY <1>4, <2>3, SumOverLots
    <3>4. SumFunction(end) = SumFunction(mid) - r.fromRound
      BY <1>4, <3>1, <3>2
    <3> QED BY <1>1, <1>2, <2>7, <3>3, <3>4
  <2>9. lotQty' = end
    <3> DEFINE in == Only(p, stockIn)
    <3>1. ASSUME NEW l \in InvLots PROVE lotQty'[l] = end[l]
      <4>1. end = Minus(Plus(Minus(Minus(start, held), free), in), made)
        OBVIOUS
      <4>2. lotQty' = [x \in InvLots |-> before[x] - held[x] - free[x] + in[x] - made[x]]
        BY <1>3
      <4>3. /\ start[l] \in Int /\ held[l] \in Int /\ free[l] \in Int
            /\ in[l] \in Int /\ made[l] \in Int
        <5>1. /\ start \in [InvLots -> Int] /\ held \in [InvLots -> Int] /\ free \in [InvLots -> Int]
              /\ in \in [InvLots -> Int] /\ made \in [InvLots -> Int]
          BY <1>4, <2>3
        <5> HIDE DEF in, made
        <5> QED BY <5>1
      <4> HIDE DEF end, in, made, before
      <4> QED BY <2>4, <4>1, <4>2, <4>3 DEF Minus, Plus
    <3>2. lotQty' = [l \in InvLots |-> lotQty'[l]]
      BY DEF TypeOK
    <3> HIDE DEF in, made, stockIn
    <3> QED BY <3>1, <3>2 DEF Minus
  <2>10. SumFunction(old.ship) \in Int /\ SumFunction(lotQty) = inventory /\ inventory \in Int
         /\ SumFunction(held) \in Int
    <3> HIDE DEF old
    <3> QED BY <1>4, <1>8, SumOverLots DEF TypeOK, BooksAgree
  <2>11. InventoryWithout(p, k) = inventory + SumFunction(old.ship) - old.stockIn
    BY DEF InventoryWithout
  <2> HIDE DEF end, stockIn, old
  <2> QED BY <1>1, <1>2, <1>3, <1>8, <1>9, <2>3, <2>8, <2>9, <2>10, <2>11
<1>12. ASSUME NEW l \in InvLots PROVE lotQty'[l] = LedgerOf(l)'
  <2>1. /\ StockInOf(l)' = StockInOf(l) + (IF l = p THEN stockIn - old.stockIn ELSE 0)
        /\ ShipOf(l)' = ShipOf(l) + (held[l] + free[l] + made[l]) - old.ship[l]
    <3>1. Plus(Plus(held, free), made)[l] = held[l] + free[l] + made[l]
      <4> HIDE DEF made
      <4> QED BY DEF Plus
    <3> HIDE DEF stockIn, made
    <3> QED BY <1>6, <1>7, <3>1, SavedSums
  <2>2. ConfirmedOf(l)' = ConfirmedOf(l)
    BY <1>9 DEF ConfirmedOf
  <2>3. lotQty'[l] = lotQty[l] + old.ship[l] - (IF l = p THEN old.stockIn ELSE 0)
                     - held[l] - free[l] + (IF l = p THEN stockIn ELSE 0) - made[l]
    <3>1. before[l] = lotQty[l] + old.ship[l] - (IF l = p THEN old.stockIn ELSE 0)
      BY DEF LotQtyWithout
    <3>2. Only(p, stockIn)[l] = IF l = p THEN stockIn ELSE 0
      BY DEF Only
    <3>3. lotQty'[l] = before[l] - held[l] - free[l] + Only(p, stockIn)[l] - made[l]
      <4> HIDE DEF before, made, stockIn
      <4> QED BY <1>3
    <3> HIDE DEF before, made, stockIn, old
    <3>4. lotQty[l] \in Int /\ before[l] \in Int /\ made[l] \in Int
      <4> HIDE DEF before, made
      <4> QED BY <1>4, <1>10 DEF TypeOK
    <3>5. held[l] \in Int /\ free[l] \in Int
      BY <1>4
    <3>6. old.ship[l] \in Int
      BY <1>8
    <3> HIDE DEF before, made, stockIn, old
    <3> QED BY <1>2, <1>8, <3>1, <3>2, <3>3, <3>4, <3>5, <3>6
  <2>4. LedgerOf(l)' = manual[l]' + StockInOf(l)' - ConfirmedOf(l)' - ShipOf(l)'
    BY DEF LedgerOf, StockInOf, ConfirmedOf, ShipOf
  <2>5. lotQty[l] = LedgerOf(l) /\ lotQty[l] \in Int
    BY DEF BooksAgree, TypeOK
  <2>6. held[l] \in Int /\ free[l] \in Int /\ made[l] \in Int /\ old.ship[l] \in Int
    <3> HIDE DEF made, old
    <3> QED BY <1>4, <1>8
  <2> HIDE DEF made, stockIn, old
  <2> QED BY <1>2, <1>8, <1>9, <2>1, <2>2, <2>3, <2>4, <2>5, <2>6, LedgerParts
<1> QED BY <1>11, <1>12 DEF BooksAgree

\* Every request keeps the three books in agreement.
LEMMA BooksStep ==
  ASSUME TypeOK, TypeOK', RoundsBooked, BooksAgree, [Next]_vars
  PROVE  BooksAgree'
<1>1. CASE UNCHANGED stockVars /\ UNCHANGED <<rounds, confirmed>>
  BY <1>1, BooksOfKept DEF MovementsKept, stockVars
<1>2. CASE OrderNext
  <2>1. ASSUME NEW o \in OrderLines, DeleteOrderLines(o) PROVE BooksAgree'
    <3>1. MovementsKept
      BY <2>1, DeletionBooked
    <3> QED BY <2>1, <3>1, BooksOfKept DEF DeleteOrderLines, stockVars
  <2> QED BY <1>1, <1>2, <2>1, PlanningMovesNoStock, BooksOfStockPlan
<1>3. CASE ReworkNext
  BY <1>1, <1>3 DEF ReworkNext, CreateReworkLot
<1>4. CASE StockNext
  BY <1>4, BooksOfShipment, BooksOfAdjustment DEF StockNext
<1>5. CASE ScheduleNext
  BY <1>5, ScheduleBooked, BooksOfKept DEF stockVars
<1>6. CASE ResultNext
  BY <1>6, BooksOfResult DEF ResultNext, SaveSplit, SaveFinal, CorrectFinal
<1>7. CASE UNCHANGED vars
  BY <1>1, <1>7 DEF vars, stockVars
<1> QED BY <1>2, <1>3, <1>4, <1>5, <1>6, <1>7 DEF Next

\* In an empty database the books agree.
LEMMA BooksInit == Init => BooksAgree
<1> SUFFICES ASSUME Init PROVE BooksAgree
  OBVIOUS
<1>1. SumFunction(Nothing) = 0
  BY FiniteRows, SumZero DEF Nothing, SumFunction
<1>2. ASSUME NEW l \in InvLots PROVE LedgerOf(l) = 0
  <2>1. StockInOf(l) = 0
    BY FiniteRows, SumZero DEF Init, StockInOf, SumFunction, NoRound
  <2>2. ConfirmedOf(l) = 0
    BY SumZero DEF Init, ConfirmedOf, SumFunction, Nothing
  <2>3. ShipOf(l) = 0
    BY FiniteRows, SumZero DEF Init, ShipOf, SumFunction, NoRound, Nothing
  <2>4. manual[l] = 0
    BY DEF Init, Nothing
  <2> QED BY <2>1, <2>2, <2>3, <2>4 DEF LedgerOf, StockInOf, ConfirmedOf, ShipOf
<1> QED BY <1>1, <1>2 DEF BooksAgree, Init, Nothing

\* The product, its lots and their movements always add up to the same stock,
\* however results are saved and corrected and whatever is shipped and adjusted.
THEOREM BooksAlwaysAgree == Spec => []BooksAgree
BY BooksInit, BooksStep, TypeCorrect, BookedInvariant, PTL DEF Spec
-----------------------------------------------------------------------------
(* What a step may never do to the stock.                                  *)

\* What a saved result takes from the lots and leaves in the round: of the
\* reserved pieces (held) and the free ones (free).
SettledAs(p, k, partial, r, held, free, saved) ==
  LET o == lots[p].order IN
  /\ held \in [InvLots -> Nat] /\ free \in [InvLots -> Nat] /\ saved \in Round
  /\ \A l \in InvLots :
       /\ o \in OrderLines => held[l] <= reserved[o][l]
       /\ held[l] > 0 => held[l] <= LotQtyWithout(p, k)[l]
       /\ free[l] > 0 => free[l] <= LotQtyWithout(p, k)[l] - held[l] - ReservedOf(l)
       /\ lotQty'[l] = LotQtyWithout(p, k)[l] - held[l] - free[l]
                       + (IF l = p THEN saved.stockIn - r.fromRound ELSE 0)
       /\ saved.ship[l] = held[l] + free[l] + (IF l = p THEN r.fromRound ELSE 0)
  /\ \A l \in InvLots : free[l] > 0 => l \in Range(fifo)
  /\ fifo' = IF saved.stockIn > 0 THEN WithLot(fifo, p) ELSE fifo
  /\ SumFunction(saved.ship) = r.fromStock + r.fromRound
  /\ saved.stockIn >= r.fromRound
  /\ reserved' = [reserved EXCEPT ![o] = IF partial THEN Minus(reserved[o], held) ELSE Nothing]
  /\ rounds'[p][k] = saved
  /\ saved.status = IF partial THEN "PARTIAL_DONE" ELSE "DONE"
  /\ r.fromStock + r.fromRound <= RemainingFor(p, k)

\* Every saved result is of that form.
LEMMA SettleParts ==
  ASSUME TypeOK, NEW p \in ProdLots, NEW k \in RoundNos, NEW partial \in BOOLEAN,
         NEW r \in Results, Settle(p, k, partial, r)
  PROVE  \E held, free, saved : SettledAs(p, k, partial, r, held, free, saved)
<1> DEFINE o == lots[p].order
           stockIn == r.sellable + Carried(p, k) - r.discard
           before == LotQtyWithout(p, k)
           made == Only(p, r.fromRound)
           row(held, free) ==
             [status |-> IF partial THEN "PARTIAL_DONE" ELSE "DONE",
              received |-> r.received, sellable |-> r.sellable, discard |-> r.discard,
              settled |-> TRUE, stockIn |-> stockIn,
              ship |-> Plus(Plus(held, free), made)]
           left(held) == IF partial THEN Minus(reserved[o], held) ELSE Nothing
<1>1. /\ r.received \in Nat /\ r.sellable \in Nat /\ r.discard \in Nat
      /\ r.fromStock \in Nat /\ r.fromRound \in Nat
  BY DEF Results
<1>2. stockIn \in Int /\ before \in [InvLots -> Int] /\ p \in InvLots
  <2>1. Carried(p, k) \in Nat /\ before \in [InvLots -> Int]
    BY RoundTypes
  <2>2. p \in InvLots
    BY DEF InvLots
  <2> HIDE DEF before
  <2> QED BY <1>1, <2>1, <2>2
<1>3. PICK held \in Takes(r.fromStock), free \in Takes(r.fromStock) :
        /\ TakesInOrder(held, reserved[o], waitingOrder[o], Least(r.fromStock, ReservedBy(o)))
        /\ LotsHold(held, before)
        /\ TakesInOrder(free, FreeAfterHeld(held, before), fifo, r.fromStock - SumFunction(held))
        /\ lotQty' = [l \in InvLots |-> before[l] - held[l] - free[l]
                                        + Only(p, stockIn)[l] - made[l]]
        /\ LeaveReserved(o, left(held))
        /\ SyncStatus(p, [rounds EXCEPT ![p] = RoundsSettled(p, k, partial, row(held, free))])
  BY DEF Settle
<1>4. held \in [InvLots -> Nat] /\ free \in [InvLots -> Nat]
  BY <1>1, TakeType
<1>5. made \in [InvLots -> Nat] /\ SumFunction(made) = r.fromRound
  <2>1. SumFunction(made) = r.fromRound
    BY <1>1, <1>2, OnlySum
  <2> QED BY <1>1, <2>1 DEF Only
<1> DEFINE saved == row(held, free)
<1>6. /\ Plus(held, free) \in [InvLots -> Nat]
      /\ Plus(Plus(held, free), made) \in [InvLots -> Nat]
      /\ SumFunction(Plus(Plus(held, free), made)) = r.fromStock + r.fromRound
  <2>1. /\ held \in [InvLots -> Int] /\ free \in [InvLots -> Int] /\ made \in [InvLots -> Int]
    <3> HIDE DEF made
    <3> QED BY <1>4, <1>5
  <2> DEFINE both == Plus(held, free)
  <2>2. both \in [InvLots -> Nat]
    BY <1>4 DEF Plus
  <2>3. SumFunction(both) = SumFunction(held) + SumFunction(free)
    BY <2>1, LotSums
  <2>4. both \in [InvLots -> Int]
    BY <2>1, MinusType
  <2> HIDE DEF both, made
  <2>5. SumFunction(Plus(both, made)) = SumFunction(both) + r.fromRound
    BY <1>5, <2>1, <2>4, LotSums
  <2>6. Plus(both, made) \in [InvLots -> Nat]
    BY <1>5, <2>2 DEF Plus
  <2>7. SumFunction(free) = r.fromStock - SumFunction(held) /\ SumFunction(held) \in Int
    BY <1>3, <2>1, SumOverLots DEF TakesInOrder
  <2> QED BY <1>1, <2>2, <2>3, <2>5, <2>6, <2>7 DEF both
<1>7. /\ saved \in Round /\ saved.stockIn = stockIn
      /\ saved.ship = Plus(Plus(held, free), made)
      /\ saved.status = IF partial THEN "PARTIAL_DONE" ELSE "DONE"
  <2> HIDE DEF made, stockIn
  <2> QED BY <1>1, <1>2, <1>6 DEF Round, ScheduleStatuses
<1>8. ASSUME NEW l \in InvLots
      PROVE  /\ o \in OrderLines => held[l] <= reserved[o][l]
             /\ held[l] > 0 => held[l] <= before[l]
             /\ free[l] > 0 => free[l] <= before[l] - held[l] - ReservedOf(l)
             /\ lotQty'[l] = before[l] - held[l] - free[l]
                             + (IF l = p THEN stockIn - r.fromRound ELSE 0)
             /\ saved.ship[l] = held[l] + free[l] + (IF l = p THEN r.fromRound ELSE 0)
  <2>1. o \in OrderLines => held[l] <= reserved[o][l]
    <3>1. ASSUME o \in OrderLines PROVE held[l] <= reserved[o][l]
      <4>1. held[l] <= AtLeastZero(reserved[o][l])
        BY <1>3 DEF TakesInOrder
      <4>2. reserved[o][l] \in Nat
        BY <3>1 DEF TypeOK
      <4> QED BY <4>1, <4>2 DEF AtLeastZero
    <3> QED BY <3>1
  <2>2. held[l] > 0 => held[l] <= before[l]
    <3> HIDE DEF before
    <3> QED BY <1>3 DEF LotsHold
  <2>3. before[l] \in Int /\ held[l] \in Nat /\ free[l] \in Nat /\ ReservedOf(l) \in Nat
    <3> HIDE DEF before
    <3> QED BY <1>2, <1>4, ReservedType
  <2>4. free[l] <= AtLeastZero(before[l] - held[l] - ReservedOf(l))
    <3> HIDE DEF before
    <3> QED BY <1>3 DEF TakesInOrder, FreeAfterHeld
  <2>5. free[l] > 0 => free[l] <= before[l] - held[l] - ReservedOf(l)
    <3> HIDE DEF before
    <3> QED BY <2>3, <2>4 DEF AtLeastZero
  <2>6. Only(p, stockIn)[l] = (IF l = p THEN stockIn ELSE 0) /\ made[l] = IF l = p THEN r.fromRound ELSE 0
    BY DEF Only
  <2>7. lotQty'[l] = before[l] - held[l] - free[l] + Only(p, stockIn)[l] - made[l]
    <3> HIDE DEF before, made, stockIn
    <3> QED BY <1>3
  <2>8. saved.ship[l] = held[l] + free[l] + made[l]
    <3> HIDE DEF made, saved
    <3> QED BY <1>7 DEF Plus
  <2> HIDE DEF before, made, stockIn, saved
  <2> QED BY <1>1, <1>2, <2>1, <2>2, <2>3, <2>5, <2>6, <2>7, <2>8
<1>9. rounds'[p][k] = saved
  <2>1. rounds' = [rounds EXCEPT ![p] = RoundsSettled(p, k, partial, saved)]
    BY <1>3 DEF SyncStatus
  <2> HIDE DEF saved
  <2> QED BY <2>1 DEF TypeOK, RoundsSettled
<1>10. reserved' = [reserved EXCEPT ![o] = left(held)]
  BY <1>3 DEF LeaveReserved
<1>11. stockIn >= r.fromRound /\ r.fromStock + r.fromRound <= RemainingFor(p, k)
  BY DEF Settle
<1>12. SumFunction(saved.ship) = r.fromStock + r.fromRound
  BY <1>6, <1>7
<1>13. \A l \in InvLots :
         /\ o \in OrderLines => held[l] <= reserved[o][l]
         /\ held[l] > 0 => held[l] <= LotQtyWithout(p, k)[l]
         /\ free[l] > 0 => free[l] <= LotQtyWithout(p, k)[l] - held[l] - ReservedOf(l)
         /\ lotQty'[l] = LotQtyWithout(p, k)[l] - held[l] - free[l]
                         + (IF l = p THEN saved.stockIn - r.fromRound ELSE 0)
         /\ saved.ship[l] = held[l] + free[l] + (IF l = p THEN r.fromRound ELSE 0)
  BY <1>7, <1>8
<1>14. /\ \A l \in InvLots : free[l] > 0 => l \in Range(fifo)
       /\ fifo' = IF saved.stockIn > 0 THEN WithLot(fifo, p) ELSE fifo
  <2>1. \A l \in InvLots : free[l] > 0 => l \in Range(fifo)
    BY <1>3 DEF TakesInOrder
  <2>2. fifo' = IF stockIn > 0 THEN WithLot(fifo, p) ELSE fifo
    BY DEF Settle
  <2> HIDE DEF saved, stockIn
  <2> QED BY <1>7, <2>1, <2>2
<1> HIDE DEF before, made, stockIn, saved
<1>15. SettledAs(p, k, partial, r, held, free, saved)
  BY <1>4, <1>7, <1>9, <1>10, <1>11, <1>12, <1>13, <1>14 DEF SettledAs
<1> QED BY <1>15

\* A correction that leaves its round as it was leaves the lots as they were.
LEMMA SameRoundSameLots ==
  ASSUME TypeOK, NEW p \in ProdLots, NEW k \in RoundNos, NEW partial \in BOOLEAN,
         NEW r \in Results, NEW held, NEW free, NEW saved,
         SettledAs(p, k, partial, r, held, free, saved), rounds'[p][k] = rounds[p][k]
  PROVE  \A l \in InvLots : lotQty'[l] = lotQty[l]
<1> TAKE l \in InvLots
<1>1. /\ saved = rounds[p][k] /\ saved \in Round /\ held[l] \in Nat /\ free[l] \in Nat
      /\ lotQty'[l] = LotQtyWithout(p, k)[l] - held[l] - free[l]
                      + (IF l = p THEN saved.stockIn - r.fromRound ELSE 0)
      /\ saved.ship[l] = held[l] + free[l] + (IF l = p THEN r.fromRound ELSE 0)
  BY DEF SettledAs
<1>2. LotQtyWithout(p, k)[l] = lotQty[l] + saved.ship[l] - (IF l = p THEN saved.stockIn ELSE 0)
  BY <1>1 DEF LotQtyWithout
<1>3. saved.stockIn \in Int /\ saved.ship[l] \in Nat
  BY <1>1 DEF Round
<1>4. lotQty[l] \in Int /\ r.fromRound \in Nat
  BY DEF TypeOK, Results
<1> QED BY <1>1, <1>2, <1>3, <1>4

\* A round that was not saved before has nothing to be taken back.
LEMMA FirstSaveTakesBackNothing ==
  ASSUME TypeOK, RoundsBooked, NEW p \in ProdLots, NEW k \in RoundNos,
         rounds[p][k].status = "IN_PROGRESS", NEW l \in InvLots
  PROVE  LotQtyWithout(p, k)[l] = lotQty[l]
<1>1. rounds[p][k].ship = Nothing /\ rounds[p][k].stockIn = 0
  BY DEF RoundsBooked, RoundBooked
<1>2. lotQty[l] \in Int
  BY DEF TypeOK
<1> QED BY <1>1, <1>2 DEF LotQtyWithout, Nothing

\* The three requests that save a result.
LEMMA ResultSaves ==
  ASSUME ResultNext
  PROVE  \E p \in ProdLots, k \in RoundNos, r \in Results, partial \in BOOLEAN :
           /\ Settle(p, k, partial, r)
           /\ rounds[p][k].status \in {"IN_PROGRESS", "DONE"}
BY DEF ResultNext, SaveSplit, SaveFinal, CorrectFinal

\* What is taken in order of the free stock leaves the promised stock in the lot.
LEMMA FreeTakeKeepsCover ==
  ASSUME TypeOK, NEW take \in [InvLots -> Nat], NEW queue, NEW need,
         TakesInOrder(take, FreeStock, queue, need), NEW l \in InvLots
  PROVE  take[l] > 0 => take[l] <= lotQty[l] - ReservedOf(l)
<1>1. take[l] <= AtLeastZero(FreeStock[l]) /\ FreeStock[l] = lotQty[l] - ReservedOf(l)
  BY DEF TakesInOrder, FreeStock
<1>2. lotQty[l] \in Int /\ ReservedOf(l) \in Nat /\ take[l] \in Nat
  BY ReservedType DEF TypeOK
<1> QED BY <1>1, <1>2 DEF AtLeastZero

\* A confirmation takes from a lot what its lines held of it, if the lot has it.
LEMMA ShipmentOfLot ==
  ASSUME TypeOK, NEW S \in SUBSET WaitingLines, NEW first \in OrderLines,
         ConfirmShipment(S, first), NEW l \in InvLots
  PROVE  \E n \in Nat : /\ lotQty'[l] = lotQty[l] - n
                        /\ n > 0 => n <= lotQty[l]
                        /\ ReservedOf(l)' = ReservedOf(l) - n
<1> DEFINE shippedOf(o) == [x \in InvLots |-> IF <<o, x>> \in S THEN reserved[o][x] ELSE 0]
           out == [x \in InvLots |-> SumFunction([o \in OrderLines |-> shippedOf(o)[x]])]
           g == [o \in OrderLines |-> shippedOf(o)[l]]
<1>1. /\ lotQty' = Minus(lotQty, out)
      /\ \A x \in InvLots : out[x] > 0 => out[x] <= lotQty[x]
      /\ reserved' = [o \in OrderLines |-> Minus(reserved[o], shippedOf(o))]
  BY DEF ConfirmShipment
<1>2. \A o \in OrderLines : shippedOf(o) \in [InvLots -> Nat]
  BY DEF TypeOK
<1>3. g \in [OrderLines -> Nat]
  <2> HIDE DEF shippedOf
  <2> QED BY <1>2
<1>4. out[l] = SumFunction(g) /\ SumFunction(g) \in Nat
  <2>1. out[l] = SumFunction(g)
    OBVIOUS
  <2> HIDE DEF g, out
  <2> QED BY <1>3, <2>1, SumOverOrders
<1>5. ReservedOf(l)' = ReservedOf(l) - SumFunction(g)
  <2> DEFINE f == [o \in OrderLines |-> reserved[o][l]]
             h == [o \in OrderLines |-> reserved'[o][l]]
  <2>1. \A o \in OrderLines : f[o] \in Int /\ g[o] \in Int /\ h[o] = f[o] - g[o]
    <3> HIDE DEF shippedOf
    <3> QED BY <1>1, <1>2 DEF TypeOK, Minus
  <2>2. DOMAIN f = OrderLines /\ DOMAIN g = OrderLines /\ DOMAIN h = OrderLines
    OBVIOUS
  <2>3. ReservedOf(l) = SumFunction(f) /\ ReservedOf(l)' = SumFunction(h)
    BY DEF ReservedOf
  <2> HIDE DEF f, g, h
  <2> QED BY <2>1, <2>2, <2>3, SumDifference DEF SumFunction
<1>6. lotQty'[l] = lotQty[l] - out[l]
  <2> HIDE DEF out
  <2> QED BY <1>1 DEF Minus
<1>7. out[l] > 0 => out[l] <= lotQty[l]
  <2> HIDE DEF out
  <2> QED BY <1>1
<1> HIDE DEF out, g
<1> QED BY <1>4, <1>5, <1>6, <1>7

\* Only a correction makes a lot negative, and only its own.
LEMMA OverdrawStep ==
  ASSUME TypeOK, RoundsBooked, [Next]_vars, NEW l \in InvLots, lotQty[l] >= 0, lotQty'[l] < 0
  PROVE  /\ l \in ProdLots
         /\ \E k \in RoundNos : rounds[l][k].status = "DONE" /\ rounds'[l][k] # rounds[l][k]
<1>1. lotQty[l] \in Int /\ ReservedOf(l) \in Nat
  BY ReservedType DEF TypeOK
<1>2. CASE UNCHANGED lotQty
  BY <1>1, <1>2
<1>3. ASSUME NEW o \in OrderLines, NEW type \in PlanTypes, ConfirmStockPlan(o, type) PROVE FALSE
  <2>1. PICK take \in Takes(Available) :
          /\ TakesInOrder(take, FreeStock, fifo, PlannedStock(type, Available, Remaining(o)))
          /\ lotQty' = Minus(lotQty, take)
    BY <1>3 DEF ConfirmStockPlan
  <2>2. take \in [InvLots -> Nat]
    BY QuantityTypes, TakeType
  <2>3. take[l] > 0 => take[l] <= lotQty[l] - ReservedOf(l)
    BY <2>1, <2>2, FreeTakeKeepsCover
  <2>4. lotQty'[l] = lotQty[l] - take[l] /\ take[l] \in Nat
    BY <2>1, <2>2 DEF Minus
  <2> QED BY <1>1, <2>3, <2>4
<1>4. ASSUME NEW S \in SUBSET WaitingLines, NEW first \in OrderLines, ConfirmShipment(S, first)
      PROVE  FALSE
  BY <1>1, <1>4, ShipmentOfLot
<1>5. ASSUME NEW n \in AdjustQtys, AdjustOut(n) \/ \E x \in AdjustLots : AdjustIn(x, n)
      PROVE  FALSE
  <2>1. CASE AdjustOut(n)
    <3>1. PICK take \in Takes(n) : TakesInOrder(take, lotQty, fifo, n) /\ lotQty' = Minus(lotQty, take)
      BY <2>1 DEF AdjustOut
    <3>2. take[l] <= AtLeastZero(lotQty[l]) /\ lotQty'[l] = lotQty[l] - take[l] /\ take[l] \in Nat
      BY <3>1, TakeType DEF TakesInOrder, Minus
    <3> QED BY <1>1, <3>2 DEF AtLeastZero
  <2>2. ASSUME NEW x \in AdjustLots, AdjustIn(x, n) PROVE FALSE
    <3>1. lotQty'[l] = lotQty[l] \/ lotQty'[l] = lotQty[l] + n
      BY <2>2 DEF AdjustIn, TypeOK
    <3>2. n \in Nat
      OBVIOUS
    <3> QED BY <1>1, <3>1, <3>2
  <2> QED BY <1>5, <2>1, <2>2
<1>6. ASSUME NEW p \in ProdLots, NEW k \in RoundNos, NEW r \in Results, NEW partial \in BOOLEAN,
             Settle(p, k, partial, r), rounds[p][k].status \in {"IN_PROGRESS", "DONE"}
      PROVE  l = p /\ rounds[p][k].status = "DONE" /\ rounds'[p][k] # rounds[p][k]
  <2>1. PICK held, free, saved : SettledAs(p, k, partial, r, held, free, saved)
    BY <1>6, SettleParts
  <2> DEFINE before == LotQtyWithout(p, k)[l]
  <2>2. /\ held[l] \in Nat /\ free[l] \in Nat /\ saved \in Round /\ saved.stockIn >= r.fromRound
        /\ held[l] > 0 => held[l] <= before
        /\ free[l] > 0 => free[l] <= before - held[l] - ReservedOf(l)
        /\ lotQty'[l] = before - held[l] - free[l] + (IF l = p THEN saved.stockIn - r.fromRound ELSE 0)
    BY <2>1 DEF SettledAs
  <2>3. before \in Int /\ r.fromRound \in Nat /\ saved.stockIn \in Int
    <3>1. LotQtyWithout(p, k) \in [InvLots -> Int]
      BY RoundTypes
    <3>2. before \in Int
      BY <3>1
    <3> HIDE DEF before
    <3> QED BY <2>2, <3>2 DEF Results, Round
  <2>4. before < 0
    <3> HIDE DEF before
    <3> QED BY <1>1, <2>2, <2>3
  <2>5. rounds[p][k].status # "IN_PROGRESS"
    <3>1. rounds[p][k].status = "IN_PROGRESS" => before = lotQty[l]
      BY FirstSaveTakesBackNothing
    <3> QED BY <1>1, <2>4, <3>1
  <2>6. l = p
    <3>1. CASE l # p
      <4>1. rounds[p][k] \in Round
        BY DEF TypeOK
      <4>2. rounds[p][k].ship[l] \in Nat
        BY <4>1 DEF Round
      <4>3. before = lotQty[l] + rounds[p][k].ship[l] - 0
        BY <3>1 DEF LotQtyWithout
      <4> HIDE DEF before
      <4> QED BY <1>1, <2>4, <4>2, <4>3
    <3> QED BY <3>1
  <2>7. rounds'[p][k] # rounds[p][k]
    BY <1>1, <2>1, SameRoundSameLots
  <2> QED BY <1>6, <2>5, <2>6, <2>7
<1>7. CASE OrderNext
  BY <1>2, <1>3, <1>7, PlanningMovesNoStock DEF stockVars
<1>8. CASE StockNext
  BY <1>4, <1>5, <1>8 DEF StockNext
<1>9. CASE ReworkNext \/ ScheduleNext
  BY <1>2, <1>9 DEF ReworkNext, CreateReworkLot, ScheduleNext, CreateSchedule,
     ReceiveSchedule, StartSchedule, CancelSchedule, stockVars
<1>10. CASE ResultNext
  BY <1>6, <1>10, ResultSaves
<1>11. CASE UNCHANGED vars
  BY <1>2, <1>11 DEF vars
<1> QED BY <1>7, <1>8, <1>9, <1>10, <1>11 DEF Next

\* Neither a plan, a confirmation, an adjustment nor a first save ever takes more
\* from a lot than it has; only the correction of a final result, which takes back
\* what the round had put into stock after others shipped it, can, and only of its
\* own lot.
THEOREM OnlyCorrectionsOverdraw == Spec => LotOverdrawnOnlyByCorrection
<1>1. TypeOK /\ RoundsBooked /\ [Next]_vars =>
        [\A l \in InvLots : lotQty[l] >= 0 /\ lotQty'[l] < 0 =>
           /\ l \in ProdLots
           /\ \E k \in RoundNos : rounds[l][k].status = "DONE" /\ rounds'[l][k] # rounds[l][k]]_vars
  BY OverdrawStep
<1> QED BY <1>1, TypeCorrect, BookedInvariant, PTL DEF Spec, LotOverdrawnOnlyByCorrection

\* The stock of a lot that WAITING lines hold changes as the lines of one order line do.
LEMMA ReservedOfOne ==
  ASSUME TypeOK, TypeOK', NEW o \in OrderLines, NEW l \in InvLots,
         \A x \in OrderLines : x # o => reserved'[x][l] = reserved[x][l]
  PROVE  ReservedOf(l)' = ReservedOf(l) + reserved'[o][l] - reserved[o][l]
<1> DEFINE f == [x \in OrderLines |-> reserved[x][l]]
           g == [x \in OrderLines |-> reserved'[x][l]]
<1>1. \A x \in OrderLines : f[x] \in Int /\ g[x] \in Int /\ (x # o => g[x] = f[x])
  BY DEF TypeOK
<1>2. ReservedOf(l) = SumFunctionOnSet(f, OrderLines) /\ ReservedOf(l)' = SumFunctionOnSet(g, OrderLines)
  BY DEF ReservedOf, SumFunction
<1>3. f[o] = reserved[o][l] /\ g[o] = reserved'[o][l]
  OBVIOUS
<1> HIDE DEF f, g
<1> QED BY <1>1, <1>2, <1>3, SumChange

\* Lines that only become fewer hold no more of a lot.
LEMMA ReservedFalls ==
  ASSUME TypeOK, TypeOK', NEW l \in InvLots,
         \A o \in OrderLines : reserved'[o][l] <= reserved[o][l]
  PROVE  ReservedOf(l)' <= ReservedOf(l)
<1> DEFINE f == [o \in OrderLines |-> reserved[o][l]]
           g == [o \in OrderLines |-> reserved'[o][l]]
           d == [o \in OrderLines |-> f[o] - g[o]]
<1>1. \A o \in OrderLines : f[o] \in Int /\ g[o] \in Int /\ d[o] \in Nat /\ d[o] = f[o] - g[o]
  BY DEF TypeOK
<1>2. ReservedOf(l) = SumFunctionOnSet(f, OrderLines) /\ ReservedOf(l)' = SumFunctionOnSet(g, OrderLines)
  BY DEF ReservedOf, SumFunction
<1> HIDE DEF f, g, d
<1>3. SumFunctionOnSet(d, OrderLines) = SumFunctionOnSet(f, OrderLines) - SumFunctionOnSet(g, OrderLines)
  BY <1>1, SumDifference
<1>4. SumFunctionOnSet(d, OrderLines) \in Nat
  BY <1>1, SumNat
<1>5. SumFunctionOnSet(f, OrderLines) \in Int /\ SumFunctionOnSet(g, OrderLines) \in Int
  BY <1>1, SumType
<1> QED BY <1>2, <1>3, <1>4, <1>5

\* A LOT with a schedule belongs to an order line.
LEMMA ScheduledLot ==
  ASSUME TypeOK, LifeInv, NEW p \in ProdLots, NEW k \in RoundNos, rounds[p][k].status # "NONE"
  PROVE  lots[p] # NoLot /\ lots[p].order \in OrderLines
BY DEF LifeInv, LotsLinked, TypeOK, Lot

\* Requests about order lines leave the lots and what is reserved of them, ship or
\* reserve by plan, or cancel reservations.
LEMMA PlanningOfLots ==
  ASSUME TypeOK, OrderNext
  PROVE  \/ \E o \in OrderLines, type \in PlanTypes : ConfirmStockPlan(o, type)
         \/ \E o \in OrderLines : ConfirmPartialPlan(o)
         \/ /\ UNCHANGED lotQty
            /\ \A o \in OrderLines : reserved'[o] = reserved[o] \/ reserved'[o] = Nothing
<1> DEFINE Kept == \A o \in OrderLines : reserved'[o] = reserved[o] \/ reserved'[o] = Nothing
<1>1. PICK o \in OrderLines :
        \/ \E partner \in Partners, number \in OrderNumbers :
             \/ \E q \in OrderQtys : CreateOrderLine(o, partner, number, q)
             \/ EditOrderLine(o, partner, number)
        \/ \E q \in OrderQtys :
             \/ ChangeQuantityBeforeLot(o, q)
             \/ \E p \in ProdLots : ChangeQuantityOfLot(o, p, q)
        \/ \E type \in PlanTypes : ConfirmProductionPlan(o, type)
        \/ \E type \in PlanTypes : ConfirmStockPlan(o, type)
        \/ ConfirmPartialPlan(o)
        \/ \E p \in ProdLots : CreateBaseLot(o, p)
        \/ CancelOrderLine(o)
        \/ ShortClose(o)
        \/ DeleteOrderLines(o)
  BY DEF OrderNext
<1>2. CASE \/ \E partner \in Partners, number \in OrderNumbers :
                \/ \E q \in OrderQtys : CreateOrderLine(o, partner, number, q)
                \/ EditOrderLine(o, partner, number)
           \/ \E q \in OrderQtys, p \in ProdLots : ChangeQuantityOfLot(o, p, q)
           \/ \E type \in PlanTypes : ConfirmProductionPlan(o, type)
           \/ \E p \in ProdLots : CreateBaseLot(o, p)
           \/ CancelOrderLine(o) \/ ShortClose(o)
  <2>1. UNCHANGED lotQty /\ UNCHANGED reserved
    BY <1>2 DEF CreateOrderLine, EditOrderLine, ChangeQuantityOfLot, ConfirmProductionPlan,
       CreateBaseLot, CancelOrderLine, ShortClose, stockVars
  <2> QED BY <2>1
<1>3. CASE \E q \in OrderQtys : ChangeQuantityBeforeLot(o, q)
  <2>1. UNCHANGED lotQty /\ reserved' = [reserved EXCEPT ![o] = Nothing]
    BY <1>3 DEF ChangeQuantityBeforeLot, stockVars
  <2>2. Kept
    BY <2>1 DEF TypeOK
  <2> QED BY <2>1, <2>2
<1>4. CASE DeleteOrderLines(o)
  <2>1. UNCHANGED lotQty /\ Kept
    BY <1>4 DEF DeleteOrderLines, stockVars
  <2> QED BY <2>1
<1> HIDE DEF Kept
<1> QED BY <1>1, <1>2, <1>3, <1>4 DEF Kept

\* Who takes promised stock from a lot adjusts it down or corrects a result.
LEMMA CoverStep ==
  ASSUME TypeOK, TypeOK', LifeInv, RoundsBooked, [Next]_vars, NEW l \in InvLots,
         Covered(l), ~Covered(l)'
  PROVE  \/ manual'[l] < manual[l]
         \/ \E p \in ProdLots, k \in RoundNos :
              rounds[p][k].status = "DONE" /\ rounds[p][k] # rounds'[p][k]
<1>1. lotQty[l] \in Int /\ ReservedOf(l) \in Nat /\ ReservedOf(l) <= lotQty[l]
  BY ReservedType DEF TypeOK, Covered
<1>2. lotQty'[l] \in Int /\ ReservedOf(l)' \in Nat /\ ~(ReservedOf(l)' <= lotQty'[l])
  <2>1. ReservedOf(l)' \in Nat
    <3>1. [o \in OrderLines |-> reserved'[o][l]] \in [OrderLines -> Nat]
      BY DEF TypeOK
    <3> QED BY <3>1, SumOverOrders DEF ReservedOf
  <2> QED BY <2>1 DEF TypeOK, Covered
<1>3. ASSUME UNCHANGED lotQty, \A o \in OrderLines : reserved'[o] = reserved[o] \/ reserved'[o] = Nothing
      PROVE  FALSE
  <2>1. ASSUME NEW o \in OrderLines PROVE reserved'[o][l] <= reserved[o][l]
    <3>1. reserved[o][l] \in Nat
      BY DEF TypeOK
    <3>2. reserved'[o][l] = reserved[o][l] \/ reserved'[o][l] = 0
      BY <1>3 DEF Nothing
    <3> QED BY <3>1, <3>2
  <2> QED BY <1>1, <1>2, <1>3, <2>1, ReservedFalls
<1>4. ASSUME NEW o \in OrderLines, NEW type \in PlanTypes, ConfirmStockPlan(o, type) PROVE FALSE
  <2>1. PICK take \in Takes(Available) :
          /\ TakesInOrder(take, FreeStock, fifo, PlannedStock(type, Available, Remaining(o)))
          /\ lotQty' = Minus(lotQty, take)
    BY <1>4 DEF ConfirmStockPlan
  <2>2. take \in [InvLots -> Nat]
    BY QuantityTypes, TakeType
  <2>3. take[l] > 0 => take[l] <= lotQty[l] - ReservedOf(l)
    BY <2>1, <2>2, FreeTakeKeepsCover
  <2>4. lotQty'[l] = lotQty[l] - take[l] /\ take[l] \in Nat
    BY <2>1, <2>2 DEF Minus
  <2>5. ReservedOf(l)' = ReservedOf(l)
    BY <1>4 DEF ConfirmStockPlan, ReservedOf
  <2> QED BY <1>1, <1>2, <2>3, <2>4, <2>5
<1>5. ASSUME NEW o \in OrderLines, ConfirmPartialPlan(o) PROVE FALSE
  <2>1. PICK take \in Takes(Available) :
          /\ TakesInOrder(take, FreeStock, fifo, Available)
          /\ reserved' = [reserved EXCEPT ![o] = take]
    BY <1>5 DEF ConfirmPartialPlan
  <2>2. take \in [InvLots -> Nat]
    BY QuantityTypes, TakeType
  <2>3. take[l] > 0 => take[l] <= lotQty[l] - ReservedOf(l)
    BY <2>1, <2>2, FreeTakeKeepsCover
  <2>4. /\ reserved[o][l] = 0 /\ reserved'[o][l] = take[l] /\ take[l] \in Nat
        /\ \A x \in OrderLines : x # o => reserved'[x][l] = reserved[x][l]
    BY <1>5, <2>1, <2>2 DEF TypeOK, ConfirmPartialPlan, HasNoStockLine, Nothing
  <2>5. ReservedOf(l)' = ReservedOf(l) + take[l]
    BY <1>1, <2>4, ReservedOfOne
  <2>6. lotQty' = lotQty
    BY <1>5 DEF ConfirmPartialPlan, stockVars
  <2> QED BY <1>1, <1>2, <2>3, <2>4, <2>5, <2>6
<1>6. ASSUME NEW S \in SUBSET WaitingLines, NEW first \in OrderLines, ConfirmShipment(S, first)
      PROVE  FALSE
  BY <1>1, <1>2, <1>6, ShipmentOfLot
<1>7. ASSUME NEW n \in AdjustQtys, AdjustOut(n) PROVE manual'[l] < manual[l]
  <2>1. PICK take \in Takes(n) : lotQty' = Minus(lotQty, take) /\ manual' = Minus(manual, take)
    BY <1>7 DEF AdjustOut
  <2>2. lotQty'[l] = lotQty[l] - take[l] /\ manual'[l] = manual[l] - take[l] /\ take[l] \in Nat
    BY <2>1, TakeType DEF Minus
  <2>3. ReservedOf(l)' = ReservedOf(l)
    BY <1>7 DEF AdjustOut, ReservedOf
  <2>4. manual[l] \in Int
    BY DEF TypeOK
  <2> QED BY <1>1, <1>2, <2>2, <2>3, <2>4
<1>8. ASSUME NEW n \in AdjustQtys, NEW x \in AdjustLots, AdjustIn(x, n) PROVE FALSE
  <2>1. lotQty'[l] = lotQty[l] \/ lotQty'[l] = lotQty[l] + n
    BY <1>8 DEF AdjustIn, TypeOK
  <2>2. ReservedOf(l)' = ReservedOf(l) /\ n \in Nat
    BY <1>8 DEF AdjustIn, ReservedOf
  <2> QED BY <1>1, <1>2, <2>1, <2>2
<1>9. ASSUME NEW p \in ProdLots, NEW k \in RoundNos, NEW r \in Results, NEW partial \in BOOLEAN,
             Settle(p, k, partial, r), rounds[p][k].status \in {"IN_PROGRESS", "DONE"}
      PROVE  rounds[p][k].status = "DONE" /\ rounds[p][k] # rounds'[p][k]
  <2>1. PICK held, free, saved : SettledAs(p, k, partial, r, held, free, saved)
    BY <1>9, SettleParts
  <2> DEFINE o == lots[p].order
  <2>2. o \in OrderLines
    BY <1>9, ScheduledLot
  <2>3. /\ held[l] \in Nat /\ free[l] \in Nat /\ saved \in Round /\ saved.stockIn >= r.fromRound
        /\ held[l] <= reserved[o][l]
        /\ free[l] > 0 => free[l] <= LotQtyWithout(p, k)[l] - held[l] - ReservedOf(l)
        /\ lotQty'[l] = LotQtyWithout(p, k)[l] - held[l] - free[l]
                        + (IF l = p THEN saved.stockIn - r.fromRound ELSE 0)
        /\ reserved' = [reserved EXCEPT ![o] = IF partial THEN Minus(reserved[o], held) ELSE Nothing]
    BY <2>1, <2>2 DEF SettledAs
  <2>4. /\ reserved[o][l] \in Nat /\ reserved'[o][l] <= reserved[o][l] - held[l]
        /\ reserved'[o][l] \in Nat
        /\ \A x \in OrderLines : x # o => reserved'[x][l] = reserved[x][l]
    <3> HIDE DEF o
    <3> QED BY <2>2, <2>3 DEF TypeOK, Minus, Nothing
  <2>5. ReservedOf(l)' <= ReservedOf(l) - held[l]
    <3>1. ReservedOf(l)' = ReservedOf(l) + reserved'[o][l] - reserved[o][l]
      <4> HIDE DEF o
      <4> QED BY <2>2, <2>4, ReservedOfOne
    <3> HIDE DEF o
    <3> QED BY <1>1, <2>3, <2>4, <3>1
  <2>6. rounds[p][k].status # "IN_PROGRESS"
    <3>1. CASE rounds[p][k].status = "IN_PROGRESS"
      <4>1. LotQtyWithout(p, k)[l] = lotQty[l]
        BY <3>1, FirstSaveTakesBackNothing
      <4>2. r.fromRound \in Nat /\ saved.stockIn \in Int
        BY <2>3 DEF Results, Round
      <4> QED BY <1>1, <1>2, <2>3, <2>5, <4>1, <4>2
    <3> QED BY <3>1
  <2>7. rounds[p][k] # rounds'[p][k]
    <3>1. CASE rounds[p][k] = rounds'[p][k]
      <4>1. lotQty'[l] = lotQty[l]
        BY <2>1, <3>1, SameRoundSameLots
      <4> QED BY <1>1, <1>2, <2>3, <2>5, <4>1
    <3> QED BY <3>1
  <2> QED BY <1>9, <2>6, <2>7
<1>10. CASE OrderNext
  BY <1>3, <1>4, <1>5, <1>10, PlanningOfLots
<1>11. CASE StockNext
  BY <1>6, <1>7, <1>8, <1>11 DEF StockNext
<1>12. CASE ReworkNext \/ ScheduleNext
  <2>1. UNCHANGED lotQty /\ UNCHANGED reserved
    BY <1>12 DEF ReworkNext, CreateReworkLot, ScheduleNext, CreateSchedule,
       ReceiveSchedule, StartSchedule, CancelSchedule, stockVars
  <2> QED BY <1>3, <2>1
<1>13. CASE ResultNext
  BY <1>9, <1>13, ResultSaves
<1>14. CASE UNCHANGED vars
  BY <1>3, <1>14 DEF vars
<1> QED BY <1>10, <1>11, <1>12, <1>13, <1>14 DEF Next

\* Stock of a lot that is promised to WAITING lines is not given to somebody else:
\* plans and saved results leave what is reserved in the lot; only an adjustment,
\* which takes the oldest stock whatever is promised of it, and the correction of a
\* final result leave a lot with less than its lines hold.
THEOREM PromisesKept == Spec => CoverLostOnlyByHand
<1>1. TypeOK /\ TypeOK' /\ LifeInv /\ RoundsBooked /\ [Next]_vars =>
        [\A l \in InvLots : Covered(l) /\ ~Covered(l)' =>
           \/ manual'[l] < manual[l]
           \/ \E p \in ProdLots, k \in RoundNos :
                rounds[p][k].status = "DONE" /\ rounds[p][k] # rounds'[p][k]]_vars
  BY CoverStep
<1> QED BY <1>1, TypeCorrect, LifeInvariant, BookedInvariant, PTL DEF Spec, CoverLostOnlyByHand

\* An order line that is finished with the status of a LOT has all of it done.
LEMMA DoneBySync ==
  ASSUME TypeOK, NEW p \in ProdLots, NEW rs, SyncStatus(p, rs), UNCHANGED confirmed,
         NEW o \in OrderLines, orders[o].status # "DONE", orders'[o].status = "DONE"
  PROVE  /\ Shipped(o)' >= Target(o)'
         /\ \A x \in LotsOf(o)' : lots'[x].status \in {"DONE", "CANCELED"}
<1> DEFINE st == DeriveLotStatus(StatusesOf(p, rs), lots[p].status)
           next == [lots EXCEPT ![p].status = st]
<1>1. /\ rounds' = rs /\ lots' = next
      /\ orders' = orders \/ (orders' = [orders EXCEPT ![lots[p].order].status = "DONE"]
                              /\ IsComplete(lots[p].order, next, rs))
  BY DEF SyncStatus, TypeOK
<1>2. o = lots[p].order /\ IsComplete(o, next, rs) /\ orders' = [orders EXCEPT ![o].status = "DONE"]
  <2>1. orders' # orders
    OBVIOUS
  <2>2. o = lots[p].order
    <3>1. CASE o # lots[p].order
      <4>1. orders'[o] = orders[o]
        <5> HIDE DEF next
        <5> QED BY <1>1, <2>1, <3>1 DEF TypeOK
      <4> QED BY <4>1
    <3> QED BY <3>1
  <2> HIDE DEF next
  <2> QED BY <1>1, <2>1, <2>2
<1>3. \A x \in ProdLots : lots'[x].order = lots[x].order
  <2>1. lots[p] \in Lot
    BY DEF TypeOK
  <2> HIDE DEF st
  <2> QED BY <1>1, <2>1 DEF TypeOK, Lot
<1>4. LotsOf(o)' = LotsOf(o)
  BY <1>3 DEF LotsOf
<1>5. Target(o)' = Target(o)
  <2>1. orders'[o].qty = orders[o].qty /\ orders'[o].partner = orders[o].partner
    BY <1>2 DEF TypeOK, OrderLine
  <2> QED BY <2>1 DEF Target
<1>6. Shipped(o)' = ShippedGiven(o, confirmed, next, rs)
  <2> HIDE DEF next
  <2> QED BY <1>1 DEF Shipped
<1> HIDE DEF next
<1> QED BY <1>1, <1>2, <1>4, <1>5, <1>6 DEF IsComplete

\* What an inspection finishes is complete.
LEMMA InspectionFinishes ==
  ASSUME TypeOK, ScheduleNext \/ ResultNext,
         NEW o \in OrderLines, orders[o].status # "DONE", orders'[o].status = "DONE"
  PROVE  /\ Shipped(o)' >= Target(o)'
         /\ \A x \in LotsOf(o)' : lots'[x].status \in {"DONE", "CANCELED"}
<1>1. CASE ScheduleNext
  <2>1. PICK p \in ProdLots, k \in RoundNos :
          CreateSchedule(p, k) \/ ReceiveSchedule(p, k) \/ StartSchedule(p, k) \/ CancelSchedule(p, k)
    BY <1>1 DEF ScheduleNext
  <2>2. ~CreateSchedule(p, k)
    BY DEF CreateSchedule
  <2>3. UNCHANGED confirmed /\ \E rs : SyncStatus(p, rs)
    BY <2>1, <2>2 DEF ReceiveSchedule, StartSchedule, CancelSchedule
  <2> QED BY <2>3, DoneBySync
<1>2. CASE ResultNext
  <2>1. PICK p \in ProdLots, k \in RoundNos, r \in Results, partial \in BOOLEAN : Settle(p, k, partial, r)
    BY <1>2, ResultSaves
  <2>2. UNCHANGED confirmed
    BY <2>1 DEF Settle
  <2>3. \E rs : SyncStatus(p, rs)
    BY <2>1, SettleRounds
  <2> QED BY <2>2, <2>3, DoneBySync
<1> QED BY <1>1, <1>2

\* Only inspections touch rounds but for the deletion of what never started.
LEMMA InspectionDoneStep ==
  ASSUME TypeOK, [Next]_vars, rounds' # rounds,
         NEW o \in OrderLines, orders[o].status # "DONE", orders'[o].status = "DONE"
  PROVE  /\ Shipped(o)' >= Target(o)'
         /\ \A x \in LotsOf(o)' : lots'[x].status \in {"DONE", "CANCELED"}
<1>1. CASE OrderNext
  <2>1. PICK x \in OrderLines : DeleteOrderLines(x)
    BY <1>1, PlanningMovesNoStock, StockKeepsRounds
  <2>2. orders'[o] = NoOrderLine \/ orders'[o] = orders[o]
    BY <2>1 DEF DeleteOrderLines
  <2>3. NoOrderLine.status = "NONE"
    BY DEF NoOrderLine
  <2> QED BY <2>2, <2>3
<1>2. CASE StockNext \/ ReworkNext
  BY <1>2, StockKeepsRounds
<1>3. CASE ScheduleNext \/ ResultNext
  BY <1>3, InspectionFinishes
<1>4. CASE UNCHANGED vars
  BY <1>4 DEF vars
<1> QED BY <1>1, <1>2, <1>3, <1>4 DEF Next

\* An order line that an inspection request finishes has all of its LOTs done and
\* its target shipped, the movements of this very request included.
THEOREM DoneIsComplete == Spec => InspectionDoneIsComplete
<1>1. TypeOK /\ [Next]_vars =>
        [\A o \in OrderLines :
           /\ orders[o].status # "DONE" /\ orders'[o].status = "DONE"
           /\ rounds' # rounds
           => /\ Shipped(o)' >= Target(o)'
              /\ \A p \in LotsOf(o)' : lots'[p].status \in {"DONE", "CANCELED"}]_vars
  BY InspectionDoneStep
<1> QED BY <1>1, TypeCorrect, PTL DEF Spec, InspectionDoneIsComplete
-----------------------------------------------------------------------------
(* What the plans promise.                                                 *)

Inspected(r) == r.status \in {"PARTIAL_DONE", "DONE"}

\* The plan of o stands: nothing of its stock part was confirmed, nothing of its
\* LOTs was inspected.  PlanCoversTarget says less of a plan with a LOT in work;
\* but a schedule of it may be canceled, and then what it says must hold again.
PlanStands(o) ==
  /\ orders[o].decided
  /\ orders[o].plan.type \in {"AUTO_PRODUCTION", "PARTIAL_STOCK_PLUS_PRODUCTION"}
  /\ confirmed[o] = Nothing
  /\ \A p \in LotsOf(o), k \in RoundNos : ~Inspected(rounds[p][k])

PlanKept(o) ==
  LET plan == orders[o].plan IN
  /\ PlanStands(o) =>
       /\ ReservedBy(o) = plan.stock
       /\ plan.stock + plan.production = plan.target
       /\ \A p \in LotsOf(o) : ~lots[p].rework => lots[p].qty = plan.production
  /\ orders[o].status = "NONE" => ~orders[o].decided
  /\ ~orders[o].decided => /\ orders[o].status \in {"NONE", "OPEN", "CANCELED"}
                           /\ reserved[o] = Nothing

PlanInv == \A o \in OrderLines : PlanKept(o)

\* A step that leaves an order line its plan, its reservation and its LOTs.
PlanUntouched(o) ==
  /\ orders'[o].qty = orders[o].qty
  /\ orders'[o].decided = orders[o].decided
  /\ orders'[o].plan = orders[o].plan
  /\ \/ orders'[o].status = orders[o].status
     \/ orders[o].decided /\ orders'[o].status # "NONE"
     \/ orders'[o].status = "CANCELED"
  /\ reserved'[o] = reserved[o]
  /\ confirmed'[o] = Nothing => confirmed[o] = Nothing
  /\ \A p \in LotsOf(o)' :
       ~lots'[p].rework => p \in LotsOf(o) /\ ~lots[p].rework /\ lots'[p].qty = lots[p].qty
  /\ \A p \in LotsOf(o), k \in RoundNos :
       Inspected(rounds[p][k]) => p \in LotsOf(o)' /\ Inspected(rounds'[p][k])

\* Such a step keeps what its plan says.
LEMMA UntouchedPlanKept ==
  ASSUME NEW o \in OrderLines, PlanKept(o), PlanUntouched(o)
  PROVE  PlanKept(o)'
<1>1. PlanStands(o)' => PlanStands(o)
  BY DEF PlanStands, PlanUntouched
<1>2. ReservedBy(o)' = ReservedBy(o)
  BY DEF PlanUntouched, ReservedBy
<1>3. ASSUME PlanStands(o)'
      PROVE  /\ ReservedBy(o)' = orders'[o].plan.stock
             /\ orders'[o].plan.stock + orders'[o].plan.production = orders'[o].plan.target
             /\ \A p \in LotsOf(o)' : ~lots'[p].rework => lots'[p].qty = orders'[o].plan.production
  BY <1>1, <1>2, <1>3 DEF PlanKept, PlanUntouched
<1>4. orders'[o].status = "NONE" => ~orders'[o].decided
  BY DEF PlanKept, PlanUntouched
<1>5. ~orders'[o].decided => /\ orders'[o].status \in {"NONE", "OPEN", "CANCELED"}
                             /\ reserved'[o] = Nothing
  BY DEF PlanKept, PlanUntouched
<1> QED BY <1>3, <1>4, <1>5 DEF PlanKept

\* Without a decision there is no plan to keep.
LEMMA UndecidedPlanKept ==
  ASSUME NEW o \in OrderLines, ~orders'[o].decided, reserved'[o] = Nothing,
         orders'[o].status \in {"NONE", "OPEN"}
  PROVE  PlanKept(o)'
BY DEF PlanKept, PlanStands

\* Once something of a plan was confirmed or inspected it is not to be kept.
LEMMA StartedPlanKept ==
  ASSUME NEW o \in OrderLines, orders'[o].decided, orders'[o].status # "NONE", ~PlanStands(o)'
  PROVE  PlanKept(o)'
BY DEF PlanKept

\* An order line of which nothing was confirmed and nothing inspected is not shipped.
LEMMA NothingShipped ==
  ASSUME TypeOK, RoundsBooked, NEW o \in OrderLines, confirmed[o] = Nothing,
         \A p \in LotsOf(o), k \in RoundNos : ~Inspected(rounds[p][k])
  PROVE  Shipped(o) = 0
<1>1. SumFunction(Nothing) = 0
  BY FiniteRows, SumZero DEF Nothing, SumFunction
<1> DEFINE g == [pk \in ProdLots \X RoundNos |-> SumFunction(rounds[pk[1]][pk[2]].ship)]
<1>2. ASSUME NEW pk \in RoundsOf(o, lots) PROVE g[pk] = 0
  <2>1. pk \in ProdLots \X RoundNos /\ pk[1] \in LotsOf(o)
    BY DEF RoundsOf, LotsOf
  <2>2. rounds[pk[1]][pk[2]].ship = Nothing
    BY <2>1 DEF RoundsBooked, RoundBooked, Inspected, LotsOf
  <2> QED BY <1>1, <2>1, <2>2
<1>3. IsFiniteSet(RoundsOf(o, lots))
  <2>1. RoundsOf(o, lots) \subseteq ProdLots \X RoundNos
    BY DEF RoundsOf
  <2> QED BY <2>1, FiniteRows, FS_Subset
<1>4. SumFunctionOnSet(g, RoundsOf(o, lots)) = 0
  <2> HIDE DEF g
  <2> QED BY <1>2, <1>3, SumZero
<1> QED BY <1>1, <1>4 DEF Shipped, ShippedGiven

\* A LOT that is created changes nothing for other order lines.
LEMMA NewLotOfOne ==
  ASSUME TypeOK, LifeInv, NEW o \in OrderLines, NEW p \in ProdLots, NEW q, NEW rework,
         IsUnused(p), NewLot(o, p, q, rework)
  PROVE  /\ \A x \in OrderLines : x # o =>
              LotsOf(x)' = LotsOf(x) /\ \A y \in LotsOf(x) : lots'[y] = lots[y]
         /\ LotsOf(o)' = LotsOf(o) \cup {p} /\ p \notin LotsOf(o)
         /\ \A y \in LotsOf(o) : lots'[y] = lots[y]
         /\ lots'[p].qty = q /\ lots'[p].rework = rework
<1>1. /\ lots'[p] = [order |-> o, rework |-> rework, qty |-> q, status |-> "WAITING"]
      /\ \A x \in ProdLots : x # p => lots'[x] = lots[x]
  BY DEF NewLot, TypeOK
<1>2. lots[p].order = NoOrder /\ o # NoOrder
  BY DEF IsUnused, NoLot
<1>3. p \notin LotsOf(o) /\ \A x \in OrderLines : p \notin LotsOf(x)
  BY <1>2 DEF LotsOf
<1>4. LotsOf(o)' = LotsOf(o) \cup {p}
  BY <1>1, <1>3 DEF LotsOf
<1>5. \A x \in OrderLines : x # o => LotsOf(x)' = LotsOf(x)
  BY <1>1, <1>3 DEF LotsOf
<1>6. \A x \in OrderLines : \A y \in LotsOf(x) : lots'[y] = lots[y]
  BY <1>1, <1>3 DEF LotsOf
<1> QED BY <1>1, <1>3, <1>4, <1>5, <1>6

\* An order line whose row, reservation, LOTs and rounds stay keeps its plan.
LEMMA SameRowsSamePlan ==
  ASSUME NEW x \in OrderLines, orders'[x] = orders[x], reserved'[x] = reserved[x],
         confirmed'[x] = confirmed[x], LotsOf(x)' = LotsOf(x),
         \A p \in LotsOf(x) : lots'[p] = lots[p] /\ rounds'[p] = rounds[p]
  PROVE  PlanUntouched(x)
BY DEF PlanUntouched, Inspected

\* An order line that is to be planned has no LOT and no reservation.
LEMMA ToBePlanned ==
  ASSUME LifeInv, NEW o \in OrderLines, PlanKept(o), ~orders[o].decided
  PROVE  LotsOf(o) = {} /\ reserved[o] = Nothing
BY DEF PlanKept, LifeInv, ReleasedWithLot

\* Nothing reserved is a reservation of nothing.
LEMMA NothingSum == SumFunction(Nothing) = 0
BY FiniteRows, SumZero DEF Nothing, SumFunction

\* What a registration makes of the row of an order line.
LEMMA RegisteredRow ==
  ASSUME TypeOK, NEW o \in OrderLines, NEW partner \in Partners, NEW number \in OrderNumbers,
         NEW q \in OrderQtys, CreateOrderLine(o, partner, number, q)
  PROVE  /\ orders[o].status = "NONE" /\ UNCHANGED <<rounds, reserved, confirmed>>
         /\ \A x \in OrderLines : x # o => orders'[x] = orders[x]
         /\ orders'[o].partner = partner /\ orders'[o].qty = q
         /\ \/ \E type \in {"STOCK_REPLENISHMENT", "AUTO_PRODUCTION"}, t, n \in Nat, p \in ProdLots :
                 /\ CreatePrimaryLot(o, p, n)
                 /\ orders'[o].plan.type = type /\ orders'[o].plan.target = t
                 /\ orders'[o].plan.stock = 0 /\ orders'[o].plan.production = n
                 /\ type = "AUTO_PRODUCTION" => t = TargetOf(partner, q) /\ n = t
                 /\ orders'[o].status = "CLOSED" /\ orders'[o].decided
            \/ /\ UNCHANGED lots /\ orders'[o].plan = NoPlan
               /\ orders'[o].status = "OPEN" /\ ~orders'[o].decided
<1> DEFINE target == TargetOf(partner, q)
           planned(type, t, n) == [status |-> "CLOSED", partner |-> partner, number |-> number,
                                   qty |-> q, decided |-> TRUE,
                                   plan |-> [type |-> type, target |-> t, stock |-> 0,
                                             production |-> n]]
           open == [status |-> "OPEN", partner |-> partner, number |-> number, qty |-> q,
                    decided |-> FALSE, plan |-> NoPlan]
<1>1. /\ orders[o].status = "NONE" /\ UNCHANGED <<rounds, reserved, confirmed>>
      /\ \/ /\ orders' = [orders EXCEPT ![o] = planned("STOCK_REPLENISHMENT", 0, q)]
            /\ \E p \in ProdLots : CreatePrimaryLot(o, p, q)
         \/ /\ orders' = [orders EXCEPT ![o] = planned("AUTO_PRODUCTION", target, target)]
            /\ \E p \in ProdLots : CreatePrimaryLot(o, p, target)
         \/ orders' = [orders EXCEPT ![o] = open] /\ UNCHANGED lots
  BY DEF CreateOrderLine
<1>2. \A row : orders' = [orders EXCEPT ![o] = row] =>
        orders'[o] = row /\ \A x \in OrderLines : x # o => orders'[x] = orders[x]
  BY DEF TypeOK
<1>3. target \in Nat /\ q \in Nat
  BY ShipQtyType
<1>4. \A type, t, n :
        /\ planned(type, t, n).partner = partner /\ planned(type, t, n).qty = q
        /\ planned(type, t, n).status = "CLOSED" /\ planned(type, t, n).decided
        /\ planned(type, t, n).plan.type = type /\ planned(type, t, n).plan.target = t
        /\ planned(type, t, n).plan.stock = 0 /\ planned(type, t, n).plan.production = n
  OBVIOUS
<1>5. /\ open.partner = partner /\ open.qty = q /\ open.status = "OPEN" /\ ~open.decided
      /\ open.plan = NoPlan
  OBVIOUS
<1> HIDE DEF planned, open, target
<1>6. CASE /\ orders' = [orders EXCEPT ![o] = planned("STOCK_REPLENISHMENT", 0, q)]
           /\ \E p \in ProdLots : CreatePrimaryLot(o, p, q)
  <2>1. /\ orders'[o] = planned("STOCK_REPLENISHMENT", 0, q)
        /\ \A x \in OrderLines : x # o => orders'[x] = orders[x]
    BY <1>2, <1>6
  <2> QED BY <1>1, <1>3, <1>4, <1>6, <2>1
<1>7. CASE /\ orders' = [orders EXCEPT ![o] = planned("AUTO_PRODUCTION", target, target)]
           /\ \E p \in ProdLots : CreatePrimaryLot(o, p, target)
  <2>1. /\ orders'[o] = planned("AUTO_PRODUCTION", target, target)
        /\ \A x \in OrderLines : x # o => orders'[x] = orders[x]
    BY <1>2, <1>7
  <2>2. target = TargetOf(partner, q)
    BY DEF target
  <2> QED BY <1>1, <1>3, <1>4, <1>7, <2>1, <2>2
<1>8. CASE orders' = [orders EXCEPT ![o] = open] /\ UNCHANGED lots
  <2>1. orders'[o] = open /\ \A x \in OrderLines : x # o => orders'[x] = orders[x]
    BY <1>2, <1>8
  <2> QED BY <1>1, <1>5, <1>8, <2>1
<1> QED BY <1>1, <1>6, <1>7, <1>8

\* A registration that produces at once plans the whole target.
LEMMA PlanOfRegistration ==
  ASSUME TypeOK, LifeInv, PlanInv, NEW o \in OrderLines, NEW partner \in Partners,
         NEW number \in OrderNumbers, NEW q \in OrderQtys, CreateOrderLine(o, partner, number, q)
  PROVE  PlanInv'
<1>1. orders[o].status = "NONE" /\ ~orders[o].decided /\ LotsOf(o) = {} /\ reserved[o] = Nothing
  <2>1. orders[o].status = "NONE"
    BY DEF CreateOrderLine
  <2> QED BY <2>1, ToBePlanned DEF PlanInv, PlanKept
<1>2. /\ UNCHANGED <<rounds, reserved, confirmed>>
      /\ \A x \in OrderLines : x # o => orders'[x] = orders[x]
      /\ \/ \E type \in {"STOCK_REPLENISHMENT", "AUTO_PRODUCTION"}, t, n \in Nat, p \in ProdLots :
              /\ CreatePrimaryLot(o, p, n)
              /\ orders'[o].plan.type = type /\ orders'[o].plan.target = t
              /\ orders'[o].plan.stock = 0 /\ orders'[o].plan.production = n
              /\ type = "AUTO_PRODUCTION" => t = TargetOf(partner, q) /\ n = t
              /\ orders'[o].status = "CLOSED" /\ orders'[o].decided
         \/ UNCHANGED lots /\ orders'[o].status = "OPEN" /\ ~orders'[o].decided
  BY RegisteredRow
<1>3. ASSUME NEW x \in OrderLines, x # o PROVE PlanKept(x)'
  <2>1. LotsOf(x)' = LotsOf(x) /\ \A y \in LotsOf(x) : lots'[y] = lots[y]
    <3>1. CASE UNCHANGED lots
      BY <3>1 DEF LotsOf
    <3>2. ASSUME NEW p \in ProdLots, NEW n, CreatePrimaryLot(o, p, n)
          PROVE  LotsOf(x)' = LotsOf(x) /\ \A y \in LotsOf(x) : lots'[y] = lots[y]
      BY <1>3, <3>2, NewLotOfOne DEF CreatePrimaryLot
    <3> QED BY <1>2, <3>1, <3>2
  <2>2. PlanUntouched(x)
    BY <1>2, <1>3, <2>1, SameRowsSamePlan
  <2> QED BY <2>2, UntouchedPlanKept DEF PlanInv
<1>4. PlanKept(o)'
  <2>1. CASE UNCHANGED lots /\ orders'[o].status = "OPEN" /\ ~orders'[o].decided
    BY <1>1, <1>2, <2>1, UndecidedPlanKept
  <2>2. ASSUME NEW type \in {"STOCK_REPLENISHMENT", "AUTO_PRODUCTION"},
               NEW t \in Nat, NEW n \in Nat, NEW p \in ProdLots, CreatePrimaryLot(o, p, n),
               orders'[o].plan.type = type, orders'[o].plan.target = t,
               orders'[o].plan.stock = 0, orders'[o].plan.production = n,
               type = "AUTO_PRODUCTION" => n = t,
               orders'[o].status = "CLOSED", orders'[o].decided
        PROVE  PlanKept(o)'
    <3>1. LotsOf(o)' = {p} /\ lots'[p].qty = n
      <4>1. IsUnused(p) /\ NewLot(o, p, n, FALSE)
        BY <2>2 DEF CreatePrimaryLot
      <4>2. LotsOf(o)' = LotsOf(o) \cup {p} /\ lots'[p].qty = n
        BY <4>1, NewLotOfOne
      <4> QED BY <1>1, <4>2
    <3>2. ReservedBy(o)' = 0
      BY <1>1, <1>2, NothingSum DEF ReservedBy
    <3>3. PlanStands(o)' => type = "AUTO_PRODUCTION"
      BY <2>2 DEF PlanStands
    <3> QED BY <2>2, <3>1, <3>2, <3>3 DEF PlanKept
  <2> QED BY <1>2, <2>1, <2>2
<1> QED BY <1>3, <1>4 DEF PlanInv

\* What a decision makes of the row of an order line.
LEMMA DecidedRow ==
  ASSUME TypeOK, NEW o \in OrderLines, NEW type, NEW available, NEW remaining, NEW st,
         Decide(o, type, available, remaining, st)
  PROVE  /\ orders'[o].status = st /\ orders'[o].decided /\ orders'[o].qty = orders[o].qty
         /\ orders'[o].partner = orders[o].partner
         /\ orders'[o].plan.type = type
         /\ orders'[o].plan.target = IF type = "STOCK_REPLENISHMENT" THEN 0 ELSE Target(o)
         /\ orders'[o].plan.stock = PlannedStock(type, available, remaining)
         /\ orders'[o].plan.production = PlannedProduction(type, orders[o].qty, available, remaining)
         /\ \A x \in OrderLines : x # o => orders'[x] = orders[x]
<1> DEFINE target == IF type = "STOCK_REPLENISHMENT" THEN 0 ELSE Target(o)
           plan == [type |-> type, target |-> target,
                    stock |-> PlannedStock(type, available, remaining),
                    production |-> PlannedProduction(type, orders[o].qty, available, remaining)]
<1>1. orders' = [orders EXCEPT ![o].status = st, ![o].decided = TRUE, ![o].plan = plan]
  BY DEF Decide
<1>2. orders[o] \in OrderLine
  BY DEF TypeOK
<1>3. /\ plan.type = type /\ plan.target = target
      /\ plan.stock = PlannedStock(type, available, remaining)
      /\ plan.production = PlannedProduction(type, orders[o].qty, available, remaining)
  OBVIOUS
<1> HIDE DEF plan
<1> QED BY <1>1, <1>2, <1>3 DEF TypeOK, OrderLine

\* A confirmed plan covers what remains, which is the target of what is not shipped.
LEMMA PlanOfDecision ==
  ASSUME TypeOK, LifeInv, RoundsBooked, PlanInv, NEW o \in OrderLines,
         \/ \E type \in PlanTypes : ConfirmProductionPlan(o, type) \/ ConfirmStockPlan(o, type)
         \/ ConfirmPartialPlan(o)
  PROVE  PlanInv'
<1>1. \A type, available, remaining, st : Decide(o, type, available, remaining, st) =>
        /\ orders'[o].status = st /\ orders'[o].decided /\ orders'[o].qty = orders[o].qty
        /\ orders'[o].partner = orders[o].partner
        /\ orders'[o].plan.type = type
        /\ orders'[o].plan.stock = PlannedStock(type, available, remaining)
        /\ orders'[o].plan.production = PlannedProduction(type, orders[o].qty, available, remaining)
        /\ \A x \in OrderLines : x # o => orders'[x] = orders[x]
  BY DecidedRow
<1>2. /\ ~orders[o].decided /\ orders[o].status \in {"OPEN", "CLOSED"}
      /\ LotsOf(o) = {} /\ reserved[o] = Nothing
  <2>1. ~orders[o].decided /\ orders[o].status \in {"OPEN", "CLOSED"}
    BY DEF ConfirmProductionPlan, ConfirmStockPlan, ConfirmPartialPlan, MayDecide
  <2> QED BY <2>1, ToBePlanned DEF PlanInv
<1>3. Available \in Nat /\ Remaining(o) \in Nat /\ Target(o) \in Nat
  BY QuantityTypes
<1>4. confirmed[o] = Nothing => Remaining(o) = Target(o)
  <2>1. confirmed[o] = Nothing => Shipped(o) = 0
    BY <1>2, NothingShipped
  <2> QED BY <1>3, <2>1 DEF Remaining, AtLeastZero
<1>5. /\ \A x \in OrderLines : x # o => orders'[x] = orders[x] /\ reserved'[x] = reserved[x]
                                        /\ confirmed'[x] = confirmed[x]
      /\ UNCHANGED rounds
  <2>1. CASE ConfirmPartialPlan(o)
    BY <1>1, <2>1 DEF ConfirmPartialPlan, TypeOK
  <2>2. ASSUME NEW type \in PlanTypes, ConfirmStockPlan(o, type)
        PROVE  /\ \A x \in OrderLines : x # o => orders'[x] = orders[x] /\ reserved'[x] = reserved[x]
                                                /\ confirmed'[x] = confirmed[x]
               /\ UNCHANGED rounds
    BY <1>1, <2>2 DEF ConfirmStockPlan, TypeOK
  <2>3. ASSUME NEW type \in PlanTypes, ConfirmProductionPlan(o, type)
        PROVE  /\ \A x \in OrderLines : x # o => orders'[x] = orders[x] /\ reserved'[x] = reserved[x]
                                                /\ confirmed'[x] = confirmed[x]
               /\ UNCHANGED rounds
    BY <1>1, <2>3 DEF ConfirmProductionPlan
  <2> QED BY <2>1, <2>2, <2>3
<1>6. ASSUME NEW x \in OrderLines, x # o PROVE PlanKept(x)'
  <2>1. LotsOf(x)' = LotsOf(x) /\ \A y \in LotsOf(x) : lots'[y] = lots[y]
    <3>1. CASE UNCHANGED lots
      BY <3>1 DEF LotsOf
    <3>2. ASSUME NEW p \in ProdLots, NEW n, CreatePrimaryLot(o, p, n)
          PROVE  LotsOf(x)' = LotsOf(x) /\ \A y \in LotsOf(x) : lots'[y] = lots[y]
      BY <1>6, <3>2, NewLotOfOne DEF CreatePrimaryLot
    <3> QED BY <3>1, <3>2 DEF ConfirmProductionPlan, ConfirmStockPlan, ConfirmPartialPlan
  <2>2. PlanUntouched(x)
    BY <1>5, <1>6, <2>1, SameRowsSamePlan
  <2> QED BY <2>2, UntouchedPlanKept DEF PlanInv
<1>7. CASE ConfirmPartialPlan(o)
  <2>1. PICK take \in Takes(Available) :
          /\ SumFunction(take) = Available
          /\ reserved' = [reserved EXCEPT ![o] = take]
    BY <1>7 DEF ConfirmPartialPlan, TakesInOrder
  <2>2. /\ Decide(o, "PARTIAL_STOCK_PLUS_PRODUCTION", Available, Remaining(o), orders[o].status)
        /\ confirmed[o] = Nothing /\ lots' = lots
    BY <1>7 DEF ConfirmPartialPlan, HasNoStockLine
  <2>3. ReservedBy(o)' = Available
    BY <2>1 DEF ReservedBy, TypeOK
  <2>4. /\ orders'[o].plan.stock = Available /\ orders'[o].plan.production = Remaining(o) - Available
        /\ orders'[o].status \in {"OPEN", "CLOSED"} /\ orders'[o].decided
    <3>1. /\ PlannedStock("PARTIAL_STOCK_PLUS_PRODUCTION", Available, Remaining(o)) = Available
          /\ PlannedProduction("PARTIAL_STOCK_PLUS_PRODUCTION", orders[o].qty, Available, Remaining(o))
               = Remaining(o) - Available
      BY DEF PlannedStock, PlannedProduction
    <3> QED BY <1>2, <2>2, <3>1, DecidedRow
  <2>5. orders'[o].plan.target = Target(o)
    BY <2>2, DecidedRow
  <2>6. LotsOf(o)' = {}
    BY <1>2, <2>2 DEF LotsOf
  <2>7. PlanKept(o)'
    BY <1>3, <1>4, <2>2, <2>3, <2>4, <2>5, <2>6 DEF PlanKept
  <2> QED BY <1>6, <2>7 DEF PlanInv
<1>8. ASSUME NEW type \in PlanTypes, ConfirmStockPlan(o, type) PROVE PlanInv'
  <2>1. orders'[o].plan.type = type /\ orders'[o].decided /\ orders'[o].status = "DONE"
    BY <1>8, DecidedRow DEF ConfirmStockPlan
  <2>2. ~PlanStands(o)'
    BY <1>8, <2>1 DEF ConfirmStockPlan, PlanStands
  <2>3. PlanKept(o)'
    BY <2>1, <2>2, StartedPlanKept
  <2> QED BY <1>6, <2>3 DEF PlanInv
<1>9. ASSUME NEW type \in PlanTypes, ConfirmProductionPlan(o, type) PROVE PlanInv'
  <2>1. CASE type = "STOCK_REPLENISHMENT"
    <3>1. orders'[o].plan.type = type /\ orders'[o].decided /\ orders'[o].status = "CLOSED"
      BY <1>9, <2>1, DecidedRow DEF ConfirmProductionPlan
    <3>2. ~PlanStands(o)'
      BY <2>1, <3>1 DEF PlanStands
    <3>3. PlanKept(o)'
      BY <3>1, <3>2, StartedPlanKept
    <3> QED BY <1>6, <3>3 DEF PlanInv
  <2>2. CASE type = "AUTO_PRODUCTION"
    <3>1. /\ Decide(o, type, Available, Remaining(o), orders[o].status)
          /\ UNCHANGED <<lots, reserved, confirmed>>
      BY <1>9, <2>2 DEF ConfirmProductionPlan
    <3>2. ReservedBy(o)' = 0
      BY <1>2, <3>1, NothingSum DEF ReservedBy
    <3>3. /\ orders'[o].plan.stock = 0 /\ orders'[o].plan.production = Remaining(o)
          /\ orders'[o].status \in {"OPEN", "CLOSED"} /\ orders'[o].decided
      <4>1. /\ PlannedStock(type, Available, Remaining(o)) = 0
            /\ PlannedProduction(type, orders[o].qty, Available, Remaining(o)) = Remaining(o)
        BY <2>2 DEF PlannedStock, PlannedProduction
      <4> QED BY <1>2, <3>1, <4>1, DecidedRow
    <3>4. orders'[o].plan.target = Target(o)
      BY <2>2, <3>1, DecidedRow
    <3>5. LotsOf(o)' = {} /\ (PlanStands(o)' => confirmed[o] = Nothing)
      BY <1>2, <3>1 DEF LotsOf, PlanStands
    <3>6. PlanKept(o)'
      BY <1>3, <1>4, <3>2, <3>3, <3>4, <3>5 DEF PlanKept
    <3> QED BY <1>6, <3>6 DEF PlanInv
  <2> QED BY <1>9, <2>1, <2>2 DEF ConfirmProductionPlan
<1> QED BY <1>7, <1>8, <1>9

\* The LOT that a plan is released with is made for what the plan produces.
LEMMA PlanOfBaseLot ==
  ASSUME TypeOK, LifeInv, PlanInv, NEW o \in OrderLines, NEW p \in ProdLots, CreateBaseLot(o, p)
  PROVE  PlanInv'
<1>1. /\ IsUnused(p) /\ NewLot(o, p, orders[o].plan.production, FALSE)
      /\ orders[o].status = "OPEN" /\ orders[o].decided
      /\ orders' = [orders EXCEPT ![o].status = "CLOSED"]
      /\ UNCHANGED <<rounds, reserved, confirmed>>
  BY DEF CreateBaseLot, CreatePrimaryLot
<1>2. LotsOf(o) = {}
  BY <1>1 DEF LifeInv, ReleasedWithLot
<1>3. /\ \A x \in OrderLines : x # o => orders'[x] = orders[x]
      /\ orders'[o].status = "CLOSED" /\ orders'[o].qty = orders[o].qty
      /\ orders'[o].decided /\ orders'[o].plan = orders[o].plan
  <2>1. orders[o] \in OrderLine
    BY DEF TypeOK
  <2> QED BY <1>1, <2>1 DEF TypeOK, OrderLine
<1>4. /\ \A x \in OrderLines : x # o => /\ LotsOf(x)' = LotsOf(x)
                                        /\ \A y \in LotsOf(x) : lots'[y] = lots[y]
      /\ LotsOf(o)' = {p} /\ lots'[p].qty = orders[o].plan.production
  BY <1>1, <1>2, NewLotOfOne
<1>5. ASSUME NEW x \in OrderLines, x # o PROVE PlanKept(x)'
  <2>1. PlanUntouched(x)
    BY <1>1, <1>3, <1>4, <1>5, SameRowsSamePlan
  <2> QED BY <2>1, UntouchedPlanKept DEF PlanInv
<1>6. PlanKept(o)'
  <2>1. PlanStands(o)' => PlanStands(o)
    BY <1>1, <1>2, <1>3 DEF PlanStands
  <2>2. ReservedBy(o)' = ReservedBy(o)
    BY <1>1 DEF ReservedBy
  <2> QED BY <1>3, <1>4, <2>1, <2>2 DEF PlanInv, PlanKept
<1> QED BY <1>5, <1>6 DEF PlanInv

\* A rework LOT is made besides the plan.
LEMMA PlanOfRework ==
  ASSUME TypeOK, LifeInv, PlanInv, NEW parent \in ProdLots, NEW p \in ProdLots,
         NEW q \in OrderQtys, CreateReworkLot(parent, p, q)
  PROVE  PlanInv'
<1>1. PICK o \in OrderLines : o = lots[parent].order /\ parent \in LotsOf(o)
  <2>1. lots[parent] # NoLot
    BY DEF CreateReworkLot, NoLot
  <2> QED BY <2>1 DEF LifeInv, LotsLinked, TypeOK, Lot, LotsOf
<1>2. orders[o].status \in {"CLOSED", "DONE"} /\ orders[o].decided
  BY <1>1 DEF LifeInv, ReleasedWithLot, PlanInv, PlanKept
<1>3. IsUnused(p) /\ NewLot(o, p, q, TRUE) /\ UNCHANGED <<rounds, reserved, confirmed>>
  BY <1>1 DEF CreateReworkLot
<1>4. /\ \A x \in OrderLines : x # o => orders'[x] = orders[x]
      /\ orders'[o].status = "CLOSED" /\ orders'[o].qty = orders[o].qty
      /\ orders'[o].decided = orders[o].decided /\ orders'[o].plan = orders[o].plan
  <2>1. orders[o] \in OrderLine
    BY DEF TypeOK
  <2>2. orders' = [orders EXCEPT ![o].status = IF orders[o].status = "DONE" THEN "CLOSED"
                                               ELSE orders[o].status]
    BY <1>1 DEF CreateReworkLot
  <2> QED BY <1>2, <2>1, <2>2 DEF TypeOK, OrderLine
<1>5. /\ \A x \in OrderLines : x # o => /\ LotsOf(x)' = LotsOf(x)
                                        /\ \A y \in LotsOf(x) : lots'[y] = lots[y]
      /\ LotsOf(o)' = LotsOf(o) \cup {p}
      /\ \A y \in LotsOf(o) : lots'[y] = lots[y]
      /\ lots'[p].rework
  BY <1>3, NewLotOfOne
<1>6. ASSUME NEW x \in OrderLines PROVE PlanUntouched(x)
  <2>1. CASE x # o
    BY <1>3, <1>4, <1>5, <2>1, SameRowsSamePlan
  <2>2. CASE x = o
    BY <1>2, <1>3, <1>4, <1>5, <2>2 DEF PlanUntouched, Inspected
  <2> QED BY <2>1, <2>2
<1> QED BY <1>6, UntouchedPlanKept DEF PlanInv

\* Cancellation and a short close leave the plan as it is.
LEMMA PlanOfClosing ==
  ASSUME TypeOK, PlanInv, NEW o \in OrderLines, CancelOrderLine(o) \/ ShortClose(o)
  PROVE  PlanInv'
<1>1. UNCHANGED <<lots, rounds, reserved, confirmed>>
  BY DEF CancelOrderLine, ShortClose
<1>2. /\ \A x \in OrderLines : x # o => orders'[x] = orders[x]
      /\ orders'[o].qty = orders[o].qty
      /\ orders'[o].decided = orders[o].decided /\ orders'[o].plan = orders[o].plan
      /\ \/ orders'[o].status = "CANCELED"
         \/ orders[o].status = "CLOSED" /\ orders'[o].status = "DONE"
  <2>1. orders[o] \in OrderLine
    BY DEF TypeOK
  <2>2. CASE CancelOrderLine(o)
    BY <2>1, <2>2 DEF CancelOrderLine, TypeOK, OrderLine
  <2>3. CASE ShortClose(o)
    BY <2>1, <2>3 DEF ShortClose, TypeOK, OrderLine
  <2> QED BY <2>2, <2>3
<1>3. \A x \in OrderLines : LotsOf(x)' = LotsOf(x)
  BY <1>1 DEF LotsOf
<1>4. ASSUME NEW x \in OrderLines PROVE PlanUntouched(x)
  <2>1. orders[x].status = "CLOSED" => orders[x].decided
    BY DEF PlanInv, PlanKept
  <2> QED BY <1>1, <1>2, <1>3, <2>1 DEF PlanUntouched
<1> QED BY <1>4, UntouchedPlanKept DEF PlanInv

\* A changed quantity voids the plan, or revises it around what is reserved.
LEMMA PlanOfQuantityChange ==
  ASSUME TypeOK, PlanInv, NEW o \in OrderLines, NEW q \in OrderQtys,
         \/ ChangeQuantityBeforeLot(o, q)
         \/ \E p \in ProdLots : ChangeQuantityOfLot(o, p, q)
  PROVE  PlanInv'
<1>1. orders[o] \in OrderLine /\ q \in Nat
  BY DEF TypeOK
<1>2. CASE ChangeQuantityBeforeLot(o, q)
  <2>1. /\ \A x \in OrderLines : x # o => orders'[x] = orders[x] /\ reserved'[x] = reserved[x]
        /\ orders'[o].status = "OPEN" /\ ~orders'[o].decided /\ reserved'[o] = Nothing
        /\ UNCHANGED <<lots, rounds, confirmed>>
    BY <1>1, <1>2 DEF ChangeQuantityBeforeLot, TypeOK, OrderLine
  <2>2. ASSUME NEW x \in OrderLines, x # o PROVE PlanKept(x)'
    <3>1. LotsOf(x)' = LotsOf(x)
      BY <2>1 DEF LotsOf
    <3>2. PlanUntouched(x)
      BY <2>1, <2>2, <3>1, SameRowsSamePlan
    <3> QED BY <3>2, UntouchedPlanKept DEF PlanInv
  <2>3. PlanKept(o)'
    BY <2>1, UndecidedPlanKept
  <2> QED BY <2>2, <2>3 DEF PlanInv
<1>3. ASSUME NEW p \in ProdLots, ChangeQuantityOfLot(o, p, q) PROVE PlanInv'
  <2> DEFINE plan == RevisedPlan(o, q)
  <2>1. /\ lots' = [lots EXCEPT ![p].qty = plan.production]
        /\ orders' = [orders EXCEPT ![o].qty = q, ![o].plan = plan]
        /\ UNCHANGED <<rounds, reserved, confirmed>>
        /\ LotsOf(o) = {p} /\ ReservationReusable(o) /\ orders[o].status \in {"OPEN", "CLOSED"}
    BY <1>3 DEF ChangeQuantityOfLot
  <2>2. ReservedBy(o) \in Nat /\ (reserved[o] = Nothing => ReservedBy(o) = 0)
    BY ReservedType, NothingSum DEF ReservedBy
  <2>3. TargetOf(orders[o].partner, q) \in Nat
    BY <1>1, ShipQtyType DEF OrderLine
  <2>4. plan.type \in {"AUTO_PRODUCTION", "PARTIAL_STOCK_PLUS_PRODUCTION"} =>
          /\ plan.stock = ReservedBy(o)
          /\ plan.stock + plan.production = plan.target
    BY <2>1, <2>2, <2>3 DEF RevisedPlan, ReservationReusable
  <2> HIDE DEF plan
  <2>5. /\ \A x \in OrderLines : x # o => orders'[x] = orders[x]
        /\ orders'[o].plan = plan /\ orders'[o].qty = q
        /\ orders'[o].status = orders[o].status /\ orders'[o].decided = orders[o].decided
    BY <1>1, <2>1 DEF TypeOK, OrderLine
  <2>6. /\ \A y \in ProdLots : y # p => lots'[y] = lots[y]
        /\ lots'[p].qty = plan.production /\ lots'[p].order = lots[p].order
    <3>1. lots[p] \in Lot
      BY DEF TypeOK
    <3> QED BY <2>1, <3>1 DEF TypeOK, Lot
  <2>7. \A x \in OrderLines : LotsOf(x)' = LotsOf(x)
    BY <2>6 DEF LotsOf
  <2>8. ASSUME NEW x \in OrderLines, x # o PROVE PlanKept(x)'
    <3>1. p \notin LotsOf(x)
      BY <2>1, <2>8 DEF LotsOf
    <3>2. \A y \in LotsOf(x) : lots'[y] = lots[y]
      BY <2>6, <3>1 DEF LotsOf
    <3>3. PlanUntouched(x)
      BY <2>1, <2>5, <2>7, <2>8, <3>2, SameRowsSamePlan
    <3> QED BY <3>3, UntouchedPlanKept DEF PlanInv
  <2>9. PlanKept(o)'
    <3>1. ReservedBy(o)' = ReservedBy(o)
      BY <2>1 DEF ReservedBy
    <3>2. PlanStands(o)' => orders'[o].plan.type \in {"AUTO_PRODUCTION", "PARTIAL_STOCK_PLUS_PRODUCTION"}
      BY DEF PlanStands
    <3>3. LotsOf(o)' = {p}
      BY <2>1, <2>7
    <3>4. ~orders'[o].decided => /\ orders'[o].status \in {"NONE", "OPEN", "CANCELED"}
                                 /\ reserved'[o] = Nothing
      BY <2>1, <2>5 DEF PlanInv, PlanKept
    <3> QED BY <2>1, <2>4, <2>5, <2>6, <3>1, <3>2, <3>3, <3>4 DEF PlanKept
  <2> QED BY <2>8, <2>9 DEF PlanInv
<1> QED BY <1>2, <1>3

\* Another partner leaves the plan, and what is reserved for it.
LEMMA PlanOfEdit ==
  ASSUME TypeOK, PlanInv, NEW o \in OrderLines, NEW partner \in Partners,
         NEW number \in OrderNumbers, EditOrderLine(o, partner, number)
  PROVE  PlanInv'
<1>1. \A x \in OrderLines : LotsOf(x)' = LotsOf(x)
  BY EditedRow DEF LotsOf
<1>2. \A x \in OrderLines : PlanUntouched(x)
  BY <1>1, EditedRow DEF PlanUntouched
<1> QED BY <1>2, UntouchedPlanKept DEF PlanInv

\* A deleted order line has no plan; the others keep theirs.
LEMMA PlanOfDeletion ==
  ASSUME TypeOK, PlanInv, NEW o \in OrderLines, DeleteOrderLines(o)
  PROVE  PlanInv'
<1> DEFINE group == {x \in OrderLines : /\ orders[x].status # "NONE"
                                        /\ orders[x].number = orders[o].number}
           gone == {p \in ProdLots : lots[p].order \in group}
<1>1. /\ \A x \in group : orders'[x] = NoOrderLine /\ reserved'[x] = Nothing
      /\ \A x \in OrderLines \ group : orders'[x] = orders[x] /\ reserved'[x] = reserved[x]
      /\ \A p \in gone : lots'[p] = NoLot
      /\ \A p \in ProdLots \ gone : lots'[p] = lots[p] /\ rounds'[p] = rounds[p]
      /\ UNCHANGED confirmed
  BY DEF DeleteOrderLines
<1>2. ASSUME NEW x \in group PROVE PlanKept(x)'
  <2>1. orders'[x].status = "NONE" /\ ~orders'[x].decided /\ reserved'[x] = Nothing
    <3>1. NoOrderLine.status = "NONE" /\ ~NoOrderLine.decided
      BY DEF NoOrderLine
    <3> QED BY <1>1, <3>1
  <2> QED BY <2>1, UndecidedPlanKept
<1>3. ASSUME NEW x \in OrderLines \ group PROVE PlanKept(x)'
  <2>1. LotsOf(x)' = LotsOf(x) /\ \A p \in LotsOf(x) : p \notin gone
    <3>1. NoLot.order \notin OrderLines
      BY DEF NoLot
    <3> QED BY <1>1, <3>1 DEF LotsOf
  <2>2. PlanUntouched(x)
    <3>1. \A p \in LotsOf(x) : lots'[p] = lots[p] /\ rounds'[p] = rounds[p]
      BY <1>1, <2>1 DEF LotsOf
    <3> QED BY <1>1, <2>1, <3>1, SameRowsSamePlan
  <2> QED BY <2>2, UntouchedPlanKept DEF PlanInv
<1> QED BY <1>2, <1>3 DEF PlanInv

\* Quantities that add up to nothing are nothing.
LEMMA SumOfNothing ==
  ASSUME NEW f \in [InvLots -> Nat], SumFunction(f) = 0, NEW l \in InvLots
  PROVE  f[l] = 0
<1> DEFINE g == [x \in InvLots |-> IF x = l THEN f[l] ELSE 0]
           h == [x \in InvLots |-> f[x] - g[x]]
<1>1. \A x \in InvLots : /\ f[x] \in Int /\ g[x] \in Int /\ h[x] = f[x] - g[x]
                         /\ h[x] \in Nat /\ g[x] = IF x = l THEN f[l] ELSE 0
  OBVIOUS
<1>2. f[l] \in Int /\ f[l] >= 0 /\ SumFunctionOnSet(f, InvLots) = 0
  BY DEF SumFunction
<1> HIDE DEF g, h
<1>3. SumFunctionOnSet(h, InvLots) = SumFunctionOnSet(f, InvLots) - SumFunctionOnSet(g, InvLots)
  BY <1>1, FiniteRows, SumDifference
<1>4. SumFunctionOnSet(g, InvLots) = f[l]
  BY <1>1, <1>2, FiniteRows, SumOnly
<1>5. SumFunctionOnSet(h, InvLots) \in Nat
  BY <1>1, FiniteRows, SumNat
<1> QED BY <1>2, <1>3, <1>4, <1>5

\* What is confirmed of a reservation starts its plan; other plans are untouched.
LEMMA PlanOfShipment ==
  ASSUME TypeOK, PlanInv, NEW S \in SUBSET WaitingLines, NEW first \in OrderLines,
         ConfirmShipment(S, first)
  PROVE  PlanInv'
<1> DEFINE affected == {ol[1] : ol \in S}
           shippedOf(o) == [l \in InvLots |-> IF <<o, l>> \in S THEN reserved[o][l] ELSE 0]
<1>1. /\ confirmed' = [o \in OrderLines |-> Plus(confirmed[o], shippedOf(o))]
      /\ reserved' = [o \in OrderLines |-> Minus(reserved[o], shippedOf(o))]
      /\ \A ol \in S : reserved[ol[1]][ol[2]] > 0
      /\ UNCHANGED <<lots, rounds>>
  BY DEF ConfirmShipment
<1>2. \A o \in OrderLines :
        \/ orders'[o] = orders[o]
        \/ o \in affected /\ orders'[o] = [orders[o] EXCEPT !.status = "DONE"]
  BY DEF ConfirmShipment
<1>3. \A o \in OrderLines : LotsOf(o)' = LotsOf(o)
  BY <1>1 DEF LotsOf
<1>4. ASSUME NEW o \in OrderLines, o \notin affected PROVE PlanKept(o)'
  <2>1. \A l \in InvLots : <<o, l>> \notin S
    BY <1>4
  <2>2. \A l \in InvLots : reserved[o][l] \in Nat /\ confirmed[o][l] \in Nat
    BY DEF TypeOK
  <2>3. reserved'[o] = reserved[o] /\ confirmed'[o] = confirmed[o]
    <3>1. shippedOf(o) = Nothing
      BY <2>1 DEF Nothing
    <3> HIDE DEF shippedOf
    <3>2. reserved'[o] = Minus(reserved[o], Nothing) /\ confirmed'[o] = Plus(confirmed[o], Nothing)
      BY <1>1, <3>1
    <3>3. reserved[o] \in [InvLots -> Nat] /\ confirmed[o] \in [InvLots -> Nat]
      BY DEF TypeOK
    <3> QED BY <2>2, <3>2, <3>3 DEF Minus, Plus, Nothing
  <2>4. PlanUntouched(o)
    BY <1>1, <1>2, <1>3, <1>4, <2>3, SameRowsSamePlan
  <2> QED BY <2>4, UntouchedPlanKept DEF PlanInv
<1>5. ASSUME NEW o \in affected PROVE o \in OrderLines /\ PlanKept(o)'
  <2>1. PICK l \in InvLots : o \in OrderLines /\ <<o, l>> \in S
    BY DEF WaitingLines
  <2>2. reserved[o][l] > 0 /\ reserved[o][l] \in Nat /\ confirmed[o][l] \in Nat
    BY <1>1, <2>1 DEF TypeOK
  <2>3. confirmed'[o][l] = confirmed[o][l] + reserved[o][l]
    BY <1>1, <2>1 DEF Plus
  <2>4. confirmed'[o] # Nothing /\ reserved[o] # Nothing
    BY <2>2, <2>3 DEF Nothing
  <2>5. orders[o].decided /\ orders[o].status # "NONE"
    BY <2>1, <2>4 DEF PlanInv, PlanKept
  <2>6. orders'[o].decided /\ orders'[o].status # "NONE"
    <3>1. orders[o] \in OrderLine
      BY <2>1 DEF TypeOK
    <3>2. orders'[o] = orders[o] \/ orders'[o] = [orders[o] EXCEPT !.status = "DONE"]
      BY <1>2, <2>1
    <3> QED BY <2>5, <3>1, <3>2 DEF OrderLine
  <2>7. ~PlanStands(o)'
    BY <2>4 DEF PlanStands
  <2> QED BY <2>1, <2>6, <2>7, StartedPlanKept
<1> QED BY <1>4, <1>5 DEF PlanInv

\* What following a LOT's schedules leaves alone.
LEMMA SyncKeeps ==
  ASSUME TypeOK, NEW p \in ProdLots, NEW rs, SyncStatus(p, rs)
  PROVE  /\ \A o \in OrderLines :
              /\ o # lots[p].order => orders'[o] = orders[o]
              /\ orders'[o].partner = orders[o].partner /\ orders'[o].qty = orders[o].qty
              /\ orders'[o].decided = orders[o].decided /\ orders'[o].plan = orders[o].plan
              /\ orders'[o].status \in {orders[o].status, "DONE"}
         /\ \A x \in ProdLots : /\ x # p => lots'[x] = lots[x]
                                /\ lots'[x].order = lots[x].order
                                /\ lots'[x].rework = lots[x].rework
                                /\ lots'[x].qty = lots[x].qty
         /\ rounds' = rs
<1> DEFINE st == DeriveLotStatus(StatusesOf(p, rs), lots[p].status)
<1>1. /\ rounds' = rs
      /\ lots' = [lots EXCEPT ![p].status = st]
      /\ orders' = orders \/ orders' = [orders EXCEPT ![lots[p].order].status = "DONE"]
  BY DEF SyncStatus
<1> HIDE DEF st
<1>2. ASSUME NEW x \in ProdLots
      PROVE  /\ x # p => lots'[x] = lots[x]
             /\ lots'[x].order = lots[x].order
             /\ lots'[x].rework = lots[x].rework
             /\ lots'[x].qty = lots[x].qty
  <2>1. lots[x] \in Lot
    BY DEF TypeOK
  <2> QED BY <1>1, <2>1 DEF TypeOK, Lot
<1>3. ASSUME NEW o \in OrderLines
      PROVE  /\ o # lots[p].order => orders'[o] = orders[o]
             /\ orders'[o].partner = orders[o].partner /\ orders'[o].qty = orders[o].qty
             /\ orders'[o].decided = orders[o].decided /\ orders'[o].plan = orders[o].plan
             /\ orders'[o].status \in {orders[o].status, "DONE"}
  <2>1. orders[o] \in OrderLine
    BY DEF TypeOK
  <2>2. \/ orders'[o] = orders[o]
        \/ o = lots[p].order /\ orders'[o] = [orders[o] EXCEPT !.status = "DONE"]
    <3>1. \A x : orders' = [orders EXCEPT ![x].status = "DONE"] =>
            orders'[o] = IF o = x THEN [orders[o] EXCEPT !.status = "DONE"] ELSE orders[o]
      BY DEF TypeOK
    <3> QED BY <1>1, <3>1
  <2> QED BY <2>1, <2>2 DEF OrderLine
<1> QED BY <1>1, <1>2, <1>3

\* A schedule moves no plan.
LEMMA PlanOfSchedules ==
  ASSUME TypeOK, LifeInv, PlanInv, ScheduleNext
  PROVE  PlanInv'
<1>1. PICK p \in ProdLots, k \in RoundNos :
        CreateSchedule(p, k) \/ ReceiveSchedule(p, k) \/ StartSchedule(p, k) \/ CancelSchedule(p, k)
  BY DEF ScheduleNext
<1>2. UNCHANGED <<reserved, confirmed>>
  BY <1>1 DEF CreateSchedule, ReceiveSchedule, StartSchedule, CancelSchedule
<1>3. /\ rounds[p][k].status \notin {"PARTIAL_DONE", "DONE"}
      /\ \E st \in ScheduleStatuses : rounds' = [rounds EXCEPT ![p][k].status = st]
  BY <1>1 DEF CreateSchedule, ReceiveSchedule, StartSchedule, CancelSchedule, FreeRound,
     SyncStatus, ScheduleStatuses
<1>4. \A x \in ProdLots, j \in RoundNos : Inspected(rounds[x][j]) => Inspected(rounds'[x][j])
  BY <1>3 DEF TypeOK, Inspected
<1>5. lots[p] # NoLot /\ lots[p].order \in OrderLines
  <2>1. lots[p] # NoLot
    <3>1. CASE CreateSchedule(p, k)
      BY <3>1 DEF CreateSchedule, IsUnused
    <3>2. CASE rounds[p][k].status # "NONE"
      BY <3>2, ScheduledLot
    <3> QED BY <1>1, <3>1, <3>2 DEF ReceiveSchedule, StartSchedule, CancelSchedule
  <2> QED BY <2>1 DEF LifeInv, LotsLinked, TypeOK, Lot
<1>6. /\ \A o \in OrderLines :
           /\ o # lots[p].order => orders'[o] = orders[o]
           /\ orders'[o].qty = orders[o].qty /\ orders'[o].decided = orders[o].decided
           /\ orders'[o].plan = orders[o].plan
           /\ orders'[o].status \in {orders[o].status, "DONE"}
      /\ \A x \in ProdLots : /\ lots'[x].order = lots[x].order
                             /\ lots'[x].rework = lots[x].rework
                             /\ lots'[x].qty = lots[x].qty
  <2>1. CASE CreateSchedule(p, k)
    BY <2>1 DEF CreateSchedule
  <2>2. CASE \E rs : SyncStatus(p, rs)
    BY <2>2, SyncKeeps
  <2> QED BY <1>1, <2>1, <2>2 DEF ReceiveSchedule, StartSchedule, CancelSchedule
<1>7. ASSUME NEW o \in OrderLines PROVE PlanUntouched(o)
  <2>1. LotsOf(o)' = LotsOf(o)
    BY <1>6 DEF LotsOf
  <2>2. \/ orders'[o].status = orders[o].status
        \/ orders[o].decided /\ orders'[o].status # "NONE"
    <3>1. CASE o # lots[p].order
      BY <1>6, <3>1
    <3>2. CASE o = lots[p].order
      <4>1. orders[o].status \in {"CLOSED", "DONE"}
        BY <3>2 DEF LifeInv, ReleasedWithLot, LotsOf
      <4>2. orders[o].decided
        BY <4>1 DEF PlanInv, PlanKept
      <4> QED BY <1>6, <4>1, <4>2
    <3> QED BY <3>1, <3>2
  <2>3. \A x \in LotsOf(o), j \in RoundNos : Inspected(rounds[x][j]) => Inspected(rounds'[x][j])
    BY <1>4 DEF LotsOf
  <2>4. \A x \in LotsOf(o) : lots'[x].rework = lots[x].rework /\ lots'[x].qty = lots[x].qty
    BY <1>6 DEF LotsOf
  <2> QED BY <1>2, <1>6, <2>1, <2>2, <2>3, <2>4 DEF PlanUntouched
<1> QED BY <1>7, UntouchedPlanKept DEF PlanInv

\* A saved result starts the plan of its order line; other plans are untouched.
LEMMA PlanOfResults ==
  ASSUME TypeOK, LifeInv, PlanInv, ResultNext
  PROVE  PlanInv'
<1>1. PICK p \in ProdLots, k \in RoundNos, r \in Results, partial \in BOOLEAN :
        /\ Settle(p, k, partial, r)
        /\ rounds[p][k].status \in {"IN_PROGRESS", "DONE"}
  BY ResultSaves
<1>2. PICK o \in OrderLines : o = lots[p].order
  BY <1>1, ScheduledLot
<1>3. PICK saved \in Round :
        /\ saved.status = IF partial THEN "PARTIAL_DONE" ELSE "DONE"
        /\ SyncStatus(p, [rounds EXCEPT ![p] = RoundsSettled(p, k, partial, saved)])
  BY <1>1, SettleRounds
<1>4. rounds' = [rounds EXCEPT ![p] = RoundsSettled(p, k, partial, saved)]
  BY <1>3 DEF SyncStatus
<1>5. Inspected(rounds'[p][k]) /\ \A x \in ProdLots : x # p => rounds'[x] = rounds[x]
  <2>1. rounds'[p][k] = saved
    BY <1>4 DEF TypeOK, RoundsSettled
  <2> QED BY <1>3, <1>4, <2>1 DEF TypeOK, Inspected
<1>6. /\ \A x \in OrderLines : x # o => orders'[x] = orders[x]
      /\ orders'[o].decided = orders[o].decided
      /\ orders'[o].status \in {orders[o].status, "DONE"}
      /\ \A x \in ProdLots : /\ x # p => lots'[x] = lots[x]
                             /\ lots'[x].order = lots[x].order
  BY <1>2, <1>3, SyncKeeps
<1>7. \A x \in OrderLines : LotsOf(x)' = LotsOf(x)
  BY <1>6 DEF LotsOf
<1>8. UNCHANGED confirmed /\ \A x \in OrderLines : x # o => reserved'[x] = reserved[x]
  BY <1>1, <1>2 DEF Settle, LeaveReserved, TypeOK
<1>9. ASSUME NEW x \in OrderLines, x # o PROVE PlanKept(x)'
  <2>1. \A y \in LotsOf(x) : lots'[y] = lots[y] /\ rounds'[y] = rounds[y]
    BY <1>2, <1>5, <1>6, <1>9 DEF LotsOf
  <2>2. PlanUntouched(x)
    BY <1>6, <1>7, <1>8, <1>9, <2>1, SameRowsSamePlan
  <2> QED BY <2>2, UntouchedPlanKept DEF PlanInv
<1>10. PlanKept(o)'
  <2>1. p \in LotsOf(o)
    BY <1>2 DEF LotsOf
  <2>2. orders[o].status \in {"CLOSED", "DONE"}
    BY <2>1 DEF LifeInv, ReleasedWithLot
  <2>3. orders[o].decided
    BY <2>2 DEF PlanInv, PlanKept
  <2>4. ~PlanStands(o)'
    BY <1>5, <1>7, <2>1 DEF PlanStands
  <2> QED BY <1>6, <2>2, <2>3, <2>4, StartedPlanKept
<1> QED BY <1>9, <1>10 DEF PlanInv

\* An adjustment concerns no plan.
LEMMA PlanOfNothing ==
  ASSUME PlanInv, UNCHANGED <<orders, lots, rounds, reserved, confirmed>>
  PROVE  PlanInv'
<1>1. \A o \in OrderLines : LotsOf(o)' = LotsOf(o)
  BY DEF LotsOf
<1>2. \A o \in OrderLines : PlanUntouched(o)
  BY <1>1, SameRowsSamePlan
<1> QED BY <1>2, UntouchedPlanKept DEF PlanInv

\* Every request keeps the plans.
LEMMA PlanStep ==
  ASSUME TypeOK, LifeInv, RoundsBooked, PlanInv, [Next]_vars
  PROVE  PlanInv'
<1>1. CASE OrderNext
  BY <1>1, PlanOfRegistration, PlanOfDecision, PlanOfBaseLot, PlanOfQuantityChange,
     PlanOfEdit, PlanOfClosing, PlanOfDeletion DEF OrderNext
<1>2. CASE ReworkNext
  BY <1>2, PlanOfRework DEF ReworkNext
<1>3. CASE StockNext
  BY <1>3, PlanOfShipment, PlanOfNothing DEF StockNext, AdjustIn, AdjustOut
<1>4. CASE UNCHANGED vars
  BY <1>4, PlanOfNothing DEF vars
<1> QED BY <1>1, <1>2, <1>3, <1>4, PlanOfSchedules, PlanOfResults DEF Next

\* In an empty database there are no plans.
LEMMA PlanInit == Init => PlanInv
BY DEF Init, PlanInv, PlanKept, PlanStands, NoOrderLine

\* The strengthened invariant holds in every reachable state.
LEMMA PlanInvariant == Spec => []PlanInv
BY PlanInit, PlanStep, TypeCorrect, LifeInvariant, BookedInvariant, PTL DEF Spec

\* A plan of partial stock and production that nothing was shipped of stands.
LEMMA StandingPlanCovers ==
  ASSUME TypeOK, PlanInv, NEW o \in OrderLines, Stands(o)
  PROVE  PlanCovers(o)
<1>1. PlanStands(o)
  <2>1. confirmed[o] = Nothing
    <3>1. confirmed[o] \in [InvLots -> Nat]
      BY DEF TypeOK
    <3>2. SumFunction(confirmed[o]) = 0
      <4>1. SumFunction(confirmed[o]) \in Nat
        BY <3>1, SumOverLots
      <4> DEFINE g == [pk \in ProdLots \X RoundNos |-> SumFunction(rounds[pk[1]][pk[2]].ship)]
                 shipped == SumFunctionOnSet(g, RoundsOf(o, lots))
      <4>2. shipped \in Nat
        <5>1. RoundsOf(o, lots) \subseteq ProdLots \X RoundNos
          BY DEF RoundsOf
        <5>2. \A pk \in RoundsOf(o, lots) : g[pk] \in Nat
          <6>1. \A pk \in ProdLots \X RoundNos : rounds[pk[1]][pk[2]].ship \in [InvLots -> Nat]
            BY DEF TypeOK, Round
          <6> QED BY <5>1, <6>1, SumOverLots
        <5>3. IsFiniteSet(RoundsOf(o, lots))
          BY <5>1, FiniteRows, FS_Subset
        <5> HIDE DEF g
        <5> QED BY <5>2, <5>3, SumNat
      <4>3. SumFunction(confirmed[o]) + shipped = 0
        BY DEF Stands, Untouched, Shipped, ShippedGiven
      <4> HIDE DEF shipped
      <4> QED BY <4>1, <4>2, <4>3
    <3>3. ASSUME NEW l \in InvLots PROVE confirmed[o][l] = 0
      BY <3>1, <3>2, SumOfNothing
    <3> QED BY <3>1, <3>3 DEF Nothing
  <2>2. \A p \in LotsOf(o), k \in RoundNos : ~Inspected(rounds[p][k])
    BY DEF Stands, Untouched, Inspected
  <2> QED BY <2>1, <2>2 DEF Stands, PlanStands
<1> QED BY <1>1 DEF PlanInv, PlanKept, PlanCovers

\* A row that keeps its plan and what the target follows from is no more outdated.
LEMMA SameAge ==
  ASSUME NEW o \in OrderLines,
         \/ ~orders'[o].decided
         \/ /\ orders'[o].qty = orders[o].qty /\ orders'[o].partner = orders[o].partner
            /\ orders'[o].decided = orders[o].decided /\ orders'[o].plan = orders[o].plan
  PROVE  Outdated(o)' => Outdated(o)
BY DEF Outdated, Target

\* A plan is made for the target that its order line has then.
LEMMA DecisionAge ==
  ASSUME TypeOK, NEW o \in OrderLines, NEW type, NEW available, NEW remaining, NEW st,
         Decide(o, type, available, remaining, st)
  PROVE  \A x \in OrderLines : Outdated(x)' => Outdated(x)
<1>1. ~Outdated(o)'
  <2>1. Target(o)' = Target(o)
    BY DecidedRow DEF Target
  <2> QED BY <2>1, DecidedRow DEF Outdated
<1>2. \A x \in OrderLines : x # o => orders'[x] = orders[x]
  BY DecidedRow
<1> QED BY <1>1, <1>2, SameAge

\* A changed quantity makes the plan anew, for the new target.
LEMMA QuantityAge ==
  ASSUME TypeOK, NEW o \in OrderLines, NEW q \in OrderQtys,
         \/ ChangeQuantityBeforeLot(o, q)
         \/ \E p \in ProdLots : ChangeQuantityOfLot(o, p, q)
  PROVE  \A x \in OrderLines : Outdated(x)' => Outdated(x)
<1>1. orders[o] \in OrderLine
  BY DEF TypeOK
<1>2. CASE ChangeQuantityBeforeLot(o, q)
  <2>1. ~orders'[o].decided /\ \A x \in OrderLines : x # o => orders'[x] = orders[x]
    BY <1>1, <1>2 DEF ChangeQuantityBeforeLot, TypeOK, OrderLine
  <2> QED BY <2>1, SameAge
<1>3. CASE \E p \in ProdLots : ChangeQuantityOfLot(o, p, q)
  <2> DEFINE plan == RevisedPlan(o, q)
  <2>1. orders' = [orders EXCEPT ![o].qty = q, ![o].plan = plan]
    BY <1>3 DEF ChangeQuantityOfLot
  <2>2. plan.type # "STOCK_REPLENISHMENT" => plan.target = TargetOf(orders[o].partner, q)
    BY DEF RevisedPlan
  <2> HIDE DEF plan
  <2>3. /\ orders'[o].qty = q /\ orders'[o].plan = plan /\ orders'[o].partner = orders[o].partner
        /\ \A x \in OrderLines : x # o => orders'[x] = orders[x]
    BY <1>1, <2>1 DEF TypeOK, OrderLine
  <2>4. ~Outdated(o)'
    BY <2>2, <2>3 DEF Outdated, Target
  <2> QED BY <2>3, <2>4, SameAge
<1> QED BY <1>2, <1>3

\* Of the requests about order lines, only an edit leaves a plan behind its target.
LEMMA PlanningAge ==
  ASSUME TypeOK, OrderNext, NEW x \in OrderLines, Outdated(x)', ~Outdated(x)
  PROVE  orders[x].status = "OPEN" /\ orders'[x].partner # orders[x].partner
<1>1. PICK o \in OrderLines :
        \/ \E partner \in Partners, number \in OrderNumbers :
             \/ \E q \in OrderQtys : CreateOrderLine(o, partner, number, q)
             \/ EditOrderLine(o, partner, number)
        \/ \E q \in OrderQtys : \/ ChangeQuantityBeforeLot(o, q)
                                \/ \E p \in ProdLots : ChangeQuantityOfLot(o, p, q)
        \/ \E type \in PlanTypes : ConfirmProductionPlan(o, type) \/ ConfirmStockPlan(o, type)
        \/ ConfirmPartialPlan(o)
        \/ \E p \in ProdLots : CreateBaseLot(o, p)
        \/ CancelOrderLine(o) \/ ShortClose(o) \/ DeleteOrderLines(o)
  BY DEF OrderNext
<1>2. orders[o] \in OrderLine
  BY DEF TypeOK
<1>3. ASSUME NEW partner \in Partners, NEW number \in OrderNumbers, NEW q \in OrderQtys,
             CreateOrderLine(o, partner, number, q)
      PROVE  FALSE
  <2>1. ~Outdated(o)'
    <3>1. Target(o)' = TargetOf(partner, q)
      BY <1>3, RegisteredRow DEF Target
    <3>2. \/ ~orders'[o].decided \/ orders'[o].plan.type = "STOCK_REPLENISHMENT"
          \/ orders'[o].plan.target = TargetOf(partner, q)
      BY <1>3, RegisteredRow
    <3> QED BY <3>1, <3>2 DEF Outdated
  <2>2. x # o => orders'[x] = orders[x]
    BY <1>3, RegisteredRow
  <2> QED BY <2>1, <2>2, SameAge
<1>4. ASSUME NEW partner \in Partners, NEW number \in OrderNumbers, EditOrderLine(o, partner, number)
      PROVE  orders[x].status = "OPEN" /\ orders'[x].partner # orders[x].partner
  <2>1. x = o
    <3>1. x # o => orders'[x] = orders[x]
      BY <1>4, EditedRow
    <3> QED BY <3>1, SameAge
  <2>2. orders'[x].partner # orders[x].partner
    BY <1>4, EditedRow, SameAge
  <2> QED BY <1>4, <2>1, <2>2, EditedRow
<1>5. ASSUME NEW type \in PlanTypes,
             ConfirmProductionPlan(o, type) \/ ConfirmStockPlan(o, type) \/ ConfirmPartialPlan(o)
      PROVE  FALSE
  BY <1>5, DecisionAge DEF ConfirmProductionPlan, ConfirmStockPlan, ConfirmPartialPlan
<1>6. ASSUME (\E p \in ProdLots : CreateBaseLot(o, p)) \/ CancelOrderLine(o) \/ ShortClose(o)
      PROVE  FALSE
  <2>1. \E st : orders' = [orders EXCEPT ![o].status = st]
    BY <1>6 DEF CreateBaseLot, CancelOrderLine, ShortClose
  <2>2. orders[x] \in OrderLine
    BY DEF TypeOK
  <2>3. /\ orders'[x].qty = orders[x].qty /\ orders'[x].partner = orders[x].partner
        /\ orders'[x].decided = orders[x].decided /\ orders'[x].plan = orders[x].plan
    BY <1>2, <2>1, <2>2 DEF TypeOK, OrderLine
  <2> QED BY <2>3, SameAge
<1>7. ASSUME DeleteOrderLines(o) PROVE FALSE
  <2>1. orders'[x] \in {NoOrderLine, orders[x]}
    BY <1>7 DEF DeleteOrderLines
  <2>2. ~NoOrderLine.decided
    BY DEF NoOrderLine
  <2> QED BY <2>1, <2>2, SameAge
<1>8. PlanTypes # {}
  BY DEF PlanTypes
<1> QED BY <1>1, <1>3, <1>4, <1>5, <1>6, <1>7, <1>8, QuantityAge

\* No step but an edit makes a plan one for another target than its order line has.
LEMMA OutdatedStep ==
  ASSUME TypeOK, LifeInv, [Next]_vars, NEW x \in OrderLines, Outdated(x)', ~Outdated(x)
  PROVE  orders[x].status = "OPEN" /\ orders'[x].partner # orders[x].partner
<1>1. orders[x] \in OrderLine
  BY DEF TypeOK
<1>2. \A st : orders'[x] = [orders[x] EXCEPT !.status = st] => FALSE
  <2> SUFFICES ASSUME NEW st, orders'[x] = [orders[x] EXCEPT !.status = st]
               PROVE  FALSE
    OBVIOUS
  <2>1. /\ orders'[x].qty = orders[x].qty /\ orders'[x].partner = orders[x].partner
        /\ orders'[x].decided = orders[x].decided /\ orders'[x].plan = orders[x].plan
    BY <1>1 DEF OrderLine
  <2> QED BY <2>1, SameAge
<1>3. orders'[x] # orders[x]
  BY SameAge
<1>4. \A y, st : orders' # [orders EXCEPT ![y].status = st]
  BY <1>2, <1>3 DEF TypeOK
<1>5. ~ReworkNext
  BY <1>4 DEF ReworkNext, CreateReworkLot
<1>6. ~StockNext
  <2>1. ASSUME NEW S \in SUBSET WaitingLines, NEW first \in OrderLines, ConfirmShipment(S, first)
        PROVE  FALSE
    <3>1. orders'[x] = orders[x] \/ orders'[x] = [orders[x] EXCEPT !.status = "DONE"]
      BY <2>1 DEF ConfirmShipment
    <3> QED BY <1>2, <1>3, <3>1
  <2> QED BY <1>3, <2>1 DEF StockNext, AdjustIn, AdjustOut
<1>7. \A p, rs : ~SyncStatus(p, rs)
  BY <1>3, <1>4 DEF SyncStatus
<1>8. ~ScheduleNext
  BY <1>3, <1>7 DEF ScheduleNext, CreateSchedule, ReceiveSchedule, StartSchedule, CancelSchedule
<1>9. ~ResultNext
  <2> SUFFICES ASSUME ResultNext PROVE FALSE
    OBVIOUS
  <2>1. PICK p \in ProdLots, k \in RoundNos, r \in Results, partial \in BOOLEAN :
          Settle(p, k, partial, r)
    BY ResultSaves
  <2>2. \E rs : SyncStatus(p, rs)
    BY <2>1, SettleRounds
  <2> QED BY <1>7, <2>2
<1>10. CASE OrderNext
  BY <1>10, PlanningAge
<1> QED BY <1>3, <1>5, <1>6, <1>8, <1>9, <1>10 DEF Next, vars

\* Every plan that stands covers its target.
PlansCover == \A o \in OrderLines : Stands(o) => PlanCovers(o)

LEMMA PlansCoverInvariant == Spec => []PlansCover
<1>1. TypeOK /\ PlanInv => PlansCover
  BY StandingPlanCovers DEF PlansCover
<1> QED BY <1>1, TypeCorrect, PlanInvariant, PTL

\* Until something is shipped or received, a plan fills the target it was made for:
\* what is reserved is what the plan says, and with what is to be produced it makes
\* up that target, after every change of the quantity.  It is the target of the order
\* line, but for another partner that was entered while the order line was OPEN.
THEOREM PlansCoverTarget == Spec => PlanCoversTarget
<1>1. TypeOK /\ LifeInv /\ PlansCover' /\ [Next]_vars =>
        [\A o \in OrderLines :
           /\ Stands(o)' => PlanCovers(o)'
           /\ Outdated(o)' => \/ Outdated(o)
                              \/ /\ orders[o].status = "OPEN"
                                 /\ orders'[o].partner # orders[o].partner]_vars
  BY OutdatedStep DEF PlansCover
<1> QED BY <1>1, TypeCorrect, LifeInvariant, PlansCoverInvariant, PTL DEF Spec, PlanCoversTarget
-----------------------------------------------------------------------------
(* What is shipped, and how an order line lives.                           *)

\* What each round ships for an order line, when the rows are these.
RoundShips(o, ls, rs) ==
  [pk \in ProdLots \X RoundNos |->
     IF ls[pk[1]].order = o THEN SumFunction(rs[pk[1]][pk[2]].ship) ELSE 0]

\* What is shipped for an order line, as a sum over all rounds.
LEMMA ShippedRows ==
  ASSUME NEW o, NEW ls, NEW cf, NEW rs \in [ProdLots -> [RoundNos -> Round]]
  PROVE  /\ ShippedGiven(o, cf, ls, rs)
              = SumFunction(cf[o]) + SumFunctionOnSet(RoundShips(o, ls, rs), ProdLots \X RoundNos)
         /\ RoundShips(o, ls, rs) \in [ProdLots \X RoundNos -> Nat]
<1> DEFINE D == ProdLots \X RoundNos
           g == [pk \in D |-> SumFunction(rs[pk[1]][pk[2]].ship)]
           h == RoundShips(o, ls, rs)
           A == RoundsOf(o, ls)
           B == D \ A
<1>1. A \subseteq D /\ A \cup B = D /\ A \cap B = {}
  BY DEF RoundsOf
<1>2. IsFiniteSet(A) /\ IsFiniteSet(B)
  BY <1>1, FiniteRows, FS_Subset
<1>3. \A pk \in D : g[pk] \in Nat
  <2>1. \A pk \in D : rs[pk[1]][pk[2]].ship \in [InvLots -> Nat]
    BY DEF Round
  <2> QED BY <2>1, SumOverLots
<1>4. \A pk \in D : h[pk] = (IF pk \in A THEN g[pk] ELSE 0) /\ h[pk] \in Nat
  BY <1>3 DEF RoundsOf, RoundShips
<1>5. ShippedGiven(o, cf, ls, rs) = SumFunction(cf[o]) + SumFunctionOnSet(g, A)
  BY DEF ShippedGiven
<1>6. h = [pk \in D |-> h[pk]]
  BY DEF RoundShips
<1> HIDE DEF g, h, A, B, D
<1>7. SumFunctionOnSet(h, A) = SumFunctionOnSet(g, A)
  BY <1>1, <1>2, <1>4, SumSame
<1>8. SumFunctionOnSet(h, B) = 0
  BY <1>1, <1>2, <1>4, SumZero DEF B
<1>9. SumFunctionOnSet(h, A) \in Int
  BY <1>1, <1>2, <1>4, SumType
<1>10. SumFunctionOnSet(h, D) = SumFunctionOnSet(h, A) + SumFunctionOnSet(h, B)
  BY <1>1, <1>2, <1>4, SumDisjoint
<1>11. SumFunctionOnSet(h, D) = SumFunctionOnSet(g, A)
  BY <1>7, <1>8, <1>9, <1>10
<1>12. h \in [D -> Nat]
  BY <1>4, <1>6
<1> QED BY <1>5, <1>11, <1>12 DEF D, h

\* The same of the rows as they are, and as a request leaves them.
LEMMA ShippedAsRows ==
  ASSUME TypeOK, TypeOK', NEW o
  PROVE  /\ Shipped(o) = SumFunction(confirmed[o])
                         + SumFunctionOnSet(RoundShips(o, lots, rounds), ProdLots \X RoundNos)
         /\ Shipped(o)' = SumFunction(confirmed'[o])
                          + SumFunctionOnSet(RoundShips(o, lots', rounds'), ProdLots \X RoundNos)
         /\ RoundShips(o, lots, rounds) \in [ProdLots \X RoundNos -> Nat]
         /\ RoundShips(o, lots', rounds') \in [ProdLots \X RoundNos -> Nat]
<1>1. rounds \in [ProdLots -> [RoundNos -> Round]] /\ rounds' \in [ProdLots -> [RoundNos -> Round]]
  BY DEF TypeOK
<1>2. /\ Shipped(o) = ShippedGiven(o, confirmed, lots, rounds)
      /\ Shipped(o)' = ShippedGiven(o, confirmed', lots', rounds')
  BY DEF Shipped
<1>3. \A ls, cf, rs : rs \in [ProdLots -> [RoundNos -> Round]] =>
        /\ ShippedGiven(o, cf, ls, rs)
             = SumFunction(cf[o]) + SumFunctionOnSet(RoundShips(o, ls, rs), ProdLots \X RoundNos)
        /\ RoundShips(o, ls, rs) \in [ProdLots \X RoundNos -> Nat]
  BY ShippedRows
<1> QED BY <1>1, <1>2, <1>3, Zenon

\* A LOT that gets another order line has shipped nothing.
OnlyIdleLotsMove ==
  \A p \in ProdLots, k \in RoundNos :
    lots'[p].order = lots[p].order \/ rounds[p][k].ship = Nothing

\* An order line is shipped no more and no less while the movements stay.
LEMMA ShippedSame ==
  ASSUME TypeOK, TypeOK', MovementsKept, OnlyIdleLotsMove,
         NEW o \in OrderLines, confirmed'[o] = confirmed[o]
  PROVE  Shipped(o)' = Shipped(o)
<1>1. ASSUME NEW pk \in ProdLots \X RoundNos
      PROVE  RoundShips(o, lots', rounds')[pk] = RoundShips(o, lots, rounds)[pk]
  <2>1. pk[1] \in ProdLots /\ pk[2] \in RoundNos
    OBVIOUS
  <2>2. rounds'[pk[1]][pk[2]].ship = rounds[pk[1]][pk[2]].ship
    BY <2>1 DEF MovementsKept
  <2>3. lots'[pk[1]].order = lots[pk[1]].order \/ rounds[pk[1]][pk[2]].ship = Nothing
    BY <2>1 DEF OnlyIdleLotsMove
  <2> QED BY <2>2, <2>3, NothingSum DEF RoundShips
<1>2. RoundShips(o, lots', rounds') = RoundShips(o, lots, rounds)
  BY <1>1 DEF RoundShips
<1> QED BY <1>2, ShippedAsRows

\* A saved round changes what is shipped for its order line by what it ships.
LEMMA ShippedSaved ==
  ASSUME TypeOK, TypeOK', NEW p \in ProdLots, NEW k \in RoundNos, OtherMovementsKept(p, k),
         \A x \in ProdLots : lots'[x].order = lots[x].order,
         NEW o \in OrderLines, confirmed'[o] = confirmed[o]
  PROVE  Shipped(o)' = Shipped(o)
           + (IF lots[p].order = o
              THEN SumFunction(rounds'[p][k].ship) - SumFunction(rounds[p][k].ship) ELSE 0)
<1> DEFINE D == ProdLots \X RoundNos
           h == RoundShips(o, lots, rounds)
           n == RoundShips(o, lots', rounds')
<1>1. ASSUME NEW pk \in D, pk # <<p, k>> PROVE n[pk] = h[pk]
  <2>1. pk[1] \in ProdLots /\ pk[2] \in RoundNos /\ (pk[1] # p \/ pk[2] # k)
    BY <1>1
  <2>2. rounds'[pk[1]][pk[2]].ship = rounds[pk[1]][pk[2]].ship
    BY <2>1 DEF OtherMovementsKept
  <2> QED BY <2>1, <2>2 DEF RoundShips
<1> <<p, k>> \in D
  OBVIOUS
<1>2. /\ h[<<p, k>>] = IF lots[p].order = o THEN SumFunction(rounds[p][k].ship) ELSE 0
      /\ n[<<p, k>>] = IF lots[p].order = o THEN SumFunction(rounds'[p][k].ship) ELSE 0
  BY DEF RoundShips
<1>3. /\ Shipped(o) = SumFunction(confirmed[o]) + SumFunctionOnSet(h, D)
      /\ Shipped(o)' = SumFunction(confirmed'[o]) + SumFunctionOnSet(n, D)
      /\ h \in [D -> Nat] /\ n \in [D -> Nat]
  BY ShippedAsRows
<1>4. SumFunction(confirmed[o]) \in Nat
  BY SumOverLots DEF TypeOK
<1>5. IsFiniteSet(D)
  BY FiniteRows
<1> HIDE DEF h, n, D
<1>6. \A pk \in D : h[pk] \in Int /\ n[pk] \in Int /\ (pk # <<p, k>> => n[pk] = h[pk])
  BY <1>1, <1>3
<1>7. SumFunctionOnSet(n, D) = SumFunctionOnSet(h, D) + n[<<p, k>>] - h[<<p, k>>]
  BY <1>5, <1>6, SumChange
<1>8. SumFunctionOnSet(h, D) \in Int /\ SumFunctionOnSet(n, D) \in Int
  BY <1>5, <1>6, SumType
<1>9. n[<<p, k>>] \in Int /\ h[<<p, k>>] \in Int
  BY <1>6
<1> QED BY <1>2, <1>3, <1>4, <1>7, <1>8, <1>9

\* A LOT that is created has shipped nothing yet.
LEMMA NewLotIsIdle ==
  ASSUME TypeOK, LifeInv, RoundsBooked, NEW o, NEW p \in ProdLots, NEW q, NEW rework,
         IsUnused(p), NewLot(o, p, q, rework)
  PROVE  OnlyIdleLotsMove
<1>1. \A k \in RoundNos : rounds[p][k].ship = Nothing
  BY DEF LifeInv, LotsLinked, RoundsBooked, RoundBooked, IsUnused
<1>2. \A x \in ProdLots : x # p => lots'[x] = lots[x]
  BY DEF NewLot, TypeOK
<1> QED BY <1>1, <1>2 DEF OnlyIdleLotsMove

\* Requests about an order line ship nothing, but for a plan that ships from stock.
LEMMA PlanningShips ==
  ASSUME TypeOK, TypeOK', LifeInv, RoundsBooked, OrderNext,
         ~\E o \in OrderLines, type \in PlanTypes : ConfirmStockPlan(o, type)
  PROVE  \A o \in OrderLines : Shipped(o)' = Shipped(o)
<1>1. PICK o \in OrderLines :
        \/ \E partner \in Partners, number \in OrderNumbers :
             \/ \E q \in OrderQtys : CreateOrderLine(o, partner, number, q)
             \/ EditOrderLine(o, partner, number)
        \/ \E q \in OrderQtys :
             \/ ChangeQuantityBeforeLot(o, q)
             \/ \E p \in ProdLots : ChangeQuantityOfLot(o, p, q)
        \/ \E type \in PlanTypes : ConfirmProductionPlan(o, type)
        \/ \E type \in PlanTypes : ConfirmStockPlan(o, type)
        \/ ConfirmPartialPlan(o)
        \/ \E p \in ProdLots : CreateBaseLot(o, p)
        \/ CancelOrderLine(o)
        \/ ShortClose(o)
        \/ DeleteOrderLines(o)
  BY DEF OrderNext
<1>2. UNCHANGED confirmed /\ MovementsKept
  <2>1. ASSUME NEW x \in OrderLines, DeleteOrderLines(x) PROVE UNCHANGED confirmed /\ MovementsKept
    BY <2>1, DeletionBooked DEF DeleteOrderLines
  <2> QED BY <2>1, PlanningMovesNoStock DEF MovementsKept
<1>3. OnlyIdleLotsMove
  <2>1. ASSUME NEW p \in ProdLots, NEW q, CreatePrimaryLot(o, p, q) PROVE OnlyIdleLotsMove
    BY <2>1, NewLotIsIdle DEF CreatePrimaryLot
  <2>2. CASE UNCHANGED lots
    BY <2>2 DEF OnlyIdleLotsMove
  <2>3. CASE \E partner \in Partners, number \in OrderNumbers :
               \/ \E q \in OrderQtys : CreateOrderLine(o, partner, number, q)
               \/ EditOrderLine(o, partner, number)
    BY <2>1, <2>2, <2>3 DEF CreateOrderLine, EditOrderLine
  <2>4. CASE \E q \in OrderQtys : ChangeQuantityBeforeLot(o, q)
    BY <2>2, <2>4 DEF ChangeQuantityBeforeLot
  <2>5. ASSUME NEW p \in ProdLots, NEW q \in OrderQtys, ChangeQuantityOfLot(o, p, q)
        PROVE  OnlyIdleLotsMove
    <3>1. lots' = [lots EXCEPT ![p].qty = RevisedPlan(o, q).production]
      BY <2>5 DEF ChangeQuantityOfLot
    <3>2. \A x \in ProdLots : lots'[x].order = lots[x].order
      BY <3>1 DEF TypeOK, Lot
    <3> QED BY <3>2 DEF OnlyIdleLotsMove
  <2>6. CASE \E type \in PlanTypes : ConfirmProductionPlan(o, type)
    BY <2>1, <2>2, <2>6 DEF ConfirmProductionPlan
  <2>7. CASE ConfirmPartialPlan(o) \/ CancelOrderLine(o) \/ ShortClose(o)
    BY <2>2, <2>7 DEF ConfirmPartialPlan, CancelOrderLine, ShortClose
  <2>8. CASE \E p \in ProdLots : CreateBaseLot(o, p)
    BY <2>1, <2>8 DEF CreateBaseLot
  <2>9. CASE DeleteOrderLines(o)
    <3> DEFINE group == {x \in OrderLines : /\ orders[x].status # "NONE"
                                            /\ orders[x].number = orders[o].number}
               gone == {p \in ProdLots : lots[p].order \in group}
    <3>1. /\ \A p \in ProdLots \ gone : lots'[p] = lots[p]
          /\ \A p \in gone, k \in RoundNos : rounds[p][k].status \in {"NONE", "WAITING", "CANCELED"}
      BY <2>9 DEF DeleteOrderLines, MayDelete
    <3>2. \A p \in gone, k \in RoundNos : rounds[p][k].ship = Nothing
      BY <3>1 DEF RoundsBooked, RoundBooked
    <3> QED BY <3>1, <3>2 DEF OnlyIdleLotsMove
  <2> QED BY <1>1, <2>3, <2>4, <2>5, <2>6, <2>7, <2>8, <2>9
<1> QED BY <1>2, <1>3, ShippedSame

\* Only three kinds of requests ship: plans from stock, confirmations and results.
LEMMA WhoShips ==
  ASSUME TypeOK, TypeOK', LifeInv, RoundsBooked, [Next]_vars
  PROVE  \/ \A o \in OrderLines : Shipped(o)' = Shipped(o)
         \/ \E o \in OrderLines, type \in PlanTypes : ConfirmStockPlan(o, type)
         \/ \E S \in SUBSET WaitingLines, first \in OrderLines : ConfirmShipment(S, first)
         \/ ResultNext
<1>1. CASE UNCHANGED <<lots, rounds, confirmed>>
  BY <1>1 DEF Shipped
<1>2. CASE OrderNext
  BY <1>2, PlanningShips
<1>3. CASE ReworkNext
  <2>1. UNCHANGED confirmed /\ MovementsKept
    BY <1>3 DEF ReworkNext, CreateReworkLot, MovementsKept
  <2>2. OnlyIdleLotsMove
    BY <1>3, NewLotIsIdle DEF ReworkNext, CreateReworkLot
  <2> QED BY <2>1, <2>2, ShippedSame
<1>4. CASE StockNext
  BY <1>1, <1>4 DEF StockNext, AdjustIn, AdjustOut
<1>5. CASE ScheduleNext
  <2>1. UNCHANGED confirmed /\ MovementsKept
    BY <1>5, ScheduleBooked
  <2>2. \A x \in ProdLots : lots'[x].order = lots[x].order
    <3>1. PICK p \in ProdLots, k \in RoundNos :
            CreateSchedule(p, k) \/ ReceiveSchedule(p, k) \/ StartSchedule(p, k) \/ CancelSchedule(p, k)
      BY <1>5 DEF ScheduleNext
    <3>2. CASE CreateSchedule(p, k)
      BY <3>2 DEF CreateSchedule
    <3>3. CASE \E rs : SyncStatus(p, rs)
      BY <3>3, SyncKeeps
    <3> QED BY <3>1, <3>2, <3>3 DEF ReceiveSchedule, StartSchedule, CancelSchedule
  <2>3. OnlyIdleLotsMove
    BY <2>2 DEF OnlyIdleLotsMove
  <2> QED BY <2>1, <2>3, ShippedSame
<1>6. CASE UNCHANGED vars
  BY <1>1, <1>6 DEF vars
<1> QED BY <1>2, <1>3, <1>4, <1>5, <1>6 DEF Next

\* A plan that ships from stock ships what was planned, and that is something
\* that still remains to be shipped.
LEMMA StockPlanShips ==
  ASSUME TypeOK, NEW o \in OrderLines, NEW type \in PlanTypes, ConfirmStockPlan(o, type)
  PROVE  /\ \A x \in OrderLines : x # o => Shipped(x)' = Shipped(x)
         /\ Shipped(o)' > Shipped(o) /\ Shipped(o)' <= Target(o)
         /\ Target(o)' = Target(o)
<1> DEFINE planned == PlannedStock(type, Available, Remaining(o))
           shippedOf(x) == SumFunctionOnSet([pk \in ProdLots \X RoundNos |->
                                               SumFunction(rounds[pk[1]][pk[2]].ship)],
                                            RoundsOf(x, lots))
<1>1. PICK take \in Takes(Available) :
        SumFunction(take) = planned /\ confirmed' = [confirmed EXCEPT ![o] = take]
  BY DEF ConfirmStockPlan, TakesInOrder
<1>2. UNCHANGED <<lots, rounds>> /\ confirmed[o] = Nothing
  BY DEF ConfirmStockPlan, HasNoStockLine
<1>3. confirmed'[o] = take /\ \A x \in OrderLines : x # o => confirmed'[x] = confirmed[x]
  BY <1>1 DEF TypeOK
<1>4. \A x \in OrderLines : x # o => Shipped(x)' = Shipped(x)
  BY <1>2, <1>3 DEF Shipped, ShippedGiven
<1>5. Shipped(o) = 0 + shippedOf(o) /\ Shipped(o)' = planned + shippedOf(o)
  BY <1>1, <1>2, <1>3, NothingSum DEF Shipped, ShippedGiven
<1>6. Shipped(o) \in Nat /\ Target(o) \in Nat /\ Remaining(o) \in Nat /\ Available \in Nat
  BY QuantityTypes
<1>7. planned \in Nat /\ planned > 0 /\ planned <= Remaining(o)
  <2>1. /\ type \in {"STOCK_SHIP_COMPLETE", "AUTO_STOCK_SHIP", "PARTIAL_STOCK_ONLY_CLOSE"}
        /\ type \in AcceptedPlans(Available, Remaining(o))
    BY DEF ConfirmStockPlan, MayDecide
  <2> QED BY <1>6, <2>1 DEF AcceptedPlans, PlannedStock
<1>8. Target(o)' = Target(o)
  BY DecidedRow DEF ConfirmStockPlan, Target
<1>9. shippedOf(o) \in Int
  <2>1. RoundsOf(o, lots) \subseteq ProdLots \X RoundNos
    BY DEF RoundsOf
  <2>2. IsFiniteSet(RoundsOf(o, lots))
    BY <2>1, FiniteRows, FS_Subset
  <2> DEFINE g == [pk \in ProdLots \X RoundNos |-> SumFunction(rounds[pk[1]][pk[2]].ship)]
  <2>3. \A pk \in RoundsOf(o, lots) : g[pk] \in Int
    <3>1. \A pk \in ProdLots \X RoundNos : rounds[pk[1]][pk[2]].ship \in [InvLots -> Nat]
      BY DEF TypeOK, Round
    <3> QED BY <2>1, <3>1, SumOverLots
  <2> HIDE DEF g
  <2>4. SumFunctionOnSet(g, RoundsOf(o, lots)) \in Int
    BY <2>2, <2>3, SumType
  <2> QED BY <2>4 DEF g
<1> HIDE DEF planned, shippedOf
<1> QED BY <1>4, <1>5, <1>6, <1>7, <1>8, <1>9 DEF Remaining, AtLeastZero

\* A confirmation ships of an order line what its reservation loses.
LEMMA ShipmentShips ==
  ASSUME TypeOK, TypeOK', NEW S \in SUBSET WaitingLines, NEW first \in OrderLines,
         ConfirmShipment(S, first), NEW o \in OrderLines
  PROVE  /\ Shipped(o)' - Shipped(o) = ReservedBy(o) - ReservedBy(o)'
         /\ Shipped(o)' >= Shipped(o)
         /\ (\E l \in InvLots : <<o, l>> \in S) => Shipped(o)' > Shipped(o)
<1> DEFINE shippedOf == [l \in InvLots |-> IF <<o, l>> \in S THEN reserved[o][l] ELSE 0]
<1>1. /\ confirmed'[o] = Plus(confirmed[o], shippedOf)
      /\ reserved'[o] = Minus(reserved[o], shippedOf)
      /\ \A ol \in S : reserved[ol[1]][ol[2]] > 0
      /\ UNCHANGED <<lots, rounds>>
  BY DEF ConfirmShipment
<1>2. /\ shippedOf \in [InvLots -> Nat]
      /\ confirmed[o] \in [InvLots -> Nat] /\ reserved[o] \in [InvLots -> Nat]
  BY DEF TypeOK
<1>3. \A l \in InvLots : <<o, l>> \in S => shippedOf[l] > 0
  <2>1. ASSUME NEW l \in InvLots, <<o, l>> \in S PROVE reserved[o][l] > 0
    BY <1>1, <2>1
  <2> QED BY <2>1
<1> HIDE DEF shippedOf
<1>4. /\ shippedOf \in [InvLots -> Int] /\ confirmed[o] \in [InvLots -> Int]
      /\ reserved[o] \in [InvLots -> Int]
  BY <1>2
<1>5. /\ SumFunction(confirmed'[o]) = SumFunction(confirmed[o]) + SumFunction(shippedOf)
      /\ SumFunction(reserved'[o]) = SumFunction(reserved[o]) - SumFunction(shippedOf)
  BY <1>1, <1>4, LotSums
<1>6. /\ SumFunction(shippedOf) \in Nat /\ SumFunction(confirmed[o]) \in Nat
      /\ SumFunction(reserved[o]) \in Nat
  BY <1>2, SumOverLots
<1>7. ASSUME NEW l \in InvLots, <<o, l>> \in S PROVE SumFunction(shippedOf) > 0
  <2>1. SumFunction(shippedOf) # 0
    BY <1>2, <1>3, <1>7, SumOfNothing
  <2> QED BY <1>6, <2>1
<1>8. Shipped(o) \in Nat
  BY QuantityTypes
<1> DEFINE rest == SumFunctionOnSet(RoundShips(o, lots, rounds), ProdLots \X RoundNos)
<1>9. /\ Shipped(o) = SumFunction(confirmed[o]) + rest
      /\ Shipped(o)' = SumFunction(confirmed'[o]) + rest
  BY <1>1, ShippedAsRows
<1>10. rest \in Int
  <2> DEFINE g == RoundShips(o, lots, rounds)
  <2>1. g \in [ProdLots \X RoundNos -> Nat]
    BY ShippedAsRows
  <2>2. \A pk \in ProdLots \X RoundNos : g[pk] \in Int
    <3> HIDE DEF g
    <3> QED BY <2>1
  <2> HIDE DEF g
  <2>3. SumFunctionOnSet(g, ProdLots \X RoundNos) \in Int
    BY <2>2, FiniteRows, SumType
  <2> QED BY <2>3 DEF g
<1> HIDE DEF rest
<1>11. /\ ReservedBy(o) = SumFunction(reserved[o])
       /\ ReservedBy(o)' = SumFunction(reserved'[o])
  BY DEF ReservedBy
<1>12. /\ Shipped(o)' = Shipped(o) + SumFunction(shippedOf)
       /\ Shipped(o)' - Shipped(o) = ReservedBy(o) - ReservedBy(o)'
  BY <1>5, <1>6, <1>9, <1>10, <1>11
<1>13. Shipped(o)' >= Shipped(o)
  BY <1>6, <1>8, <1>12
<1>14. ASSUME NEW l \in InvLots, <<o, l>> \in S PROVE Shipped(o)' > Shipped(o)
  BY <1>6, <1>7, <1>8, <1>12, <1>14
<1> QED BY <1>12, <1>13, <1>14

\* A result ships for its own order line only, and if that is more than before,
\* not beyond the target.
LEMMA ResultShips ==
  ASSUME TypeOK, TypeOK', LifeInv, RoundsBooked, ResultNext
  PROVE  \E o \in OrderLines :
           /\ LotsOf(o) # {}
           /\ \A x \in OrderLines : /\ x # o => /\ Shipped(x)' = Shipped(x)
                                                /\ orders'[x] = orders[x]
                                    /\ orders'[x].status \in {orders[x].status, "DONE"}
           /\ Target(o)' = Target(o)
           /\ Shipped(o)' > Shipped(o) => Shipped(o)' <= Target(o)
<1>1. PICK p \in ProdLots, k \in RoundNos, r \in Results, partial \in BOOLEAN :
        /\ Settle(p, k, partial, r)
        /\ rounds[p][k].status \in {"IN_PROGRESS", "DONE"}
  BY ResultSaves
<1>2. PICK o \in OrderLines : o = lots[p].order
  BY <1>1, ScheduledLot
<1>3. p \in LotsOf(o)
  BY <1>2 DEF LotsOf
<1>4. PICK rs : SyncStatus(p, rs)
  BY <1>1, SettleRounds
<1>5. /\ \A x \in OrderLines : /\ x # o => orders'[x] = orders[x]
                               /\ orders'[x].status \in {orders[x].status, "DONE"}
      /\ orders'[o].qty = orders[o].qty /\ orders'[o].partner = orders[o].partner
      /\ \A x \in ProdLots : lots'[x].order = lots[x].order
  BY <1>2, <1>4, SyncKeeps
<1>6. UNCHANGED confirmed /\ OtherMovementsKept(p, k)
  BY <1>1, ResultBooked DEF Settle
<1>7. \A x \in OrderLines :
        Shipped(x)' = Shipped(x)
          + (IF o = x THEN SumFunction(rounds'[p][k].ship) - SumFunction(rounds[p][k].ship) ELSE 0)
  BY <1>2, <1>5, <1>6, ShippedSaved
<1>8. \A x \in OrderLines : Shipped(x) \in Nat /\ Target(x) \in Nat
  BY QuantityTypes
<1>9. Target(o)' = Target(o)
  BY <1>5 DEF Target
<1>10. Shipped(o)' > Shipped(o) => Shipped(o)' <= Target(o)
  <2>1. PICK held, free, saved : SettledAs(p, k, partial, r, held, free, saved)
    BY <1>1, SettleParts
  <2>2. /\ SumFunction(rounds'[p][k].ship) = r.fromStock + r.fromRound
        /\ r.fromStock + r.fromRound <= RemainingFor(p, k)
    BY <2>1 DEF SettledAs
  <2>3. rounds[p][k].ship \in [InvLots -> Nat]
    <3>1. rounds[p][k] \in Round
      BY DEF TypeOK
    <3> QED BY <3>1 DEF Round
  <2>4. SumFunction(rounds[p][k].ship) \in Nat
    BY <2>3, SumOverLots
  <2>5. r.fromStock \in Nat /\ r.fromRound \in Nat
    BY DEF Results
  <2>6. RemainingFor(p, k) = RemainingBefore(Target(o), Shipped(o), SumFunction(rounds[p][k].ship))
    BY <1>2 DEF RemainingFor
  <2>7. Shipped(o)' = Shipped(o) + (r.fromStock + r.fromRound) - SumFunction(rounds[p][k].ship)
    BY <1>7, <1>8, <2>2, <2>4, <2>5
  <2> QED BY <1>8, <2>2, <2>4, <2>5, <2>6, <2>7 DEF RemainingBefore, AtLeastZero, Least
<1>11. \A x \in OrderLines : x # o => Shipped(x)' = Shipped(x)
  BY <1>7, <1>8
<1> QED BY <1>3, <1>5, <1>9, <1>10, <1>11

\* Who ships an order line beyond its target ships what was reserved for it.
LEMMA OverShipStep ==
  ASSUME TypeOK, TypeOK', LifeInv, RoundsBooked, [Next]_vars,
         NEW o \in OrderLines, Shipped(o)' > Shipped(o), Shipped(o)' > Target(o)'
  PROVE  Shipped(o)' - Shipped(o) <= ReservedBy(o) - ReservedBy(o)' /\ lots' = lots
<1>1. Shipped(o) \in Nat /\ Target(o) \in Nat
  BY QuantityTypes
<1>2. ASSUME NEW x \in OrderLines, NEW type \in PlanTypes, ConfirmStockPlan(x, type) PROVE FALSE
  <2>1. CASE x = o
    <3>1. Shipped(o)' <= Target(o) /\ Target(o)' = Target(o)
      BY <1>2, <2>1, StockPlanShips
    <3>2. Shipped(o)' \in Nat
      BY ShippedType DEF Shipped, TypeOK
    <3> QED BY <1>1, <3>1, <3>2
  <2>2. CASE x # o
    <3>1. Shipped(o)' = Shipped(o)
      BY <1>2, <2>2, StockPlanShips
    <3> QED BY <1>1, <3>1
  <2> QED BY <2>1, <2>2
<1>3. ASSUME NEW S \in SUBSET WaitingLines, NEW first \in OrderLines, ConfirmShipment(S, first)
      PROVE  Shipped(o)' - Shipped(o) <= ReservedBy(o) - ReservedBy(o)' /\ lots' = lots
  <2>1. Shipped(o)' - Shipped(o) = ReservedBy(o) - ReservedBy(o)'
    BY <1>3, ShipmentShips
  <2>2. lots' = lots
    BY <1>3 DEF ConfirmShipment
  <2>3. Shipped(o)' - Shipped(o) \in Int
    <3>1. Shipped(o)' \in Nat
      BY ShippedType DEF Shipped, TypeOK
    <3> QED BY <1>1, <3>1
  <2> QED BY <2>1, <2>2, <2>3
<1>4. CASE ResultNext
  <2>1. PICK x \in OrderLines :
          /\ o # x => Shipped(o)' = Shipped(o)
          /\ Target(x)' = Target(x)
          /\ Shipped(x)' > Shipped(x) => Shipped(x)' <= Target(x)
    BY <1>4, ResultShips
  <2>2. Shipped(o)' \in Nat
    BY ShippedType DEF Shipped, TypeOK
  <2>3. CASE o = x
    <3>1. Shipped(o)' <= Target(o) /\ Target(o)' = Target(o)
      BY <2>1, <2>3
    <3> QED BY <1>1, <2>2, <3>1
  <2>4. CASE o # x
    BY <1>1, <2>1, <2>4
  <2> QED BY <2>3, <2>4
<1>5. CASE Shipped(o)' = Shipped(o)
  BY <1>1, <1>5
<1> QED BY <1>2, <1>3, <1>4, <1>5, WhoShips

\* Beyond its target an order line is shipped only out of its own reservation: no
\* plan and no saved or corrected result ships more than remains of it.
THEOREM OnlyReservationsOverShip == Spec => OverShippedOnlyFromReservation
<1>1. TypeOK /\ TypeOK' /\ LifeInv /\ RoundsBooked /\ [Next]_vars =>
        [\A o \in OrderLines :
           Shipped(o)' > Shipped(o) /\ Shipped(o)' > Target(o)'
             => Shipped(o)' - Shipped(o) <= ReservedBy(o) - ReservedBy(o)'
                /\ lots' = lots]_vars
  BY OverShipStep
<1> QED BY <1>1, TypeCorrect, LifeInvariant, BookedInvariant, PTL
        DEF Spec, OverShippedOnlyFromReservation
-----------------------------------------------------------------------------
(* The life that an order line promises.                                   *)

\* A step of the life of order line o, in terms of its row and its shipments.
LivesOn(o) ==
  \/ /\ orders[o].status = "NONE" /\ orders'[o].status \in {"OPEN", "CLOSED"}
     /\ Shipped(o)' = Shipped(o)
  \/ /\ orders[o].status = "OPEN" /\ orders'[o].status \in {"CLOSED", "CANCELED"}
     /\ Shipped(o)' = Shipped(o)
  \/ /\ orders[o].status \in {"OPEN", "CANCELED"} /\ orders'[o].status = orders[o].status
     /\ Shipped(o)' >= Shipped(o)
  \/ orders[o].status \in {"CLOSED", "DONE"} /\ orders'[o].status = orders[o].status
  \/ orders[o].status = "OPEN" /\ orders'[o].status = "DONE" /\ Shipped(o)' > Shipped(o)
  \/ orders[o].status = "CLOSED" /\ orders'[o].status = "DONE"
  \/ /\ orders[o].status = "DONE" /\ orders'[o].status = "CLOSED"
     /\ Shipped(o)' = Shipped(o)
  \/ orders'[o].status = "NONE" /\ Shipped(o) = 0 /\ Shipped(o)' = 0
  \/ orders'[o].status = orders[o].status /\ Shipped(o)' = Shipped(o)

\* An order line whose row and shipments stay lives on.
LEMMA SameLives ==
  ASSUME NEW o \in OrderLines, orders'[o].status = orders[o].status, Shipped(o)' = Shipped(o)
  PROVE  LivesOn(o)
BY DEF LivesOn

\* A deletion erases only what was never shipped.
LEMMA DeletionLives ==
  ASSUME TypeOK, RoundsBooked, NEW o \in OrderLines, DeleteOrderLines(o),
         \A x \in OrderLines : Shipped(x)' = Shipped(x)
  PROVE  \A x \in OrderLines : LivesOn(x)
<1> DEFINE group == {x \in OrderLines : /\ orders[x].status # "NONE"
                                        /\ orders[x].number = orders[o].number}
           gone == {p \in ProdLots : lots[p].order \in group}
<1>1. /\ \A p \in gone, k \in RoundNos : rounds[p][k].status \in {"NONE", "WAITING", "CANCELED"}
      /\ \A x \in group : confirmed[x] = Nothing
      /\ orders' = [x \in OrderLines |-> IF x \in group THEN NoOrderLine ELSE orders[x]]
  BY DEF DeleteOrderLines, MayDelete
<1>2. ASSUME NEW x \in OrderLines PROVE LivesOn(x)
  <2>1. CASE x \in group
    <3>1. \A p \in LotsOf(x), k \in RoundNos : ~Inspected(rounds[p][k])
      BY <1>1, <2>1 DEF LotsOf, Inspected
    <3>2. Shipped(x) = 0
      BY <1>1, <2>1, <3>1, NothingShipped
    <3>3. orders'[x].status = "NONE"
      BY <1>1, <2>1 DEF NoOrderLine
    <3> QED BY <3>2, <3>3 DEF LivesOn
  <2>2. CASE x \notin group
    BY <1>1, <2>2, SameLives
  <2> QED BY <2>1, <2>2
<1> QED BY <1>2

\* Requests about order lines move each of them along its life.
LEMMA PlanningLives ==
  ASSUME TypeOK, TypeOK', LifeInv, RoundsBooked, OrderNext
  PROVE  \A o \in OrderLines : LivesOn(o)
<1>1. ASSUME NEW o \in OrderLines, NEW type \in PlanTypes, ConfirmStockPlan(o, type)
      PROVE  \A x \in OrderLines : LivesOn(x)
  <2>1. orders[o].status \in {"OPEN", "CLOSED"} /\ orders'[o].status = "DONE"
    BY <1>1, DecidedRow DEF ConfirmStockPlan, MayDecide
  <2>2. \A x \in OrderLines : x # o => orders'[x] = orders[x]
    BY <1>1, DecidedRow DEF ConfirmStockPlan
  <2>3. /\ \A x \in OrderLines : x # o => Shipped(x)' = Shipped(x)
        /\ Shipped(o)' > Shipped(o)
    BY <1>1, StockPlanShips
  <2>4. LivesOn(o)
    BY <2>1, <2>3 DEF LivesOn
  <2> QED BY <2>2, <2>3, <2>4, SameLives
<1>2. CASE ~\E o \in OrderLines, type \in PlanTypes : ConfirmStockPlan(o, type)
  <2>1. \A x \in OrderLines : Shipped(x)' = Shipped(x)
    BY <1>2, PlanningShips
  <2>2. ASSUME NEW o \in OrderLines,
               \A x \in OrderLines : x # o => orders'[x] = orders[x],
               \/ orders[o].status = "NONE" /\ orders'[o].status \in {"OPEN", "CLOSED"}
               \/ orders[o].status = "OPEN" /\ orders'[o].status \in {"CLOSED", "CANCELED"}
               \/ orders[o].status = "CLOSED" /\ orders'[o].status = "DONE"
               \/ orders'[o].status = orders[o].status
        PROVE  \A x \in OrderLines : LivesOn(x)
    <3>1. LivesOn(o)
      BY <2>1, <2>2 DEF LivesOn
    <3> QED BY <2>1, <2>2, <3>1, SameLives
  <2>3. ASSUME NEW o \in OrderLines, NEW partner \in Partners, NEW number \in OrderNumbers,
               \/ \E q \in OrderQtys : CreateOrderLine(o, partner, number, q)
               \/ EditOrderLine(o, partner, number)
        PROVE  \A x \in OrderLines : LivesOn(x)
    <3>1. CASE \E q \in OrderQtys : CreateOrderLine(o, partner, number, q)
      <4>1. /\ \A x \in OrderLines : x # o => orders'[x] = orders[x]
            /\ orders[o].status = "NONE" /\ orders'[o].status \in {"OPEN", "CLOSED"}
        BY <3>1, RegisteredRow
      <4> QED BY <2>2, <4>1
    <3>2. CASE EditOrderLine(o, partner, number)
      BY <2>2, <3>2, EditedRow
    <3> QED BY <2>3, <3>1, <3>2
  <2>4. ASSUME NEW o \in OrderLines, NEW q \in OrderQtys, ChangeQuantityBeforeLot(o, q)
        PROVE  \A x \in OrderLines : LivesOn(x)
    <3>1. orders[o].status = "OPEN"
      BY <2>4 DEF ChangeQuantityBeforeLot, LifeInv, ReleasedWithLot
    <3>2. /\ \A x \in OrderLines : x # o => orders'[x] = orders[x]
          /\ orders'[o].status = "OPEN"
      BY <2>4 DEF ChangeQuantityBeforeLot, TypeOK, OrderLine
    <3> QED BY <2>2, <3>1, <3>2
  <2>5. ASSUME NEW o \in OrderLines, NEW p \in ProdLots, NEW q \in OrderQtys,
               ChangeQuantityOfLot(o, p, q)
        PROVE  \A x \in OrderLines : LivesOn(x)
    <3>1. orders' = [orders EXCEPT ![o].qty = q, ![o].plan = RevisedPlan(o, q)]
      BY <2>5 DEF ChangeQuantityOfLot
    <3>2. orders[o] \in OrderLine
      BY DEF TypeOK
    <3>3. \A plan : orders' = [orders EXCEPT ![o].qty = q, ![o].plan = plan] =>
            /\ \A x \in OrderLines : x # o => orders'[x] = orders[x]
            /\ orders'[o].status = orders[o].status
      BY <3>2 DEF TypeOK, OrderLine
    <3> QED BY <2>2, <3>1, <3>3
  <2>6. ASSUME NEW o \in OrderLines, NEW type \in PlanTypes, ConfirmProductionPlan(o, type)
        PROVE  \A x \in OrderLines : LivesOn(x)
    <3>1. \/ Decide(o, type, Available, Remaining(o), orders[o].status)
          \/ /\ Decide(o, type, Available, Remaining(o), "CLOSED")
             /\ orders[o].status = "OPEN"
      BY <2>6 DEF ConfirmProductionPlan
    <3> QED BY <2>2, <3>1, DecidedRow
  <2>7. ASSUME NEW o \in OrderLines, ConfirmPartialPlan(o)
        PROVE  \A x \in OrderLines : LivesOn(x)
    BY <2>2, <2>7, DecidedRow DEF ConfirmPartialPlan
  <2>8. ASSUME NEW o \in OrderLines, NEW p \in ProdLots, CreateBaseLot(o, p)
        PROVE  \A x \in OrderLines : LivesOn(x)
    <3>1. /\ \A x \in OrderLines : x # o => orders'[x] = orders[x]
          /\ orders[o].status = "OPEN" /\ orders'[o].status = "CLOSED"
      BY <2>8 DEF CreateBaseLot, TypeOK, OrderLine
    <3> QED BY <2>2, <3>1
  <2>9. ASSUME NEW o \in OrderLines, CancelOrderLine(o)
        PROVE  \A x \in OrderLines : LivesOn(x)
    <3>1. orders[o].status = "OPEN"
      <4>1. orders[o].status # "CLOSED"
        BY <2>9 DEF CancelOrderLine, LifeInv, ReleasedWithLot, LotsLinked, LotsOf
      <4> QED BY <2>9, <4>1 DEF CancelOrderLine
    <3>2. /\ \A x \in OrderLines : x # o => orders'[x] = orders[x]
          /\ orders'[o].status = "CANCELED"
      BY <2>9 DEF CancelOrderLine, TypeOK, OrderLine
    <3> QED BY <2>2, <3>1, <3>2
  <2>10. ASSUME NEW o \in OrderLines, ShortClose(o)
         PROVE  \A x \in OrderLines : LivesOn(x)
    <3>1. /\ \A x \in OrderLines : x # o => orders'[x] = orders[x]
          /\ orders[o].status = "CLOSED" /\ orders'[o].status = "DONE"
      BY <2>10 DEF ShortClose, TypeOK, OrderLine
    <3> QED BY <2>2, <3>1
  <2>11. ASSUME NEW o \in OrderLines, DeleteOrderLines(o)
         PROVE  \A x \in OrderLines : LivesOn(x)
    BY <2>1, <2>11, DeletionLives
  <2> QED BY <1>2, <2>3, <2>4, <2>5, <2>6, <2>7, <2>8, <2>9, <2>10, <2>11 DEF OrderNext
<1> QED BY <1>1, <1>2

\* Rework reopens an order line that is done, and ships nothing.
LEMMA ReworkLives ==
  ASSUME TypeOK, LifeInv, ReworkNext, \A o \in OrderLines : Shipped(o)' = Shipped(o)
  PROVE  \A o \in OrderLines : LivesOn(o)
<1>1. PICK o : orders' = [orders EXCEPT ![o].status = IF @ = "DONE" THEN "CLOSED" ELSE @]
  BY DEF ReworkNext, CreateReworkLot
<1>2. \A x \in OrderLines :
        \/ orders'[x].status = orders[x].status
        \/ orders[x].status = "DONE" /\ orders'[x].status = "CLOSED"
  BY <1>1 DEF TypeOK, OrderLine
<1> QED BY <1>2 DEF LivesOn

\* A confirmation ships, and may finish the order lines that it ships for.
LEMMA ShipmentLives ==
  ASSUME TypeOK, TypeOK', PlanInv, NEW S \in SUBSET WaitingLines, NEW first \in OrderLines,
         ConfirmShipment(S, first)
  PROVE  \A o \in OrderLines : LivesOn(o)
<1> SUFFICES ASSUME NEW o \in OrderLines PROVE LivesOn(o)
  OBVIOUS
<1>1. Shipped(o) \in Nat /\ Shipped(o)' \in Nat
  BY ShippedType, QuantityTypes DEF Shipped, TypeOK
<1>2. /\ Shipped(o)' - Shipped(o) = ReservedBy(o) - ReservedBy(o)'
      /\ Shipped(o)' >= Shipped(o)
      /\ (\E l \in InvLots : <<o, l>> \in S) => Shipped(o)' > Shipped(o)
  BY ShipmentShips
<1>3. \/ orders'[o].status = orders[o].status
      \/ /\ \E l \in InvLots : <<o, l>> \in S
         /\ orders[o].status \in {"OPEN", "CLOSED"} /\ orders'[o].status = "DONE"
  <2> DEFINE affected == {ol[1] : ol \in S}
  <2>1. orders[o] \in OrderLine
    BY DEF TypeOK
  <2>2. \/ orders'[o] = orders[o]
        \/ /\ o \in affected /\ orders[o].status \in {"OPEN", "CLOSED"}
           /\ orders'[o] = [orders[o] EXCEPT !.status = "DONE"]
    BY DEF ConfirmShipment
  <2>3. o \in affected => \E l \in InvLots : <<o, l>> \in S
    BY DEF WaitingLines
  <2> QED BY <2>1, <2>2, <2>3 DEF OrderLine
<1>4. orders[o].status \in {"NONE", "OPEN", "CLOSED", "DONE", "CANCELED"}
  BY DEF TypeOK, OrderLine, OrderStatuses
<1>5. CASE orders'[o].status = orders[o].status /\ orders[o].status = "NONE"
  <2>1. ReservedBy(o) = 0
    BY <1>5, NothingSum DEF PlanInv, PlanKept, ReservedBy
  <2>2. ReservedBy(o)' \in Nat
    BY SumOverLots DEF ReservedBy, TypeOK
  <2>3. Shipped(o)' = Shipped(o)
    BY <1>1, <1>2, <2>1, <2>2
  <2> QED BY <1>5, <2>3, SameLives
<1>6. CASE orders'[o].status = orders[o].status /\ orders[o].status # "NONE"
  BY <1>2, <1>4, <1>6 DEF LivesOn
<1>7. CASE /\ \E l \in InvLots : <<o, l>> \in S
           /\ orders[o].status \in {"OPEN", "CLOSED"} /\ orders'[o].status = "DONE"
  BY <1>2, <1>7 DEF LivesOn
<1> QED BY <1>3, <1>5, <1>6, <1>7

\* An inspection finishes order lines that were released.
LEMMA ScheduleLives ==
  ASSUME TypeOK, LifeInv, ScheduleNext, \A o \in OrderLines : Shipped(o)' = Shipped(o)
  PROVE  \A o \in OrderLines : LivesOn(o)
<1>1. PICK p \in ProdLots, k \in RoundNos :
        CreateSchedule(p, k) \/ ReceiveSchedule(p, k) \/ StartSchedule(p, k) \/ CancelSchedule(p, k)
  BY DEF ScheduleNext
<1>2. \A o \in OrderLines : /\ o # lots[p].order => orders'[o] = orders[o]
                            /\ orders'[o].status \in {orders[o].status, "DONE"}
  <2>1. CASE CreateSchedule(p, k)
    BY <2>1 DEF CreateSchedule
  <2>2. CASE \E rs : SyncStatus(p, rs)
    BY <2>2, SyncKeeps
  <2> QED BY <1>1, <2>1, <2>2 DEF ReceiveSchedule, StartSchedule, CancelSchedule
<1>3. \A o \in OrderLines : o = lots[p].order => orders[o].status \in {"CLOSED", "DONE"}
  BY DEF LifeInv, ReleasedWithLot, LotsOf
<1> QED BY <1>2, <1>3 DEF LivesOn

\* A result ships for an order line that was released, and may finish it.
LEMMA ResultLives ==
  ASSUME TypeOK, TypeOK', LifeInv, RoundsBooked, ResultNext
  PROVE  \A o \in OrderLines : LivesOn(o)
<1>1. PICK o \in OrderLines :
        /\ LotsOf(o) # {}
        /\ \A x \in OrderLines :
             /\ x # o => Shipped(x)' = Shipped(x) /\ orders'[x] = orders[x]
             /\ orders'[x].status \in {orders[x].status, "DONE"}
  BY ResultShips
<1>2. orders[o].status \in {"CLOSED", "DONE"}
  BY <1>1 DEF LifeInv, ReleasedWithLot
<1>3. LivesOn(o)
  BY <1>1, <1>2 DEF LivesOn
<1> QED BY <1>1, <1>3, SameLives

\* Every step moves every order line along its life.
LEMMA LifecycleStep ==
  ASSUME TypeOK, TypeOK', LifeInv, RoundsBooked, PlanInv, [Next]_vars
  PROVE  \A o \in OrderLines : LivesOn(o)
<1>1. CASE OrderNext
  BY <1>1, PlanningLives
<1>2. ASSUME NEW S \in SUBSET WaitingLines, NEW first \in OrderLines, ConfirmShipment(S, first)
      PROVE  \A o \in OrderLines : LivesOn(o)
  BY <1>2, ShipmentLives
<1>3. CASE ResultNext
  BY <1>3, ResultLives
<1>4. CASE \A o \in OrderLines : Shipped(o)' = Shipped(o)
  <2>1. CASE ReworkNext
    BY <1>4, <2>1, ReworkLives
  <2>2. CASE ScheduleNext
    BY <1>4, <2>2, ScheduleLives
  <2>3. CASE UNCHANGED orders
    BY <1>4, <2>3, SameLives
  <2>4. CASE StockNext
    BY <1>2, <2>3, <2>4 DEF StockNext, AdjustIn, AdjustOut
  <2> QED BY <1>1, <1>3, <2>1, <2>2, <2>3, <2>4 DEF Next, vars
<1>5. CASE \E o \in OrderLines, type \in PlanTypes : ConfirmStockPlan(o, type)
  BY <1>1, <1>5 DEF OrderNext
<1> QED BY <1>2, <1>3, <1>4, <1>5, WhoShips

\* Before any request no order line is registered, and none was shipped.
LEMMA LifecycleInit == Init => Lifecycle!Init
<1> SUFFICES ASSUME Init PROVE Lifecycle!Init
  OBVIOUS
<1>1. ASSUME NEW o \in OrderLines PROVE Shipped(o) = 0 /\ orders[o].status = "NONE"
  <2>1. TypeOK /\ RoundsBooked
    BY TypeInit, BookedInit
  <2>2. confirmed[o] = Nothing /\ \A p \in ProdLots, k \in RoundNos : ~Inspected(rounds[p][k])
    BY DEF Init, NoRound, Inspected
  <2>3. Shipped(o) = 0
    BY <2>1, <2>2, NothingShipped DEF LotsOf
  <2> QED BY <2>3 DEF Init, NoOrderLine
<1> QED BY <1>1 DEF Lifecycle!Init

\* Every request takes order lines only along the life they promise.
THEOREM LivesAsPromised == Spec => LifecycleSpec
<1>1. TypeOK /\ TypeOK' /\ LifeInv /\ RoundsBooked /\ PlanInv /\ [Next]_vars
        => [Lifecycle!Next]_(Lifecycle!vars)
  <2> SUFFICES ASSUME TypeOK, TypeOK', LifeInv, RoundsBooked, PlanInv, [Next]_vars
               PROVE  Lifecycle!Next
    OBVIOUS
  <2>1. \A o \in OrderLines : LivesOn(o)
    BY LifecycleStep
  <2>2. \A o \in OrderLines : Shipped(o)' \in Nat
    BY ShippedType DEF Shipped, TypeOK
  <2>3. \A o \in OrderLines : orders'[o].status \in OrderStatuses
    BY DEF TypeOK, OrderLine
  <2>4. ASSUME NEW o \in OrderLines
        PROVE  \/ Lifecycle!Registered(o) \/ Lifecycle!Released(o) \/ Lifecycle!StockShipped(o)
               \/ Lifecycle!Settled(o) \/ Lifecycle!Completed(o) \/ Lifecycle!Canceled(o)
               \/ Lifecycle!Reopened(o) \/ Lifecycle!Erased(o) \/ Lifecycle!Unmoved(o)
    BY <2>1 DEF LivesOn, Lifecycle!Registered, Lifecycle!Released, Lifecycle!StockShipped,
       Lifecycle!Settled, Lifecycle!Completed, Lifecycle!Canceled, Lifecycle!Reopened,
       Lifecycle!Erased, Lifecycle!Unmoved
  <2>5. /\ [o \in OrderLines |-> orders'[o].status]
             \in [OrderLines -> {"NONE", "OPEN", "CLOSED", "DONE", "CANCELED"}]
        /\ [o \in OrderLines |-> Shipped(o)'] \in [OrderLines -> Nat]
    BY <2>2, <2>3 DEF OrderStatuses
  <2> QED BY <2>4, <2>5 DEF Lifecycle!Next
<1> QED BY <1>1, LifecycleInit, TypeCorrect, LifeInvariant, BookedInvariant, PlanInvariant, PTL
        DEF Spec, LifecycleSpec, Lifecycle!Spec

-----------------------------------------------------------------------------
(* What an order line waits for, and where the screens show it.            *)

\* What makes sure that an unfinished order line shows: with a LOT to be made, or
\* made, it has a plan that produces; a LOT is done by the final round of one, and
\* from then on nothing is reserved; and an order line that is released with all
\* of its LOTs done is short.
Waits(o) ==
  LET ready == orders[o].status = "OPEN" /\ orders[o].decided IN
  /\ ready \/ LotsOf(o) # {} => orders[o].plan.type \notin StockOnlyPlans
  /\ ready => orders[o].plan.production > 0
  /\ \A p \in LotsOf(o) :
       lots[p].status = "DONE" => \E k \in RoundNos : rounds[p][k].status = "DONE"
  /\ (\E p \in LotsOf(o), k \in RoundNos : rounds[p][k].status = "DONE") => reserved[o] = Nothing
  /\ orders[o].status = "CLOSED" /\ (\A p \in LotsOf(o) : lots[p].status \in {"DONE", "CANCELED"})
       => Shipped(o) < Target(o)

WaitInv == \A o \in OrderLines : Waits(o)

\* A step that leaves an order line what it waits for, or finishes it.
WaitsOn(o) ==
  /\ \/ orders'[o].status = orders[o].status
     \/ orders'[o].status \in {"DONE", "CANCELED"}
  /\ orders'[o].partner = orders[o].partner
  /\ orders'[o].qty = orders[o].qty
  /\ orders'[o].decided = orders[o].decided
  /\ orders'[o].plan = orders[o].plan
  /\ reserved'[o] = reserved[o]
  /\ Shipped(o)' = Shipped(o)
  /\ LotsOf(o)' = LotsOf(o)
  /\ \A p \in LotsOf(o) :
       /\ lots'[p].status = lots[p].status
       /\ \A k \in RoundNos : rounds'[p][k].status = "DONE" <=> rounds[p][k].status = "DONE"

\* Such a step keeps it.
LEMMA StillWaits ==
  ASSUME NEW o \in OrderLines, Waits(o), WaitsOn(o)
  PROVE  Waits(o)'
<1>1. Target(o)' = Target(o)
  BY DEF WaitsOn, Target
<1>2. orders'[o].status \in {"OPEN", "CLOSED"} => orders'[o].status = orders[o].status
  BY DEF WaitsOn
<1> QED BY <1>1, <1>2 DEF Waits, WaitsOn

\* An order line whose rows stay waits on.
LEMMA SameRowsWait ==
  ASSUME NEW o \in OrderLines, orders'[o] = orders[o], reserved'[o] = reserved[o],
         Shipped(o)' = Shipped(o), LotsOf(o)' = LotsOf(o),
         \A p \in LotsOf(o) : lots'[p] = lots[p] /\ rounds'[p] = rounds[p]
  PROVE  WaitsOn(o)
BY DEF WaitsOn

\* An order line without LOTs waits for its plan, or for the LOT of its plan.
LEMMA WaitsForPlan ==
  ASSUME NEW o \in OrderLines, LotsOf(o)' = {}, orders'[o].status # "CLOSED",
         orders'[o].status = "OPEN" /\ orders'[o].decided =>
           orders'[o].plan.type \notin StockOnlyPlans /\ orders'[o].plan.production > 0
  PROVE  Waits(o)'
BY DEF Waits

\* An order line with a LOT that is not done waits for it.
LEMMA WaitsForLot ==
  ASSUME NEW o \in OrderLines, Waits(o), NEW p \in LotsOf(o)',
         orders'[o].status # "OPEN", orders'[o].plan.type \notin StockOnlyPlans,
         reserved'[o] = reserved[o], LotsOf(o)' \subseteq LotsOf(o) \cup {p},
         \A x \in LotsOf(o) : x # p => lots'[x] = lots[x] /\ rounds'[x] = rounds[x],
         lots'[p].status = "WAITING",
         \A k \in RoundNos : rounds'[p][k].status # "DONE"
  PROVE  Waits(o)'
<1>1. \A x \in LotsOf(o)' : x # p => x \in LotsOf(o) /\ lots'[x] = lots[x] /\ rounds'[x] = rounds[x]
  OBVIOUS
<1> QED BY <1>1 DEF Waits

\* A LOT that is created is one to wait for.
LEMMA NewLotWaits ==
  ASSUME TypeOK, LifeInv, WaitInv, NEW o \in OrderLines, NEW p \in ProdLots, NEW q, NEW rework,
         IsUnused(p), NewLot(o, p, q, rework), UNCHANGED <<rounds, reserved>>,
         \A x \in OrderLines : Shipped(x)' = Shipped(x),
         \A x \in OrderLines : x # o => orders'[x] = orders[x],
         orders'[o].status # "OPEN", orders'[o].plan.type \notin StockOnlyPlans
  PROVE  WaitInv'
<1>1. /\ \A x \in OrderLines : x # o => /\ LotsOf(x)' = LotsOf(x)
                                        /\ \A y \in LotsOf(x) : lots'[y] = lots[y]
      /\ LotsOf(o)' = LotsOf(o) \cup {p}
      /\ \A y \in LotsOf(o) : lots'[y] = lots[y]
  BY NewLotOfOne
<1>2. lots'[p].status = "WAITING"
  BY DEF NewLot, TypeOK
<1>3. \A k \in RoundNos : rounds'[p][k].status # "DONE"
  BY DEF LifeInv, LotsLinked, IsUnused
<1>4. Waits(o)'
  BY <1>1, <1>2, <1>3, WaitsForLot DEF WaitInv
<1>5. ASSUME NEW x \in OrderLines, x # o PROVE Waits(x)'
  <2>1. WaitsOn(x)
    BY <1>1, <1>5, SameRowsWait
  <2> QED BY <2>1, StillWaits DEF WaitInv
<1> QED BY <1>4, <1>5 DEF WaitInv

\* Where the other rows stay, one order line is all there is to look at.
LEMMA OneOrderWaits ==
  ASSUME WaitInv, NEW o \in OrderLines, UNCHANGED <<lots, rounds>>,
         \A x \in OrderLines : x # o => /\ orders'[x] = orders[x] /\ reserved'[x] = reserved[x]
                                        /\ Shipped(x)' = Shipped(x),
         Waits(o)'
  PROVE  WaitInv'
<1>1. ASSUME NEW x \in OrderLines, x # o PROVE Waits(x)'
  <2>1. WaitsOn(x)
    BY <1>1, SameRowsWait DEF LotsOf
  <2> QED BY <2>1, StillWaits DEF WaitInv
<1> QED BY <1>1 DEF WaitInv

\* A registration waits for its LOT, or for its plan.
LEMMA RegistrationWaits ==
  ASSUME TypeOK, LifeInv, WaitInv, NEW o \in OrderLines, NEW partner \in Partners,
         NEW number \in OrderNumbers, NEW q \in OrderQtys, CreateOrderLine(o, partner, number, q),
         \A x \in OrderLines : Shipped(x)' = Shipped(x)
  PROVE  WaitInv'
<1>1. /\ orders[o].status = "NONE" /\ UNCHANGED <<rounds, reserved>>
      /\ \A x \in OrderLines : x # o => orders'[x] = orders[x]
  BY RegisteredRow
<1>2. CASE UNCHANGED lots /\ orders'[o].status = "OPEN" /\ ~orders'[o].decided
  <2>1. LotsOf(o)' = {}
    BY <1>1, <1>2 DEF LifeInv, ReleasedWithLot, LotsOf
  <2>2. Waits(o)'
    BY <1>2, <2>1, WaitsForPlan
  <2> QED BY <1>1, <1>2, <2>2, OneOrderWaits
<1>3. ASSUME NEW n, NEW p \in ProdLots, CreatePrimaryLot(o, p, n), orders'[o].status = "CLOSED",
             orders'[o].plan.type \in {"STOCK_REPLENISHMENT", "AUTO_PRODUCTION"}
      PROVE  WaitInv'
  BY <1>1, <1>3, NewLotWaits DEF CreatePrimaryLot, StockOnlyPlans
<1>4. \/ UNCHANGED lots /\ orders'[o].status = "OPEN" /\ ~orders'[o].decided
      \/ \E n \in Nat, p \in ProdLots :
           /\ CreatePrimaryLot(o, p, n) /\ orders'[o].status = "CLOSED"
           /\ orders'[o].plan.type \in {"STOCK_REPLENISHMENT", "AUTO_PRODUCTION"}
  BY RegisteredRow
<1> QED BY <1>2, <1>3, <1>4

\* An edit leaves what an order line waits for: only a CLOSED one waits for its target.
LEMMA EditWaits ==
  ASSUME TypeOK, WaitInv, NEW o \in OrderLines, NEW partner \in Partners,
         NEW number \in OrderNumbers, EditOrderLine(o, partner, number),
         \A x \in OrderLines : Shipped(x)' = Shipped(x)
  PROVE  WaitInv'
<1>1. /\ orders'[o].status = "OPEN" /\ orders[o].status = "OPEN"
      /\ orders'[o].decided = orders[o].decided /\ orders'[o].plan = orders[o].plan
      /\ \A x \in OrderLines : x # o => orders'[x] = orders[x]
      /\ UNCHANGED <<lots, rounds, reserved>>
  BY EditedRow
<1>2. Waits(o)'
  BY <1>1 DEF WaitInv, Waits, LotsOf
<1> QED BY <1>1, <1>2, OneOrderWaits

\* A plan waits for its LOT, or it is done.
LEMMA DecisionWaits ==
  ASSUME TypeOK, LifeInv, PlanInv, WaitInv, NEW o \in OrderLines,
         \/ \E type \in PlanTypes : ConfirmProductionPlan(o, type) \/ ConfirmStockPlan(o, type)
         \/ ConfirmPartialPlan(o),
         \A x \in OrderLines : x # o \/ UNCHANGED confirmed => Shipped(x)' = Shipped(x)
  PROVE  WaitInv'
<1>1. ~orders[o].decided /\ orders[o].status \in {"OPEN", "CLOSED"}
  BY DEF ConfirmProductionPlan, ConfirmStockPlan, ConfirmPartialPlan, MayDecide
<1>2. LotsOf(o) = {} /\ orders[o].status = "OPEN"
  <2>1. LotsOf(o) = {}
    BY <1>1, ToBePlanned DEF PlanInv
  <2> QED BY <1>1, <2>1 DEF LifeInv, ReleasedWithLot
<1>3. Available \in Nat /\ Remaining(o) \in Nat
  BY QuantityTypes
<1>4. UNCHANGED rounds /\ \A x \in OrderLines : x # o => reserved'[x] = reserved[x]
  BY DEF ConfirmProductionPlan, ConfirmStockPlan, ConfirmPartialPlan, TypeOK
<1>5. \A type, st : Decide(o, type, Available, Remaining(o), st) =>
        /\ orders'[o].status = st /\ orders'[o].decided
        /\ orders'[o].plan.type = type
        /\ orders'[o].plan.production
             = PlannedProduction(type, orders[o].qty, Available, Remaining(o))
        /\ \A x \in OrderLines : x # o => orders'[x] = orders[x]
  BY DecidedRow
<1>6. UNCHANGED lots => LotsOf(o)' = {}
  BY <1>2 DEF LotsOf
<1>7. CASE ConfirmPartialPlan(o)
  <2>1. /\ Decide(o, "PARTIAL_STOCK_PLUS_PRODUCTION", Available, Remaining(o), orders[o].status)
        /\ "PARTIAL_STOCK_PLUS_PRODUCTION" \in AcceptedPlans(Available, Remaining(o))
        /\ UNCHANGED <<lots, confirmed>>
    BY <1>7 DEF ConfirmPartialPlan, MayDecide
  <2>2. /\ PlannedProduction("PARTIAL_STOCK_PLUS_PRODUCTION", orders[o].qty, Available, Remaining(o))
             = Remaining(o) - Available
        /\ Remaining(o) - Available > 0
    BY <1>3, <2>1 DEF PlannedProduction, AcceptedPlans
  <2>3. Waits(o)'
    BY <1>2, <1>5, <1>6, <2>1, <2>2, WaitsForPlan DEF StockOnlyPlans
  <2> QED BY <1>4, <1>5, <2>1, <2>3, OneOrderWaits
<1>8. ASSUME NEW type \in PlanTypes, ConfirmStockPlan(o, type) PROVE WaitInv'
  <2>1. Decide(o, type, Available, Remaining(o), "DONE") /\ UNCHANGED lots
    BY <1>8 DEF ConfirmStockPlan
  <2>2. Waits(o)'
    BY <1>5, <1>6, <2>1, WaitsForPlan
  <2> QED BY <1>4, <1>5, <2>1, <2>2, OneOrderWaits
<1>9. ASSUME NEW type \in PlanTypes, ConfirmProductionPlan(o, type) PROVE WaitInv'
  <2>1. CASE type = "AUTO_PRODUCTION"
    <3>1. /\ Decide(o, type, Available, Remaining(o), orders[o].status)
          /\ type \in AcceptedPlans(Available, Remaining(o))
          /\ UNCHANGED <<lots, confirmed>>
      BY <1>9, <2>1 DEF ConfirmProductionPlan, MayDecide
    <3>2. PlannedProduction(type, orders[o].qty, Available, Remaining(o)) > 0
      BY <1>3, <2>1, <3>1 DEF PlannedProduction, AcceptedPlans
    <3>3. Waits(o)'
      BY <1>2, <1>5, <1>6, <2>1, <3>1, <3>2, WaitsForPlan DEF StockOnlyPlans
    <3> QED BY <1>4, <1>5, <3>1, <3>3, OneOrderWaits
  <2>2. CASE type = "STOCK_REPLENISHMENT"
    <3>1. /\ Decide(o, type, Available, Remaining(o), "CLOSED")
          /\ \E p \in ProdLots : CreatePrimaryLot(o, p, orders[o].qty)
          /\ UNCHANGED <<reserved, confirmed>>
      BY <1>9, <2>2 DEF ConfirmProductionPlan
    <3>2. /\ orders'[o].status = "CLOSED" /\ orders'[o].plan.type \notin StockOnlyPlans
          /\ \A x \in OrderLines : x # o => orders'[x] = orders[x]
      BY <1>5, <2>2, <3>1 DEF StockOnlyPlans
    <3>3. \A x \in OrderLines : Shipped(x)' = Shipped(x)
      BY <3>1
    <3> QED BY <1>4, <3>1, <3>2, <3>3, NewLotWaits DEF CreatePrimaryLot
  <2> QED BY <1>9, <2>1, <2>2 DEF ConfirmProductionPlan
<1> QED BY <1>7, <1>8, <1>9

\* A base LOT, and a rework LOT, is waited for.
LEMMA LotCreationWaits ==
  ASSUME TypeOK, LifeInv, WaitInv, \A x \in OrderLines : Shipped(x)' = Shipped(x),
         \/ \E o \in OrderLines, p \in ProdLots : CreateBaseLot(o, p)
         \/ ReworkNext
  PROVE  WaitInv'
<1>1. ASSUME NEW o \in OrderLines, NEW p \in ProdLots, CreateBaseLot(o, p) PROVE WaitInv'
  <2>1. /\ CreatePrimaryLot(o, p, orders[o].plan.production)
        /\ orders[o].status = "OPEN" /\ orders[o].decided
        /\ orders' = [orders EXCEPT ![o].status = "CLOSED"]
        /\ UNCHANGED <<rounds, reserved>>
    BY <1>1 DEF CreateBaseLot
  <2>2. orders[o] \in OrderLine
    BY DEF TypeOK
  <2>3. /\ orders'[o].status = "CLOSED" /\ orders'[o].plan = orders[o].plan
        /\ \A x \in OrderLines : x # o => orders'[x] = orders[x]
    BY <2>1, <2>2 DEF TypeOK, OrderLine
  <2>4. orders[o].plan.type \notin StockOnlyPlans
    BY <2>1 DEF WaitInv, Waits
  <2> QED BY <2>1, <2>3, <2>4, NewLotWaits DEF CreatePrimaryLot
<1>2. ASSUME NEW parent \in ProdLots, NEW p \in ProdLots, NEW q, CreateReworkLot(parent, p, q)
      PROVE  WaitInv'
  <2>1. PICK o \in OrderLines : o = lots[parent].order /\ parent \in LotsOf(o)
    <3>1. lots[parent] # NoLot
      BY <1>2 DEF CreateReworkLot, NoLot
    <3> QED BY <3>1 DEF LifeInv, LotsLinked, TypeOK, Lot, LotsOf
  <2>2. /\ IsUnused(p) /\ NewLot(o, p, q, TRUE) /\ UNCHANGED <<rounds, reserved>>
        /\ orders' = [orders EXCEPT ![o].status = IF orders[o].status = "DONE" THEN "CLOSED"
                                                  ELSE orders[o].status]
    BY <1>2, <2>1 DEF CreateReworkLot
  <2>3. orders[o].status \in {"CLOSED", "DONE"} /\ orders[o].plan.type \notin StockOnlyPlans
    BY <2>1 DEF LifeInv, ReleasedWithLot, WaitInv, Waits
  <2>4. orders[o] \in OrderLine
    BY DEF TypeOK
  <2>5. /\ orders'[o].status = "CLOSED" /\ orders'[o].plan = orders[o].plan
        /\ \A x \in OrderLines : x # o => orders'[x] = orders[x]
    BY <2>2, <2>3, <2>4 DEF TypeOK, OrderLine
  <2> QED BY <2>2, <2>3, <2>5, NewLotWaits
<1> QED BY <1>1, <1>2 DEF ReworkNext


\* A changed quantity waits for a plan again, or for the same LOT.
LEMMA QuantityChangeWaits ==
  ASSUME TypeOK, LifeInv, WaitInv, NEW o \in OrderLines, NEW q \in OrderQtys,
         \A x \in OrderLines : Shipped(x)' = Shipped(x),
         \/ ChangeQuantityBeforeLot(o, q)
         \/ \E p \in ProdLots : ChangeQuantityOfLot(o, p, q)
  PROVE  WaitInv'
<1>1. orders[o] \in OrderLine
  BY DEF TypeOK
<1>2. CASE ChangeQuantityBeforeLot(o, q)
  <2>1. /\ orders' = [orders EXCEPT ![o].qty = q, ![o].decided = FALSE, ![o].status = "OPEN"]
        /\ reserved' = [reserved EXCEPT ![o] = Nothing]
        /\ LotsOf(o) = {} /\ UNCHANGED <<lots, rounds>>
    BY <1>2 DEF ChangeQuantityBeforeLot
  <2>2. /\ orders'[o].status = "OPEN" /\ ~orders'[o].decided
        /\ \A x \in OrderLines : x # o => orders'[x] = orders[x] /\ reserved'[x] = reserved[x]
    BY <1>1, <2>1 DEF TypeOK, OrderLine
  <2>3. LotsOf(o)' = {}
    BY <2>1 DEF LotsOf
  <2>4. Waits(o)'
    BY <2>2, <2>3, WaitsForPlan
  <2> QED BY <2>1, <2>2, <2>4, OneOrderWaits
<1>3. ASSUME NEW p \in ProdLots, ChangeQuantityOfLot(o, p, q) PROVE WaitInv'
  <2>1. /\ LotsOf(o) = {p} /\ lots[p].status = "WAITING"
        /\ \A k \in RoundNos : rounds[p][k].status \in {"NONE", "CANCELED"}
        /\ lots' = [lots EXCEPT ![p].qty = RevisedPlan(o, q).production]
        /\ orders' = [orders EXCEPT ![o].qty = q, ![o].plan = RevisedPlan(o, q)]
        /\ UNCHANGED <<rounds, reserved>>
    BY <1>3 DEF ChangeQuantityOfLot
  <2>2. RevisedPlan(o, q).type \notin StockOnlyPlans
    <3>1. orders[o].plan.type \notin StockOnlyPlans
      BY <2>1 DEF WaitInv, Waits
    <3> QED BY <3>1 DEF RevisedPlan, StockOnlyPlans
  <2>3. \A plan : orders' = [orders EXCEPT ![o].qty = q, ![o].plan = plan] =>
          /\ orders'[o].status = orders[o].status /\ orders'[o].plan = plan
          /\ \A x \in OrderLines : x # o => orders'[x] = orders[x]
    BY <1>1 DEF TypeOK, OrderLine
  <2>4. /\ orders'[o].status = orders[o].status /\ orders'[o].plan.type \notin StockOnlyPlans
        /\ \A x \in OrderLines : x # o => orders'[x] = orders[x]
    BY <2>1, <2>2, <2>3
  <2>5. orders[o].status # "OPEN"
    BY <2>1 DEF LifeInv, ReleasedWithLot
  <2>6. /\ \A x \in ProdLots : x # p => lots'[x] = lots[x]
        /\ lots'[p].order = lots[p].order /\ lots'[p].status = lots[p].status
    BY <2>1 DEF TypeOK, Lot
  <2>7. \A x \in OrderLines : LotsOf(x)' = LotsOf(x) /\ (x # o => p \notin LotsOf(x))
    BY <2>1, <2>6 DEF LotsOf
  <2>8. Waits(o)'
    BY <2>1, <2>4, <2>5, <2>6, <2>7, WaitsForLot DEF WaitInv, LotsOf
  <2>9. ASSUME NEW x \in OrderLines, x # o PROVE Waits(x)'
    <3>1. \A y \in LotsOf(x) : lots'[y] = lots[y]
      BY <2>6, <2>7, <2>9 DEF LotsOf
    <3>2. WaitsOn(x)
      BY <2>1, <2>4, <2>7, <2>9, <3>1, SameRowsWait
    <3> QED BY <3>2, StillWaits DEF WaitInv
  <2> QED BY <2>8, <2>9 DEF WaitInv
<1> QED BY <1>2, <1>3

\* An order line that is closed by hand waits no more.
LEMMA ClosingWaits ==
  ASSUME TypeOK, WaitInv, NEW o \in OrderLines, CancelOrderLine(o) \/ ShortClose(o),
         \A x \in OrderLines : Shipped(x)' = Shipped(x)
  PROVE  WaitInv'
<1>1. UNCHANGED <<lots, rounds, reserved>>
  BY DEF CancelOrderLine, ShortClose
<1>2. /\ \A x \in OrderLines : x # o => orders'[x] = orders[x]
      /\ orders'[o].partner = orders[o].partner /\ orders'[o].qty = orders[o].qty
      /\ orders'[o].decided = orders[o].decided /\ orders'[o].plan = orders[o].plan
      /\ orders'[o].status \in {"DONE", "CANCELED"}
  <2>1. orders[o] \in OrderLine
    BY DEF TypeOK
  <2>2. \/ orders' = [orders EXCEPT ![o].status = "DONE"]
        \/ orders' = [orders EXCEPT ![o].status = "CANCELED"]
    BY DEF CancelOrderLine, ShortClose
  <2> QED BY <2>1, <2>2 DEF TypeOK, OrderLine
<1>3. WaitsOn(o)
  BY <1>1, <1>2 DEF WaitsOn, LotsOf
<1>4. Waits(o)'
  BY <1>3, StillWaits DEF WaitInv
<1> QED BY <1>1, <1>2, <1>4, OneOrderWaits

\* What is deleted waits no more.
LEMMA DeletionWaits ==
  ASSUME TypeOK, WaitInv, NEW o \in OrderLines, DeleteOrderLines(o),
         \A x \in OrderLines : Shipped(x)' = Shipped(x)
  PROVE  WaitInv'
<1> DEFINE group == {x \in OrderLines : /\ orders[x].status # "NONE"
                                        /\ orders[x].number = orders[o].number}
           gone == {p \in ProdLots : lots[p].order \in group}
<1>1. /\ orders' = [x \in OrderLines |-> IF x \in group THEN NoOrderLine ELSE orders[x]]
      /\ lots' = [p \in ProdLots |-> IF p \in gone THEN NoLot ELSE lots[p]]
      /\ rounds' = [p \in ProdLots |->
                      IF p \in gone THEN [k \in RoundNos |-> NoRound] ELSE rounds[p]]
      /\ reserved' = [x \in OrderLines |-> IF x \in group THEN Nothing ELSE reserved[x]]
  BY DEF DeleteOrderLines
<1>2. NoOrderLine.status = "NONE" /\ NoLot.order = NoOrder
  BY DEF NoOrderLine, NoLot
<1>3. ASSUME NEW x \in group PROVE Waits(x)'
  <2>1. LotsOf(x)' = {}
    BY <1>1, <1>2 DEF LotsOf
  <2>2. orders'[x].status = "NONE"
    BY <1>1, <1>2
  <2> QED BY <2>1, <2>2, WaitsForPlan
<1>4. ASSUME NEW x \in OrderLines \ group PROVE Waits(x)'
  <2>1. \A p \in LotsOf(x) : p \notin gone
    BY DEF LotsOf
  <2>2. LotsOf(x)' = LotsOf(x)
    BY <1>1, <1>2, <2>1 DEF LotsOf
  <2>3. \A p \in LotsOf(x) : lots'[p] = lots[p] /\ rounds'[p] = rounds[p]
    BY <1>1, <2>1 DEF LotsOf
  <2>4. orders'[x] = orders[x] /\ reserved'[x] = reserved[x]
    BY <1>1
  <2>5. WaitsOn(x)
    BY <2>2, <2>3, <2>4, SameRowsWait
  <2> QED BY <2>5, StillWaits DEF WaitInv
<1> QED BY <1>3, <1>4 DEF WaitInv

\* A confirmation ships nothing for an order line with a LOT that is done.
LEMMA ShipmentWaits ==
  ASSUME TypeOK, TypeOK', LifeInv, WaitInv, NEW S \in SUBSET WaitingLines,
         NEW first \in OrderLines, ConfirmShipment(S, first)
  PROVE  WaitInv'
<1> SUFFICES ASSUME NEW o \in OrderLines PROVE Waits(o)'
  BY DEF WaitInv
<1>1. UNCHANGED <<lots, rounds>> /\ LotsOf(o)' = LotsOf(o)
  BY DEF ConfirmShipment, LotsOf
<1>2. /\ orders'[o].status = orders[o].status \/ orders'[o].status = "DONE"
      /\ orders'[o].partner = orders[o].partner /\ orders'[o].qty = orders[o].qty
      /\ orders'[o].decided = orders[o].decided /\ orders'[o].plan = orders[o].plan
  <2>1. orders[o] \in OrderLine
    BY DEF TypeOK
  <2>2. orders'[o] = orders[o] \/ orders'[o] = [orders[o] EXCEPT !.status = "DONE"]
    BY DEF ConfirmShipment
  <2> QED BY <2>1, <2>2 DEF OrderLine
<1>3. CASE \E p \in LotsOf(o), k \in RoundNos : rounds[p][k].status = "DONE"
  <2>1. reserved[o] = Nothing
    BY <1>3 DEF WaitInv, Waits
  <2>2. reserved'[o] = Nothing
    <3>1. \A l \in InvLots : reserved[o][l] = 0 /\ <<o, l>> \notin S
      BY <2>1 DEF Nothing, WaitingLines
    <3>2. reserved'[o] = [l \in InvLots |-> 0 - 0]
      BY <3>1 DEF ConfirmShipment, Minus
    <3> QED BY <3>2 DEF Nothing
  <2>3. Shipped(o)' = Shipped(o)
    <3>1. ReservedBy(o) = 0 /\ ReservedBy(o)' = 0
      BY <2>1, <2>2, NothingSum DEF ReservedBy
    <3>2. Shipped(o)' - Shipped(o) = ReservedBy(o) - ReservedBy(o)'
      BY ShipmentShips
    <3>3. Shipped(o) \in Nat /\ Shipped(o)' \in Nat
      BY ShippedType, QuantityTypes DEF Shipped, TypeOK
    <3> QED BY <3>1, <3>2, <3>3
  <2>4. WaitsOn(o)
    BY <1>1, <1>2, <2>1, <2>2, <2>3 DEF WaitsOn
  <2> QED BY <2>4, StillWaits DEF WaitInv
<1>4. CASE ~\E p \in LotsOf(o), k \in RoundNos : rounds[p][k].status = "DONE"
  <2>1. \A p \in LotsOf(o) : lots[p].status \notin {"DONE", "CANCELED"}
    BY <1>4 DEF WaitInv, Waits, LifeInv, LotsLinked, LotsOf
  <2>2. orders'[o].status = "CLOSED" => LotsOf(o) # {}
    BY <1>2 DEF LifeInv, ReleasedWithLot
  <2> QED BY <1>1, <1>2, <1>4, <2>1, <2>2 DEF WaitInv, Waits
<1> QED BY <1>3, <1>4

\* A LOT that follows its schedules finishes its order line, or that is short.
LEMMA SyncWaits ==
  ASSUME TypeOK, TypeOK', LifeInv, WaitInv, NEW p \in ProdLots, NEW rs, SyncStatus(p, rs),
         UNCHANGED confirmed, NEW o \in OrderLines, lots[p].order = o,
         \A x \in ProdLots : x # p => rs[x] = rounds[x],
         \A k \in RoundNos : rounds[p][k].status = "DONE" => rs[p][k].status = "DONE",
         (\E x \in LotsOf(o), k \in RoundNos : rs[x][k].status = "DONE") => reserved'[o] = Nothing
  PROVE  Waits(o)'
<1>1. /\ rounds' = rs
      /\ \A x \in ProdLots : /\ x # p => lots'[x] = lots[x]
                             /\ lots'[x].order = lots[x].order
      /\ orders'[o].plan = orders[o].plan /\ orders'[o].status \in {orders[o].status, "DONE"}
  BY SyncKeeps
<1>2. p \in LotsOf(o) /\ LotsOf(o)' = LotsOf(o)
  BY <1>1 DEF LotsOf
<1>3. orders[o].status \in {"CLOSED", "DONE"} /\ orders[o].plan.type \notin StockOnlyPlans
  BY <1>2 DEF LifeInv, ReleasedWithLot, WaitInv, Waits
<1> DEFINE next == [lots EXCEPT ![p].status = DeriveLotStatus(StatusesOf(p, rs), @)]
<1>4. lots' = next
  BY DEF SyncStatus
<1>5. lots'[p].status = DeriveLotStatus(StatusesOf(p, rs), lots[p].status)
  BY <1>4 DEF TypeOK, Lot
<1>6. lots'[p].status = "DONE" => \E k \in RoundNos : rs[p][k].status = "DONE"
  <2>1. ASSUME lots'[p].status = "DONE", "DONE" \notin StatusesOf(p, rs) PROVE FALSE
    <3>1. lots[p].status = "DONE"
      BY <1>5, <2>1 DEF DeriveLotStatus
    <3>2. \E k \in RoundNos : rounds[p][k].status = "DONE"
      BY <1>2, <3>1 DEF WaitInv, Waits
    <3> QED BY <2>1, <3>2 DEF StatusesOf
  <2> QED BY <2>1 DEF StatusesOf
<1>7. \A x \in LotsOf(o) :
        lots'[x].status = "DONE" => \E k \in RoundNos : rounds'[x][k].status = "DONE"
  <2> TAKE x \in LotsOf(o)
  <2>1. CASE x = p
    BY <1>1, <1>6, <2>1
  <2>2. CASE x # p
    BY <1>1, <2>2 DEF WaitInv, Waits, LotsOf
  <2> QED BY <2>1, <2>2
<1>8. ASSUME orders'[o].status = "CLOSED",
             \A x \in LotsOf(o) : lots'[x].status \in {"DONE", "CANCELED"}
      PROVE  Shipped(o)' < Target(o)'
  <2>1. lots'[p].status = "DONE"
    <3>1. lots[p].status # "CANCELED"
      BY DEF LifeInv, LotsLinked
    <3>2. lots'[p].status # "CANCELED"
      BY <1>5, <3>1 DEF DeriveLotStatus
    <3> QED BY <1>2, <1>8, <3>2
  <2>2. StatusesOf(p, rs) \ {"CANCELED"} # {}
    <3>1. "DONE" \in StatusesOf(p, rs)
      BY <1>6, <2>1 DEF StatusesOf
    <3> QED BY <3>1
  <2>3. ~IsComplete(o, next, rs)
    <3>1. ASSUME IsComplete(o, next, rs) PROVE FALSE
      <4>1. orders' = [orders EXCEPT ![o].status = "DONE"]
        BY <1>3, <1>4, <2>1, <2>2, <3>1 DEF SyncStatus
      <4>2. orders'[o].status = "DONE"
        BY <4>1 DEF TypeOK, OrderLine
      <4> QED BY <1>8, <4>2
    <3> QED BY <3>1
  <2>4. ~(Shipped(o)' >= Target(o))
    <3>1. Shipped(o)' = ShippedGiven(o, confirmed, next, rs)
      BY <1>1, <1>4 DEF Shipped, ShippedGiven, RoundsOf
    <3>2. \A x \in LotsOf(o) : next[x].status \in {"DONE", "CANCELED"}
      BY <1>4, <1>8
    <3> HIDE DEF next
    <3> QED BY <2>3, <3>1, <3>2 DEF IsComplete
  <2>5. Target(o)' = Target(o) /\ Target(o) \in Nat
    BY SyncKeeps, QuantityTypes DEF Target
  <2>6. Shipped(o)' \in Nat
    BY ShippedType DEF Shipped, TypeOK
  <2> QED BY <2>4, <2>5, <2>6
<1> QED BY <1>1, <1>2, <1>3, <1>7, <1>8 DEF Waits

\* Schedules finish and take back nothing; the LOT follows them.
LEMMA ScheduleWaits ==
  ASSUME TypeOK, TypeOK', LifeInv, WaitInv, ScheduleNext,
         \A x \in OrderLines : Shipped(x)' = Shipped(x)
  PROVE  WaitInv'
<1>1. PICK p \in ProdLots, k \in RoundNos :
        CreateSchedule(p, k) \/ ReceiveSchedule(p, k) \/ StartSchedule(p, k) \/ CancelSchedule(p, k)
  BY DEF ScheduleNext
<1>2. UNCHANGED <<reserved, confirmed>>
  BY <1>1 DEF CreateSchedule, ReceiveSchedule, StartSchedule, CancelSchedule
<1>3. \E st \in {"WAITING", "RECEIVED", "IN_PROGRESS", "CANCELED"} :
        rounds' = [rounds EXCEPT ![p][k].status = st] /\ rounds[p][k].status # "DONE"
  BY <1>1 DEF CreateSchedule, ReceiveSchedule, StartSchedule, CancelSchedule, FreeRound, SyncStatus
<1>4. /\ \A x \in ProdLots, j \in RoundNos :
           rounds'[x][j].status = "DONE" <=> rounds[x][j].status = "DONE"
      /\ \A x \in ProdLots : x # p => rounds'[x] = rounds[x]
  <2>1. PICK st \in {"WAITING", "RECEIVED", "IN_PROGRESS", "CANCELED"} :
          rounds' = [rounds EXCEPT ![p][k].status = st]
    BY <1>3
  <2>2. rounds[p][k] \in Round
    BY DEF TypeOK
  <2>3. /\ rounds'[p][k] = [rounds[p][k] EXCEPT !.status = st]
        /\ \A x \in ProdLots : x # p => rounds'[x] = rounds[x]
        /\ \A j \in RoundNos : j # k => rounds'[p][j] = rounds[p][j]
    BY <2>1 DEF TypeOK
  <2>4. rounds'[p][k].status # "DONE"
    BY <2>2, <2>3 DEF Round
  <2> QED BY <1>3, <2>3, <2>4
<1>5. CASE CreateSchedule(p, k)
  <2>1. UNCHANGED <<orders, lots>>
    BY <1>5 DEF CreateSchedule
  <2>2. \A x \in OrderLines : WaitsOn(x)
    BY <1>2, <1>4, <2>1 DEF WaitsOn, LotsOf
  <2> QED BY <2>2, StillWaits DEF WaitInv
<1>6. CASE \E rs : SyncStatus(p, rs)
  <2>1. SyncStatus(p, rounds')
    BY <1>6 DEF SyncStatus
  <2>2. /\ \A x \in OrderLines : x # lots[p].order => orders'[x] = orders[x]
        /\ \A x \in ProdLots : /\ x # p => lots'[x] = lots[x]
                               /\ lots'[x].order = lots[x].order
    BY <2>1, SyncKeeps
  <2>3. ASSUME NEW x \in OrderLines, x # lots[p].order PROVE Waits(x)'
    <3>1. LotsOf(x)' = LotsOf(x) /\ p \notin LotsOf(x)
      BY <2>2, <2>3 DEF LotsOf
    <3>2. \A y \in LotsOf(x) : lots'[y] = lots[y] /\ rounds'[y] = rounds[y]
      BY <1>4, <2>2, <3>1 DEF LotsOf
    <3>3. WaitsOn(x)
      BY <1>2, <2>2, <2>3, <3>1, <3>2, SameRowsWait
    <3> QED BY <3>3, StillWaits DEF WaitInv
  <2>4. ASSUME NEW x \in OrderLines, x = lots[p].order PROVE Waits(x)'
    <3>1. (\E y \in LotsOf(x), j \in RoundNos : rounds'[y][j].status = "DONE")
            => reserved'[x] = Nothing
      BY <1>2, <1>4 DEF WaitInv, Waits, LotsOf
    <3> QED BY <1>2, <1>4, <2>1, <2>4, <3>1, SyncWaits
  <2> QED BY <2>3, <2>4 DEF WaitInv
<1> QED BY <1>1, <1>5, <1>6 DEF ReceiveSchedule, StartSchedule, CancelSchedule

\* A final result leaves no reservation of its order line; none comes back.
LEMMA ResultWaits ==
  ASSUME TypeOK, TypeOK', LifeInv, RoundsBooked, WaitInv, ResultNext
  PROVE  WaitInv'
<1>1. PICK p \in ProdLots, k \in RoundNos, r \in Results, partial \in BOOLEAN :
        /\ Settle(p, k, partial, r)
        /\ \/ rounds[p][k].status = "IN_PROGRESS"
           \/ rounds[p][k].status = "DONE" /\ ~partial
  BY DEF ResultNext, SaveSplit, SaveFinal, CorrectFinal
<1>2. PICK o \in OrderLines : o = lots[p].order
  BY <1>1, ScheduledLot
<1>3. PICK saved \in Round :
        /\ saved.status = IF partial THEN "PARTIAL_DONE" ELSE "DONE"
        /\ SyncStatus(p, [rounds EXCEPT ![p] = RoundsSettled(p, k, partial, saved)])
  BY <1>1, SettleRounds
<1>4. /\ rounds' = [rounds EXCEPT ![p] = RoundsSettled(p, k, partial, saved)]
      /\ SyncStatus(p, rounds')
  BY <1>3 DEF SyncStatus
<1>5. /\ \A x \in ProdLots : x # p => rounds'[x] = rounds[x]
      /\ rounds'[p] = RoundsSettled(p, k, partial, saved)
  BY <1>4 DEF TypeOK
<1>6. /\ rounds'[p][k].status = IF partial THEN "PARTIAL_DONE" ELSE "DONE"
      /\ \A j \in RoundNos : j # k => (rounds'[p][j].status = "DONE" <=> rounds[p][j].status = "DONE")
  <2>1. rounds'[p][k] = saved
    BY <1>5 DEF RoundsSettled
  <2>2. ASSUME NEW j \in RoundNos, j # k
        PROVE  rounds'[p][j].status = "DONE" <=> rounds[p][j].status = "DONE"
    <3>1. rounds[p][j] \in Round
      BY DEF TypeOK
    <3>2. \/ rounds'[p][j] = [NoRound EXCEPT !.status = "RECEIVED"] /\ rounds[p][j].status = "NONE"
          \/ rounds'[p][j] = [rounds[p][j] EXCEPT !.settled = TRUE]
          \/ rounds'[p][j] = rounds[p][j]
      BY <1>5, <2>2 DEF RoundsSettled, FreeRound
    <3>3. [NoRound EXCEPT !.status = "RECEIVED"].status = "RECEIVED"
      BY DEF NoRound
    <3> QED BY <3>1, <3>2, <3>3 DEF Round
  <2> QED BY <1>3, <2>1, <2>2
<1>7. /\ \A x \in OrderLines : x # o => orders'[x] = orders[x]
      /\ \A x \in ProdLots : /\ x # p => lots'[x] = lots[x]
                             /\ lots'[x].order = lots[x].order
  BY <1>2, <1>3, SyncKeeps
<1>8. UNCHANGED confirmed /\ OtherMovementsKept(p, k)
  BY <1>1, ResultBooked DEF Settle
<1>9. \A x \in OrderLines : LotsOf(x)' = LotsOf(x)
  BY <1>7 DEF LotsOf
<1>10. ASSUME NEW x \in OrderLines, x # o PROVE Waits(x)'
  <2>1. Shipped(x)' = Shipped(x)
    <3>1. Shipped(x)' = Shipped(x) + 0
      BY <1>2, <1>7, <1>8, <1>10, ShippedSaved
    <3> QED BY <3>1, QuantityTypes
  <2>2. reserved'[x] = reserved[x]
    BY <1>1, <1>2, <1>10 DEF Settle, LeaveReserved, TypeOK
  <2>3. \A y \in LotsOf(x) : lots'[y] = lots[y] /\ rounds'[y] = rounds[y]
    BY <1>2, <1>5, <1>7, <1>10 DEF LotsOf
  <2>4. WaitsOn(x)
    BY <1>7, <1>9, <1>10, <2>1, <2>2, <2>3, SameRowsWait
  <2> QED BY <2>4, StillWaits DEF WaitInv
<1>11. Waits(o)'
  <2>1. PICK held \in [InvLots -> Nat] :
          reserved'[o] = IF partial THEN Minus(reserved[o], held) ELSE Nothing
    <3>1. PICK held \in Takes(r.fromStock) :
            reserved' = [reserved EXCEPT ![o] = IF partial THEN Minus(reserved[o], held) ELSE Nothing]
      BY <1>1, <1>2 DEF Settle, LeaveReserved
    <3>2. held \in [InvLots -> Nat]
      BY TakeType DEF Results
    <3> QED BY <3>1, <3>2 DEF TypeOK
  <2>2. ASSUME partial, reserved[o] = Nothing PROVE reserved'[o] = Nothing
    <3>1. reserved'[o] \in [InvLots -> Nat]
      BY DEF TypeOK
    <3>2. \A l \in InvLots : reserved'[o][l] = 0 - held[l]
      BY <2>1, <2>2 DEF Minus, Nothing
    <3>3. \A l \in InvLots : reserved'[o][l] = 0
      BY <3>1, <3>2
    <3> QED BY <3>1, <3>3 DEF Nothing
  <2>3. (\E x \in LotsOf(o), j \in RoundNos : rounds'[x][j].status = "DONE")
          => reserved'[o] = Nothing
    <3>1. CASE ~partial
      BY <2>1, <3>1
    <3>2. CASE partial
      <4>1. \A x \in LotsOf(o), j \in RoundNos :
              rounds'[x][j].status = "DONE" => rounds[x][j].status = "DONE"
        BY <1>5, <1>6, <3>2 DEF LotsOf
      <4> QED BY <2>2, <3>2, <4>1 DEF WaitInv, Waits
    <3> QED BY <3>1, <3>2
  <2>4. \A j \in RoundNos : rounds[p][j].status = "DONE" => rounds'[p][j].status = "DONE"
    BY <1>1, <1>6
  <2>5. SyncStatus(p, rounds') /\ UNCHANGED confirmed /\ lots[p].order = o
    BY <1>2, <1>4, <1>8
  <2>6. \A x \in ProdLots : x # p => rounds'[x] = rounds[x]
    BY <1>5
  <2> QED BY <2>3, <2>4, <2>5, <2>6, SyncWaits
<1> QED BY <1>10, <1>11 DEF WaitInv

\* Every request leaves every order line something to wait for.
LEMMA WaitStep ==
  ASSUME TypeOK, TypeOK', LifeInv, RoundsBooked, PlanInv, WaitInv, [Next]_vars
  PROVE  WaitInv'
<1>1. CASE ResultNext
  BY <1>1, ResultWaits
<1>2. ASSUME NEW S \in SUBSET WaitingLines, NEW first \in OrderLines, ConfirmShipment(S, first)
      PROVE  WaitInv'
  BY <1>2, ShipmentWaits
<1>3. ASSUME NEW o \in OrderLines, NEW type \in PlanTypes, ConfirmStockPlan(o, type) PROVE WaitInv'
  <2>1. \A x \in OrderLines : x # o => Shipped(x)' = Shipped(x)
    BY <1>3, StockPlanShips
  <2>2. UNCHANGED confirmed => Shipped(o)' = Shipped(o)
    BY <1>3 DEF ConfirmStockPlan, Shipped
  <2> QED BY <1>3, <2>1, <2>2, DecisionWaits
<1>4. CASE \A x \in OrderLines : Shipped(x)' = Shipped(x)
  <2>1. CASE OrderNext
    BY <1>3, <1>4, <2>1, RegistrationWaits, EditWaits, DecisionWaits, LotCreationWaits,
       QuantityChangeWaits, ClosingWaits, DeletionWaits DEF OrderNext
  <2>2. CASE ReworkNext
    BY <1>4, <2>2, LotCreationWaits
  <2>3. CASE ScheduleNext
    BY <1>4, <2>3, ScheduleWaits
  <2>4. CASE UNCHANGED <<orders, lots, rounds, reserved>>
    <3>1. \A x \in OrderLines : WaitsOn(x)
      BY <1>4, <2>4 DEF WaitsOn, LotsOf
    <3> QED BY <3>1, StillWaits DEF WaitInv
  <2>5. CASE StockNext
    BY <1>2, <2>4, <2>5 DEF StockNext, AdjustIn, AdjustOut
  <2> QED BY <1>1, <2>1, <2>2, <2>3, <2>4, <2>5 DEF Next, vars
<1> QED BY <1>1, <1>2, <1>3, <1>4, WhoShips

\* Before any request there is nothing to wait for.
LEMMA WaitInit == Init => WaitInv
BY DEF Init, WaitInv, Waits, NoOrderLine, NoLot, LotsOf

LEMMA WaitInvariant == Spec => []WaitInv
BY WaitInit, WaitStep, TypeCorrect, LifeInvariant, BookedInvariant, PlanInvariant, PTL DEF Spec

\* No order line is forgotten: whatever an unfinished one waits for, a screen shows it.
THEOREM NothingIsForgotten == Spec => []NothingWaitsUnseen
<1>1. TypeOK /\ LifeInv /\ WaitInv => NothingWaitsUnseen
  <2> SUFFICES ASSUME TypeOK, LifeInv, WaitInv, NEW o \in OrderLines,
                      orders[o].status \in {"OPEN", "CLOSED"}
               PROVE  \/ ListedLine(o).offered # {}
                      \/ orders[o].decided /\ "BASE_LOT" \in Buttons(o)
                      \/ UnfinishedLots(o) # {}
                      \/ ListedLine(o).shortage
                      \/ OutOfStockUndecided(o)
    BY DEF NothingWaitsUnseen
  <2>1. CASE orders[o].status = "OPEN"
    <3>1. LotsOf(o) = {}
      BY <2>1 DEF LifeInv, ReleasedWithLot
    <3>2. CASE orders[o].decided
      BY <2>1, <3>1, <3>2 DEF Buttons
    <3>3. CASE ~orders[o].decided
      BY <2>1, <3>1, <3>3 DEF ListedLine, OutOfStockUndecided
    <3> QED BY <3>2, <3>3
  <2>2. CASE orders[o].status = "CLOSED"
    <3>1. LotsOf(o) # {} /\ orders[o].plan.type \notin StockOnlyPlans
      BY <2>2 DEF LifeInv, ReleasedWithLot, WaitInv, Waits
    <3>2. CASE UnfinishedLots(o) = {}
      <4>1. Shipped(o) < Target(o)
        BY <2>2, <3>2 DEF UnfinishedLots, WaitInv, Waits
      <4>2. Remaining(o) > 0
        BY <4>1, QuantityTypes DEF Remaining, AtLeastZero
      <4> QED BY <2>2, <3>1, <4>2 DEF ListedLine
    <3> QED BY <3>2
  <2> QED BY <2>1, <2>2
<1> QED BY <1>1, TypeCorrect, LifeInvariant, WaitInvariant, PTL
-----------------------------------------------------------------------------
(* What the screens offer.                                                 *)

\* An order line that exists was ordered in a quantity that may be ordered.
QuantityOrdered ==
  \A o \in OrderLines : orders[o].status # "NONE" => orders[o].qty \in OrderQtys

\* Only a registration makes an order line, and only it and a quantity change
\* write the quantity.
LEMMA QuantityStep ==
  ASSUME TypeOK, LifeInv, QuantityOrdered, [Next]_vars
  PROVE  QuantityOrdered'
<1>1. ASSUME NEW o, NEW row, orders' = [orders EXCEPT ![o] = row],
             \/ row.qty \in OrderQtys
             \/ row.qty = orders[o].qty /\ orders[o].status # "NONE"
      PROVE  QuantityOrdered'
  <2>1. \A x \in OrderLines : orders'[x] = IF x = o THEN row ELSE orders[x]
    BY <1>1 DEF TypeOK
  <2> QED BY <1>1, <2>1 DEF QuantityOrdered
<1>2. CASE \A o \in OrderLines : /\ orders'[o].qty = orders[o].qty
                                 /\ orders[o].status = "NONE" => orders'[o].status = "NONE"
  BY <1>2 DEF QuantityOrdered
<1>3. CASE UNCHANGED orders
  BY <1>2, <1>3
<1>4. CASE OrderNext
  <2>1. PICK o \in OrderLines :
          \/ \E partner \in Partners, number \in OrderNumbers :
               \/ \E q \in OrderQtys : CreateOrderLine(o, partner, number, q)
               \/ EditOrderLine(o, partner, number)
          \/ \E q \in OrderQtys : \/ ChangeQuantityBeforeLot(o, q)
                                  \/ \E p \in ProdLots : ChangeQuantityOfLot(o, p, q)
          \/ \E type \in PlanTypes : ConfirmProductionPlan(o, type) \/ ConfirmStockPlan(o, type)
          \/ ConfirmPartialPlan(o)
          \/ \E p \in ProdLots : CreateBaseLot(o, p)
          \/ CancelOrderLine(o) \/ ShortClose(o) \/ DeleteOrderLines(o)
    BY <1>4 DEF OrderNext
  <2>2. orders[o] \in OrderLine
    BY DEF TypeOK
  <2>3. ASSUME NEW partner \in Partners, NEW number \in OrderNumbers,
               \/ \E q \in OrderQtys : CreateOrderLine(o, partner, number, q)
               \/ EditOrderLine(o, partner, number)
        PROVE  QuantityOrdered'
    <3>1. CASE \E q \in OrderQtys : CreateOrderLine(o, partner, number, q)
      BY <3>1, RegisteredRow DEF QuantityOrdered
    <3>2. CASE EditOrderLine(o, partner, number)
      BY <3>2, EditedRow DEF QuantityOrdered
    <3> QED BY <2>3, <3>1, <3>2
  <2>4. ASSUME NEW q \in OrderQtys,
               ChangeQuantityBeforeLot(o, q) \/ \E p \in ProdLots : ChangeQuantityOfLot(o, p, q)
        PROVE  QuantityOrdered'
    <3>1. \/ orders' = [orders EXCEPT ![o].qty = q, ![o].decided = FALSE, ![o].status = "OPEN"]
          \/ orders' = [orders EXCEPT ![o].qty = q, ![o].plan = RevisedPlan(o, q)]
      BY <2>4 DEF ChangeQuantityBeforeLot, ChangeQuantityOfLot
    <3>2. /\ orders'[o].qty = q
          /\ \A x \in OrderLines : x # o => orders'[x] = orders[x]
      BY <2>2, <3>1 DEF TypeOK, OrderLine
    <3> QED BY <3>2 DEF QuantityOrdered
  <2>5. ASSUME NEW type \in PlanTypes, ConfirmProductionPlan(o, type) \/ ConfirmStockPlan(o, type)
        PROVE  QuantityOrdered'
    <3>1. orders[o].status # "NONE" /\ \E st : Decide(o, type, Available, Remaining(o), st)
      BY <2>5 DEF ConfirmProductionPlan, ConfirmStockPlan, MayDecide
    <3>2. /\ orders'[o].qty = orders[o].qty
          /\ \A x \in OrderLines : x # o => orders'[x] = orders[x]
      BY <2>2, <3>1 DEF Decide, TypeOK, OrderLine
    <3> QED BY <3>1, <3>2 DEF QuantityOrdered
  <2>6. CASE ConfirmPartialPlan(o)
    <3>1. /\ orders[o].status # "NONE"
          /\ \E st, type : Decide(o, type, Available, Remaining(o), st)
      BY <2>6 DEF ConfirmPartialPlan, MayDecide
    <3>2. /\ orders'[o].qty = orders[o].qty
          /\ \A x \in OrderLines : x # o => orders'[x] = orders[x]
      BY <2>2, <3>1 DEF Decide, TypeOK, OrderLine
    <3> QED BY <3>1, <3>2 DEF QuantityOrdered
  <2>7. CASE (\E p \in ProdLots : CreateBaseLot(o, p)) \/ CancelOrderLine(o) \/ ShortClose(o)
    <3>1. /\ orders[o].status # "NONE"
          /\ \E st : orders' = [orders EXCEPT ![o].status = st]
      BY <2>7 DEF CreateBaseLot, CancelOrderLine, ShortClose
    <3>2. /\ orders'[o].qty = orders[o].qty
          /\ \A x \in OrderLines : x # o => orders'[x] = orders[x]
      BY <2>2, <3>1 DEF TypeOK, OrderLine
    <3> QED BY <3>1, <3>2 DEF QuantityOrdered
  <2>8. CASE DeleteOrderLines(o)
    <3>1. \A x \in OrderLines : orders'[x] \in {NoOrderLine, orders[x]}
      BY <2>8 DEF DeleteOrderLines
    <3>2. NoOrderLine.status = "NONE"
      BY DEF NoOrderLine
    <3> QED BY <3>1, <3>2 DEF QuantityOrdered
  <2> QED BY <2>1, <2>3, <2>4, <2>5, <2>6, <2>7, <2>8
<1>5. CASE ReworkNext
  <2>1. PICK o : orders' = [orders EXCEPT ![o].status = IF @ = "DONE" THEN "CLOSED" ELSE @]
    BY <1>5 DEF ReworkNext, CreateReworkLot
  <2>2. \A x \in OrderLines : /\ orders'[x].qty = orders[x].qty
                              /\ orders[x].status = "NONE" => orders'[x].status = "NONE"
    <3> TAKE x \in OrderLines
    <3>1. orders[x] \in OrderLine
      BY DEF TypeOK
    <3>2. \/ orders'[x] = orders[x]
          \/ orders[x].status = "DONE" /\ orders'[x] = [orders[x] EXCEPT !.status = "CLOSED"]
      <4> DEFINE st(y) == IF orders[y].status = "DONE" THEN "CLOSED" ELSE orders[y].status
      <4>1. orders' = [orders EXCEPT ![o] = [orders[o] EXCEPT !.status = st(o)]]
        BY <2>1
      <4>2. orders'[x] = IF x = o THEN [orders[o] EXCEPT !.status = st(o)] ELSE orders[x]
        BY <4>1 DEF TypeOK
      <4>3. \/ st(x) = orders[x].status
            \/ st(x) = "CLOSED" /\ orders[x].status = "DONE"
        OBVIOUS
      <4>4. [orders[x] EXCEPT !.status = orders[x].status] = orders[x]
        BY <3>1 DEF OrderLine
      <4> HIDE DEF st
      <4> QED BY <4>2, <4>3, <4>4
    <3> QED BY <3>1, <3>2 DEF OrderLine
  <2> QED BY <1>2, <2>2
<1>6. ASSUME NEW S \in SUBSET WaitingLines, NEW first \in OrderLines, ConfirmShipment(S, first)
      PROVE  QuantityOrdered'
  <2>1. \A x \in OrderLines :
          \/ orders'[x] = orders[x]
          \/ orders[x].status \in {"OPEN", "CLOSED"}
             /\ orders'[x] = [orders[x] EXCEPT !.status = "DONE"]
    BY <1>6 DEF ConfirmShipment
  <2>2. \A x \in OrderLines : orders[x] \in OrderLine
    BY DEF TypeOK
  <2>3. \A x \in OrderLines : /\ orders'[x].qty = orders[x].qty
                              /\ orders[x].status = "NONE" => orders'[x].status = "NONE"
    BY <2>1, <2>2 DEF OrderLine
  <2> QED BY <1>2, <2>3
<1>7. CASE StockNext
  BY <1>3, <1>6, <1>7 DEF StockNext, AdjustIn, AdjustOut
<1>8. ASSUME NEW p \in ProdLots, NEW rs, SyncStatus(p, rs), lots[p].order \in OrderLines
      PROVE  QuantityOrdered'
  <2>1. \A x \in OrderLines : /\ x # lots[p].order => orders'[x] = orders[x]
                              /\ orders'[x].qty = orders[x].qty
    BY <1>8, SyncKeeps
  <2>2. orders[lots[p].order].status # "NONE"
    BY <1>8 DEF LifeInv, ReleasedWithLot, LotsOf
  <2> QED BY <1>2, <2>1, <2>2
<1>9. CASE ScheduleNext
  <2>1. PICK p \in ProdLots, k \in RoundNos :
          CreateSchedule(p, k) \/ ReceiveSchedule(p, k) \/ StartSchedule(p, k) \/ CancelSchedule(p, k)
    BY <1>9 DEF ScheduleNext
  <2>2. CASE CreateSchedule(p, k)
    BY <1>3, <2>2 DEF CreateSchedule
  <2>3. CASE \E rs : rounds[p][k].status # "NONE" /\ SyncStatus(p, rs)
    BY <1>8, <2>3, ScheduledLot
  <2> QED BY <2>1, <2>2, <2>3 DEF ReceiveSchedule, StartSchedule, CancelSchedule
<1>10. CASE ResultNext
  <2>1. \E p \in ProdLots, k \in RoundNos :
          rounds[p][k].status # "NONE" /\ \E rs : SyncStatus(p, rs)
    <3>1. PICK p \in ProdLots, k \in RoundNos, r \in Results, partial \in BOOLEAN :
            rounds[p][k].status # "NONE" /\ Settle(p, k, partial, r)
      BY <1>10 DEF ResultNext, SaveSplit, SaveFinal, CorrectFinal
    <3> QED BY <3>1, SettleRounds
  <2> QED BY <1>8, <2>1, ScheduledLot
<1> QED BY <1>3, <1>4, <1>5, <1>7, <1>9, <1>10 DEF Next, vars

LEMMA QuantityInvariant == Spec => []QuantityOrdered
<1>1. Init => QuantityOrdered
  BY DEF Init, QuantityOrdered, NoOrderLine
<1> QED BY <1>1, QuantityStep, TypeCorrect, LifeInvariant, PTL DEF Spec

\* What was ordered asks for a shipment.
LEMMA TargetIsPositive ==
  ASSUME TypeOK, QuantityOrdered, NEW o \in OrderLines, orders[o].status # "NONE"
  PROVE  Target(o) > 0
<1>1. orders[o].qty \in Nat \ {0} /\ PartnerClass[orders[o].partner] \in PartnerClasses
  BY DEF QuantityOrdered, TypeOK, OrderLine
<1> QED BY <1>1 DEF Target, TargetOf, CalculateShipQty, PartnerClasses

\* What is reserved in all is the same by order lines and by lots.
LEMMA ReservedByLots ==
  ASSUME TypeOK
  PROVE  Reserved = SumFunction([l \in InvLots |-> ReservedOf(l)])
<1> DEFINE rows == [o \in OrderLines |-> ReservedBy(o)]
           columns == [l \in InvLots |-> ReservedOf(l)]
           held == [l \in InvLots |-> [o \in OrderLines |-> reserved[o][l]]]
<1>1. /\ Reserved = SumFunctionOnSet(rows, OrderLines)
      /\ SumFunction(columns) = SumFunctionOnSet(columns, InvLots)
  BY DEF Reserved, SumFunction
<1>2. \A o \in OrderLines, l \in InvLots : reserved[o][l] \in Int
  BY DEF TypeOK
<1>3. \A o \in OrderLines : rows[o] = SumFunctionOnSet(reserved[o], InvLots)
  BY DEF TypeOK, ReservedBy, SumFunction
<1>4. \A l \in InvLots : columns[l] = SumFunctionOnSet(held[l], OrderLines)
  BY DEF ReservedOf, SumFunction
<1>5. \A o \in OrderLines, l \in InvLots : held[l][o] = reserved[o][l]
  OBVIOUS
<1> HIDE DEF rows, columns, held
<1>6. IsTable(OrderLines, InvLots, reserved, held, rows, columns)
  BY <1>2, <1>3, <1>4, <1>5 DEF IsTable
<1>7. SumFunctionOnSet(rows, OrderLines) = SumFunctionOnSet(columns, InvLots)
  BY <1>6, FiniteRows, SumOfTable
<1> QED BY <1>1, <1>7 DEF columns

\* What is free of the lots is, in all, what the product has and is not reserved.
LEMMA FreeInAll ==
  ASSUME TypeOK, BooksAgree
  PROVE  SumFunction(FreeStock) = inventory - Reserved
<1> DEFINE held == [l \in InvLots |-> ReservedOf(l)]
<1>1. /\ inventory = SumFunctionOnSet(lotQty, InvLots)
      /\ SumFunction(FreeStock) = SumFunctionOnSet(FreeStock, InvLots)
      /\ SumFunction(held) = SumFunctionOnSet(held, InvLots)
  BY DEF BooksAgree, TypeOK, SumFunction, FreeStock
<1>2. \A l \in InvLots : /\ lotQty[l] \in Int /\ held[l] \in Int
                         /\ FreeStock[l] = lotQty[l] - held[l]
  BY ReservedType DEF TypeOK, FreeStock
<1>3. Reserved = SumFunction(held)
  BY ReservedByLots
<1> HIDE DEF held
<1>4. SumFunctionOnSet(FreeStock, InvLots)
        = SumFunctionOnSet(lotQty, InvLots) - SumFunctionOnSet(held, InvLots)
  BY <1>2, FiniteRows, SumDifference
<1> QED BY <1>1, <1>3, <1>4

\* What is available in all can be found in the lots, though some are overdrawn.
LEMMA AvailableIsFree ==
  ASSUME TypeOK, BooksAgree
  PROVE  Available <= SumFunction([l \in InvLots |-> AtLeastZero(FreeStock[l])])
<1> DEFINE free == [l \in InvLots |-> AtLeastZero(FreeStock[l])]
<1>1. \A l \in InvLots : FreeStock[l] \in Int
  BY ReservedType DEF TypeOK, FreeStock
<1>2. \A l \in InvLots : free[l] \in Nat /\ FreeStock[l] <= free[l]
  BY <1>1 DEF AtLeastZero
<1>3. /\ SumFunction(FreeStock) = SumFunctionOnSet(FreeStock, InvLots)
      /\ SumFunction(free) = SumFunctionOnSet(free, InvLots)
  BY DEF SumFunction, FreeStock
<1> HIDE DEF free
<1>4. SumFunctionOnSet(FreeStock, InvLots) <= SumFunctionOnSet(free, InvLots)
  BY <1>1, <1>2, FiniteRows, SumMonotone
<1>5. SumFunctionOnSet(free, InvLots) \in Nat
  BY <1>2, FiniteRows, SumNat
<1>6. inventory - Reserved <= SumFunction(free) /\ SumFunction(free) \in Nat
  BY <1>3, <1>4, <1>5, FreeInAll
<1>7. inventory - Reserved \in Int
  BY ReservedType DEF TypeOK
<1> HIDE DEF AtLeastZero
<1>8. Available <= SumFunction(free)
  BY <1>6, <1>7 DEF Available, AtLeastZero
<1> QED BY <1>8 DEF free

\* A plan that is offered is accepted, and its stock is there.
LEMMA OfferedPlanAccepted ==
  ASSUME TypeOK, BooksAgree, RoundsBooked, PlanInv, QuantityOrdered,
         NEW o \in OrderLines, confirmed[o] = Nothing, NEW type \in ListedLine(o).offered
  PROVE  /\ MayDecide(o, type)
         /\ HasNoStockLine(o)
         /\ PlannedStock(type, Available, Remaining(o))
              <= SumFunction([l \in InvLots |-> AtLeastZero(FreeStock[l])])
<1>1. /\ ~orders[o].decided /\ orders[o].status = "OPEN" /\ LotsOf(o) = {}
      /\ type \in OfferedPlans(Available, Target(o))
  BY DEF ListedLine
<1>2. Available \in Nat /\ Target(o) \in Nat /\ Target(o) > 0
  BY <1>1, QuantityTypes, TargetIsPositive
<1>3. Remaining(o) = Target(o)
  <2>1. Shipped(o) = 0
    BY <1>1, NothingShipped
  <2> QED BY <1>2, <2>1 DEF Remaining, AtLeastZero
<1>4. type \in AcceptedPlans(Available, Remaining(o))
  BY <1>1, <1>2, <1>3 DEF OfferedPlans, AcceptedPlans, PlanTypes, AtLeastZero
<1>5. HasNoStockLine(o)
  BY <1>1 DEF PlanInv, PlanKept, HasNoStockLine
<1>6. PlannedStock(type, Available, Remaining(o)) <= Available
  BY <1>2, <1>3, <1>4, PlannedStockIsAvailable
<1>7. PlannedStock(type, Available, Remaining(o)) \in Int
  BY <1>2, <1>3 DEF PlannedStock
<1> DEFINE free == SumFunction([l \in InvLots |-> AtLeastZero(FreeStock[l])])
<1>8. free \in Int
  <2>1. [l \in InvLots |-> AtLeastZero(FreeStock[l])] \in [InvLots -> Nat]
    BY ReservedType DEF TypeOK, FreeStock, AtLeastZero
  <2> QED BY <2>1, SumOverLots
<1>9. Available <= free
  BY AvailableIsFree
<1> HIDE DEF free
<1>10. PlannedStock(type, Available, Remaining(o)) <= free
  BY <1>2, <1>6, <1>7, <1>8, <1>9
<1> QED BY <1>1, <1>4, <1>5, <1>10 DEF MayDecide, free

\* The stock that the form of a result offers is nobody else's.
LEMMA ShownStockIsFree ==
  ASSUME TypeOK, LifeInv, BooksAgree, NEW p \in ProdLots, NEW k \in RoundNos,
         rounds[p][k].status = "IN_PROGRESS", \A l \in InvLots : ReservedOf(l) <= lotQty[l]
  PROVE  ShownStock(p, k) + (Reserved - ReservedBy(lots[p].order)) <= inventory
<1> DEFINE g == [l \in InvLots |-> IF lotQty[l] > 0 THEN AtLeastZero(FreeStock[l]) ELSE 0]
           o == lots[p].order
<1>1. o \in OrderLines
  BY ScheduledLot
<1>2. ASSUME NEW l \in InvLots PROVE g[l] = FreeStock[l]
  <2>1. ReservedOf(l) \in Nat /\ lotQty[l] \in Int /\ FreeStock[l] = lotQty[l] - ReservedOf(l)
    BY ReservedType DEF TypeOK, FreeStock
  <2>2. ReservedOf(l) <= lotQty[l]
    OBVIOUS
  <2> QED BY <2>1, <2>2 DEF AtLeastZero
<1>3. SumFunction(g) = inventory - Reserved
  <2>1. /\ SumFunction(g) = SumFunctionOnSet(g, InvLots)
        /\ SumFunction(FreeStock) = SumFunctionOnSet(FreeStock, InvLots)
    BY DEF SumFunction, FreeStock
  <2> HIDE DEF g
  <2>2. SumFunctionOnSet(g, InvLots) = SumFunctionOnSet(FreeStock, InvLots)
    BY <1>2, FiniteRows, SumSame
  <2> QED BY <2>1, <2>2, FreeInAll
<1>4. Reserved \in Nat /\ ReservedBy(o) \in Nat /\ inventory \in Int
  BY <1>1, ReservedType DEF TypeOK
<1>5. ShownStock(p, k) = Least(AtLeastZero(inventory), SumFunction(g) + ReservedBy(o))
  BY DEF ShownStock
<1> HIDE DEF g, o
<1>6. ShownStock(p, k) + (Reserved - ReservedBy(o)) <= inventory
  BY <1>3, <1>4, <1>5 DEF Least, AtLeastZero
<1> QED BY <1>6 DEF o

\* What the screens offer, the server accepts and the stock has: plans, base LOTs
\* and the stock for a result.
THEOREM OffersAccepted == Spec => []OffersAreAccepted
<1>1. ASSUME TypeOK, LifeInv, RoundsBooked, BooksAgree, PlanInv, WaitInv, QuantityOrdered
      PROVE  OffersAreAccepted
  <2>1. ASSUME NEW o \in OrderLines, confirmed[o] = Nothing, NEW type \in ListedLine(o).offered
        PROVE  LET planned == PlannedStock(type, Available, Remaining(o)) IN
               /\ MayDecide(o, type)
               /\ planned > 0 =>
                    /\ HasNoStockLine(o)
                    /\ planned <= SumFunction([l \in InvLots |-> AtLeastZero(FreeStock[l])])
    BY <1>1, <2>1, OfferedPlanAccepted
  <2>2. ASSUME NEW o \in OrderLines, "BASE_LOT" \in Buttons(o), orders[o].decided
        PROVE  orders[o].plan.production > 0
    <3>1. orders[o].status = "OPEN"
      BY <2>2 DEF Buttons
    <3> QED BY <1>1, <2>2, <3>1 DEF WaitInv, Waits
  <2>3. ASSUME NEW p \in ProdLots, NEW k \in RoundNos, rounds[p][k].status = "IN_PROGRESS",
               \A l \in InvLots : ReservedOf(l) <= lotQty[l]
        PROVE  ShownStock(p, k) + (Reserved - ReservedBy(lots[p].order)) <= inventory
    BY <1>1, <2>3, ShownStockIsFree
  <2> QED BY <2>1, <2>2, <2>3 DEF OffersAreAccepted
<1> QED BY <1>1, TypeCorrect, LifeInvariant, BookedInvariant, BooksAlwaysAgree, PlanInvariant,
        WaitInvariant, QuantityInvariant, PTL
-----------------------------------------------------------------------------
(* What the screens of inspections count.                                  *)

\* A LOT with a final round went through inspection in full.
InFull(p) ==
  (\E k \in RoundNos : rounds[p][k].status = "DONE") => GridReceived(p) >= lots[p].qty

FullInv == \A p \in ProdLots : InFull(p)

\* A LOT without a final round is not asked for it.
LEMMA NotFinalInFull ==
  ASSUME NEW p \in ProdLots, \A k \in RoundNos : rounds'[p][k].status # "DONE"
  PROVE  InFull(p)'
BY DEF InFull

\* A LOT that keeps its quantity and its results stays inspected in full.
LEMMA SameResultsInFull ==
  ASSUME NEW p \in ProdLots, InFull(p), lots'[p].qty = lots[p].qty,
         \A k \in RoundNos :
           /\ rounds'[p][k].status = "DONE" <=> rounds[p][k].status = "DONE"
           /\ HasResult(p, k)' <=> HasResult(p, k)
           /\ HasResult(p, k) => rounds'[p][k].received = rounds[p][k].received
  PROVE  InFull(p)'
<1> DEFINE f == [k \in RoundNos |-> rounds[p][k].received]
           g == [k \in RoundNos |-> rounds'[p][k].received]
<1>1. ResultRows(p)' = ResultRows(p)
  BY DEF ResultRows
<1>2. \A k \in ResultRows(p) : g[k] = f[k]
  BY DEF ResultRows
<1>3. IsFiniteSet(ResultRows(p))
  BY FiniteRows, FS_Subset DEF ResultRows
<1>4. /\ GridReceived(p) = SumFunctionOnSet(f, ResultRows(p))
      /\ GridReceived(p)' = SumFunctionOnSet(g, ResultRows(p))
  BY <1>1 DEF GridReceived
<1> HIDE DEF f, g
<1>5. GridReceived(p)' = GridReceived(p)
  BY <1>2, <1>3, <1>4, SumSame
<1> QED BY <1>5 DEF InFull

\* A LOT whose row and rounds stay, too.
LEMMA SameRowsInFull ==
  ASSUME NEW p \in ProdLots, InFull(p), lots'[p].qty = lots[p].qty, rounds'[p] = rounds[p]
  PROVE  InFull(p)'
BY SameResultsInFull DEF HasResult

\* Requests about order lines make LOTs, and change and delete them, only while
\* nothing of them is inspected.
LEMMA OrdersInFull ==
  ASSUME TypeOK, LifeInv, FullInv, OrderNext \/ ReworkNext
  PROVE  FullInv'
<1>1. ASSUME NEW o, NEW p \in ProdLots, NEW q, NEW rework, IsUnused(p), NewLot(o, p, q, rework),
             UNCHANGED rounds
      PROVE  FullInv'
  <2>1. \A x \in ProdLots : x # p => lots'[x] = lots[x]
    BY <1>1 DEF NewLot, TypeOK
  <2>2. InFull(p)'
    BY <1>1, NotFinalInFull DEF IsUnused, LifeInv, LotsLinked
  <2> QED BY <1>1, <2>1, <2>2, SameRowsInFull DEF FullInv
<1>2. CASE UNCHANGED <<lots, rounds>>
  BY <1>2, SameRowsInFull DEF FullInv
<1>3. ASSUME NEW o \in OrderLines, NEW p \in ProdLots, NEW q \in OrderQtys,
             ChangeQuantityOfLot(o, p, q)
      PROVE  FullInv'
  <2>1. /\ UNCHANGED rounds
        /\ \A k \in RoundNos : rounds[p][k].status # "DONE"
        /\ \A x \in ProdLots : x # p => lots'[x] = lots[x]
    BY <1>3 DEF ChangeQuantityOfLot, TypeOK
  <2>2. InFull(p)'
    BY <2>1, NotFinalInFull
  <2> QED BY <2>1, <2>2, SameRowsInFull DEF FullInv
<1>4. ASSUME NEW o \in OrderLines, DeleteOrderLines(o) PROVE FullInv'
  <2> SUFFICES ASSUME NEW p \in ProdLots PROVE InFull(p)'
    BY DEF FullInv
  <2>1. \/ lots'[p] = lots[p] /\ rounds'[p] = rounds[p]
        \/ rounds'[p] = [k \in RoundNos |-> NoRound]
    BY <1>4 DEF DeleteOrderLines
  <2>2. CASE rounds'[p] = [k \in RoundNos |-> NoRound]
    BY <2>2, NotFinalInFull DEF NoRound
  <2>3. CASE lots'[p] = lots[p] /\ rounds'[p] = rounds[p]
    BY <2>3, SameRowsInFull DEF FullInv
  <2> QED BY <2>1, <2>2, <2>3
<1>5. CASE OrderNext
  <2>1. PICK o \in OrderLines :
          \/ \E q \in OrderQtys : \E p \in ProdLots : ChangeQuantityOfLot(o, p, q)
          \/ DeleteOrderLines(o)
          \/ UNCHANGED <<lots, rounds>>
          \/ UNCHANGED rounds /\ \E p \in ProdLots : \E q : CreatePrimaryLot(o, p, q)
    <3>1. PICK o \in OrderLines :
            \/ \E partner \in Partners, number \in OrderNumbers :
                 \/ \E q \in OrderQtys : CreateOrderLine(o, partner, number, q)
                 \/ EditOrderLine(o, partner, number)
            \/ \E q \in OrderQtys : \/ ChangeQuantityBeforeLot(o, q)
                                    \/ \E p \in ProdLots : ChangeQuantityOfLot(o, p, q)
            \/ \E type \in PlanTypes : ConfirmProductionPlan(o, type) \/ ConfirmStockPlan(o, type)
            \/ ConfirmPartialPlan(o)
            \/ \E p \in ProdLots : CreateBaseLot(o, p)
            \/ CancelOrderLine(o) \/ ShortClose(o) \/ DeleteOrderLines(o)
      BY <1>5 DEF OrderNext
    <3>2. ASSUME NEW partner, NEW number, NEW q, CreateOrderLine(o, partner, number, q)
          PROVE  UNCHANGED rounds /\ (UNCHANGED lots \/ \E p \in ProdLots : \E n : CreatePrimaryLot(o, p, n))
      BY <3>2 DEF CreateOrderLine
    <3>3. ASSUME NEW type, ConfirmProductionPlan(o, type)
          PROVE  UNCHANGED rounds /\ (UNCHANGED lots \/ \E p \in ProdLots : \E n : CreatePrimaryLot(o, p, n))
      BY <3>3 DEF ConfirmProductionPlan
    <3>4. ASSUME NEW p \in ProdLots, CreateBaseLot(o, p)
          PROVE  UNCHANGED rounds /\ \E n : CreatePrimaryLot(o, p, n)
      BY <3>4 DEF CreateBaseLot
    <3>5. ASSUME \/ \E q : ChangeQuantityBeforeLot(o, q)
                 \/ \E type : ConfirmStockPlan(o, type)
                 \/ \E partner, number : EditOrderLine(o, partner, number)
                 \/ ConfirmPartialPlan(o) \/ CancelOrderLine(o) \/ ShortClose(o)
          PROVE  UNCHANGED <<lots, rounds>>
      BY <3>5 DEF ChangeQuantityBeforeLot, EditOrderLine, ConfirmStockPlan, ConfirmPartialPlan, CancelOrderLine,
         ShortClose
    <3> QED BY <3>1, <3>2, <3>3, <3>4, <3>5
  <2> QED BY <1>1, <1>2, <1>3, <1>4, <2>1 DEF CreatePrimaryLot
<1>6. CASE ReworkNext
  BY <1>1, <1>6 DEF ReworkNext, CreateReworkLot
<1> QED BY <1>5, <1>6

\* Schedules have no result before and after.
LEMMA SchedulesInFull ==
  ASSUME TypeOK, FullInv, ScheduleNext
  PROVE  FullInv'
<1>1. PICK p \in ProdLots, k \in RoundNos :
        CreateSchedule(p, k) \/ ReceiveSchedule(p, k) \/ StartSchedule(p, k) \/ CancelSchedule(p, k)
  BY DEF ScheduleNext
<1>2. PICK st \in {"WAITING", "RECEIVED", "IN_PROGRESS", "CANCELED"} :
        /\ rounds' = [rounds EXCEPT ![p][k].status = st]
        /\ rounds[p][k].status \in {"NONE", "WAITING", "RECEIVED"}
  BY <1>1 DEF CreateSchedule, ReceiveSchedule, StartSchedule, CancelSchedule, FreeRound, SyncStatus
<1>3. rounds[p][k] \in Round
  BY DEF TypeOK
<1>4. /\ rounds'[p][k] = [rounds[p][k] EXCEPT !.status = st]
      /\ \A x \in ProdLots : x # p => rounds'[x] = rounds[x]
      /\ \A j \in RoundNos : j # k => rounds'[p][j] = rounds[p][j]
  BY <1>2 DEF TypeOK
<1>5. rounds'[p][k].status = st
  BY <1>3, <1>4 DEF Round
<1>6. \A x \in ProdLots : lots'[x].qty = lots[x].qty
  <2>1. CASE CreateSchedule(p, k)
    BY <2>1 DEF CreateSchedule
  <2>2. CASE \E rs : SyncStatus(p, rs)
    BY <2>2, SyncKeeps
  <2> QED BY <1>1, <2>1, <2>2 DEF ReceiveSchedule, StartSchedule, CancelSchedule
<1>7. InFull(p)'
  <2>1. \A j \in RoundNos :
          /\ rounds'[p][j].status = "DONE" <=> rounds[p][j].status = "DONE"
          /\ HasResult(p, j)' <=> HasResult(p, j)
          /\ HasResult(p, j) => rounds'[p][j].received = rounds[p][j].received
    BY <1>2, <1>4, <1>5 DEF HasResult, Finished
  <2> QED BY <1>6, <2>1, SameResultsInFull DEF FullInv
<1> QED BY <1>4, <1>6, <1>7, SameRowsInFull DEF FullInv

\* The last result only counts when the LOT is covered; more results are more.
LEMMA ResultsInFull ==
  ASSUME TypeOK, TypeOK', FullInv, ResultNext
  PROVE  FullInv'
<1>1. PICK p \in ProdLots, k \in RoundNos, r \in Results, partial \in BOOLEAN :
        /\ Settle(p, k, partial, r)
        /\ \/ rounds[p][k].status = "IN_PROGRESS"
           \/ rounds[p][k].status = "DONE" /\ ~partial
  BY DEF ResultNext, SaveSplit, SaveFinal, CorrectFinal
<1>2. PICK saved \in Round :
        /\ saved.status = IF partial THEN "PARTIAL_DONE" ELSE "DONE"
        /\ saved.received = r.received
        /\ SyncStatus(p, [rounds EXCEPT ![p] = RoundsSettled(p, k, partial, saved)])
  BY <1>1, SettleRounds
<1>3. /\ \A x \in ProdLots : x # p => rounds'[x] = rounds[x]
      /\ rounds'[p] = RoundsSettled(p, k, partial, saved)
      /\ \A x \in ProdLots : lots'[x].qty = lots[x].qty
  BY <1>2, SyncKeeps DEF SyncStatus, TypeOK
<1> DEFINE f == [j \in RoundNos |-> rounds[p][j].received]
           g == [j \in RoundNos |-> rounds'[p][j].received]
           others == {j \in RoundNos \ {k} : rounds[p][j].status \in {"PARTIAL_DONE", "DONE"}}
<1>4. rounds'[p][k] = saved
  BY <1>3 DEF RoundsSettled
<1>5. ASSUME NEW j \in RoundNos, j # k
      PROVE  /\ rounds'[p][j].status = "DONE" <=> rounds[p][j].status = "DONE"
             /\ HasResult(p, j)' <=> HasResult(p, j)
             /\ HasResult(p, j) => g[j] = f[j]
  <2>1. rounds[p][j] \in Round
    BY DEF TypeOK
  <2>2. \/ rounds'[p][j] = [NoRound EXCEPT !.status = "RECEIVED"] /\ rounds[p][j].status = "NONE"
        \/ rounds'[p][j] = [rounds[p][j] EXCEPT !.settled = TRUE]
        \/ rounds'[p][j] = rounds[p][j]
    BY <1>3, <1>5 DEF RoundsSettled, FreeRound
  <2>3. [NoRound EXCEPT !.status = "RECEIVED"].status = "RECEIVED"
    BY DEF NoRound
  <2> QED BY <2>1, <2>2, <2>3 DEF Round, HasResult, Finished
<1>6. /\ ResultRows(p)' = others \cup {k} /\ k \notin others
      /\ ResultRows(p) \in {others, others \cup {k}}
      /\ k \in ResultRows(p) => ~partial
  <2>1. HasResult(p, k)'
    BY <1>2, <1>4 DEF HasResult, Finished
  <2>2. HasResult(p, k) => ~partial
    BY <1>1 DEF HasResult, Finished
  <2> QED BY <1>5, <2>1, <2>2 DEF ResultRows, HasResult, Finished
<1>7. IsFiniteSet(others) /\ IsFiniteSet({k})
  BY FiniteRows, FS_Subset, FS_Singleton
<1>8. \A j \in RoundNos : f[j] \in Nat /\ g[j] \in Nat
  <2>1. \A j \in RoundNos : rounds[p][j] \in Round /\ rounds'[p][j] \in Round
    BY DEF TypeOK
  <2> QED BY <2>1 DEF Round
<1>9. /\ SumFunctionOnSet(f, others) \in Nat
      /\ SumFunctionOnSet(g, others) = SumFunctionOnSet(f, others)
  <2>1. \A j \in others : g[j] = f[j] /\ f[j] \in Nat
    BY <1>5, <1>8 DEF HasResult, Finished
  <2> HIDE DEF f, g, others
  <2> QED BY <1>7, <2>1, SumNat, SumSame
<1>10. lots[p].qty \in Nat /\ r.received \in Nat
  <2>1. lots[p] \in Lot
    BY DEF TypeOK
  <2> QED BY <2>1 DEF Lot, Results
<1>11. GridReceived(p)' = SumFunctionOnSet(f, others) + r.received
  <2>1. GridReceived(p)' = SumFunctionOnSet(g, others \cup {k})
    BY <1>6 DEF GridReceived
  <2>2. g[k] = r.received /\ r.received \in Int
    BY <1>2, <1>4, <1>10
  <2>3. /\ others \cap {k} = {}
        /\ \A j \in others \cup {k} : g[j] \in Int
    BY <1>8
  <2> HIDE DEF f, g, others
  <2>4. SumFunctionOnSet(g, others \cup {k}) = SumFunctionOnSet(g, others) + SumFunctionOnSet(g, {k})
    BY <1>7, <2>3, SumDisjoint
  <2>5. SumFunctionOnSet(g, {k}) = r.received
    <3>1. k \in {k} /\ \A y \in {k} : g[y] = IF y = k THEN r.received ELSE 0
      BY <2>2
    <3> DEFINE one == {k}
               n == r.received
    <3>2. /\ IsFiniteSet(one) /\ k \in one /\ n \in Int
          /\ \A y \in one : g[y] = IF y = k THEN n ELSE 0
      BY <1>7, <2>2, <3>1
    <3> HIDE DEF one, n
    <3>3. SumFunctionOnSet(g, one) = n
      BY <3>2, SumOnly
    <3> QED BY <3>3 DEF one, n
  <2> QED BY <1>9, <2>1, <2>4, <2>5
<1>12. InFull(p)'
  <2>1. CASE ~partial
    <3>1. r.received + SumFunctionOnSet(f, others) >= lots[p].qty
      BY <1>1, <2>1 DEF Settle, CoversLot
    <3> HIDE DEF f, others
    <3> QED BY <1>3, <1>9, <1>10, <1>11, <3>1 DEF InFull
  <2>2. CASE partial
    <3>1. rounds'[p][k].status # "DONE"
      BY <1>2, <1>4, <2>2
    <3>2. (\E j \in RoundNos : rounds'[p][j].status = "DONE")
            => \E j \in RoundNos : rounds[p][j].status = "DONE"
      BY <1>5, <3>1
    <3>3. GridReceived(p) = SumFunctionOnSet(f, others)
      BY <1>6, <2>2 DEF GridReceived
    <3> HIDE DEF f, others
    <3> QED BY <1>3, <1>9, <1>10, <1>11, <3>2, <3>3 DEF FullInv, InFull
  <2> QED BY <2>1, <2>2
<1> QED BY <1>3, <1>12, SameRowsInFull DEF FullInv

LEMMA FullInvariant == Spec => []FullInv
<1>1. Init => FullInv
  BY DEF Init, FullInv, InFull, NoRound
<1>2. TypeOK /\ TypeOK' /\ LifeInv /\ FullInv /\ [Next]_vars => FullInv'
  <2> SUFFICES ASSUME TypeOK, TypeOK', LifeInv, FullInv, [Next]_vars PROVE FullInv'
    OBVIOUS
  <2>1. CASE StockNext \/ UNCHANGED vars
    <3>1. UNCHANGED <<lots, rounds>>
      BY <2>1 DEF StockNext, ConfirmShipment, AdjustIn, AdjustOut, vars
    <3> QED BY <3>1, SameRowsInFull DEF FullInv
  <2> QED BY <2>1, OrdersInFull, SchedulesInFull, ResultsInFull DEF Next
<1> QED BY <1>1, <1>2, TypeCorrect, LifeInvariant, PTL DEF Spec

\* A finite set of rounds has a last one.
LEMMA LastRound ==
  ASSUME NEW S \in SUBSET RoundNos, S # {}
  PROVE  LastOf(S) \in S /\ \A j \in S : j <= LastOf(S)
<1>1. S \in SUBSET Nat /\ IsFiniteSet(S)
  <2>1. IsFiniteSet(S)
    BY FiniteRows, FS_Subset
  <2>2. RoundNos \in SUBSET Nat
    BY DEF RoundNos
  <2> QED BY <2>1, <2>2
<1>2. \E k \in S : \A j \in S : k >= j
  BY <1>1, GreatestNat
<1>3. \E k \in S : \A j \in S : j <= k
  BY <1>1, <1>2
<1> QED BY <1>3 DEF LastOf

\* The screens of inspections tell the truth about the rounds of a LOT: form, grid
\* and trace count the same pieces, and a LOT that is done was inspected in full.
THEOREM InspectionsShown == Spec => []InspectionScreensAgree
<1>1. ASSUME TypeOK, LifeInv, RoundsBooked, WaitInv, FullInv, NEW p \in ProdLots
      PROVE  /\ \A k \in RoundNos : HasResult(p, k) /\ rounds[p][k].settled =>
                  Settles(rounds[p][k].sellable, ShownCarryIn(p, k), 0, rounds[p][k].stockIn,
                          rounds[p][k].discard)
             /\ \A k \in ResultRows(p) : k = LastOf(ResultRows(p)) =>
                  /\ Accumulated(p, k).received + rounds[p][k].received = GridReceived(p)
                  /\ Accumulated(p, k).sellable + rounds[p][k].sellable = TraceInspection(p).sellable
             /\ lots[p].status = "DONE" =>
                  InspectionDoneShown(p) /\ GridReceived(p) >= lots[p].qty
  <2>1. ASSUME NEW k \in RoundNos, HasResult(p, k), rounds[p][k].settled
        PROVE  Settles(rounds[p][k].sellable, ShownCarryIn(p, k), 0, rounds[p][k].stockIn,
                       rounds[p][k].discard)
    <3>1. PriorUnsettled(p, k) = 0
      <4>1. {j \in RoundNos : j < k /\ rounds[p][j].status = "PARTIAL_DONE"
                              /\ ~rounds[p][j].settled} = {}
        BY <1>1 DEF RoundsBooked, RoundBooked
      <4> QED BY <4>1, SumOfNone DEF PriorUnsettled
    <3>2. /\ rounds[p][k].stockIn = rounds[p][k].sellable - rounds[p][k].discard
          /\ rounds[p][k].sellable \in Nat /\ rounds[p][k].discard \in Nat
      BY <1>1, <2>1 DEF RoundsBooked, RoundBooked, TypeOK, Round
    <3>3. ShownCarryIn(p, k) = 0
      BY <2>1, <3>1, <3>2 DEF ShownCarryIn, AtLeastZero
    <3> QED BY <3>2, <3>3 DEF Settles
  <2>2. ASSUME NEW k \in ResultRows(p), k = LastOf(ResultRows(p)), NEW f,
               \A j \in RoundNos : f[j] \in Int
        PROVE  SumFunctionOnSet(f, {j \in RoundNos : j < k /\ HasResult(p, j)}) + f[k]
                 = SumFunctionOnSet(f, ResultRows(p))
    <3> DEFINE earlier == {j \in RoundNos : j < k /\ HasResult(p, j)}
    <3>1. k \in RoundNos /\ \A j \in ResultRows(p) : j <= k
      BY <2>2, LastRound DEF ResultRows
    <3>2. /\ ResultRows(p) = earlier \cup {k} /\ earlier \cap {k} = {}
          /\ earlier \subseteq RoundNos
      BY <3>1 DEF ResultRows, RoundNos
    <3>3. IsFiniteSet(earlier) /\ IsFiniteSet({k})
      BY FiniteRows, FS_Subset, FS_Singleton, <3>2
    <3>4. f[k] \in Int /\ \A j \in earlier \cup {k} : f[j] \in Int
      BY <2>2, <3>1
    <3> HIDE DEF earlier
    <3>5. SumFunctionOnSet(f, {k}) = f[k]
      <4>1. \A y \in {k} : f[y] = IF y = k THEN f[k] ELSE 0
        OBVIOUS
      <4> QED BY <3>3, <3>4, <4>1, SumOnly
    <3>6. SumFunctionOnSet(f, earlier \cup {k}) = SumFunctionOnSet(f, earlier) + SumFunctionOnSet(f, {k})
      BY <3>2, <3>3, <3>4, SumDisjoint
    <3> QED BY <3>2, <3>5, <3>6 DEF earlier
  <2>3. {k \in Scheduled(p) : HasResult(p, k)} = ResultRows(p)
    BY DEF Scheduled, ResultRows, HasResult, Finished
  <2>4. ASSUME NEW k \in ResultRows(p), k = LastOf(ResultRows(p))
        PROVE  /\ Accumulated(p, k).received + rounds[p][k].received = GridReceived(p)
               /\ Accumulated(p, k).sellable + rounds[p][k].sellable = TraceInspection(p).sellable
    <3> DEFINE f == [j \in RoundNos |-> rounds[p][j].received]
               g == [j \in RoundNos |-> rounds[p][j].sellable]
               earlier == {j \in RoundNos : j < k /\ HasResult(p, j)}
    <3>1. k \in RoundNos
      BY DEF ResultRows
    <3>2. /\ f[k] = rounds[p][k].received /\ g[k] = rounds[p][k].sellable
          /\ \A j \in RoundNos : f[j] \in Int /\ g[j] \in Int
      BY <1>1, <3>1 DEF TypeOK, Round
    <3>3. /\ Accumulated(p, k).received = SumFunctionOnSet(f, earlier)
          /\ Accumulated(p, k).sellable = SumFunctionOnSet(g, earlier)
      BY DEF Accumulated
    <3>4. /\ GridReceived(p) = SumFunctionOnSet(f, ResultRows(p))
          /\ TraceInspection(p).sellable = SumFunctionOnSet(g, ResultRows(p))
      BY <2>3 DEF GridReceived, TraceInspection
    <3> HIDE DEF f, g
    <3>5. /\ SumFunctionOnSet(f, earlier) + f[k] = SumFunctionOnSet(f, ResultRows(p))
          /\ SumFunctionOnSet(g, earlier) + g[k] = SumFunctionOnSet(g, ResultRows(p))
      BY <2>2, <2>4, <3>2
    <3> QED BY <3>2, <3>3, <3>4, <3>5
  <2>5. ASSUME lots[p].status = "DONE"
        PROVE  InspectionDoneShown(p) /\ GridReceived(p) >= lots[p].qty
    <3>1. lots[p].order \in OrderLines
      <4>1. lots[p] # NoLot
        BY <2>5 DEF NoLot
      <4> QED BY <1>1, <4>1 DEF LifeInv, LotsLinked, TypeOK, Lot
    <3>2. PICK k \in RoundNos : rounds[p][k].status = "DONE"
      BY <1>1, <2>5, <3>1 DEF WaitInv, Waits, LotsOf
    <3>3. ResultRows(p) \in SUBSET RoundNos /\ ResultRows(p) # {}
      BY <3>2 DEF ResultRows, HasResult, Finished
    <3>4. HasResult(p, LastOf(ResultRows(p)))
      BY <3>3, LastRound DEF ResultRows
    <3>5. InspectionDoneShown(p)
      BY <2>3, <3>3, <3>4 DEF InspectionDoneShown, TraceInspection, HasResult
    <3> QED BY <1>1, <3>2, <3>5 DEF FullInv, InFull
  <2> QED BY <2>1, <2>4, <2>5
<1>2. TypeOK /\ LifeInv /\ RoundsBooked /\ WaitInv /\ FullInv => InspectionScreensAgree
  BY <1>1 DEF InspectionScreensAgree
<1> QED BY <1>2, TypeCorrect, LifeInvariant, BookedInvariant, WaitInvariant, FullInvariant, PTL
-----------------------------------------------------------------------------
(* What is finished early, and what is carried in.                         *)

\* Order line o is finished as shipped though one of its LOTs is still at work.
FinishedEarly(o) ==
  /\ orders[o].status # "DONE" /\ orders'[o].status = "DONE"
  /\ Shipped(o)' >= Target(o)'
  /\ \E p \in LotsOf(o)' : lots'[p].status \notin {"DONE", "CANCELED"}

\* Its own reservation is shipped, and no LOT and no inspection is touched.
OwnReservationShipped(o) ==
  /\ Shipped(o)' > Shipped(o)
  /\ Shipped(o)' - Shipped(o) = ReservedBy(o) - ReservedBy(o)'
  /\ UNCHANGED <<lots, rounds>>

OnlyShipmentsFinishEarly ==
  [][\A o \in OrderLines : FinishedEarly(o) => OwnReservationShipped(o)]_vars

LEMMA EarlyFinishStep ==
  ASSUME TypeOK, TypeOK', LifeInv, PlanInv, [Next]_vars, NEW o \in OrderLines, FinishedEarly(o)
  PROVE  OwnReservationShipped(o)
<1>1. ~(ScheduleNext \/ ResultNext)
  BY InspectionFinishes DEF FinishedEarly
<1>2. ASSUME NEW x \in OrderLines, NEW partner \in Partners, NEW number \in OrderNumbers,
             \/ \E q \in OrderQtys : CreateOrderLine(x, partner, number, q)
             \/ EditOrderLine(x, partner, number)
      PROVE  FALSE
  <2>1. orders'[o].status \in {orders[o].status, "OPEN", "CLOSED"}
    BY <1>2, RegisteredRow, EditedRow
  <2> QED BY <2>1 DEF FinishedEarly
<1>3. CASE ReworkNext
  <2>1. orders'[o].status \in {orders[o].status, "CLOSED"}
    BY <1>3 DEF ReworkNext, CreateReworkLot, TypeOK, OrderLine
  <2> QED BY <2>1 DEF FinishedEarly
<1>4. ASSUME NEW x \in OrderLines, NEW type \in PlanTypes, ConfirmStockPlan(x, type) PROVE FALSE
  <2>1. o = x /\ UNCHANGED lots
    BY <1>4 DEF ConfirmStockPlan, Decide, TypeOK, OrderLine, FinishedEarly
  <2>2. orders[o].status = "OPEN"
    BY <1>4, <2>1 DEF ConfirmStockPlan, MayDecide, PlanInv, PlanKept
  <2>3. LotsOf(o)' = {}
    BY <2>1, <2>2 DEF LifeInv, ReleasedWithLot, LotsOf
  <2> QED BY <2>3 DEF FinishedEarly
<1>5. ASSUME NEW x \in OrderLines, ShortClose(x) PROVE FALSE
  <2>1. o = x
    BY <1>5 DEF ShortClose, TypeOK, OrderLine, FinishedEarly
  <2>2. Shipped(o)' = Shipped(o) /\ Target(o)' = Target(o)
    <3>1. orders'[o].qty = orders[o].qty
      BY <1>5 DEF ShortClose, TypeOK, OrderLine
    <3> QED BY <1>5, <3>1 DEF ShortClose, Shipped, Target
  <2> QED BY <1>5, <2>1, <2>2, QuantityTypes DEF ShortClose, Remaining, AtLeastZero, FinishedEarly
<1>6. CASE OrderNext
  <2>1. PICK x \in OrderLines :
          \/ \E q \in OrderQtys :
               ChangeQuantityBeforeLot(x, q) \/ \E p \in ProdLots : ChangeQuantityOfLot(x, p, q)
          \/ \E type \in PlanTypes : ConfirmProductionPlan(x, type)
          \/ ConfirmPartialPlan(x)
          \/ \E p \in ProdLots : CreateBaseLot(x, p)
          \/ CancelOrderLine(x)
          \/ DeleteOrderLines(x)
    BY <1>2, <1>4, <1>5, <1>6 DEF OrderNext
  <2>2. orders'[o].status \in {orders[o].status, "OPEN", "CLOSED", "CANCELED", "NONE"}
    <3>1. CASE \E q \in OrderQtys : ChangeQuantityBeforeLot(x, q)
      BY <3>1 DEF ChangeQuantityBeforeLot, TypeOK, OrderLine
    <3>2. CASE \E p \in ProdLots, q \in OrderQtys : ChangeQuantityOfLot(x, p, q)
      BY <3>2 DEF ChangeQuantityOfLot, TypeOK, OrderLine
    <3>3. CASE \E type \in PlanTypes : ConfirmProductionPlan(x, type)
      <4>1. PICK type, status : Decide(x, type, Available, Remaining(x), status)
                                /\ status \in {orders[x].status, "CLOSED"}
        BY <3>3 DEF ConfirmProductionPlan
      <4> QED BY <4>1 DEF Decide, TypeOK, OrderLine
    <3>4. CASE ConfirmPartialPlan(x)
      BY <3>4 DEF ConfirmPartialPlan, Decide, TypeOK, OrderLine
    <3>5. CASE \E p \in ProdLots : CreateBaseLot(x, p)
      BY <3>5 DEF CreateBaseLot, TypeOK, OrderLine
    <3>6. CASE CancelOrderLine(x)
      BY <3>6 DEF CancelOrderLine, TypeOK, OrderLine
    <3>7. CASE DeleteOrderLines(x)
      <4>1. NoOrderLine.status = "NONE"
        BY DEF NoOrderLine
      <4> QED BY <3>7, <4>1 DEF DeleteOrderLines
    <3> QED BY <2>1, <3>1, <3>2, <3>3, <3>4, <3>5, <3>6, <3>7
  <2> QED BY <2>2 DEF FinishedEarly
<1>7. CASE StockNext
  <2>1. PICK S \in SUBSET WaitingLines, first \in OrderLines : ConfirmShipment(S, first)
    BY <1>7 DEF StockNext, AdjustIn, AdjustOut, FinishedEarly
  <2>2. \E l \in InvLots : <<o, l>> \in S
    <3>1. o \in {ol[1] : ol \in S}
      BY <2>1 DEF ConfirmShipment, FinishedEarly
    <3> QED BY <3>1 DEF WaitingLines
  <2>3. UNCHANGED <<lots, rounds>>
    BY <2>1 DEF ConfirmShipment
  <2> QED BY <2>1, <2>2, <2>3, ShipmentShips DEF OwnReservationShipped
<1>8. CASE UNCHANGED vars
  BY <1>8 DEF vars, FinishedEarly
<1> QED BY <1>1, <1>3, <1>6, <1>7, <1>8 DEF Next

\* An order line that is finished as shipped while one of its LOTs is at work is
\* finished by the confirmation of its own reserved shipment lines and by nothing
\* else: no inspection, plan, rework or adjustment does it.
THEOREM EarlyOnlyByShipment == Spec => OnlyShipmentsFinishEarly
<1>1. TypeOK /\ TypeOK' /\ LifeInv /\ PlanInv /\ [Next]_vars =>
        [\A o \in OrderLines : FinishedEarly(o) => OwnReservationShipped(o)]_vars
  BY EarlyFinishStep
<1> QED BY <1>1, TypeCorrect, LifeInvariant, PlanInvariant, PTL DEF Spec, OnlyShipmentsFinishEarly

\* Without rounds from before results were settled at once, the carry-in that the
\* form of a result shows is the one that saving it counts: there is none.
THEOREM CarryInCounts == Spec => []ShownCarryInCounts
<1>1. ASSUME TypeOK, RoundsBooked, NEW p \in ProdLots, NEW k \in RoundNos
      PROVE  ShownCarryIn(p, k) = 0 /\ Carried(p, k) = 0
  <2>1. \A j \in RoundNos : ~(rounds[p][j].status = "PARTIAL_DONE" /\ ~rounds[p][j].settled)
    BY <1>1 DEF RoundsBooked, RoundBooked
  <2>2. PriorUnsettled(p, k) = 0
    <3>1. {j \in RoundNos : j < k /\ rounds[p][j].status = "PARTIAL_DONE"
                            /\ ~rounds[p][j].settled} = {}
      BY <2>1
    <3> QED BY <3>1, SumOfNone DEF PriorUnsettled
  <2>3. Carried(p, k) = 0
    <3>1. Unsettled(p, k) = {}
      BY <2>1 DEF Unsettled
    <3> QED BY <3>1, SumOfNone DEF Carried
  <2>4. HasResult(p, k) => /\ rounds[p][k].stockIn = rounds[p][k].sellable - rounds[p][k].discard
                           /\ rounds[p][k].sellable \in Nat /\ rounds[p][k].discard \in Nat
    BY <1>1, <2>1 DEF RoundsBooked, RoundBooked, TypeOK, Round, HasResult, Finished
  <2> QED BY <2>2, <2>3, <2>4 DEF ShownCarryIn, AtLeastZero
<1>2. TypeOK /\ RoundsBooked => ShownCarryInCounts
  BY <1>1 DEF ShownCarryInCounts
<1> QED BY <1>2, TypeCorrect, BookedInvariant, PTL
-----------------------------------------------------------------------------
(* First come, first served.                                               *)

\* No lot is twice in a queue.
EachOnce(queue) == \A i, j \in DOMAIN queue : queue[i] = queue[j] => i = j

\* What the lots of a queue can give, and one of them alone.
GivenBy(avail, queue) ==
  [l \in InvLots |-> IF l \in Range(queue) THEN AtLeastZero(avail[l]) ELSE 0]
Givable(avail, queue) == SumFunction(GivenBy(avail, queue))

LEMMA GivenType ==
  ASSUME NEW avail, \A l \in InvLots : avail[l] \in Int, NEW queue
  PROVE  /\ GivenBy(avail, queue) \in [InvLots -> Nat]
         /\ Givable(avail, queue) \in Nat
<1>1. GivenBy(avail, queue) \in [InvLots -> Nat]
  BY DEF GivenBy, AtLeastZero
<1> QED BY <1>1, SumOverLots DEF Givable

\* Quantities that are nowhere less and add up to the same are the same.
LEMMA SameSumSameTerms ==
  ASSUME NEW f \in [InvLots -> Int], NEW g \in [InvLots -> Int],
         \A l \in InvLots : f[l] <= g[l], SumFunction(f) = SumFunction(g)
  PROVE  f = g
<1>1. ASSUME NEW l \in InvLots, f[l] # g[l] PROVE FALSE
  <2> DEFINE h == [f EXCEPT ![l] = g[l]]
  <2>1. /\ h \in [InvLots -> Int] /\ h[l] = g[l]
        /\ \A x \in InvLots : x # l => h[x] = f[x]
    OBVIOUS
  <2>2. SumFunctionOnSet(f, InvLots) = SumFunctionOnSet(g, InvLots)
    BY DEF SumFunction
  <2> HIDE DEF h
  <2>3. SumFunctionOnSet(h, InvLots) = SumFunctionOnSet(f, InvLots) + g[l] - f[l]
    BY <2>1, FiniteRows, SumChange
  <2>4. SumFunctionOnSet(h, InvLots) <= SumFunctionOnSet(g, InvLots)
    BY <2>1, FiniteRows, SumMonotone
  <2>5. SumFunctionOnSet(f, InvLots) \in Int
    BY FiniteRows, SumType
  <2>6. f[l] \in Int /\ g[l] \in Int /\ f[l] < g[l]
    BY <1>1
  <2> QED BY <2>2, <2>3, <2>4, <2>5, <2>6
<1> QED BY <1>1

\* A part is not more than the sum.
LEMMA PartOfSum ==
  ASSUME NEW f \in [InvLots -> Nat], NEW l \in InvLots
  PROVE  f[l] <= SumFunction(f)
<1> DEFINE h == [f EXCEPT ![l] = 0]
<1>1. h \in [InvLots -> Nat] /\ h[l] = 0 /\ \A x \in InvLots : x # l => h[x] = f[x]
  OBVIOUS
<1> HIDE DEF h
<1>2. \A x \in InvLots : f[x] \in Int /\ h[x] \in Int /\ (x # l => h[x] = f[x])
  BY <1>1
<1>3. SumFunctionOnSet(h, InvLots) = SumFunctionOnSet(f, InvLots) + h[l] - f[l]
  BY <1>2, FiniteRows, SumChange
<1>4. SumFunction(f) = SumFunctionOnSet(f, InvLots) /\ SumFunction(h) = SumFunctionOnSet(h, InvLots)
  BY <1>1 DEF SumFunction
<1>5. SumFunction(h) \in Nat /\ SumFunction(f) \in Nat /\ f[l] \in Nat
  BY <1>1, SumOverLots
<1> QED BY <1>1, <1>3, <1>4, <1>5

\* There is one way only to serve a need.
LEMMA TakeIsUnique ==
  ASSUME NEW avail, \A l \in InvLots : avail[l] \in Int,
         NEW queue \in Seq(InvLots), NEW need,
         NEW t \in [InvLots -> Nat], TakesInOrder(t, avail, queue, need),
         NEW u \in [InvLots -> Nat], TakesInOrder(u, avail, queue, need)
  PROVE  t = u
<1>1. /\ SumFunction(t) = SumFunction(u)
      /\ t \in [InvLots -> Int] /\ u \in [InvLots -> Int]
  BY DEF TakesInOrder
<1>2. CASE \A l \in InvLots : t[l] <= u[l]
  BY <1>1, <1>2, SameSumSameTerms
<1>3. CASE \A l \in InvLots : u[l] <= t[l]
  <2>1. u = t
    BY <1>1, <1>3, SameSumSameTerms
  <2> QED BY <2>1
<1>4. ASSUME NEW l \in InvLots, NEW m \in InvLots, t[l] > u[l], u[m] > t[m] PROVE FALSE
  <2>1. /\ t[l] \in Nat /\ u[l] \in Nat /\ t[m] \in Nat /\ u[m] \in Nat
        /\ AtLeastZero(avail[l]) \in Nat /\ AtLeastZero(avail[m]) \in Nat
    BY DEF AtLeastZero
  <2>2. t[l] > 0 /\ u[m] > 0 /\ l # m
    BY <1>4, <2>1
  <2>3. PICK i, j \in DOMAIN queue : queue[i] = l /\ queue[j] = m /\ i # j
    BY <2>2 DEF TakesInOrder, Range
  <2>4. t[l] <= AtLeastZero(avail[l]) /\ u[m] <= AtLeastZero(avail[m])
    BY DEF TakesInOrder
  <2>5. ~(i < j)
    BY <1>4, <2>1, <2>2, <2>3, <2>4 DEF TakesInOrder
  <2>6. ~(j < i)
    BY <1>4, <2>1, <2>2, <2>3, <2>4 DEF TakesInOrder
  <2>7. i \in Nat /\ j \in Nat
    OBVIOUS
  <2> QED BY <2>3, <2>5, <2>6, <2>7
<1> QED BY <1>2, <1>3, <1>4

\* What is served is there.
LEMMA TakeIsGivable ==
  ASSUME NEW avail, \A l \in InvLots : avail[l] \in Int, NEW queue, NEW need,
         NEW t \in [InvLots -> Nat], TakesInOrder(t, avail, queue, need)
  PROVE  need \in Nat /\ need <= Givable(avail, queue)
<1> DEFINE given == GivenBy(avail, queue)
<1>1. /\ SumFunction(t) = SumFunctionOnSet(t, InvLots)
      /\ SumFunction(given) = SumFunctionOnSet(given, InvLots)
      /\ given \in [InvLots -> Nat]
  BY GivenType DEF SumFunction
<1>2. \A l \in InvLots : t[l] <= given[l]
  BY DEF TakesInOrder, GivenBy, AtLeastZero
<1> HIDE DEF given
<1>3. \A l \in InvLots : t[l] \in Int /\ given[l] \in Int
  BY <1>1
<1>4. SumFunctionOnSet(t, InvLots) <= SumFunctionOnSet(given, InvLots)
  BY <1>2, <1>3, FiniteRows, SumMonotone
<1>5. need = SumFunction(t)
  BY DEF TakesInOrder
<1> QED BY <1>1, <1>4, <1>5, SumOverLots DEF Givable, given

\* Where something is left to give, one piece more can be served: of the first lot
\* that has not given all.
LEMMA OneMoreTaken ==
  ASSUME NEW avail, \A l \in InvLots : avail[l] \in Int,
         NEW queue \in Seq(InvLots), EachOnce(queue),
         NEW need \in Nat, need + 1 <= Givable(avail, queue),
         NEW t \in [InvLots -> Nat], TakesInOrder(t, avail, queue, need)
  PROVE  \E u \in [InvLots -> Nat] : TakesInOrder(u, avail, queue, need + 1)
<1> DEFINE Left == {i \in DOMAIN queue : t[queue[i]] < AtLeastZero(avail[queue[i]])}
<1>1. Left # {}
  <2>1. CASE Left = {}
    <3>1. ASSUME NEW l \in InvLots PROVE GivenBy(avail, queue)[l] <= t[l]
      <4>1. CASE l \in Range(queue)
        <5>1. PICK i \in DOMAIN queue : queue[i] = l
          BY <4>1 DEF Range
        <5>2. ~(t[l] < AtLeastZero(avail[l]))
          BY <2>1, <5>1
        <5>3. t[l] \in Nat /\ AtLeastZero(avail[l]) \in Nat
          BY DEF AtLeastZero
        <5> QED BY <4>1, <5>2, <5>3 DEF GivenBy
      <4>2. CASE l \notin Range(queue)
        BY <4>2 DEF GivenBy
      <4> QED BY <4>1, <4>2
    <3>2. Givable(avail, queue) <= SumFunction(t)
      <4> DEFINE given == GivenBy(avail, queue)
      <4>1. given \in [InvLots -> Nat] /\ \A l \in InvLots : given[l] <= t[l]
        BY <3>1, GivenType
      <4> HIDE DEF given
      <4>2. \A l \in InvLots : t[l] \in Int /\ given[l] \in Int
        BY <4>1
      <4>3. SumFunctionOnSet(given, InvLots) <= SumFunctionOnSet(t, InvLots)
        BY <4>1, <4>2, FiniteRows, SumMonotone
      <4>4. SumFunction(given) = SumFunctionOnSet(given, InvLots)
            /\ SumFunction(t) = SumFunctionOnSet(t, InvLots)
        BY <4>1 DEF SumFunction
      <4> QED BY <4>3, <4>4 DEF Givable, given
    <3>3. SumFunction(t) = need /\ Givable(avail, queue) \in Nat
      BY GivenType DEF TakesInOrder
    <3> QED BY <3>2, <3>3
  <2> QED BY <2>1
<1>2. PICK first \in Left : \A i \in Left : first <= i
  <2>1. Left \in SUBSET Nat
    OBVIOUS
  <2> HIDE DEF Left
  <2> QED BY <1>1, <2>1, LeastNat
<1> DEFINE x == queue[first]
           u == [t EXCEPT ![x] = t[x] + 1]
<1>3. /\ first \in DOMAIN queue /\ x \in InvLots /\ x \in Range(queue)
      /\ t[x] < AtLeastZero(avail[x])
  BY DEF Range
<1>4. \A l \in InvLots : t[l] \in Nat /\ AtLeastZero(avail[l]) \in Nat
  BY DEF AtLeastZero
<1>5. \A i \in DOMAIN queue : queue[i] \in InvLots /\ i \in Nat
  OBVIOUS
<1>6. \A i \in DOMAIN queue : i < first => t[queue[i]] = AtLeastZero(avail[queue[i]])
  <2>1. ASSUME NEW i \in DOMAIN queue, i < first
        PROVE  t[queue[i]] = AtLeastZero(avail[queue[i]])
    <3>1. ~(t[queue[i]] < AtLeastZero(avail[queue[i]]))
      BY <1>2, <1>3, <1>5, <2>1
    <3>2. t[queue[i]] <= AtLeastZero(avail[queue[i]])
      BY <1>5 DEF TakesInOrder
    <3> QED BY <1>4, <1>5, <3>1, <3>2
  <2> QED BY <2>1
<1>7. \A i \in DOMAIN queue : queue[i] = x => i = first
  BY <1>3 DEF EachOnce
<1> HIDE DEF x, Left
<1>8. /\ u \in [InvLots -> Nat] /\ u[x] = t[x] + 1
      /\ \A l \in InvLots : l # x => u[l] = t[l]
  BY <1>3, <1>4
<1> HIDE DEF u
<1>9. SumFunction(u) = need + 1
  <2>1. \A l \in InvLots : t[l] \in Int /\ u[l] \in Int /\ (l # x => u[l] = t[l])
    BY <1>8
  <2>2. SumFunctionOnSet(u, InvLots) = SumFunctionOnSet(t, InvLots) + u[x] - t[x]
    <3>1. x \in InvLots /\ IsFiniteSet(InvLots)
      BY <1>3, FiniteRows
    <3> HIDE FulfilmentAssumption
    <3> QED BY <2>1, <3>1, SumChange
  <2>3. SumFunction(u) = SumFunctionOnSet(u, InvLots) /\ SumFunction(t) = SumFunctionOnSet(t, InvLots)
    BY <1>8 DEF SumFunction
  <2>4. SumFunction(t) = need
    BY DEF TakesInOrder
  <2> QED BY <1>3, <1>4, <1>8, <2>2, <2>3, <2>4
<1>10. ASSUME NEW l \in InvLots
       PROVE  u[l] <= AtLeastZero(avail[l]) /\ (u[l] > 0 => l \in Range(queue))
  <2>1. CASE l = x
    BY <1>3, <1>4, <1>8, <2>1
  <2>2. CASE l # x
    BY <1>8, <2>2 DEF TakesInOrder
  <2> QED BY <2>1, <2>2
<1>11. ASSUME NEW i \in DOMAIN queue, NEW j \in DOMAIN queue, i < j, u[queue[j]] > 0
       PROVE  u[queue[i]] = AtLeastZero(avail[queue[i]])
  <2>1. t[queue[i]] = AtLeastZero(avail[queue[i]])
    <3>1. CASE queue[j] = x
      BY <1>6, <1>7, <1>11, <3>1
    <3>2. CASE queue[j] # x
      <4>1. t[queue[j]] > 0
        BY <1>5, <1>8, <1>11, <3>2
      <4> QED BY <1>11, <4>1 DEF TakesInOrder
    <3> QED BY <3>1, <3>2
  <2>2. queue[i] # x
    BY <1>3, <1>4, <2>1
  <2> QED BY <1>5, <1>8, <2>1, <2>2
<1>12. TakesInOrder(u, avail, queue, need + 1)
  BY <1>9, <1>10, <1>11 DEF TakesInOrder
<1> QED BY <1>8, <1>12

\* Whatever need is there is served, in the one way there is.
THEOREM ServedInOrder ==
  ASSUME NEW avail, \A l \in InvLots : avail[l] \in Int,
         NEW queue \in Seq(InvLots), EachOnce(queue), NEW need \in Nat
  PROVE  /\ (\E t \in Takes(need) : TakesInOrder(t, avail, queue, need))
              <=> need <= Givable(avail, queue)
         /\ \A t, u \in [InvLots -> Nat] :
              TakesInOrder(t, avail, queue, need) /\ TakesInOrder(u, avail, queue, need) => t = u
<1> DEFINE Served(n) == \E t \in [InvLots -> Nat] : TakesInOrder(t, avail, queue, n)
           P == {n \in Nat : n <= Givable(avail, queue) => Served(n)}
<1>1. Givable(avail, queue) \in Nat
  BY GivenType
<1>2. 0 \in P
  <2>1. Nothing \in [InvLots -> Nat] /\ \A l \in InvLots : Nothing[l] = 0 /\ 0 <= AtLeastZero(avail[l])
    BY DEF Nothing, AtLeastZero
  <2>2. SumFunction(Nothing) = 0
    BY NothingSum
  <2>3. \A i \in DOMAIN queue : queue[i] \in InvLots
    OBVIOUS
  <2>4. TakesInOrder(Nothing, avail, queue, 0)
    BY <2>1, <2>2, <2>3 DEF TakesInOrder
  <2> QED BY <2>1, <2>4
<1>3. ASSUME NEW n \in P PROVE n + 1 \in P
  <2>1. CASE n + 1 <= Givable(avail, queue)
    <3>1. n <= Givable(avail, queue)
      BY <1>1, <2>1
    <3>2. PICK t \in [InvLots -> Nat] : TakesInOrder(t, avail, queue, n)
      BY <1>3, <3>1
    <3>3. Served(n + 1)
      BY <2>1, <3>2, OneMoreTaken
    <3> QED BY <3>3
  <2>2. CASE ~(n + 1 <= Givable(avail, queue))
    BY <2>2
  <2> QED BY <2>1, <2>2
<1>4. P = Nat
  <2>1. P \in SUBSET Nat
    OBVIOUS
  <2> HIDE DEF P
  <2> QED BY <1>2, <1>3, <2>1, NatSet
<1>5. need <= Givable(avail, queue) => \E t \in Takes(need) : TakesInOrder(t, avail, queue, need)
  <2>1. ASSUME need <= Givable(avail, queue)
        PROVE  \E t \in Takes(need) : TakesInOrder(t, avail, queue, need)
    <3>1. need \in P
      BY <1>4
    <3>2. PICK t \in [InvLots -> Nat] : TakesInOrder(t, avail, queue, need)
      BY <2>1, <3>1
    <3>3. \A l \in InvLots : t[l] <= need
      BY <3>2, PartOfSum DEF TakesInOrder
    <3>4. t \in Takes(need)
      BY <3>3 DEF Takes
    <3> QED BY <3>2, <3>4
  <2> QED BY <2>1
<1>6. ASSUME NEW t \in Takes(need), TakesInOrder(t, avail, queue, need)
      PROVE  need <= Givable(avail, queue)
  BY <1>6, TakeType, TakeIsGivable
<1> QED BY <1>5, <1>6, TakeIsUnique

\* The queue of a product's lots has each lot once, and every lot that ever held,
\* brought in or gave something.
StockListed ==
  /\ EachOnce(fifo)
  /\ \A l \in InvLots : l \notin Range(fifo) =>
       /\ lotQty[l] = 0
       /\ \A p \in ProdLots, k \in RoundNos :
            rounds[p][k].ship[l] = 0 /\ (p = l => rounds[p][k].stockIn = 0)

\* A lot that comes in is the last one, if it is not there already.
LEMMA LotListed ==
  ASSUME NEW queue \in Seq(InvLots), EachOnce(queue), NEW l \in InvLots
  PROVE  EachOnce(WithLot(queue, l)) /\ Range(WithLot(queue, l)) = Range(queue) \cup {l}
<1>1. CASE l \in Range(queue)
  BY <1>1 DEF WithLot
<1>2. CASE l \notin Range(queue)
  <2> DEFINE next == Append(queue, l)
  <2>1. /\ WithLot(queue, l) = next
        /\ DOMAIN queue = 1..Len(queue) /\ DOMAIN next = 1..(Len(queue) + 1)
        /\ Len(queue) \in Nat /\ next[Len(queue) + 1] = l
        /\ \A i \in 1..Len(queue) : next[i] = queue[i]
    BY <1>2 DEF WithLot
  <2> HIDE DEF next
  <2>2. \A i \in DOMAIN next : i \in DOMAIN queue \/ i = Len(queue) + 1
    BY <2>1
  <2>3. \A i \in DOMAIN queue : queue[i] # l
    BY <1>2 DEF Range
  <2>4. EachOnce(next)
    BY <2>1, <2>2, <2>3 DEF EachOnce
  <2>5. Range(next) = Range(queue) \cup {l}
    BY <2>1, <2>2 DEF Range
  <2> QED BY <2>1, <2>4, <2>5
<1> QED BY <1>1, <1>2

\* Nothing is taken of a lot that is not in the queue.
LEMMA TakenIsListed ==
  ASSUME StockListed, NEW take \in [InvLots -> Nat],
         \A l \in InvLots : take[l] > 0 => l \in Range(fifo),
         lotQty' = Minus(lotQty, take), UNCHANGED fifo, UNCHANGED rounds
  PROVE  StockListed'
<1>1. ASSUME NEW l \in InvLots, l \notin Range(fifo) PROVE lotQty'[l] = 0
  <2>1. take[l] = 0 /\ lotQty[l] = 0 /\ lotQty'[l] = lotQty[l] - take[l]
    BY <1>1 DEF StockListed, Minus
  <2> QED BY <2>1
<1> QED BY <1>1 DEF StockListed, EachOnce

LEMMA SavedListed ==
  ASSUME TypeOK, RoundsBooked, StockListed, ResultNext
  PROVE  StockListed'
<1>1. PICK p \in ProdLots, k \in RoundNos, r \in Results, partial \in BOOLEAN :
        Settle(p, k, partial, r)
  BY ResultSaves
<1>2. PICK held, free, saved : SettledAs(p, k, partial, r, held, free, saved)
  BY <1>1, SettleParts
<1>3. rounds'[p][k] = saved /\ OtherMovementsKept(p, k)
  <2>1. PICK row \in Round :
          /\ row.status = IF partial THEN "PARTIAL_DONE" ELSE "DONE"
          /\ row.settled
          /\ row.received = r.received /\ row.sellable = r.sellable /\ row.discard = r.discard
          /\ row.stockIn = r.sellable + Carried(p, k) - r.discard
          /\ SyncStatus(p, [rounds EXCEPT ![p] = RoundsSettled(p, k, partial, row)])
    BY <1>1, SettleRounds
  <2>2. rounds' = [rounds EXCEPT ![p] = RoundsSettled(p, k, partial, row)]
    BY <2>1 DEF SyncStatus
  <2>3. row.stockIn = row.sellable + Carried(p, k) - row.discard
    BY <2>1
  <2>4. OtherMovementsKept(p, k)
    BY <2>1, <2>2, <2>3, SavedBooked
  <2> QED BY <1>2, <2>4 DEF SettledAs
<1>4. /\ EachOnce(fifo') /\ Range(fifo) \subseteq Range(fifo')
      /\ saved.stockIn > 0 => p \in Range(fifo')
  <2>1. EachOnce(fifo) /\ fifo \in Seq(InvLots) /\ p \in InvLots
    BY DEF StockListed, TypeOK, InvLots
  <2>2. fifo' = IF saved.stockIn > 0 THEN WithLot(fifo, p) ELSE fifo
    BY <1>2 DEF SettledAs
  <2>3. EachOnce(WithLot(fifo, p)) /\ Range(WithLot(fifo, p)) = Range(fifo) \cup {p}
    BY <2>1, LotListed
  <2> QED BY <2>1, <2>2, <2>3
<1>5. ASSUME NEW l \in InvLots, l \notin Range(fifo')
      PROVE  /\ lotQty'[l] = 0
             /\ \A x \in ProdLots, j \in RoundNos :
                  rounds'[x][j].ship[l] = 0 /\ (x = l => rounds'[x][j].stockIn = 0)
  <2>1. /\ lotQty[l] = 0
        /\ \A x \in ProdLots, j \in RoundNos :
             rounds[x][j].ship[l] = 0 /\ (x = l => rounds[x][j].stockIn = 0)
    BY <1>4, <1>5 DEF StockListed
  <2>2. LotQtyWithout(p, k)[l] = 0
    BY <2>1 DEF LotQtyWithout
  <2>3. held[l] \in Nat /\ free[l] \in Nat /\ saved.stockIn \in Int /\ r.fromRound \in Nat
    <3>1. held \in [InvLots -> Nat] /\ free \in [InvLots -> Nat] /\ saved \in Round
      BY <1>2 DEF SettledAs
    <3> QED BY <3>1 DEF Round, Results
  <2>4. held[l] = 0 /\ free[l] = 0
    BY <1>2, <1>4, <1>5, <2>2, <2>3 DEF SettledAs
  <2>5. l = p => saved.stockIn = 0 /\ r.fromRound = 0
    <3>1. saved.stockIn >= r.fromRound
      BY <1>2 DEF SettledAs
    <3> QED BY <1>4, <1>5, <2>3, <3>1
  <2>6. lotQty'[l] = 0 /\ saved.ship[l] = 0
    <3>1. /\ lotQty'[l] = LotQtyWithout(p, k)[l] - held[l] - free[l]
                          + (IF l = p THEN saved.stockIn - r.fromRound ELSE 0)
          /\ saved.ship[l] = held[l] + free[l] + (IF l = p THEN r.fromRound ELSE 0)
      BY <1>2 DEF SettledAs
    <3> QED BY <2>2, <2>4, <2>5, <3>1
  <2>7. \A x \in ProdLots, j \in RoundNos : x # p \/ j # k =>
          rounds'[x][j].ship[l] = 0 /\ (x = l => rounds'[x][j].stockIn = 0)
    BY <1>3, <2>1 DEF OtherMovementsKept
  <2> QED BY <1>3, <2>5, <2>6, <2>7
<1> QED BY <1>4, <1>5 DEF StockListed, EachOnce

LEMMA ShippedListed ==
  ASSUME TypeOK, StockListed, NEW S \in SUBSET WaitingLines, NEW first \in OrderLines,
         ConfirmShipment(S, first)
  PROVE  StockListed'
<1> DEFINE shippedOf(o) == [l \in InvLots |-> IF <<o, l>> \in S THEN reserved[o][l] ELSE 0]
           out == [l \in InvLots |-> SumFunction([o \in OrderLines |-> shippedOf(o)[l]])]
<1>1. /\ \A l \in InvLots : out[l] > 0 => out[l] <= lotQty[l]
      /\ lotQty' = Minus(lotQty, out) /\ UNCHANGED <<fifo, rounds>>
  BY DEF ConfirmShipment
<1>2. out \in [InvLots -> Nat]
  <2>1. ASSUME NEW l \in InvLots PROVE SumFunction([o \in OrderLines |-> shippedOf(o)[l]]) \in Nat
    <3>1. [o \in OrderLines |-> shippedOf(o)[l]] \in [OrderLines -> Nat]
      BY DEF TypeOK
    <3> HIDE DEF shippedOf
    <3> QED BY <3>1, SumOverOrders
  <2> HIDE DEF shippedOf
  <2> QED BY <2>1
<1> HIDE DEF out
<1>3. \A l \in InvLots : out[l] > 0 => l \in Range(fifo)
  BY <1>1, <1>2 DEF StockListed, TypeOK
<1> QED BY <1>1, <1>2, <1>3, TakenIsListed

LEMMA ListedStep ==
  ASSUME TypeOK, RoundsBooked, StockListed, [Next]_vars
  PROVE  StockListed'
<1>1. CASE MovementsKept /\ UNCHANGED stockVars
  BY <1>1 DEF StockListed, EachOnce, MovementsKept, stockVars
<1>2. CASE OrderNext
  <2>1. CASE \E o \in OrderLines, type \in PlanTypes : ConfirmStockPlan(o, type)
    <3>1. PICK o \in OrderLines, type \in PlanTypes, take \in Takes(Available) :
            /\ TakesInOrder(take, FreeStock, fifo, PlannedStock(type, Available, Remaining(o)))
            /\ lotQty' = Minus(lotQty, take) /\ UNCHANGED <<fifo, rounds>>
      BY <2>1 DEF ConfirmStockPlan
    <3>2. take \in [InvLots -> Nat]
      BY <3>1, QuantityTypes, TakeType
    <3> QED BY <3>1, <3>2, TakenIsListed DEF TakesInOrder
  <2>2. CASE UNCHANGED stockVars /\ UNCHANGED <<rounds, confirmed>>
    BY <1>1, <2>2 DEF MovementsKept
  <2>3. CASE UNCHANGED stockVars /\ \E o \in OrderLines : DeleteOrderLines(o)
    BY <1>1, <2>3, DeletionBooked
  <2> QED BY <1>2, <2>1, <2>2, <2>3, PlanningMovesNoStock
<1>3. CASE ReworkNext
  BY <1>1, <1>3 DEF ReworkNext, CreateReworkLot, MovementsKept
<1>4. CASE StockNext
  <2>1. CASE \E S \in SUBSET WaitingLines, first \in OrderLines : ConfirmShipment(S, first)
    BY <2>1, ShippedListed
  <2>2. CASE \E l \in AdjustLots, n \in AdjustQtys : AdjustIn(l, n)
    <3>1. PICK x \in AdjustLots, n \in AdjustQtys : AdjustIn(x, n)
      BY <2>2
    <3>2. x \in InvLots /\ fifo \in Seq(InvLots) /\ EachOnce(fifo)
      BY DEF InvLots, TypeOK, StockListed
    <3>3. fifo' = WithLot(fifo, x) /\ lotQty' = [lotQty EXCEPT ![x] = @ + n] /\ UNCHANGED rounds
      BY <3>1 DEF AdjustIn
    <3>4. EachOnce(fifo') /\ Range(fifo') = Range(fifo) \cup {x}
      BY <3>2, <3>3, LotListed
    <3>5. \A l \in InvLots : l # x => lotQty'[l] = lotQty[l]
      BY <3>3 DEF TypeOK
    <3> QED BY <3>3, <3>4, <3>5 DEF StockListed, EachOnce
  <2>3. CASE \E n \in AdjustQtys : AdjustOut(n)
    <3>1. PICK n \in AdjustQtys : AdjustOut(n)
      BY <2>3
    <3>2. PICK take \in Takes(n) : /\ TakesInOrder(take, lotQty, fifo, n)
                                   /\ lotQty' = Minus(lotQty, take) /\ UNCHANGED <<fifo, rounds>>
      BY <3>1 DEF AdjustOut
    <3>3. take \in [InvLots -> Nat]
      BY <3>2, TakeType
    <3> QED BY <3>2, <3>3, TakenIsListed DEF TakesInOrder
  <2> QED BY <1>4, <2>1, <2>2, <2>3 DEF StockNext
<1>5. CASE ScheduleNext
  BY <1>1, <1>5, ScheduleBooked
<1>6. CASE ResultNext
  BY <1>6, SavedListed
<1>7. CASE UNCHANGED vars
  BY <1>1, <1>7 DEF vars, stockVars, MovementsKept
<1> QED BY <1>2, <1>3, <1>4, <1>5, <1>6, <1>7 DEF Next

LEMMA ListedInit == Init => StockListed
BY DEF Init, StockListed, EachOnce, Nothing, NoRound

LEMMA ListedInvariant == Spec => []StockListed
BY ListedInit, ListedStep, TypeCorrect, BookedInvariant, PTL DEF Spec

\* What is free of the lots, less what is held of them, is to be had in their queue.
LEMMA FreeIsGivable ==
  ASSUME TypeOK, BooksAgree, StockListed, NEW held \in [InvLots -> Nat]
  PROVE  inventory - Reserved - SumFunction(held) <= Givable(FreeAfterHeld(held, lotQty), fifo)
<1> DEFINE left == FreeAfterHeld(held, lotQty)
           given == GivenBy(left, fifo)
<1>1. ASSUME NEW l \in InvLots
      PROVE  /\ left[l] \in Int /\ FreeStock[l] \in Int /\ held[l] \in Int
             /\ left[l] = FreeStock[l] - held[l] /\ given[l] \in Int /\ left[l] <= given[l]
  <2>1. lotQty[l] \in Int /\ ReservedOf(l) \in Nat /\ held[l] \in Nat
    BY ReservedType DEF TypeOK
  <2>2. left[l] = lotQty[l] - held[l] - ReservedOf(l) /\ FreeStock[l] = lotQty[l] - ReservedOf(l)
    BY DEF FreeAfterHeld, FreeStock
  <2>3. given[l] = IF l \in Range(fifo) THEN AtLeastZero(left[l]) ELSE 0
    BY DEF GivenBy
  <2>4. l \notin Range(fifo) => lotQty[l] = 0
    BY DEF StockListed
  <2> HIDE DEF left, given
  <2> QED BY <2>1, <2>2, <2>3, <2>4 DEF AtLeastZero
<1>2. /\ SumFunction(FreeStock) = SumFunctionOnSet(FreeStock, InvLots)
      /\ SumFunction(held) = SumFunctionOnSet(held, InvLots)
      /\ SumFunction(given) = SumFunctionOnSet(given, InvLots)
  BY DEF SumFunction, FreeStock, GivenBy
<1>3. Givable(left, fifo) = SumFunction(given)
  BY DEF Givable
<1> HIDE DEF left, given
<1>4. SumFunctionOnSet(left, InvLots)
        = SumFunctionOnSet(FreeStock, InvLots) - SumFunctionOnSet(held, InvLots)
  BY <1>1, FiniteRows, SumDifference
<1>5. SumFunctionOnSet(left, InvLots) <= SumFunctionOnSet(given, InvLots)
  BY <1>1, FiniteRows, SumMonotone
<1>6. SumFunction(FreeStock) = inventory - Reserved
  BY FreeInAll
<1>7. inventory - Reserved - SumFunction(held) <= Givable(left, fifo)
  BY <1>2, <1>3, <1>4, <1>5, <1>6
<1> QED BY <1>7 DEF left

\* Whatever plan is accepted, and whatever adjustment the stock has pieces for, finds
\* them in the lots: the check of the product's quantity is enough.
StockIsFound ==
  /\ \A o \in OrderLines : \A type \in AcceptedPlans(Available, Remaining(o)) :
       \E take \in Takes(Available) :
         TakesInOrder(take, FreeStock, fifo, PlannedStock(type, Available, Remaining(o)))
  /\ \A n \in Nat : n <= inventory => \E take \in Takes(n) : TakesInOrder(take, lotQty, fifo, n)

LEMMA PlanFindsStock ==
  ASSUME TypeOK, BooksAgree, StockListed, NEW need \in Nat, need <= Available
  PROVE  \E take \in Takes(Available) : TakesInOrder(take, FreeStock, fifo, need)
<1>1. Available \in Nat /\ Available <= Givable(FreeStock, fifo)
  <2>1. Nothing \in [InvLots -> Nat] /\ SumFunction(Nothing) = 0
    BY NothingSum DEF Nothing
  <2>2. FreeAfterHeld(Nothing, lotQty) = FreeStock
    BY ReservedType DEF FreeAfterHeld, FreeStock, Nothing, TypeOK
  <2>3. inventory - Reserved <= Givable(FreeStock, fifo)
    <3>1. inventory - Reserved - SumFunction(Nothing) <= Givable(FreeAfterHeld(Nothing, lotQty), fifo)
      BY <2>1, FreeIsGivable
    <3>2. inventory - Reserved \in Int
      BY ReservedType DEF TypeOK
    <3> QED BY <2>1, <2>2, <3>1, <3>2
  <2>4. Givable(FreeStock, fifo) \in Nat
    <3>1. \A l \in InvLots : FreeStock[l] \in Int
      BY ReservedType DEF FreeStock, TypeOK
    <3> QED BY <3>1, GivenType
  <2>5. inventory - Reserved \in Int
    BY ReservedType DEF TypeOK
  <2> QED BY <2>3, <2>4, <2>5 DEF Available, AtLeastZero
<1>2. /\ \A l \in InvLots : FreeStock[l] \in Int
      /\ fifo \in Seq(InvLots) /\ EachOnce(fifo)
  BY ReservedType DEF FreeStock, TypeOK, StockListed
<1>3. Givable(FreeStock, fifo) \in Nat
  BY <1>2, GivenType
<1>4. need <= Givable(FreeStock, fifo)
  BY <1>1, <1>3
<1>5. PICK take \in Takes(need) : TakesInOrder(take, FreeStock, fifo, need)
  BY <1>2, <1>4, ServedInOrder
<1>6. take \in Takes(Available)
  BY <1>1, <1>5 DEF Takes
<1> QED BY <1>5, <1>6

LEMMA AdjustmentFindsStock ==
  ASSUME TypeOK, BooksAgree, StockListed, NEW n \in Nat, n <= inventory
  PROVE  \E take \in Takes(n) : TakesInOrder(take, lotQty, fifo, n)
<1> DEFINE given == GivenBy(lotQty, fifo)
<1>1. \A l \in InvLots : lotQty[l] \in Int /\ given[l] \in Nat /\ lotQty[l] <= given[l]
  <2>1. ASSUME NEW l \in InvLots
        PROVE  lotQty[l] \in Int /\ given[l] \in Nat /\ lotQty[l] <= given[l]
    <3>1. lotQty[l] \in Int /\ (l \notin Range(fifo) => lotQty[l] = 0)
      BY DEF TypeOK, StockListed
    <3>2. given[l] = IF l \in Range(fifo) THEN AtLeastZero(lotQty[l]) ELSE 0
      BY DEF GivenBy
    <3> HIDE DEF given
    <3> QED BY <3>1, <3>2 DEF AtLeastZero
  <2> QED BY <2>1
<1>2. /\ inventory = SumFunctionOnSet(lotQty, InvLots)
      /\ Givable(lotQty, fifo) = SumFunctionOnSet(given, InvLots)
  BY DEF BooksAgree, SumFunction, TypeOK, Givable, GivenBy
<1> HIDE DEF given
<1>3. SumFunctionOnSet(lotQty, InvLots) <= SumFunctionOnSet(given, InvLots)
  <2>1. \A l \in InvLots : lotQty[l] \in Int /\ given[l] \in Int /\ lotQty[l] <= given[l]
    BY <1>1
  <2> QED BY <2>1, FiniteRows, SumMonotone
<1>4. Givable(lotQty, fifo) \in Nat /\ inventory \in Int
  BY <1>1, GivenType DEF TypeOK
<1>5. n <= Givable(lotQty, fifo)
  BY <1>2, <1>3, <1>4
<1>6. fifo \in Seq(InvLots) /\ EachOnce(fifo)
  BY DEF TypeOK, StockListed
<1> QED BY <1>1, <1>5, <1>6, ServedInOrder

\* An accepted plan finds its stock in the lots and an adjustment of no more than
\* the product has finds it there too: no request that passed the check of the
\* product's quantity comes short in the loop over the lots.
THEOREM StockAlwaysFound == Spec => []StockIsFound
<1>1. ASSUME TypeOK, BooksAgree, StockListed, NEW o \in OrderLines,
             NEW type \in AcceptedPlans(Available, Remaining(o))
      PROVE  \E take \in Takes(Available) :
               TakesInOrder(take, FreeStock, fifo, PlannedStock(type, Available, Remaining(o)))
  <2>1. Available \in Nat /\ Remaining(o) \in Nat
    BY <1>1, QuantityTypes
  <2>2. PlannedStock(type, Available, Remaining(o)) <= Available
    BY <1>1, <2>1, PlannedStockIsAvailable
  <2>3. PlannedStock(type, Available, Remaining(o)) \in Nat
    BY <2>1 DEF PlannedStock
  <2> QED BY <1>1, <2>2, <2>3, PlanFindsStock
<1>2. TypeOK /\ BooksAgree /\ StockListed => StockIsFound
  BY <1>1, AdjustmentFindsStock DEF StockIsFound
<1> QED BY <1>2, TypeCorrect, BooksAlwaysAgree, ListedInvariant, PTL

\* The stock that a first save of a result ships, what is reserved for its order
\* line first (held), is in the lots: if it is no more than the reservation, or no
\* more than is available to everybody.
ResultFindsStock ==
  \A p \in ProdLots, k \in RoundNos, n \in Nat :
    LET o == lots[p].order IN
    rounds[p][k].status = "IN_PROGRESS" /\ (n <= ReservedBy(o) \/ n <= Available) =>
      \A held \in Takes(n) :
        TakesInOrder(held, reserved[o], waitingOrder[o], Least(n, ReservedBy(o)))
        => \E free \in Takes(n) :
             TakesInOrder(free, FreeAfterHeld(held, LotQtyWithout(p, k)), fifo,
                          n - SumFunction(held))

\* The first save of a result is refused for want of free pieces in the lots only when
\* it wants more than its order line has reserved and more than is available besides:
\* only then it matters that what it takes of the reservation is subtracted twice.
THEOREM OnlyMixedRequestsShort == Spec => []ResultFindsStock
<1>1. ASSUME TypeOK, LifeInv, RoundsBooked, BooksAgree, StockListed,
             NEW p \in ProdLots, NEW k \in RoundNos, NEW n \in Nat,
             rounds[p][k].status = "IN_PROGRESS",
             n <= ReservedBy(lots[p].order) \/ n <= Available,
             NEW held \in Takes(n),
             TakesInOrder(held, reserved[lots[p].order], waitingOrder[lots[p].order],
                          Least(n, ReservedBy(lots[p].order)))
      PROVE  \E free \in Takes(n) :
               TakesInOrder(free, FreeAfterHeld(held, LotQtyWithout(p, k)), fifo,
                            n - SumFunction(held))
  <2> DEFINE o == lots[p].order
             left == FreeAfterHeld(held, lotQty)
             need == n - Least(n, ReservedBy(o))
  <2>1. o \in OrderLines /\ ReservedBy(o) \in Nat /\ Available \in Nat /\ Reserved \in Nat
    BY <1>1, ScheduledLot, ReservedType, QuantityTypes
  <2>2. FreeAfterHeld(held, LotQtyWithout(p, k)) = left
    BY <1>1, FirstSaveTakesBackNothing DEF FreeAfterHeld
  <2>3. held \in [InvLots -> Nat] /\ SumFunction(held) = Least(n, ReservedBy(o))
    BY <1>1, TakeType DEF TakesInOrder
  <2>4. n - SumFunction(held) = need /\ need \in Nat /\ need <= n
    BY <2>1, <2>3 DEF Least
  <2>5. need <= Givable(left, fifo)
    <3>1. Givable(left, fifo) \in Nat
      <4>1. \A l \in InvLots : left[l] \in Int
        BY <1>1, <2>3, ReservedType DEF FreeAfterHeld, TypeOK
      <4> QED BY <4>1, GivenType
    <3>2. inventory - Reserved - SumFunction(held) <= Givable(left, fifo)
      BY <1>1, <2>3, FreeIsGivable
    <3>3. CASE n <= ReservedBy(o)
      BY <2>1, <3>1, <3>3 DEF Least
    <3>4. CASE ~(n <= ReservedBy(o))
      <4>1. Available = inventory - Reserved /\ inventory \in Int
        BY <1>1, <2>1, <3>4 DEF Available, AtLeastZero, TypeOK
      <4>2. n <= Available /\ Least(n, ReservedBy(o)) = ReservedBy(o)
        BY <1>1, <2>1, <3>4 DEF Least
      <4> QED BY <2>1, <2>3, <3>1, <3>2, <4>1, <4>2
    <3> QED BY <3>3, <3>4
  <2>6. /\ \A l \in InvLots : left[l] \in Int
        /\ fifo \in Seq(InvLots) /\ EachOnce(fifo)
    BY <1>1, <2>3, ReservedType DEF FreeAfterHeld, TypeOK, StockListed
  <2> HIDE DEF left, need
  <2>7. PICK free \in Takes(need) : TakesInOrder(free, left, fifo, need)
    BY <2>4, <2>5, <2>6, ServedInOrder
  <2>8. free \in Takes(n)
    BY <2>4, <2>7 DEF Takes
  <2> QED BY <2>2, <2>4, <2>7, <2>8
<1>2. TypeOK /\ LifeInv /\ RoundsBooked /\ BooksAgree /\ StockListed => ResultFindsStock
  BY <1>1 DEF ResultFindsStock
<1> QED BY <1>2, TypeCorrect, LifeInvariant, BookedInvariant, BooksAlwaysAgree, ListedInvariant, PTL
=============================================================================
