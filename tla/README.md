# A verification of the MES backend

TLA+ modules, model-checking runs and machine-checked proofs about the order,
production, inspection, stock and outsourcing logic of the MES backend
(`src/backend/app`), its accounts, its files and its backups.

## 1. The system

A FastAPI backend over PostgreSQL runs the manufacturing of a tape and label
maker; a WPF client for employees and another one for an outside vendor call it.
Every request opens one session (`autoflush=False`), changes rows and commits
once. The rules are in `src/backend/app/services`; endpoints in `api/v1` call
them and commit.

| component | state (tables) | operations | what is hard | what makes it correct |
|---|---|---|---|---|
| Quantity policy | none | shipment target of a partner, offered and accepted plans, settlement of a round, derived LOT status | rounding, the boundary between full and partial stock | the rules agree with each other and with what was ordered |
| Order lines and plans | `order_line`, `order_line_plan_history` | register, confirm a plan, create the base LOT, change the quantity, cancel, short close, delete | long sequences of legal edits; unlocked reads | a released order line has its LOT; plan, reservation and LOT add up to the target |
| LOTs and rework | `lot`, `lot_step` | primary LOT, rework LOT, derived status | a rework LOT reopens a finished order line | one primary LOT, no orphan LOT |
| Inspection schedules | `inspection_schedule` | create, receive, start, cancel, move, for a LOT or a work group | statuses flow up to LOT and order line | an order line is finished only with its LOTs done and its target shipped; nothing is inspected that is still at the vendor's |
| Inspection results | `inspection_result`, movements, shipment lines | save a split round, a final round, correct a final round | reversal and rewriting of movements that others have built upon; unflushed rows | every sellable piece is settled once |
| Stock | `product_inventory`, `product_inventory_lot`, `product_inventory_movement`, `shipment_line` | reserve, allocate FIFO, confirm shipment, adjust | the same quantity kept in three places; reservations that lose their cover | the three books agree, never negative, nobody's reserved pieces go to somebody else |
| Initial stock | the same | upload of a sheet | a check before the lock that it relies on | nothing that is booked meanwhile is overwritten |
| Outsourced work, purchase orders | `outsource_work_instruction`, `_item`, `_group`, `outsource_purchase_order`, `production_progress_snapshot` | instruct, update, withdraw; order; the vendor's receipt, report and shipment | two companies act on one group; every screen asks other tables | a LOT is at one vendor, paid for once, as ordered; nothing received is withdrawn |
| Processing cost | `outsource_processing_cost_*` | create, edit, close, reopen and cancel cost groups; share an amount among LOTs; two lists | rounding of shares; groups that come back | nothing charged twice, shares add up, the lists show the same money |
| Sessions and accounts | `users`, `role`, `role_permission`, `vendor_user_access`, tokens | login, passwords, accounts, roles, permissions, vendor access | four tables decide what a token may do | a token dies with the rights it was issued under, for good |
| Drawings and attachments | `drawing_revision`, `drawing_revision_file`, `inspection_result_attachment`, the storage directory | create, add, replace, attach; a crash anywhere | storage and database commit apart | no row without its file |
| Backup | dump, copies, lock file, record of the rehearsal | back up online or in maintenance, rehearse a restore | uploads go on; every step may fail or be killed | a backup has the files its rows name; a record attests only what happened |
| Bulk uploads | order lines, products, partners | check a sheet, write its groups | others write between the check and the writing; savepoints | a sheet is taken as it was checked |
| Screens | queries over all of these | order grid, order line's detail, shipment grid, inspection form, grid and trace, daily production | they repeat the guards of the requests in SQL of their own | what is offered is accepted, nothing that waits is invisible, what is shown adds up |
| Clients, deployment, documents | | | I/O and layout | not part of the model |

Interactions. A plan reserves stock (`WAITING` shipment lines) and asks for a LOT;
the LOT is given to a vendor in a work group and gets inspection schedules; a
saved result uses or releases the reservation, ships, puts into stock, makes the
next schedule and, by `sync_lot_status_from_inspection_schedules`, moves the LOT
and perhaps the order line; a confirmed shipment moves stock and perhaps the order
line. All of them share the stock of a product: the order lines of one product
compete for it. Costs are computed of the work groups. Accounts, files, backups
and the uploads share no row with these, nor with each other, but for what is
named in their modules.

The hazards of this code, each at its line and with the properties aimed at it,
are in `PROJECT.json`; so are the components with what is left out of each.

## 2. The modules

- `QuantityPolicy`: the pure rules. A partner is abstracted to the class that its
  normalized name puts it in (`DIRECT`, `CAREGEN`, `STANDARD`).
- `Fulfilment`: the core, the order lines of one product from registration to
  shipment with their plans, LOTs, inspection rounds and stock. One action is one
  request, run as the one transaction that it is in the code.
- `OrderLifecycle`: the abstract specification, what an order line promises to
  those who see only its status and the shipped quantity. `Fulfilment` implements
  it under the mapping at the end of that module.
- `Screens` extends `Fulfilment` by what the queries show and offer.
- `ConcurrentOrders`: overlapping requests. A request is the sequence of its SQL
  statements, and sessions interleave between them.
- `OutsourceWork`: instructions, work groups, the vendor's requests, purchase
  orders, schedules, the progress snapshot, and what the screens offer of them.
- `GroupLifecycle`: the abstract specification, what a work group promises to
  planner, vendor and inspection. `OutsourceWork` implements it.
- `VendorOverlap`: `OutsourceWork` with the vendor's requests in two steps.
- `ProcessingCost`, `Accounts`, `StoredFiles`, `Backups` (on top of `StoredFiles`),
  `BulkUploads`, `InitialStock`: one component each.
- `MCFulfilment`, `MCConcurrentOrders`, `MCOutsourceWork`, `MCVendorOverlap`,
  `MCParts`: the constants and bounds of the small instances.
- `SumLemmas`, `Fulfilment_proofs`, `FulfilmentStock_proofs`, `ConcurrentOrders_proofs`,
  `OutsourceWork_proofs`, `Accounts_proofs`, `Backups_proofs` (of `StoredFiles` too),
  `CostAndStock_proofs` (of `ProcessingCost`, `InitialStock`, `BulkUploads` and all of
  `MCParts` together): the proofs. `FulfilmentStock_proofs` also has those about
  `Screens`, `OutsourceWork_proofs` those about `VendorOverlap`.

### How the state of `Fulfilment` corresponds to the tables

| variable | rows |
|---|---|
| `orders[o]` | an `order_line` (`status`, `partner_id`, `order_no`, `order_qty`, `decision_made`) with the latest row of its plan history, which also holds the target the plan was made for |
| `lots[p]` | a `lot`; `rework` is whether it has a parent |
| `rounds[p][k]` | the k-th `inspection_schedule` of LOT p, its `inspection_result` and the movements of that result: `stockIn` (INSPECTION_IN) and `ship[l]` (SHIP_OUT from lot l) |
| `reserved[o][l]`, `waitingOrder[o]` | the `WAITING` stock lines of o, and the lots they name in id order |
| `confirmed[o][l]` | SHIP_OUT movements of stock lines that were confirmed, by hand or by a stock plan |
| `inventory`, `lotQty[l]` | `product_inventory.current_qty`, `product_inventory_lot.current_qty` |
| `fifo` | the inventory lots that exist, by `created_at, id` |
| `manual[l]` | the net quantity of ADJUST movements of lot l |

Keeping movements at their source is what lets the model say what the code does
when a result is saved again: the movements of the round are taken back and
written anew. That `lotQty` and `inventory` still agree with them is a theorem,
not a matter of the representation.

A request that the code refuses (409, 422) is an action whose guard is false.
Two places depend on what the session has not flushed yet, and the model keeps
both: the status sync after a confirmation does not see the movements of the
request for the order line it looks at first (`first` in `ConfirmShipment`), and
the FIFO allocation of a result still counts the reservation it has just used
(`FreeAfterHeld`).

Abstractions. Dates, names, memos, logs, routing steps and defects are left out.
The several good and defective counts of a result become `received`, `sellable` and
`discard`. Of a partner only its class and whether it is the partner of
replenishments are known. `EditOrderLine` enters another partner or order number in
an OPEN order line, whatever has been planned and reserved for it; its product stays
the one product of the model, and so does a partner's name. LOT numbers are
interchangeable. The only bounds on behaviour are `MaxStock` (in `AdjustIn`) and
`MaxRounds` (in `SaveSplit` and by `FreeRound`).

`Screens` reads the same state: `ListedLine` is a row of the order grid, `Buttons`
the order line's detail, `WaitingShipments` the shipment grid, `ShownCarryIn` and
`ShownStock` the form of a result, `ResultRows`, `Accumulated` and `TraceInspection`
the lists of results. The screens order rounds by inspection date: the rounds of a
LOT are taken to be inspected in the order in which they were scheduled.

### How `ConcurrentOrders` corresponds to the code

`orders`, `lots`, `lines`, `inventory`, `lotQty` and `manual` are the committed
rows; `sess[s]` is the request that session s serves with what it has read,
`locks[s]` the row locks it holds, `todo[s]` the rows that its statement still has
to lock, one after the other. The engine sets no isolation level
(`core/db.py`), so PostgreSQL runs it as READ COMMITTED:

- a statement sees what is committed when it runs. A plan confirmation therefore
  reads the product's quantity, the reserved quantity and the shipped quantity at
  three moments (`ReadInventory`, `ReadReserved`, `ReadShipped`);
- `db.get` keeps the row it read for the rest of the request: `sess[s].row` is the
  stale order line that plan, base LOT, cancellation and short close decide on;
- `FOR UPDATE`, the UPDATE of a flush and the foreign key of an INSERT lock rows in
  modes of which only the last two, and two of the last, go together
  (`Compatible`); a WHERE condition is evaluated again on a row that was waited
  for (`CommitVoid`, `CountLines`);
- quantities are written as absolute values computed from what was read under the
  lock (`WriteStock`), so a forgotten lock would lose an update;
- writes appear at the commit, together; a refusal, a lock timeout or the choice of
  a deadlock victim rolls everything back (`Refuse`, `LockTimeout`);
- a LOT number is unique: a second session that inserts the same number waits for
  the first one to end, and then tries the next (`InsertLot`).

The order line's write sets only the columns that the request changed. The model
leaves out registration, deletion, rework, inspection and the snapshot rows of the
daily screen. Snapshot rows are locked after everything else, and only shipments
(one after the other, for they hold the product's row) and plan confirmations lock
several of them.

### How `OutsourceWork` corresponds to the code

| variable | rows |
|---|---|
| `instructions[i]` | an `outsource_work_instruction`: its process, its items, and those still `is_active` |
| `groups[g]` | an `outsource_work_group`: its instruction, status, sheets, the cuts of its items and the vendor's report (`output`) |
| `orders[k]` | a purchase order with the groups and the (instruction, LOT) pairs it names |
| `schedules[l][d]` | the `inspection_schedule` of a LOT and a date with the group it came from. There is one row at most, also when it is canceled (the unique key) |
| `lotStatus`, `made` | `lot.status`; the LOTs that exist |
| `progress[o]` | `production_progress_snapshot` of an order line, stored by the requests and never computed when it is shown |

A request lists its groups as the client made them (`Groupings`): nothing checks that
they are disjoint or complete, so a LOT may be in several groups of one request or in
none. `NamedOnce` is that no request did the first; which of the properties need it
is said there. Left out is a LOT that is listed twice within one group.

The LOTs exist from the start but for rework; an inspection result only ends its
round here, for its quantities are those of `Fulfilment`. The two modules share the
LOT's status by the same rule (`DeriveLotStatus` of `QuantityPolicy`). Requests that
refresh the snapshot before they flush see the old status for the first order line
(`RefreshedUnflushed`).

`VendorOverlap` splits receipt, report and shipment of the portal, which reads its
group with `db.get`, into the read and the write: the checks hold when the group is
read, the status is written whatever the row has become, and the output of a report
where it differs from what was read (the ORM writes no column that it left as it
was). The planner's requests lock the row and stay one step.

### The other components

- `ProcessingCost`: `costs[c]` is a cost group with its work groups, amounts and the
  share of every LOT (`Items`). A request is its read and its commit; `ListTargets`
  and `ListCosts` are the two lists.
- `Accounts`: `users`, `roles` and the tokens in use, each with the `auth_version`
  it was issued under; what `get_current_user` accepts is `Accepts`. A request, from
  its authentication to its commit, is one step.
- `StoredFiles`: the files in storage, the rows that name them, and what each upload
  has done so far: it stores, commits and removes in separate steps, and `Crash` ends
  all of them wherever they are.
- `Backups`: the dump, the copy of one directory after the other, the lock file that a
  killed backup leaves behind, finished backups, and the rehearsal with its record.
- `BulkUploads`: a sheet between its check and its writing, group by group.
- `InitialStock`: an upload between its look at the movements and its booking under
  the row locks; a row that does not exist yet cannot be locked (`NoRow`).

## 3. The runs

Quantities are small because the rules are about who holds a piece, not about how
many there are: with two pieces a lot can be covered, partly covered or
overdrawn, and a plan full, partial or for production only.

| run | instance | question |
|---|---|---|
| `one_order` | one order line at a time, a customer's of 1 or 2 pieces or a stock replenishment, one stock lot, two LOTs | books, negative stock, settlement, completion, over-shipment, overdrawn lots, LOTs without order line and what the screens show, under every order of planning, shipping, adjusting, inspecting, correcting, reworking and deleting |
| `two_orders` | two order lines, of one order number or two, of a partner that is shipped what was ordered or one that is shipped two percent more; one stock lot, one LOT of one round | competition for stock: plan against target while quantity and partner change, cover of reservations, what the screens offer, the abstract life of both order lines |
| `overlap` | `ConcurrentOrders`: two sessions, two order lines, one lot, three requests of any kind | books, promised stock and types under every interleaving of statements |
| `lock_order` | three sessions, three requests on two order lines with reservations | lines settled once; who gets into deadlocks |
| `waits_end` | two sessions, three requests, fairness | every wait ends without a timeout |
| `outsource` | two LOTs of two order lines, the rework of one, a LOT that is printed and one that is only inspected; two groups, disjoint or not, one purchase order, two schedules | groups, items, orders, schedules and snapshots agree, and the abstract life of a group |
| `parts` | one of `ProcessingCost`, `Accounts`, `StoredFiles`, `Backups`, `BulkUploads` (orders or master data) and `InitialStock`, chosen at the start | their properties |
| `done_after_lots`, `stock_request`, `legacy_carry_in`, `plan_twice`, `vendor_overlap` | the smallest instances | the disagreements below |

Bounds.

- `one_order`: LOT numbers are interchangeable (symmetry). `SmallHistories` leaves
  either two rounds of one LOT or one round of each of two; a rework or a replenishment
  is of one piece. A correction after a split, a shipment in between, and rework after
  a finished LOT all fit. Two LOTs with two rounds each would add their product, not
  a request that meets another state of the stock.
- `two_orders` has what `one_order` has not: the second order line, a second order
  number and a STANDARD partner, whose target differs from the quantity. Order lines
  are interchangeable (symmetry). `SmallOrders` gives two pieces to the STANDARD
  partner alone, and lets one order line leave the order number only while both order
  lines are of one piece for the other partner: what an order number decides (which
  lines are deleted together) has nothing to do with quantities.
- `overlap`, `lock_order`, `waits_end`: two requests at a time are what a race needs;
  the third makes the state they race in (a plan, a base LOT, a reservation), which
  `ReservedInit` gives from the start. `MaxRequests` and the sets of quantities are the
  only bounds.
- `outsource`: dates are interchangeable (symmetry). `FewAtATime` keeps
  apart, in this run, what the theorems of section 4 cover together: the LOT that is only inspected and other schedules, the printed LOT
  and inspections, the rework and the other order line's LOT, a purchase order and
  more than one row of schedules, and LOTs in no group or in two (`Irregular`) and
  rework, or an order and an inspection at once. One group at most has its cuts
  changed. A request lists at most `MaxGroups` groups. Two groups suffice for a LOT
  that is named twice in one request, for a LOT that is instructed again after a
  withdrawal, and for a shipment of several groups.
- `parts`: two sessions wherever requests overlap; one revision with two kinds of files
  and three files; one backup; work groups of three LOTs and of one; sheets chosen so
  that names agree and clash, orders have two partners and numbers occur in two sheets;
  two accounts, of which the configured one changes its version once, the other twice,
  so that rights are taken, given back and taken again.

`CHECK_DEADLOCK FALSE` stands in every configuration: an instance whose order
lines are all done, whose rounds are used up and whose stock is at the bound may
really have nothing left to do.

Fairness. Nothing in the backend acts on its own: every step is a request of a
person, so the code justifies no fairness for `Fulfilment`, `OutsourceWork` and the
parts, and their properties are safety properties. In `ConcurrentOrders` a request
that has begun is a running thread, and PostgreSQL grants a lock that is free:
`FairSpec` assumes weak fairness of exactly that (`Statement`, `LockNext`), for each
session. It assumes neither that a request begins nor that one times out.

### Properties

Of `Fulfilment` and `Screens`:

- `BooksAgree`: the three books of the consistency screen.
- `NoNegativeStock`: a product never goes below zero. A single lot can:
  `LotOverdrawnOnlyByCorrection` says that only a corrected result of that very
  LOT does it.
- `ReleasedWithLot`, `OnePrimaryLot`: order lines and LOTs.
- `SellableSettledOnce`: every sellable piece is accounted for exactly once.
- `PlanCoversTarget`: while a plan stands, its reservation and its LOT fill the target
  it was made for, through quantity changes and edits. That is the order line's target,
  unless another partner was entered while it was OPEN: `order_line_update_service.py`
  writes the partner and leaves the plan.
- `OverShippedOnlyFromReservation`: saving a result never ships beyond the target;
  only the confirmation of an own reservation can.
- `CoverLostOnlyByHand`: promised stock is lost only to a manual decrease or a
  correction, never to another order line.
- `InspectionDoneIsComplete`: a result finishes an order line only when it is
  complete.
- `LifecycleSpec`: `Fulfilment` implements `OrderLifecycle`.
- `OffersAreAccepted`: the grid, the detail and the form offer nothing that the
  server refuses (with the exceptions the property names).
- `NothingWaitsUnseen`: an unfinished order line is on a screen, by what it waits for.
  The property names one exception, which the code really has: `OutOfStockUndecided`.
- `InspectionScreensAgree`: form, grid and trace of inspections count the same pieces.

Of `ConcurrentOrders`:

- `BooksAgree`: the locks on product and lots lose no movement.
- `PromisedOnce`: overlapping plans do not reserve the same pieces, though both
  compute with the same available quantity: the allocation under the lots' locks
  decides.
- `LinesSettleOnce`: a line is shipped or canceled, once.
- `DeadlockNeedsPlan`: the lock order that the comment at
  `shipment_confirm_service.py:93` asks for is kept by all but plan confirmations,
  which lock lots before order line and product. TLC shows such a deadlock as soon
  as the property is asked without its exception (a plan for stock replenishment
  that holds its order line and waits for a LOT number, against a base LOT that
  holds the number and waits for the order line).
- `WaitsEnd`: no request needs its timeout, but for those deadlocks.

Of `OutsourceWork`:

- `OneOpenGroup`: an instruction item is active exactly while all groups of its LOT in
  that instruction are open, and a LOT that no request named in two groups is in one
  open group of a process.
- `ReceivedAfterShipment`: nothing of a group is inspected before it was shipped, and no
  schedule outlives its group.
- `OrderedTogether`, `OrderedTermsKept`: a purchase order names whole groups, once, and
  their terms and LOTs stay.
- `TargetsAccepted`: what the screens offer for ordering (of LOTs named in one group
  only) and instruction is accepted; a group in work is on the vendor's list with all its
  LOTs; a LOT named in one group only is offered for inspection once.
- `OutputFollowsCuts`: the vendor reports by the cuts that he was told.
- `CompletedIsShown`: the stored snapshot says completed exactly when all LOTs are.
- `GroupLife`: `OutsourceWork` implements `GroupLifecycle`, one request after the other;
  with the vendor's unlocked requests it does not (`vendor_overlap`).

Of the parts: `SharesAddUp`, `ChargedOnce` (costs); `SessionsRevoked`, `RevokedForever`
(accounts); `RowsHaveFiles` (files); `BackupIsComplete`, `RecordIsEarned` (backups);
`SheetsTakenAsChecked` (uploads); `FirstStockBooked` (initial stock); the types of all.

### What the code does otherwise than its documents say

- `done_after_lots`: the confirmation of a shipment finishes an order line in the
  middle of its inspection (`docs/project-operations.md:28` says it does not).
  Nothing but that confirmation does (`EarlyOnlyByShipment`).
- `stock_request`: a result that uses its reservation and wants more of the same
  lot is refused, though the pieces are there (`docs/project-operations.md:253`,
  `:241`): they are subtracted twice, once taken and once still reserved. Only requests
  that exceed both the reservation and the rest suffer (`OnlyMixedRequestsShort`).
- `legacy_carry_in`: the form of a saved final result shows as carry-in the historical
  pieces that it took over (`inspection_result_query.py:235`); they are settled by
  then, and saving the form again no longer counts them
  (`docs/project-operations.md:22` wants the sum to include what is shown). It takes
  a historical round (`CarryInCounts`).
- `plan_twice`: a plan confirmation decides on an order line that it reads without a
  lock, where quantity change and shipment lock it: two at once ship it twice. Other
  states that the model reaches for the same reason have no run of their own: two
  primary LOTs, a canceled order line with a LOT or that had been shipped, the plan
  of a quantity that was changed meanwhile.
- `vendor_overlap`: the vendor's receipt overwrites a withdrawal that was committed
  since it read the group (`docs/vendor-portal-external-access-plan.md:206` blocks
  every transition of a canceled group). What breaks the life of a group is a receipt
  written over a report, a shipment or a withdrawal, and a report written over a
  shipment; no other overlap does (`OnlyStaleWritesMislead`). A report cannot
  be written over a withdrawal: only a REGISTERED group is withdrawn, and one whose
  report was read has been received, which nothing sets back to REGISTERED.

## 4. The proofs

For any finite number of order lines, inventory lots, LOTs and rounds, and any
quantities (`FulfilmentAssumption` names all that is assumed of the constants);
for any finite number of LOTs and any routings, sheets, cuts and bounds of the
outsourcing model (`LotsAssumption`, `BoundsAssumption`); for any accounts, roles,
permissions, vendors and passwords (`AccountAssumption`); for any finite number of
overlapping sessions, order lines and inventory lots (`ConcurrentOrdersAssumption`);
for any finite number of revisions and any uploaders, kinds of file and backups
(`FileAssumption`, `BackupAssumption`); for any products, sheets and stocktakers
(`StockAssumption`), work groups, areas and amounts (`CostAssumption`), order sheets
and master data (`UploadAssumption`):

| theorem | says | argument |
|---|---|---|
| `TypeCorrect` | `[]TypeOK` | inductive as it stands. Its content is that reserved, confirmed and shipped quantities stay natural numbers though they are computed by subtraction |
| `ReleasedAlwaysWithLot`, `PrimaryLotIsUnique` | `[]ReleasedWithLot`, `[]OnePrimaryLot` | by `LifeInv`, which adds `LotsLinked`: a LOT without an order line is no LOT and has no rounds. Without it a status sync could move a LOT that does not exist |
| `StockNeverNegative` | `[]NoNegativeStock` | from `TypeOK`: the guard of each request bounds what it takes (`StockStep`); for plans, because an accepted plan takes no more than is available (`PlannedStockIsAvailable`) |
| `SellableIsSettledOnce` | `[]SellableSettledOnce` | by `RoundsBooked`: every round has brought in what it found less what it threw away once it is settled, and nothing before; no round ends a split unsettled, so nothing is carried. The historical rounds of `LegacySpec` are exactly what this excludes |
| `BooksAlwaysAgree` | `[]BooksAgree` | each request moves lots, product and movements by the same quantities; a saved round first takes out its old movements, so the sums follow the one round that changes (`SavedSums`) |
| `OnlyCorrectionsOverdraw` | `LotOverdrawnOnlyByCorrection` | `SettledAs` says in plain sums what a saved result does to each lot: what it takes of the reservation the lot has (the code's check), what it takes besides is free of it, so only the lot of the round itself can come out below zero, and not by a first save, which takes nothing back |
| `PromisesKept` | `CoverLostOnlyByHand` | free stock does not count what is reserved, so what is taken of it leaves a lot with its reservations (`FreeTakeKeepsCover`); a confirmation or a result takes a reservation and its pieces together |
| `DoneIsComplete` | `InspectionDoneIsComplete` | `IsComplete` is asked with the movements the request is about to write; `DoneBySync` shows that these are the ones written |
| `PlansCoverTarget` | `PlanCoversTarget` | `PlanInv`, which is stronger: a plan also stands while its LOT is received or at work, for a received schedule may be canceled again; an undecided order line holds no reservation, and only a decided one is released. Every request that makes or revises a plan works it out for the target of that moment, and of the others only an edit changes the target |
| `OnlyReservationsOverShip` | `OverShippedOnlyFromReservation` | `ShippedRows` turns what is shipped into one sum over all rounds, so that only three kinds of requests ship (`WhoShips`). A stock plan ships no more than remains, a result no more than `RemainingFor`, and a confirmation ships what it takes off its own reservation |
| `LivesAsPromised` | `LifecycleSpec`, the refinement of `OrderLifecycle` | `LivesOn`, request by request (`LifecycleStep`). It needs `LifeInv` (only released order lines have LOTs) and `PlanInv` (no reservation without an order line, so that nothing can be confirmed for a deleted one) |
| `NothingIsForgotten` | `[]NothingWaitsUnseen` | `WaitInv`: a LOT is done by a final round; from a final round on nothing is reserved for its order line, so no confirmation can fill one whose status it does not see; and a released order line with all of its LOTs done is short of its target, or that inspection would have finished it. TLC has checked `WaitInv` on the instances of `one_order` and `two_orders` |
| `OffersAccepted` | `[]OffersAreAccepted` | offers are computed from the target, the request asks what remains: without LOT and confirmed stock that is the same (`NothingShipped`), and it is positive (`QuantityOrdered`). What is available in all is free in the lots, since the books agree (`FreeInAll`, summed by order lines and by lots: `SumOfTable`); a base LOT has something to produce by `WaitInv` |
| `InspectionsShown` | `[]InspectionScreensAgree` | by `RoundsBooked` every result is settled and carries nothing in, so form, grid and trace add up the same pieces: the last finished round and the earlier ones are all there are (`LastRound`, `SumDisjoint`). `FullInv`: a LOT with a final round has received its quantity, since the final save covers it, later results only add to it, and a LOT with results is neither changed nor deleted. `WaitInv` gives a LOT that is done its final round |
| `EarlyOnlyByShipment` | `OnlyShipmentsFinishEarly`: while one of its LOTs is unfinished, an order line is finished as shipped only by the confirmation of its own reserved lines, which touches no LOT and no round | an inspection finishes an order line only with its LOTs (`InspectionFinishes`); a stock plan only one without LOTs (`LifeInv`) |
| `CarryInCounts` | `[]ShownCarryInCounts` of `Spec`, without historical rounds | by `RoundsBooked` no round is `PARTIAL_DONE` unsettled, so the form shows nothing carried in and saving counts nothing |
| `ServedInOrder` | `TakesInOrder`, for any queue without duplicates and any quantities of its lots: the need is served exactly when it is at most what they can give (`Givable`), and what is taken of each lot is determined | one piece more is taken of the first lot that has one left (`OneMoreTaken`, by induction on the need); two ways to take the same need cannot differ at a first lot (`TakeIsUnique`) |
| `StockAlwaysFound` | `[]StockIsFound`: an accepted plan, and an adjustment of no more than the product has, find their pieces in the lots | the code compares with the product, then loops over the lots. `StockListed`: the queue has every lot once that holds, brought in or gave anything, so with the books in agreement the lots can give what the product has (`FreeIsGivable`); then `ServedInOrder` |
| `OnlyMixedRequestsShort` | `[]ResultFindsStock`: the first save of a result finds its pieces, unless it wants more than its reservation and more than is available besides | the same. Within the reservation nothing is needed of the free lots, within what is available the double subtraction leaves enough |
| `OneVendor` | `[]OneOpenGroup` | `OpenInv`: a group's instruction exists, and an item is active exactly while all groups of its instruction with the LOT are open. A new group's LOTs had no active item for its process (the registration's check); two open groups of other instructions would both have one, and two of one instruction are what `NamedOnce` excludes. A withdrawal takes the items of its own group |
| `InspectedAfterShipment` | `[]ReceivedAfterShipment` | `RowsInv`: each row that names a group is good, and what each request writes is a good row. No step un-ships a group (`KeptStay`), a withdrawal deletes the rows of its group, and a LOT that is only inspected, which is received by itself, is in no group (`OpenInv`) |
| `PaidOnce` | `[]OrderedTogether` | `OrdersInv`, which adds that a group is for the process its LOTs are instructed for: an item is put to an open group of its own instruction, the items put to a group must make up its LOTs, and none of the groups is on an order of the process yet (`OrderStep`) |
| `OutputCorrect`, `TermsOfOrderKept` | `[]OutputFollowsCuts`, `OrderedTermsKept` | every step adds groups, renews the terms of one that is not ordered, or moves some of them alike (`StepOK`) |
| `GroupsLive` | `GroupLife`, the refinement of `GroupLifecycle` | the same `StepOK`, case by case (`LifeStep`); it needs no more than that groups are a sequence within the bound |
| `WorkTypeCorrect` | `[]TypeOK` of `OutsourceWork` | `RefersInv`: items, groups, orders and schedules refer to rows that exist, a group has LOTs, and every item of an order belongs to one of its groups. Rows are never deleted but schedules (`RefersStep`) |
| `CompletionShown` | `[]CompletedIsShown` | `ShownInv`: a progress row says completed exactly when a final result stands for every LOT of the order line. Whatever a snapshot is rebuilt from, it shows that (`SnapshotShows`), and every request that records or takes back a result, or adds a LOT, rebuilds the row last (`ShownStep`); the others may leave it (`OthersShown`) |
| `OffersHold` | `[]TargetsAccepted` | no invariant of its own: the list asks the groups, the request the items, and `OneOpenGroup`, `OrdersInv` and `RefersInv` make them agree. A LOT that no request named twice and that is ordered with an active item is so with its one open group (`OrderedWithGroup`), and its routing fits the process of the group (`RoutingFits`) |
| `OnlyStaleWritesMislead` | `GroupLife` of `OverlapSpec`, if no receipt is written over a report, a shipment or a withdrawal and no report over a shipment (`Stale`) | `OverlapInv` says what each session of the portal will write (`Pending`): a report or a shipment is of a group that was received, so its cuts stay, and leaves an output that follows them. Without a stale write a group that was to be shipped was not set back (`ShipmentsStand`), so each write is a move of the group's life or, where two sessions do the same, none. The requests of `OutsourceWork` are used by their `StepOK` again |
| `OverlapKeepsTerms`, `OverlapOutputCorrect` | `OrderedTermsKept`, `[]OutputFollowsCuts` of `OverlapSpec`, stale writes among its steps | a write changes the status and, with a report, the output, never the terms (`WriteShape`), and never to `REGISTERED`, the one status in which terms change; whatever reports it overwrites, the output is sheets times the cuts (`Reported`) |
| `AccountsTypeCorrect` | `[](AccountTypeOK /\ VersionsIssued)` | by `AccountInv`, which adds that the configured role keeps every permission and that nothing unknown is active or given away |
| `RevokedIsForever` | `RevokedForever` | versions never fall, and a step that keeps the version of an account does not activate it (`Unrevoked`); no token is of a version to come, so the old version never returns |
| `RightsAreRevoked` | `SessionsRevoked` | the same `Unrevoked`: a request that counts no version up leaves password, vendors and permissions of every known account as they are, which for a new role needs that nobody has it yet |
| `OverlapTypeCorrect`, `OverlapKeepsBooks` | `[]TypeOK`, `[]BooksAgree` of overlapping requests | `OrdersInv`, see below |
| `SettledLinesStay` | `LinesSettleOnce` | a request writes only lines that it holds locked for writing, and that it read as `WAITING` under the lock (`RequestStep`) |
| `PlansPromiseOnce` | `PromisedOnce` | a plan counts what is free of a lot under the lot's lock; lines of other requests that name the lot only become fewer meanwhile, so what it takes is still free when it writes |
| `OnlyPlansDeadlock` | `[]DeadlockNeedsPlan` | `Orderly`: but for plans, what a session still has to lock comes after what it holds: LOT number, order lines by id, shipment lines by id, product, lots. Of sessions that all wait for each other those that wait highest wait only for each other (`Blocked`). Waiting for a lot they would all hold the one product (`LotsAfterProduct`); waiting for order or shipment lines, nobody is left for the one with the greatest id to wait for. An order line may be locked a second time by who has it, first shared and then for writing, so that the shared lock that blocks must be somebody's who only writes what is not the key, and those two do not exclude each other |
| `EveryStepLeadsOn`, `SomeoneLeadsOn` | a request is over after at most `2 * MaxTries + 10` statements and every step begins, advances or ends one (`OneMovesOn`); of the sessions at work one can go on, or there is a cycle with a plan confirmation among them (`NoStandstill`) | each statement has a number of statements after it (`StatementsLeft`), which the statement itself lowers and no other session changes; a set of sessions that all wait for one another is a cycle of `OnlyPlansDeadlock` |
| `FilesKept`, `FilesKeptInBackups` | `[](FileTypeOK /\ RowsHaveFiles)`, of the server alone and while backups are made | `FilesInv`: files are removed only when the committed row names another one; what an upload will name is stored, is nobody else's, and is not removed before its commit; what a request replaces is named by no row but the one it writes (`OldIsReplaced`). A crash forgets uploads and removes nothing |
| `BackupsComplete` | `[]BackupIsComplete` | `DumpIsCopied`: the rows are dumped before the files are copied, so what they name was stored when the copy began or was replaced since; in maintenance nobody writes between the two |
| `RecordsEarned` | `RecordIsEarned` | `RecordIsNear`: a rehearsal that comes to its record has restored its backup and kept only what was to be kept, whatever failed before |
| `FirstStockIsBooked` | `[](StockTypeOK /\ FirstStockBooked)` | `StockInv`: no two uploads hold one product (`LocksHold`), so what an upload read of the rows it locked is what they hold until it writes; a product without a row cannot be locked, and then the insertion fails if somebody else's row is there |
| `CostsTyped` | `[]CostTypeOK` | every request writes a cost group whose parts are those of its work groups; also where requests overlap |
| `SharesAlwaysAddUp` | `[]SharesAddUp`, with one session | the last LOT gets the rest, and the others, rounded down, never more than the amount (`SumOfParts`) |
| `ChargedOnceOnly` | `[]ChargedOnce`, with one session | `ChargesInv`: active cost groups of a process share no work group, so the sum over work groups is, cost group by cost group, the sum over cost groups (`SumByKey`, `SumDisjoint`) |
| `PartsTypeCorrect` | `[]PartsTypeOK` | a step of one component is none of another (`PartsSpec`), so each has its own specification and its theorem: `CostsTyped`, `AccountsTypeCorrect`, `FilesKeptInBackups`, `SheetsAreTaken`, `FirstStockIsBooked` |
| `SheetsAreTaken` | `[]UploadTypeOK` and `SheetsTakenAsChecked` | `UploadInv`: between two order numbers an upload has exactly the lines and names of those it reports as done (`KeptIsDone`), within one also its first rows (`WithinGroup`), and none of its lines is committed or in another open upload (`LinesApart`). Accepted master rows differ in code and drawing, as each is the first of its own (`AcceptedDiffer`), so only a row that was registered meanwhile can refuse the insert |

Overlapping requests (`OrdersInv` of `ConcurrentOrders_proofs`). Books that agree
are not inductive there: a session writes absolute values that it read some
statements before. The invariant adds, for every session and every statement it
can be at, what it has read and which locks it holds: `StockHeld` (what it has read
of product and lots is what they hold, for it has the product locked), `LinesHeld`
(the lines it will ship or cancel are locked and, once looked at, still `WAITING`),
`LotsHeld` (the inventory lots it takes from are locked, and what a plan takes of one
is not reserved), `PlanMade` (what a plan and a base LOT have worked out), `Orderly`
(the lock order). `LocksCompatible` says that two sessions never hold locks that
exclude each other; so a session that writes a row has it for itself, and what the
others know of locked rows stays true. One lemma per statement shows what it keeps
of its own session (`SessionOK`), one for all of them what they leave to the others.
TLC has checked `OrdersInv` on the instances of `overlap` and `lock_order`.

With one session (`OneAtATime`): the code looks without a lock whether a work group
is charged already, so two overlapping creations both find nothing and both write.
The theorems about costs say so in their hypothesis, and the run has the same bound.

The sums of the model are folds over sets of rows. `SumLemmas` proves what is
needed of them (unfolding, linearity, the change of one term, sums by key, over
disjoint sets and over the parts of a partition) for finite sets; its
induction is an argument by least counterexample, over `Cardinality`.

Every invariant and every action property of the passing runs has a theorem. Only
model-checked is `WaitsEnd`: liveness under fairness and ENABLED are out of the
prover's reach. What it needs besides fairness is proved: every step leads on, a
request has a bounded number of statements, and sessions that cannot go on form a
cycle which the database breaks (`EveryStepLeadsOn`, `SomeoneLeadsOn`). Missing is the
step from "somebody can go on" to "he does".

Out of reach is also induction over data, so what `SelectSeq` returns for every
sequence: the theorems use of `waitingOrder` that it is a sequence of lots, and
`OnlyMixedRequestsShort` speaks of the pieces besides the reservation, given those
taken of it. No module uses RECURSIVE operators.

Theorems about findings. A disagreement of section 3 is a counterexample of TLC; the
theorems named there say how far it reaches, for every value of the constants.

## 5. Not modelled, and why

- Inspection requests (schedules and results) among overlapping requests:
  `Fulfilment` and `OutsourceWork` run them one after the other. Their statements
  lock schedule, LOT, order line, stock and snapshots; with the statements of
  `ConcurrentOrders` the smallest instance is beyond TLC.
- Several products at once in `ConcurrentOrders`: the order in which two
  confirmations lock products is a hazard without a property.
- Overlapping creation of cost groups, and accounts changed while a request of
  theirs is in flight: nothing in the code excludes the first, and the second reads
  one row once.
- Another product entered in an OPEN order line: its target is the same and its
  reservation stays with the stock of the old product, so it takes a second product
  in `Fulfilment`. A partner renamed into another class: the targets of all of its
  order lines change at once, CLOSED ones included, and their plans stay.
  Overlapping edits of one order line lock it first (`order_line_update_service.py:67`).
- A LOT listed twice within one group: groups are sets of LOTs here.
- The order of a day's schedules (`day_seq`, reorder, resequence): no rule but the
  screen's order reads it.
- One module of `OutsourceWork` and `Fulfilment` together: they meet only in the LOT's
  status, by the one rule both use; their product is beyond TLC.
- The throttle of failed logins: it compares clock times of rows nothing else reads.
- `check_mes_operations`, `release_package`, installation and start scripts: they read
  files and processes of one machine and report, or copy files.
- The WPF clients: every rule is enforced by the backend. Certificates, Excel templates
  and the other documents: they are computed from rows and stored nowhere.
- Masters (equipment, materials, processes, partners) beyond their uploads: single
  rows without rules between them.
