--------------------------- MODULE OutsourceWork ---------------------------
(***************************************************************************)
(* Outsourced work: LOTs are instructed to a vendor in work groups, a      *)
(* group is purchase ordered, received, worked and shipped by the vendor   *)
(* (or withdrawn before), and its LOTs are scheduled for inspection.  One  *)
(* request is one step here; VendorOverlap splits the vendor's requests.   *)
(*                                                                         *)
(* The quantities an inspection result settles are Fulfilment's: here a    *)
(* result only ends its round.  A request may list a LOT in several of its *)
(* groups; left out is a LOT that is listed twice in one group.            *)
(***************************************************************************)
EXTENDS QuantityPolicy, Sequences, FiniteSets, FiniteSetsExt, Functions, SequencesExt

CONSTANTS
  OrderLines,
  Lots,
  OrderLineOf,         \* the order line of each LOT
  PrintLots,           \* LOTs whose product's routing prints
  InspectionOnlyLots,  \* LOTs whose product's routing only inspects
  ParentOf,            \* the rework LOTs, and the LOT each of them reworks
  Dates,               \* inspection dates
  Sheets, CutCounts,   \* sheets a vendor works, cuts he makes of a sheet
  FirstCuts,           \* the cuts a request starts with (all its LOTs the same)
  MaxBatch, MaxGroups, MaxOrders, MaxSchedules   \* bounds of the model

ReworkLots == DOMAIN ParentOf

ASSUME LotsAssumption ==
  /\ IsFiniteSet(Lots)
  /\ OrderLineOf \in [Lots -> OrderLines]
  /\ PrintLots \subseteq Lots
  /\ InspectionOnlyLots \subseteq Lots \ PrintLots
  /\ ReworkLots \subseteq Lots
  /\ \A l \in ReworkLots : ParentOf[l] \in Lots \ ReworkLots /\ OrderLineOf[ParentOf[l]] = OrderLineOf[l]

ASSUME BoundsAssumption ==
  /\ Sheets \subseteq Nat
  /\ CutCounts \subseteq Nat \ {0}
  /\ FirstCuts \subseteq CutCounts
  /\ {MaxBatch, MaxGroups, MaxOrders, MaxSchedules} \subseteq Nat

VARIABLES
  made,          \* LOTs that exist
  instructions,  \* [process, items, active]: items deactivated one by one
  groups,        \* [instruction, status, sheets, cuts of each LOT, output]
  orders,        \* purchase orders: [process, groups, items]
  schedules,     \* the row of a LOT and a date, also when it is canceled
  lotStatus,
  progress       \* production_progress_snapshot.current_process_order

vars == <<made, instructions, groups, orders, schedules, lotStatus, progress>>

NoRow == [status |-> "NONE", group |-> 0]
NoOutput == <<>>
Processes == {"CUT", "PRINT"}
GroupStatuses == {"REGISTERED", "VENDOR_RECEIVED", "WORK_DONE", "SHIPPED", "CANCELED"}
GroupIds == DOMAIN groups
InstructionIds == DOMAIN instructions
LotsOfGroup(g) == DOMAIN groups[g].cuts
Open(g) == groups[g].status # "CANCELED"
Process(g) == instructions[groups[g].instruction].process
Active(l, d) == schedules[l][d].status \notin {"NONE", "CANCELED"}
------------------------------------------------------------------------------
(* Routing.                                                                *)

AvailableProcesses(l) ==
  IF l \in InspectionOnlyLots THEN {} ELSE IF l \in PrintLots THEN {"CUT", "PRINT"} ELSE {"CUT"}

\* The process a LOT is instructed for; the ones that are only inspected have none.
PrimaryProcess(l) == IF "PRINT" \in AvailableProcesses(l) THEN "PRINT" ELSE "CUT"

\* The vendor is shown the LOTs of a group whose routing fits its process, and a
\* group is his when there is one.
VendorLots(g) == {l \in LotsOfGroup(g) : (Process(g) = "PRINT") = ("PRINT" \in AvailableProcesses(l))}
VendorTarget(g) == VendorLots(g) # {}

\* The groups of an instruction in which the LOT is named: no key and no check
\* keeps a request from naming it in several.
NamedIn(i, l) == {g \in GroupIds : groups[g].instruction = i /\ l \in LotsOfGroup(g)}

\* The vendor's list under a status; without one, whatever is not shipped yet.
VendorLists(g, status) ==
  /\ Open(g) /\ VendorTarget(g)
  /\ IF status = "ALL" THEN groups[g].status # "SHIPPED" ELSE groups[g].status = status
------------------------------------------------------------------------------
(* The progress snapshot of an order line.                                 *)

ProcessOrder ==
  <<"LOT_CREATED", "OUTSOURCE_ORDERED", "DIECUT_RECEIVED", "OUTSOURCE_DONE",
    "INSPECTION_WAITING", "INSPECTION_IN_PROGRESS", "COMPLETED">>

OrderOf(code) == CHOOSE i \in 1 .. 7 : ProcessOrder[i] = code

ScheduleStatusesOf(l, ss) == {ss[l][d].status : d \in Dates} \ {"NONE", "CANCELED"}

\* Canceled groups count as well: a LOT whose only group was canceled, or that
\* was instructed without a group, still shows as ordered.
WorkStatuses(l, is, gs) ==
  LET ofGroups == {gs[g].status : g \in {h \in DOMAIN gs : l \in DOMAIN gs[h].cuts}}
  IN  IF ofGroups = {} /\ \E i \in DOMAIN is : l \in is[i].items THEN {"REGISTERED"} ELSE ofGroups

Completed(l, ss) == "DONE" \in ScheduleStatusesOf(l, ss)

LotProgress(l, is, gs, ss) ==
  LET inspected == ScheduleStatusesOf(l, ss)
      work == WorkStatuses(l, is, gs)
  IN  CASE Completed(l, ss) -> "COMPLETED"
        [] ~Completed(l, ss) /\ inspected \cap {"IN_PROGRESS", "PARTIAL_DONE"} # {} -> "INSPECTION_IN_PROGRESS"
        [] inspected \cap {"IN_PROGRESS", "PARTIAL_DONE", "DONE"} = {} /\ "RECEIVED" \in inspected -> "INSPECTION_WAITING"
        [] OTHER ->
             IF work = {} THEN "LOT_CREATED"
             ELSE IF "REGISTERED" \in work THEN "OUTSOURCE_ORDERED"
             ELSE IF "VENDOR_RECEIVED" \in work THEN "DIECUT_RECEIVED"
             ELSE IF work \cap {"WORK_DONE", "SHIPPED"} # {} THEN "OUTSOURCE_DONE"
             ELSE "OUTSOURCE_ORDERED"

\* The LOTs a row speaks of: unfinished rework first, then unfinished LOTs.
TargetLots(ls, ss) ==
  LET open == {l \in ls : ~Completed(l, ss)}
      rework == ls \cap ReworkLots
  IN  CASE open = {} -> IF rework # {} THEN rework ELSE ls
        [] open # {} /\ open \cap ReworkLots # {} -> open \cap ReworkLots
        [] OTHER -> open

Snapshot(o, lots, is, gs, ss) ==
  LET ls == {l \in lots : OrderLineOf[l] = o}
  IN  IF ls = {} THEN 0
      ELSE Min({OrderOf(LotProgress(l, is, gs, ss)) : l \in TargetLots(ls, ss)})

OrderLinesOf(ls) == {OrderLineOf[l] : l \in ls}

\* A request whose changes are flushed refreshes the rows of these LOTs.
Refreshed(ls) ==
  LET os == OrderLinesOf(ls)
  IN  [o \in OrderLines |->
         IF o \in os THEN Snapshot(o, made', instructions', groups', schedules') ELSE progress[o]]

\* The group requests refresh before they flush and the session does not flush
\* on its own: the first row looked at is built from the statuses before the
\* request, and its flush shows the new ones to the rows after it.
RefreshedUnflushed(ls, first) ==
  [Refreshed(ls) EXCEPT ![first] = Snapshot(first, made', instructions', groups, schedules')]

------------------------------------------------------------------------------
Init ==
  /\ made = Lots \ ReworkLots
  /\ instructions = <<>>
  /\ groups = <<>>
  /\ orders = <<>>
  /\ schedules = [l \in Lots |-> [d \in Dates |-> NoRow]]
  /\ lotStatus = [l \in Lots |-> "WAITING"]
  /\ progress = [o \in OrderLines |-> Snapshot(o, made, <<>>, <<>>, schedules)]

\* Mutant: the new LOT does not refresh the snapshot.
CreateReworkLotUnshown(l) ==
  /\ l \in ReworkLots \ made
  /\ lotStatus[ParentOf[l]] \in {"DONE", "CANCELED"}
  /\ made' = made \cup {l}
  /\ UNCHANGED <<instructions, groups, orders, schedules, lotStatus, progress>>

CreateReworkLot(l) ==
  /\ l \in ReworkLots \ made
  /\ lotStatus[ParentOf[l]] \in {"DONE", "CANCELED"}
  /\ made' = made \cup {l}
  /\ UNCHANGED <<instructions, groups, orders, schedules, lotStatus>>
  /\ progress' = Refreshed({l})
------------------------------------------------------------------------------
(* Work instructions.                                                      *)

Registered(l, process) ==
  \E i \in InstructionIds : instructions[i].process = process /\ l \in instructions[i].active

\* Mutant: the group refers to the next instruction.
NewGroupOfNext(i, ls, cuts, sheets) ==
  [instruction |-> i + 1, status |-> "REGISTERED", sheets |-> sheets, cuts |-> Restrict(cuts, ls), output |-> NoOutput]

NewGroup(i, ls, cuts, sheets) ==
  [instruction |-> i, status |-> "REGISTERED", sheets |-> sheets, cuts |-> Restrict(cuts, ls), output |-> NoOutput]

\* The groups the client lists, each cut down to the LOTs of the instruction, and
\* dropped when none is left.
NewGroups(i, ls, grouping, cuts, sheets) ==
  LET kept == {k \in DOMAIN grouping : grouping[k] \cap ls # {}}
  IN  [k \in 1 .. Cardinality(kept) |-> NewGroup(i, grouping[SetToSeq(kept)[k]] \cap ls, cuts, sheets)]

\* One request for the LOTs L: those that are only inspected are passed over,
\* the others get an instruction for cutting and one for printing.  A listed
\* group that keeps several LOTs in one of them needs a representative there.
InstructBatch(L, grouping, cuts, sheets) ==
  LET of(p) == {l \in L : AvailableProcesses(l) # {} /\ PrimaryProcess(l) = p}
      new == IF of("CUT") = {} THEN <<"PRINT">> ELSE IF of("PRINT") = {} THEN <<"CUT">> ELSE <<"CUT", "PRINT">>
      idOf(p) == Len(instructions) + (IF p = new[1] THEN 1 ELSE 2)
      groupsOf(p) == IF of(p) = {} THEN <<>> ELSE NewGroups(idOf(p), of(p), grouping, cuts, sheets)
      added == groupsOf("CUT") \o groupsOf("PRINT")
  IN  /\ \E p \in Processes : of(p) # {}
      /\ \A p \in Processes : \A l \in of(p) : ~Registered(l, p)
      /\ \A k \in DOMAIN grouping : \E x \in grouping[k] : \A p \in Processes :
           Cardinality(grouping[k] \cap of(p)) > 1 => x \in of(p)
      /\ Len(groups) + Len(added) <= MaxGroups
      /\ Len(instructions) + Len(new) <= MaxGroups
      /\ instructions' = instructions \o
           [k \in DOMAIN new |-> [process |-> new[k], items |-> of(new[k]), active |-> of(new[k])]]
      /\ groups' = groups \o added
      /\ UNCHANGED <<made, orders, schedules, lotStatus>>
      /\ progress' = Refreshed(L)

OrderedAs(l, process) ==
  \E k \in DOMAIN orders : \E i \in InstructionIds :
    /\ orders[k].process = process
    /\ <<i, l>> \in orders[k].items
    /\ l \in instructions[i].active

\* Mutant: the status check only stops canceled groups.
UpdateOpenGroup(g, sheets, cut) ==
  /\ Open(g)
  /\ \A k \in DOMAIN orders : g \notin orders[k].groups
  /\ \A l \in LotsOfGroup(g) : ~OrderedAs(l, Process(g))
  /\ groups' = [groups EXCEPT ![g].sheets = sheets, ![g].cuts = [l \in LotsOfGroup(g) |-> cut]]
  /\ UNCHANGED <<made, instructions, orders, schedules, lotStatus>>
  /\ progress' = Refreshed(LotsOfGroup(g))

\* Mutant: purchase orders are not looked for.
UpdateIgnoringOrders(g, sheets, cut) ==
  /\ groups[g].status = "REGISTERED"
  /\ groups' = [groups EXCEPT ![g].sheets = sheets, ![g].cuts = [l \in LotsOfGroup(g) |-> cut]]
  /\ UNCHANGED <<made, instructions, orders, schedules, lotStatus>>
  /\ progress' = Refreshed(LotsOfGroup(g))

MayUpdate(g) ==
  /\ groups[g].status = "REGISTERED"
  /\ \A k \in DOMAIN orders : g \notin orders[k].groups
  /\ \A l \in LotsOfGroup(g) : ~OrderedAs(l, Process(g))

\* All the LOTs of a bundle get the new number of cuts.
UpdateWorkGroup(g, sheets, cut) ==
  /\ MayUpdate(g)
  /\ groups' = [groups EXCEPT ![g].sheets = sheets, ![g].cuts = [l \in LotsOfGroup(g) |-> cut]]
  /\ UNCHANGED <<made, instructions, orders, schedules, lotStatus>>
  /\ progress' = Refreshed(LotsOfGroup(g))

LinkedTo(g) == {ld \in Lots \X Dates : schedules[ld[1]][ld[2]].group = g}
StatusesLinkedTo(g) == {schedules[ld[1]][ld[2]].status : ld \in LinkedTo(g)}

\* Mutant: a group the vendor has received can be canceled too.
MayCancelReceived(g) ==
  /\ groups[g].status \in {"REGISTERED", "VENDOR_RECEIVED"}
  /\ StatusesLinkedTo(g) \subseteq {"WAITING", "RECEIVED", "CANCELED"}

\* A purchase order does not stand in the way: its rows never get a status.
MayCancel(g) ==
  /\ groups[g].status = "REGISTERED"
  /\ StatusesLinkedTo(g) \subseteq {"WAITING", "RECEIVED", "CANCELED"}

\* Mutant: only waiting rows are deleted.
DeleteWaitingSchedules(g) ==
  schedules' = [l \in Lots |-> [d \in Dates |->
    IF schedules[l][d] = [status |-> "WAITING", group |-> g] THEN NoRow ELSE schedules[l][d]]]

DeleteLinkedSchedules(g) ==
  schedules' = [l \in Lots |-> [d \in Dates |->
    IF schedules[l][d].group = g THEN NoRow ELSE schedules[l][d]]]

NothingElseOpen(l, g) ==
  /\ \A h \in GroupIds \ {g} : l \in LotsOfGroup(h) => ~Open(h)
  /\ \A d \in Dates : schedules[l][d].status \in {"NONE", "CANCELED"} \/ schedules[l][d].group = g

ResetLots(g) ==
  lotStatus' = [l \in Lots |->
    IF l \in LotsOfGroup(g) /\ lotStatus[l] \in {"WAITING", "RECEIVED"} /\ NothingElseOpen(l, g)
    THEN "WAITING" ELSE lotStatus[l]]

\* Mutant: the items of the group stay active.
CancelKeepingItems(g, first) ==
  /\ MayCancel(g)
  /\ DeleteLinkedSchedules(g)
  /\ groups' = [groups EXCEPT ![g].status = "CANCELED"]
  /\ ResetLots(g)
  /\ UNCHANGED <<made, orders, instructions>>
  /\ progress' = RefreshedUnflushed(LotsOfGroup(g), first)

CancelWorkGroup(g, first) ==
  /\ MayCancel(g)
  /\ DeleteLinkedSchedules(g)
  /\ groups' = [groups EXCEPT ![g].status = "CANCELED"]
  /\ instructions' = [instructions EXCEPT ![groups[g].instruction].active = @ \ LotsOfGroup(g)]
  /\ ResetLots(g)
  /\ UNCHANGED <<made, orders>>
  /\ progress' = RefreshedUnflushed(LotsOfGroup(g), first)
------------------------------------------------------------------------------
(* The vendor.                                                             *)

Inbound(g, first) ==
  /\ VendorTarget(g)
  /\ groups[g].status = "REGISTERED"
  /\ groups' = [groups EXCEPT ![g].status = "VENDOR_RECEIVED"]
  /\ UNCHANGED <<made, instructions, orders, schedules, lotStatus>>
  /\ progress' = RefreshedUnflushed(LotsOfGroup(g), first)

WorkDone(g, sheets, first) ==
  /\ VendorTarget(g)
  /\ groups[g].status = "VENDOR_RECEIVED"
  /\ groups' = [groups EXCEPT ![g].status = "WORK_DONE",
                              ![g].output = [l \in LotsOfGroup(g) |-> sheets * groups[g].cuts[l]]]
  /\ UNCHANGED <<made, instructions, orders, schedules, lotStatus>>
  /\ progress' = RefreshedUnflushed(LotsOfGroup(g), first)

\* All the groups of a request, or none of them.
ShipBatch(G, first) ==
  LET ls == UNION {LotsOfGroup(g) : g \in G} IN
  /\ \A g \in G : VendorTarget(g) /\ groups[g].status = "WORK_DONE"
  /\ groups' = [g \in GroupIds |-> IF g \in G THEN [groups[g] EXCEPT !.status = "SHIPPED"] ELSE groups[g]]
  /\ UNCHANGED <<made, instructions, orders, schedules, lotStatus>>
  /\ progress' = RefreshedUnflushed(ls, first)
------------------------------------------------------------------------------
(* Purchase orders.                                                        *)

\* An item names a LOT and its instruction.
GroupsOf(item) == {g \in NamedIn(item[1], item[2]) : Open(g) /\ item[2] \in instructions[item[1]].active}
LotsNamed(items) == {item[2] : item \in items}

\* Mutant: part of a group is accepted.
AcceptsPartOfGroup(process, items, groupOf) ==
  /\ Cardinality(LotsNamed(items)) = Cardinality(items)
  /\ \A item \in items : groupOf[item] \in GroupsOf(item)
  /\ \A l \in LotsNamed(items) : ~OrderedAs(l, process) /\ process \in AvailableProcesses(l)

\* The items must make up whole groups, and neither they nor the groups are
\* ordered for this process yet.
AcceptsOrder(process, items, groupOf) ==
  /\ Cardinality(LotsNamed(items)) = Cardinality(items)
  /\ \A l \in LotsNamed(items) : ~OrderedAs(l, process)
  /\ \A item \in items : groupOf[item] \in GroupsOf(item)
  /\ \A g \in {groupOf[item] : item \in items} :
       /\ LotsNamed({item \in items : groupOf[item] = g}) = LotsOfGroup(g)
       /\ ~ \E k \in DOMAIN orders : orders[k].process = process /\ g \in orders[k].groups
  /\ \A l \in LotsNamed(items) : process \in AvailableProcesses(l)

\* Of several groups that hold an item, the one read last gets it: they are read
\* in no particular order, so it is any of them (groupOf).
CreatePurchaseOrder(process, items, groupOf) ==
  /\ items # {}
  /\ AcceptsOrder(process, items, groupOf)
  /\ orders' = Append(orders,
       [process |-> process, items |-> items, groups |-> {groupOf[item] : item \in items}])
  /\ UNCHANGED <<made, instructions, groups, schedules, lotStatus, progress>>

\* Mutant: the screen does not ask which processes the LOT can have.
OffersAnyProcess(process, g, l) ==
  /\ Open(g)
  /\ l \in LotsOfGroup(g) /\ l \in instructions[groups[g].instruction].active
  /\ ~OrderedAs(l, process)

\* What the purchase order screen offers: the LOTs of a group, each on its own.
OffersOrder(process, g, l) ==
  /\ Open(g)
  /\ l \in LotsOfGroup(g) /\ l \in instructions[groups[g].instruction].active
  /\ ~ \E k \in DOMAIN orders : orders[k].process = process /\ g \in orders[k].groups
  /\ ~OrderedAs(l, process)
  /\ process \in AvailableProcesses(l)

\* What the inspection screen offers: LOTs without a schedule, once for each group,
\* and outside every group those that are only inspected.
InspectionTargets(l) ==
  LET open == {g \in GroupIds : Open(g) /\ l \in LotsOfGroup(g)} IN
  IF \E d \in Dates : Active(l, d) THEN {}
  ELSE open \cup (IF /\ open = {} /\ l \in made /\ l \in InspectionOnlyLots
                     /\ lotStatus[l] # "CANCELED"
                  THEN {0} ELSE {})

\* What the instruction screen offers: LOTs outside every group that is open.
OffersInstruction(l) ==
  /\ l \in made
  /\ AvailableProcesses(l) # {}
  /\ \A g \in GroupIds : l \in LotsOfGroup(g) => ~Open(g)
------------------------------------------------------------------------------
(* Inspection schedules of these LOTs.                                     *)

HasRow(l, d) == schedules[l][d].status # "NONE"
Row(status, g) == [status |-> status, group |-> g]
RowCount(ss) == Cardinality({ld \in Lots \X Dates : ss[ld[1]][ld[2]].status # "NONE"})

\* A canceled row still holds its LOT and date: inserting another one fails.
InsertRows(ls, d, row) ==
  /\ \A l \in ls : ~HasRow(l, d)
  /\ schedules' = [l \in Lots |-> IF l \in ls THEN [schedules[l] EXCEPT ![d] = row] ELSE schedules[l]]
  /\ RowCount(schedules') <= MaxSchedules

CreateSchedule(l, d) ==
  /\ l \in made
  /\ ~Active(l, d)
  /\ InsertRows({l}, d, Row("WAITING", 0))
  /\ UNCHANGED <<made, instructions, groups, orders, lotStatus, progress>>

\* Every LOT of the group is put on that date, except those that are already.
CreateGroupSchedule(g, d) ==
  /\ Open(g)
  /\ InsertRows({l \in LotsOfGroup(g) : ~Active(l, d)}, d, Row("WAITING", g))
  /\ UNCHANGED <<made, instructions, groups, orders, lotStatus, progress>>

\* The LOT statuses follow their schedules, then the snapshots.
Follow(ls) ==
  /\ lotStatus' = [l \in Lots |->
       IF l \in ls THEN DeriveLotStatus({schedules'[l][d].status : d \in Dates} \ {"NONE"}, lotStatus[l])
       ELSE lotStatus[l]]
  /\ UNCHANGED <<made, instructions, groups, orders>>
  /\ progress' = Refreshed(ls)

SetStatus(ls, d, status) ==
  schedules' = [l \in Lots |-> IF l \in ls THEN [schedules[l] EXCEPT ![d].status = status] ELSE schedules[l]]

\* A LOT that is only inspected is received by itself, a group when it was
\* shipped and then whole; a LOT on its own, that had to be worked, never: the
\* purchase order row that would allow it gets no status anywhere.
ReceiveSchedule(l, d) ==
  LET g == schedules[l][d].group
      together == IF l \in InspectionOnlyLots THEN {l}
                  ELSE {k \in Lots : schedules[k][d] = Row("WAITING", g)}
  IN  /\ schedules[l][d].status = "WAITING"
      /\ l \notin InspectionOnlyLots => g # 0 /\ groups[g].status = "SHIPPED"
      /\ SetStatus(together, d, "RECEIVED")
      /\ Follow(together)

\* Only on its day.
StartSchedule(l, d) ==
  /\ schedules[l][d].status = "RECEIVED"
  /\ SetStatus({l}, d, "IN_PROGRESS")
  /\ Follow({l})

SaveResult(l, d) ==
  /\ schedules[l][d].status = "IN_PROGRESS"
  /\ SetStatus({l}, d, "DONE")
  /\ Follow({l})

\* The rest goes to another day, where it is there already, outside the group.
SavePartialResult(l, d, next) ==
  /\ schedules[l][d].status = "IN_PROGRESS"
  /\ ~HasRow(l, next)
  /\ schedules' = [schedules EXCEPT ![l][d].status = "PARTIAL_DONE", ![l][next] = Row("RECEIVED", 0)]
  /\ RowCount(schedules') <= MaxSchedules
  /\ Follow({l})

CancelSchedule(l, d) ==
  /\ schedules[l][d].status \in {"WAITING", "RECEIVED"}
  /\ SetStatus({l}, d, "CANCELED")
  /\ Follow({l})

MoveSchedule(l, d, to) ==
  /\ schedules[l][d].status \in {"WAITING", "RECEIVED"}
  /\ ~HasRow(l, to)
  /\ schedules' = [schedules EXCEPT ![l][d] = NoRow, ![l][to] = schedules[l][d]]
  /\ UNCHANGED <<made, instructions, groups, orders, lotStatus, progress>>

\* The repair script builds every row anew.
RebuildProgress ==
  /\ UNCHANGED <<made, instructions, groups, orders, schedules, lotStatus>>
  /\ progress' = [o \in OrderLines |-> Snapshot(o, made, instructions, groups, schedules)]
------------------------------------------------------------------------------
\* What a client may list as the groups of these LOTs.
Groupings(L) == UNION {[1 .. n -> SUBSET L \ {{}}] : n \in 0 .. MaxGroups}

InstructionNext ==
  \/ /\ Len(groups) < MaxGroups /\ Len(instructions) < MaxGroups
     /\ \E L \in UNION {kSubset(n, made) : n \in 1 .. MaxBatch}, c \in FirstCuts, s \in Sheets :
          \E grouping \in Groupings(L) : InstructBatch(L, grouping, [l \in Lots |-> c], s)
  \/ \E g \in GroupIds, s \in Sheets, c \in CutCounts : UpdateWorkGroup(g, s, c)
  \/ \E g \in GroupIds : \E first \in OrderLinesOf(LotsOfGroup(g)) : CancelWorkGroup(g, first)

VendorNext ==
  \/ \E g \in GroupIds : \E first \in OrderLinesOf(LotsOfGroup(g)) :
       Inbound(g, first) \/ \E s \in Sheets : WorkDone(g, s, first)
  \/ \E G \in SUBSET {g \in GroupIds : groups[g].status = "WORK_DONE"} :
       \E first \in OrderLinesOf(UNION {LotsOfGroup(g) : g \in G}) : ShipBatch(G, first)

OrderNext ==
  /\ Len(orders) < MaxOrders
  /\ \E p \in Processes, items \in SUBSET UNION {{i} \X instructions[i].items : i \in InstructionIds} :
       \E groupOf \in [items -> GroupIds] : CreatePurchaseOrder(p, items, groupOf)

ScheduleNext ==
  \E l \in Lots, d \in Dates :
    \/ CreateSchedule(l, d)
    \/ ReceiveSchedule(l, d)
    \/ StartSchedule(l, d)
    \/ SaveResult(l, d)
    \/ CancelSchedule(l, d)
    \/ \E to \in Dates : SavePartialResult(l, d, to) \/ MoveSchedule(l, d, to)

Next ==
  \/ InstructionNext
  \/ VendorNext
  \/ OrderNext
  \/ ScheduleNext
  \/ \E g \in GroupIds, d \in Dates : CreateGroupSchedule(g, d)
  \/ \E l \in Lots : CreateReworkLot(l)
  \/ RebuildProgress

Spec == Init /\ [][Next]_vars
------------------------------------------------------------------------------
(* Properties.                                                             *)

\* Every row keeps the columns and references of its table.
TypeOK ==
  /\ made \subseteq Lots
  /\ \A i \in InstructionIds :
       /\ instructions[i].process \in Processes
       /\ instructions[i].active \subseteq instructions[i].items
       /\ instructions[i].items \subseteq made
  /\ \A g \in GroupIds :
       /\ groups[g].instruction \in InstructionIds
       /\ groups[g].status \in GroupStatuses
       /\ LotsOfGroup(g) # {} /\ LotsOfGroup(g) \subseteq instructions[groups[g].instruction].items
  /\ \A k \in DOMAIN orders : orders[k].process \in Processes /\ orders[k].groups \subseteq GroupIds
  /\ \A l \in Lots, d \in Dates :
       /\ schedules[l][d].status \in ScheduleStatuses \cup {"NONE"}
       /\ schedules[l][d].group \in GroupIds \cup {0}
  /\ lotStatus \in [Lots -> ScheduleStatuses]
  /\ progress \in [OrderLines -> 0 .. Len(ProcessOrder)]

NamedOnce(l) == \A i \in InstructionIds : \A g, h \in NamedIn(i, l) : g = h

\* An instruction item with groups is active exactly while all the groups of its
\* instruction that hold the LOT are open; and a LOT that no request named in two
\* groups is at one vendor only: its open groups of a process are one.
\* Registration checks the items, cancellation changes both; the screens ask now
\* one, now the other.
OneOpenGroup ==
  \A g \in GroupIds : \A l \in LotsOfGroup(g) :
    LET i == groups[g].instruction IN
    /\ l \in instructions[i].active <=> \A h \in NamedIn(i, l) : Open(h)
    /\ NamedOnce(l) /\ Open(g) =>
         \A h \in GroupIds \ {g} : l \in LotsOfGroup(h) /\ Process(h) = Process(g) => ~Open(h)

\* Nothing is inspected that is still at the vendor's: the rows of a group that
\* were received or are beyond belong to a group that was shipped, and no row
\* outlives the cancellation of its group.
ReceivedAfterShipment ==
  \A l \in Lots, d \in Dates :
    LET row == schedules[l][d] IN
    row.group # 0 =>
      /\ Open(row.group)
      /\ l \in LotsOfGroup(row.group)
      /\ row.status \in {"RECEIVED", "IN_PROGRESS", "PARTIAL_DONE", "DONE"} =>
           groups[row.group].status = "SHIPPED"

\* The vendor is paid once for a process: a group that is open is on one order
\* of it at most, and that order names all the LOTs of the group.
OrderedTogether ==
  \A k \in DOMAIN orders : \A g \in orders[k].groups :
    /\ \A l \in LotsOfGroup(g) : <<groups[g].instruction, l>> \in orders[k].items
    /\ \A j \in DOMAIN orders \ {k} : orders[j].process = orders[k].process => g \notin orders[j].groups

\* What a screen offers, its service accepts, though each asks other tables:
\* the groups offered for a purchase order, when no request named one of their
\* LOTs in two groups, and the LOTs offered for a new instruction, unless one was
\* instructed without a group (still offered then).  A group in work is on the
\* vendor's list, with all of its LOTs; and a LOT that was not named in two groups
\* of a request is offered for inspection once.
TargetsAccepted ==
  /\ \A g \in GroupIds, p \in Processes :
       LET items == {groups[g].instruction} \X LotsOfGroup(g) IN
       /\ \E l \in LotsOfGroup(g) : OffersOrder(p, g, l)
       /\ \A l \in LotsOfGroup(g) : NamedOnce(l)
       => AcceptsOrder(p, items, [item \in items |-> g])
  /\ \A l \in Lots :
       /\ OffersInstruction(l)
       /\ \A i \in InstructionIds : l \in instructions[i].items => NamedIn(i, l) # {}
       => ~Registered(l, PrimaryProcess(l))
  /\ \A g \in GroupIds :
       groups[g].status \in {"REGISTERED", "VENDOR_RECEIVED", "WORK_DONE"} =>
         VendorLists(g, "ALL") /\ VendorLists(g, groups[g].status) /\ VendorLots(g) = LotsOfGroup(g)
  /\ \A l \in Lots : NamedOnce(l) => Cardinality(InspectionTargets(l)) <= 1

\* The quantity a vendor reports is sheets times the cuts he was told: nobody
\* changes the cuts between his receipt and his report.
OutputFollowsCuts ==
  \A g \in GroupIds :
    groups[g].status \in {"WORK_DONE", "SHIPPED"} =>
      \E s \in Sheets : groups[g].output = [l \in LotsOfGroup(g) |-> s * groups[g].cuts[l]]

\* The terms of a group that was ordered, and the LOTs of every group, stay as
\* they are: a purchase order never drifts from its instruction.
OrderedTermsKept ==
  [][\A g \in GroupIds :
       /\ DOMAIN groups'[g].cuts = LotsOfGroup(g)
       /\ (\E k \in DOMAIN orders : g \in orders[k].groups) =>
            groups'[g].sheets = groups[g].sheets /\ groups'[g].cuts = groups[g].cuts]_vars

\* An order line is shown as completed exactly while a final result stands for
\* all its LOTs, whatever was lost of the progress before that.
CompletedIsShown ==
  \A o \in OrderLines :
    progress[o] = OrderOf("COMPLETED") <=>
      /\ \E l \in made : OrderLineOf[l] = o
      /\ \A l \in made : OrderLineOf[l] = o => Completed(l, schedules)

\* Every group lives the promised life.
Stage == [g \in 1 .. MaxGroups |-> IF g \in GroupIds THEN groups[g].status ELSE "NONE"]

Life == INSTANCE GroupLifecycle WITH Groups <- 1 .. MaxGroups, stage <- Stage

GroupLife == Life!Spec
=============================================================================
