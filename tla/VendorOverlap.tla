--------------------------- MODULE VendorOverlap ---------------------------
(***************************************************************************)
(* OutsourceWork with the vendor's requests in two steps.  The portal      *)
(* reads a work group without locking its row (db.get) and writes what it  *)
(* changed when it commits: an update of this very row by its key,         *)
(* whatever the row has become.  The planner's requests lock the row       *)
(* first, so each of them is one step, before or after the vendor's write. *)
(* A shipment is split for one group; several in one request stay a step   *)
(* of OutsourceWork.                                                       *)
(***************************************************************************)
EXTENDS OutsourceWork

CONSTANTS VendorSessions, NoRequest

VARIABLE request   \* what each session of the portal has read and will write

overlapVars == <<vars, request>>

OverlapInit == Init /\ request = [s \in VendorSessions |-> NoRequest]

\* The checks of the request hold when the group is read.  Outputs that have the
\* reported value already are not written.
Read(s, g, before, after, outputs) ==
  /\ request[s] = NoRequest
  /\ groups[g].status = before
  /\ VendorTarget(g)
  /\ request' = [request EXCEPT ![s] = [group |-> g, status |-> after, outputs |-> outputs \ {groups[g].output}]]
  /\ UNCHANGED vars

ReadForInbound(s, g) == Read(s, g, "REGISTERED", "VENDOR_RECEIVED", {})
ReadForReport(s, g, sheets) ==
  Read(s, g, "VENDOR_RECEIVED", "WORK_DONE", {[l \in LotsOfGroup(g) |-> sheets * groups[g].cuts[l]]})
ReadForShipment(s, g) == Read(s, g, "WORK_DONE", "SHIPPED", {})

\* The write, with the refresh of the snapshots.
Write(s) ==
  /\ request[s] # NoRequest
  /\ LET g == request[s].group IN
       /\ \E output \in IF request[s].outputs = {} THEN {groups[g].output} ELSE request[s].outputs :
            groups' = [groups EXCEPT ![g].status = request[s].status, ![g].output = output]
       /\ UNCHANGED <<made, instructions, orders, schedules, lotStatus>>
       /\ \E first \in OrderLinesOf(LotsOfGroup(g)) :
            progress' = RefreshedUnflushed(LotsOfGroup(g), first)
  /\ request' = [request EXCEPT ![s] = NoRequest]

OverlapNext ==
  \/ Next /\ UNCHANGED request
  \/ \E s \in VendorSessions :
       \/ \E g \in GroupIds :
            \/ ReadForInbound(s, g)
            \/ \E sheets \in Sheets : ReadForReport(s, g, sheets)
            \/ ReadForShipment(s, g)
       \/ Write(s)

OverlapSpec == OverlapInit /\ [][OverlapNext]_overlapVars
=============================================================================
