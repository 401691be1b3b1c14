--------------------------- MODULE GroupLifecycle ---------------------------
(***************************************************************************)
(* What a work group given to an outside vendor promises to the planner,   *)
(* the vendor and the inspection: its status only moves forward, nothing   *)
(* leaves SHIPPED or CANCELED, and a group can be withdrawn only while the *)
(* vendor has not received it.                                             *)
(***************************************************************************)
CONSTANT Groups

VARIABLE stage   \* "NONE" until the group is registered

Stages == {"NONE", "REGISTERED", "VENDOR_RECEIVED", "WORK_DONE", "SHIPPED", "CANCELED"}

Moves ==
  {<<"NONE", "REGISTERED">>, <<"REGISTERED", "VENDOR_RECEIVED">>,
   <<"VENDOR_RECEIVED", "WORK_DONE">>, <<"WORK_DONE", "SHIPPED">>,
   <<"REGISTERED", "CANCELED">>}

Init == stage = [g \in Groups |-> "NONE"]

\* The groups of one request move together, all of them the same way.
Next ==
  \E m \in Moves, G \in SUBSET Groups :
    /\ G # {}
    /\ \A g \in G : stage[g] = m[1]
    /\ stage' = [g \in Groups |-> IF g \in G THEN m[2] ELSE stage[g]]

Spec == Init /\ [][Next]_stage
=============================================================================
