--------------------------- MODULE OrderLifecycle ---------------------------
(***************************************************************************)
(* What an order line promises to everybody who only sees its status and   *)
(* what was shipped for it.  The order lines move side by side: a request  *)
(* may move several of them, each along its own life.                      *)
(***************************************************************************)
EXTENDS Integers

CONSTANT OrderLines

VARIABLES
  phase,     \* "NONE" before registration and after deletion
  shipped    \* pieces shipped for the order line, net of corrections

vars == <<phase, shipped>>

Registered(o) ==
  phase[o] = "NONE" /\ phase'[o] \in {"OPEN", "CLOSED"} /\ shipped'[o] = shipped[o]

\* Released to production: it stays released until it is done or deleted.
Released(o) ==
  phase[o] = "OPEN" /\ phase'[o] = "CLOSED" /\ shipped'[o] = shipped[o]

\* Shipped from stock before production, also when it was canceled meanwhile.
StockShipped(o) ==
  phase[o] \in {"OPEN", "CANCELED"} /\ phase'[o] = phase[o] /\ shipped'[o] >= shipped[o]

\* Inspection results ship, and correct what they shipped, once it is released.
Settled(o) ==
  phase[o] \in {"CLOSED", "DONE"} /\ phase'[o] = phase[o]

Completed(o) ==
  \/ phase[o] = "OPEN" /\ phase'[o] = "DONE" /\ shipped'[o] > shipped[o]
  \/ phase[o] = "CLOSED" /\ phase'[o] = "DONE"

Canceled(o) ==
  phase[o] = "OPEN" /\ phase'[o] = "CANCELED" /\ shipped'[o] = shipped[o]

Reopened(o) ==
  phase[o] = "DONE" /\ phase'[o] = "CLOSED" /\ shipped'[o] = shipped[o]

\* Nothing that was shipped is ever deleted.
Erased(o) ==
  phase'[o] = "NONE" /\ shipped[o] = 0 /\ shipped'[o] = 0

Unmoved(o) == phase'[o] = phase[o] /\ shipped'[o] = shipped[o]

Init ==
  /\ phase = [o \in OrderLines |-> "NONE"]
  /\ shipped = [o \in OrderLines |-> 0]

Next ==
  /\ phase' \in [OrderLines -> {"NONE", "OPEN", "CLOSED", "DONE", "CANCELED"}]
  /\ shipped' \in [OrderLines -> Nat]
  /\ \A o \in OrderLines :
       \/ Registered(o) \/ Released(o) \/ StockShipped(o) \/ Settled(o)
       \/ Completed(o) \/ Canceled(o) \/ Reopened(o) \/ Erased(o) \/ Unmoved(o)

Spec == Init /\ [][Next]_vars
=============================================================================
