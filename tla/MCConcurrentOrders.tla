------------------------- MODULE MCConcurrentOrders -------------------------
(* Small instances of ConcurrentOrders for TLC.                            *)
EXTENDS ConcurrentOrders, TLC

OneLot == <<"a">>
TwoLots == <<"a", "b">>

SessionSymmetry == Permutations(Sessions)
=============================================================================
