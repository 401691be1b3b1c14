------------------------- MODULE MCVendorOverlap -------------------------
(* The smallest instance of VendorOverlap: one LOT, one session.         *)
EXTENDS VendorOverlap

CONSTANTS la, o1

OneOrderLine == [l \in Lots |-> o1]
NoRework == <<>>
==========================================================================
