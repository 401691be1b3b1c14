---------------------------- MODULE MCFulfilment ----------------------------
(* Small instances of Fulfilment for TLC.                                  *)
EXTENDS Screens, TLC

\* Everybody is shipped what was ordered: quantities stay small.
DirectPartners == [r \in Partners |-> "DIRECT"]

\* A partner is shipped what was ordered, the others two percent more, rounded up:
\* of one or two pieces, one more.
TwoClasses ==
  LET direct == CHOOSE r \in Partners : TRUE
  IN  [r \in Partners |-> IF r = direct THEN "DIRECT" ELSE "STANDARD"]

\* LOT numbers are interchangeable: their age is kept in fifo.
LotSymmetry == Permutations(ProdLots)

\* So are order lines: what tells them apart is in their rows.
OrderSymmetry == Permutations(OrderLines)

\* Bounds of the state space: either two rounds of a LOT or one round of each of
\* two LOTs; a rework or a replenishment is of one piece, and a replenishment is
\* inspected in one round.
SmallHistories ==
  /\ Cardinality({p \in ProdLots : lots[p] # NoLot}) > 1 =>
       \A p \in ProdLots, k \in RoundNos : k > 1 => rounds[p][k] = NoRound
  /\ \A p \in ProdLots : lots[p] # NoLot /\ lots[p].rework => lots[p].qty = 1
  /\ \A p \in ProdLots : lots[p] # NoLot /\ orders[lots[p].order].partner \in Replenish =>
       lots[p].qty = 1 /\ \A k \in RoundNos : k > 1 => rounds[p][k] = NoRound

\* With two order lines, one of two pieces is for a partner that is shipped more;
\* and one of them leaves the order number only when both are of one such piece.
IsDirect(o) == PartnerClass[orders[o].partner] = "DIRECT"
Renumbered == {o \in OrderLines : orders[o].number # NoOrderLine.number}
SmallOrders ==
  /\ \A o \in OrderLines : orders[o].qty = 2 => ~IsDirect(o)
  /\ Cardinality(Renumbered) < 2
  /\ Renumbered # {} => \A o \in OrderLines : orders[o].qty < 2 /\ (orders[o].qty = 1 => ~IsDirect(o))
=============================================================================
