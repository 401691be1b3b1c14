------------------------- MODULE MCOutsourceWork -------------------------
(* Small instances of OutsourceWork for TLC.                             *)
EXTENDS OutsourceWork, TLC

CONSTANTS la, lb, lr, lc, ld, o1, o2, o3, d1, d2

ThreeOrderLines == [l \in Lots |-> CASE l = lb -> o2 [] l \in {lc, ld} -> o3 [] OTHER -> o1]
ReworkOfA == [l \in {lr} |-> la]

\* No request tells one date from another.
DateSymmetry == Permutations(Dates)

Instructed == UNION {instructions[i].items : i \in InstructionIds}

\* A LOT was instructed without a group, or in two groups at once.
Irregular ==
  \E i \in InstructionIds : \E l \in instructions[i].items : Cardinality(NamedIn(i, l)) # 1

Renewed == {g \in GroupIds : \E l \in LotsOfGroup(g) : groups[g].cuts[l] \notin FirstCuts}

\* Bounds of the state space: the LOT that is only inspected (lc) is scheduled while
\* no other LOT is, with one group at most; the LOT that is printed (ld) is not
\* scheduled, and worked with la while nothing is; the rework (lr) leaves lb alone;
\* when something is ordered, one inspection at most is scheduled; a LOT in no group
\* or in two is not reworked, and either something is ordered then or one inspection
\* scheduled; and one group at most gets other cuts than it had first.
FewAtATime ==
  /\ \A l \in Lots, d \in Dates : HasRow(l, d) =>
       CASE l = ld -> FALSE
         [] l = lc -> Len(groups) <= 1 /\ \A k \in Lots \ {lc}, e \in Dates : ~HasRow(k, e)
         [] OTHER -> ld \notin Instructed
  /\ ld \in Instructed => Instructed \subseteq {la, ld}
  /\ lr \in made => lb \notin Instructed
  /\ orders # <<>> => RowCount(schedules) <= 1
  /\ Irregular => lr \notin made /\ RowCount(schedules) + Len(orders) <= 1
  /\ Cardinality(Renewed) <= 1
==========================================================================
