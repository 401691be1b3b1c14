------------------------ MODULE OutsourceWork_proofs ------------------------
(***************************************************************************)
(* Theorems about OutsourceWork, for any finite set of LOTs and any bounds *)
(* of the model.                                                           *)
(* At the end, about VendorOverlap, where the vendor's requests are two    *)
(* steps.                                                                  *)
(***************************************************************************)
EXTENDS VendorOverlap, FiniteSetTheorems, TLAPS

USE LotsAssumption, BoundsAssumption
------------------------------------------------------------------------------
(* The columns of a work group.                                            *)

CutsOfLots == UNION {[D -> CutCounts] : D \in SUBSET Lots}

Group ==
  [instruction : Nat, status : GroupStatuses, sheets : Sheets,
   cuts : CutsOfLots, output : {NoOutput} \cup UNION {[D -> Nat] : D \in SUBSET Lots}]

GroupInv ==
  /\ made \subseteq Lots
  /\ groups \in Seq(Group) /\ Len(groups) <= MaxGroups

\* What the requests do to the groups: they add new ones,
Added ==
  /\ Len(groups) <= Len(groups')
  /\ \A g \in GroupIds : groups'[g] = groups[g]
  /\ \A g \in DOMAIN groups' \ GroupIds : groups'[g].status = "REGISTERED"

\* change the terms of one that is not ordered,
Renewed ==
  /\ Len(groups') = Len(groups)
  /\ \E g \in GroupIds :
       /\ groups[g].status = "REGISTERED" /\ groups'[g].status = "REGISTERED"
       /\ LotsOfGroup(g) = DOMAIN groups'[g].cuts
       /\ \A k \in DOMAIN orders : g \notin orders[k].groups
       /\ \A h \in GroupIds \ {g} : groups'[h] = groups[h]

\* or move some of them by the same step of their life.
Moved ==
  /\ Len(groups') = Len(groups)
  /\ \E G \in SUBSET GroupIds, m \in Life!Moves :
       /\ m[1] # "NONE"
       /\ \A g \in G :
            /\ groups[g].status = m[1] /\ groups'[g].status = m[2]
            /\ groups'[g].sheets = groups[g].sheets /\ groups'[g].cuts = groups[g].cuts
            /\ m[2] = "WORK_DONE" =>
                 \E s \in Sheets : groups'[g].output = [l \in LotsOfGroup(g) |-> s * groups[g].cuts[l]]
            /\ m[2] = "SHIPPED" => groups'[g].output = groups[g].output
       /\ \A h \in GroupIds \ G : groups'[h] = groups[h]

\* A finite set has its sequence.
LEMMA Members ==
  ASSUME NEW S, IsFiniteSet(S)
  PROVE  SetToSeq(S) \in [1 .. Cardinality(S) -> S] /\ IsInjective(SetToSeq(S))
<1>1. PICK f : f \in Bijection(1 .. Cardinality(S), S)
  BY FS_CardinalityType, Zenon DEF ExistsBijection
<1>2. f \in [1 .. Cardinality(S) -> S] /\ IsInjective(f)
  BY <1>1 DEF Bijection, Injection, IsInjective
<1> QED BY <1>2, Zenon DEF SetToSeq

\* All requests but instruction and withdrawal leave to every group its
\* instruction, its LOTs and whether it is open.
Kept ==
  /\ UNCHANGED instructions
  /\ Len(groups') = Len(groups)
  /\ \A g \in GroupIds :
       /\ groups'[g].instruction = groups[g].instruction
       /\ DOMAIN groups'[g].cuts = LotsOfGroup(g)
       /\ groups'[g].status # "CANCELED" <=> Open(g)

\* New groups have the columns of a group and are registered.
Fresh(q) == q \in Seq(Group) /\ \A k \in 1 .. Len(q) : q[k].status = "REGISTERED"

\* One new group.
LEMMA NewGroupType ==
  ASSUME NEW i \in Nat, NEW ls \in SUBSET Lots, NEW cuts \in [Lots -> CutCounts], NEW s \in Sheets
  PROVE  NewGroup(i, ls, cuts, s) \in Group /\ NewGroup(i, ls, cuts, s).status = "REGISTERED"
<1> DEFINE cut == Restrict(cuts, ls)
<1>1. cut \in CutsOfLots
  BY DEF Restrict, CutsOfLots
<1>2. NewGroup(i, ls, cuts, s) =
        [instruction |-> i, status |-> "REGISTERED", sheets |-> s, cuts |-> cut, output |-> NoOutput]
  BY Zenon DEF NewGroup
<1> HIDE DEF cut
<1> QED BY <1>1, <1>2 DEF Group, GroupStatuses

GroupsIn(i, ls, q) ==
  \A k \in 1 .. Len(q) : q[k].instruction = i /\ DOMAIN q[k].cuts \subseteq ls /\ DOMAIN q[k].cuts # {}

\* The groups of one instruction are the listed ones it has LOTs of, cut down to
\* these.
LEMMA NewGroupsShape ==
  ASSUME NEW i \in Nat, NEW ls \in SUBSET Lots, NEW grouping, IsFiniteSet(DOMAIN grouping),
         NEW cuts \in [Lots -> CutCounts], NEW s \in Sheets
  PROVE  Fresh(NewGroups(i, ls, grouping, cuts, s)) /\ GroupsIn(i, ls, NewGroups(i, ls, grouping, cuts, s))
<1> DEFINE kept == {k \in DOMAIN grouping : grouping[k] \cap ls # {}}
           lots(k) == grouping[SetToSeq(kept)[k]] \cap ls
           one(k) == NewGroup(i, lots(k), cuts, s)
           n == Cardinality(kept)
           r == NewGroups(i, ls, grouping, cuts, s)
<1>1. r = [k \in 1 .. n |-> one(k)]
  BY Zenon DEF NewGroups
<1>2. IsFiniteSet(kept) /\ n \in Nat
  BY FS_Subset, FS_CardinalityType
<1>3. SetToSeq(kept) \in [1 .. n -> kept]
  BY <1>2, Members
<1>4. ASSUME NEW k \in 1 .. n
      PROVE  /\ one(k) \in Group /\ one(k).status = "REGISTERED"
             /\ one(k).instruction = i /\ DOMAIN one(k).cuts \subseteq ls /\ DOMAIN one(k).cuts # {}
  <2>1. SetToSeq(kept)[k] \in kept
    BY <1>3
  <2>2. lots(k) # {} /\ lots(k) \subseteq ls /\ lots(k) \in SUBSET Lots
    BY <2>1
  <2> HIDE DEF lots
  <2>3. one(k) \in Group /\ one(k).status = "REGISTERED"
    BY <2>2, NewGroupType, Zenon
  <2>4. one(k).instruction = i /\ one(k).cuts = Restrict(cuts, lots(k))
    BY DEF NewGroup
  <2>5. DOMAIN Restrict(cuts, lots(k)) = lots(k)
    BY DEF Restrict
  <2> QED BY <2>2, <2>3, <2>4, <2>5
<1> HIDE DEF r, one, n
<1>5. r \in Seq(Group) /\ Len(r) = n /\ \A k \in 1 .. n : r[k] = one(k)
  BY <1>1, <1>2, <1>4
<1>6. Fresh(r)
  BY <1>4, <1>5 DEF Fresh
<1>7. GroupsIn(i, ls, r)
  BY <1>4, <1>5 DEF GroupsIn
<1> QED BY <1>6, <1>7 DEF r
------------------------------------------------------------------------------
(* What each request does to the groups.                                   *)

StepOK == GroupInv' /\ (Added \/ Renewed \/ Moved)

\* Groups that stay as they are.
LEMMA NoGroupChanged ==
  ASSUME GroupInv, UNCHANGED groups, made' \subseteq Lots
  PROVE  StepOK /\ (UNCHANGED instructions => Kept)
<1>1. GroupInv'
  BY DEF GroupInv
<1>2. Added
  BY DEF GroupInv, Added, GroupIds
<1>3. UNCHANGED instructions => Kept
  BY DEF Kept, Open, LotsOfGroup
<1> QED BY <1>1, <1>2, <1>3 DEF StepOK

\* An instruction adds registered groups, within the bound.
LEMMA InstructStep ==
  ASSUME GroupInv, NEW L \in SUBSET made, NEW grouping, IsFiniteSet(DOMAIN grouping),
         NEW cuts \in [Lots -> CutCounts], NEW s \in Sheets,
         Len(instructions) \in Nat, InstructBatch(L, grouping, cuts, s)
  PROVE  GroupInv' /\ Added
<1> DEFINE of(p) == {l \in L : AvailableProcesses(l) # {} /\ PrimaryProcess(l) = p}
           new == IF of("CUT") = {} THEN <<"PRINT">> ELSE IF of("PRINT") = {} THEN <<"CUT">> ELSE <<"CUT", "PRINT">>
           idOf(p) == Len(instructions) + (IF p = new[1] THEN 1 ELSE 2)
           groupsOf(p) == IF of(p) = {} THEN <<>> ELSE NewGroups(idOf(p), of(p), grouping, cuts, s)
           added == groupsOf("CUT") \o groupsOf("PRINT")
<1>1. /\ Len(groups) + Len(added) <= MaxGroups
      /\ groups' = groups \o added
      /\ UNCHANGED made
  BY Zenon DEF InstructBatch
<1>2. \A p \in Processes : Fresh(groupsOf(p))
  <2> SUFFICES ASSUME NEW p \in Processes PROVE Fresh(groupsOf(p))
    OBVIOUS
  <2>1. CASE of(p) = {}
    BY <2>1 DEF Fresh
  <2>2. CASE of(p) # {}
    <3>1. of(p) \in SUBSET Lots
      BY DEF GroupInv
    <3>2. idOf(p) \in Nat
      OBVIOUS
    <3> HIDE DEF of, idOf
    <3>3. Fresh(NewGroups(idOf(p), of(p), grouping, cuts, s))
      BY <3>1, <3>2, NewGroupsShape, Zenon
    <3> QED BY <2>2, <3>3
  <2> QED BY <2>1, <2>2
<1> HIDE DEF groupsOf
<1>3. Fresh(added)
  <2>1. Fresh(groupsOf("CUT")) /\ Fresh(groupsOf("PRINT"))
    BY <1>2, Zenon DEF Processes
  <2> QED BY <2>1 DEF Fresh
<1> HIDE DEF added
<1>4. groups' \in Seq(Group) /\ Len(groups') = Len(groups) + Len(added)
  BY <1>1, <1>3 DEF GroupInv, Fresh
<1>5. GroupInv'
  BY <1>1, <1>3, <1>4 DEF GroupInv, Fresh
<1>6. Added
  <2>1. DOMAIN groups' = 1 .. Len(groups) + Len(added) /\ GroupIds = 1 .. Len(groups)
    BY <1>4 DEF GroupInv, GroupIds
  <2>2. Len(groups) \in Nat /\ Len(added) \in Nat
    BY <1>3 DEF GroupInv, Fresh
  <2>3. \A g \in GroupIds : groups'[g] = groups[g]
    BY <1>1, <1>3, <2>1, <2>2 DEF GroupInv, Fresh
  <2>4. ASSUME NEW g \in DOMAIN groups' \ GroupIds PROVE groups'[g].status = "REGISTERED"
    <3>1. g - Len(groups) \in 1 .. Len(added)
      BY <2>1, <2>2
    <3>2. groups'[g] = added[g - Len(groups)]
      BY <1>1, <1>3, <2>1, <2>2, <2>4 DEF GroupInv, Fresh
    <3> QED BY <1>3, <3>1, <3>2 DEF Fresh
  <2> QED BY <1>4, <2>2, <2>3, <2>4 DEF Added
<1> QED BY <1>5, <1>6

\* Writing one row of the groups.
LEMMA OneRow ==
  ASSUME NEW gs \in Seq(Group), NEW g \in DOMAIN gs, NEW r \in Group
  PROVE  /\ [gs EXCEPT ![g] = r] \in Seq(Group)
         /\ Len([gs EXCEPT ![g] = r]) = Len(gs)
         /\ [gs EXCEPT ![g] = r][g] = r
         /\ \A h \in DOMAIN gs \ {g} : [gs EXCEPT ![g] = r][h] = gs[h]
OBVIOUS

\* A request that writes one group.
LEMMA OneGroup ==
  ASSUME GroupInv, NEW g \in GroupIds, NEW r \in Group, groups' = [groups EXCEPT ![g] = r]
  PROVE  /\ groups' \in Seq(Group) /\ Len(groups') = Len(groups) /\ groups'[g] = r
         /\ \A h \in GroupIds \ {g} : groups'[h] = groups[h]
BY OneRow DEF GroupIds, GroupInv

\* An update renews the terms of its group.
LEMMA UpdateStep ==
  ASSUME GroupInv, NEW g \in GroupIds, NEW s \in Sheets, NEW c \in CutCounts, UpdateWorkGroup(g, s, c)
  PROVE  StepOK /\ Kept
<1> DEFINE cuts == [l \in LotsOfGroup(g) |-> c]
           r1 == [groups[g] EXCEPT !.sheets = s]
           r2 == [r1 EXCEPT !.cuts = cuts]
<1>1. groups \in Seq(Group) /\ groups[g] \in Group /\ g \in DOMAIN groups
  BY DEF GroupInv, GroupIds
<1>2. cuts \in CutsOfLots
  <2>1. LotsOfGroup(g) \in SUBSET Lots
    BY <1>1 DEF LotsOfGroup, Group, CutsOfLots
  <2> QED BY <2>1 DEF CutsOfLots
<1>3. r1 \in Group /\ r1.status = groups[g].status /\ r1.instruction = groups[g].instruction
  BY <1>1 DEF Group
<1>4. r2 \in Group /\ r2.status = groups[g].status /\ r2.cuts = cuts /\ r2.instruction = groups[g].instruction
  <2> HIDE DEF r1, cuts
  <2> QED BY <1>2, <1>3 DEF Group
<1>5. groups' = [groups EXCEPT ![g] = r2]
  BY DEF UpdateWorkGroup
<1>6. UNCHANGED <<made, instructions>> /\ MayUpdate(g)
  BY DEF UpdateWorkGroup
<1> HIDE DEF r2
<1>7. /\ groups' \in Seq(Group) /\ Len(groups') = Len(groups) /\ groups'[g] = r2
      /\ \A h \in GroupIds \ {g} : groups'[h] = groups[h]
  BY <1>4, <1>5, OneGroup
<1>8. GroupInv'
  BY <1>6, <1>7 DEF GroupInv
<1>9. DOMAIN r2.cuts = LotsOfGroup(g)
  BY <1>4
<1>10. Renewed
  BY <1>4, <1>6, <1>7, <1>9 DEF Renewed, MayUpdate
<1>11. Kept
  BY <1>4, <1>6, <1>7, <1>9 DEF Kept, Open, LotsOfGroup
<1> QED BY <1>8, <1>10, <1>11 DEF StepOK

\* A group that gets its next status and nothing else.
LEMMA StatusStep ==
  ASSUME GroupInv, NEW g \in GroupIds, NEW before \in GroupStatuses, NEW after \in GroupStatuses,
         <<before, after>> \in Life!Moves, after # "WORK_DONE",
         groups[g].status = before, UNCHANGED made,
         groups' = [groups EXCEPT ![g].status = after]
  PROVE  StepOK /\ (before # "CANCELED" /\ after # "CANCELED" /\ UNCHANGED instructions => Kept)
<1> DEFINE r == [groups[g] EXCEPT !.status = after]
<1>1. groups \in Seq(Group) /\ groups[g] \in Group /\ g \in DOMAIN groups
  BY DEF GroupInv, GroupIds
<1>2. /\ r \in Group /\ r.instruction = groups[g].instruction /\ r.status = after /\ r.sheets = groups[g].sheets
      /\ r.cuts = groups[g].cuts /\ r.output = groups[g].output
  BY <1>1 DEF Group
<1>3. groups' = [groups EXCEPT ![g] = r]
  OBVIOUS
<1> HIDE DEF r
<1>4. /\ groups' \in Seq(Group) /\ Len(groups') = Len(groups) /\ groups'[g] = r
      /\ \A h \in GroupIds \ {g} : groups'[h] = groups[h]
  BY <1>2, <1>3, OneGroup, Zenon
<1>5. GroupInv'
  BY <1>4 DEF GroupInv
<1>6. before # "NONE"
  BY DEF GroupStatuses
<1>7. Moved
  <2> DEFINE G == {g}
             m == <<before, after>>
  <2>1. G \in SUBSET GroupIds /\ m \in Life!Moves /\ m[1] = before /\ m[2] = after
    OBVIOUS
  <2>2. \A x \in G :
          /\ groups[x].status = m[1] /\ groups'[x].status = m[2]
          /\ groups'[x].sheets = groups[x].sheets /\ groups'[x].cuts = groups[x].cuts
          /\ m[2] = "WORK_DONE" =>
               \E s \in Sheets : groups'[x].output = [l \in LotsOfGroup(x) |-> s * groups[x].cuts[l]]
          /\ m[2] = "SHIPPED" => groups'[x].output = groups[x].output
    BY <1>2, <1>4, <2>1
  <2>3. \A h \in GroupIds \ G : groups'[h] = groups[h]
    BY <1>4
  <2>4. m[1] # "NONE" /\ Len(groups') = Len(groups)
    BY <1>4, <1>6, <2>1
  <2> HIDE DEF G, m
  <2> QED BY <2>1, <2>2, <2>3, <2>4, Zenon DEF Moved
<1>8. before # "CANCELED" /\ after # "CANCELED" /\ UNCHANGED instructions => Kept
  BY <1>2, <1>4 DEF Kept, Open, LotsOfGroup
<1> QED BY <1>5, <1>7, <1>8 DEF StepOK

\* The vendor's report moves its group and sets its output.
LEMMA WorkDoneStep ==
  ASSUME GroupInv, NEW g \in GroupIds, NEW s \in Sheets, NEW first, WorkDone(g, s, first)
  PROVE  StepOK /\ Kept
<1> DEFINE output == [l \in LotsOfGroup(g) |-> s * groups[g].cuts[l]]
           r1 == [groups[g] EXCEPT !.status = "WORK_DONE"]
           r2 == [r1 EXCEPT !.output = output]
<1>1. groups \in Seq(Group) /\ groups[g] \in Group /\ g \in DOMAIN groups
  BY DEF GroupInv, GroupIds
<1>2. output \in UNION {[D -> Nat] : D \in SUBSET Lots}
  <2>1. PICK D \in SUBSET Lots : groups[g].cuts \in [D -> CutCounts]
    BY <1>1 DEF Group, CutsOfLots
  <2>2. LotsOfGroup(g) = D /\ \A l \in D : groups[g].cuts[l] \in Nat
    BY <2>1 DEF LotsOfGroup
  <2>3. \A l \in D : s * groups[g].cuts[l] \in Nat
    <3>1. s \in Nat
      OBVIOUS
    <3>2. \A x, y \in Nat : x * y \in Nat
      OBVIOUS
    <3> QED BY <2>2, <3>1, <3>2, Zenon
  <2>4. output \in [D -> Nat]
    BY <2>2, <2>3
  <2> QED BY <2>4
<1>3. r1 \in Group /\ r1.status = "WORK_DONE" /\ r1.sheets = groups[g].sheets /\ r1.cuts = groups[g].cuts
      /\ r1.instruction = groups[g].instruction
  BY <1>1 DEF Group, GroupStatuses
<1>4. r2 \in Group /\ r2.status = "WORK_DONE" /\ r2.sheets = groups[g].sheets /\ r2.cuts = groups[g].cuts
      /\ r2.output = output /\ r2.instruction = groups[g].instruction
  <2> HIDE DEF r1, output
  <2> QED BY <1>2, <1>3 DEF Group
<1>5. groups' = [groups EXCEPT ![g] = r2] /\ groups[g].status = "VENDOR_RECEIVED" /\ UNCHANGED <<made, instructions>>
  BY DEF WorkDone
<1> HIDE DEF r2
<1>6. /\ groups' \in Seq(Group) /\ Len(groups') = Len(groups) /\ groups'[g] = r2
      /\ \A h \in GroupIds \ {g} : groups'[h] = groups[h]
  BY <1>4, <1>5, OneGroup
<1>7. GroupInv'
  BY <1>5, <1>6 DEF GroupInv
<1>8. Moved
  <2> DEFINE G == {g}
             m == <<"VENDOR_RECEIVED", "WORK_DONE">>
  <2>1. G \in SUBSET GroupIds /\ m \in Life!Moves /\ m[1] = "VENDOR_RECEIVED" /\ m[2] = "WORK_DONE"
    BY DEF Life!Moves
  <2>2. \A x \in G :
          /\ groups[x].status = m[1] /\ groups'[x].status = m[2]
          /\ groups'[x].sheets = groups[x].sheets /\ groups'[x].cuts = groups[x].cuts
          /\ m[2] = "WORK_DONE" =>
               \E z \in Sheets : groups'[x].output = [l \in LotsOfGroup(x) |-> z * groups[x].cuts[l]]
          /\ m[2] = "SHIPPED" => groups'[x].output = groups[x].output
    BY <1>4, <1>5, <1>6, <2>1
  <2>3. \A h \in GroupIds \ G : groups'[h] = groups[h]
    BY <1>6
  <2> HIDE DEF G, m
  <2> QED BY <1>6, <2>1, <2>2, <2>3 DEF Moved
<1>9. Kept
  BY <1>4, <1>5, <1>6 DEF Kept, Open, LotsOfGroup
<1> QED BY <1>7, <1>8, <1>9 DEF StepOK

\* A batch of groups is shipped together.
LEMMA ShipStep ==
  ASSUME GroupInv, NEW G \in SUBSET GroupIds, NEW first, ShipBatch(G, first)
  PROVE  StepOK /\ Kept
<1> DEFINE row(g) == IF g \in G THEN [groups[g] EXCEPT !.status = "SHIPPED"] ELSE groups[g]
<1>1. /\ groups' = [g \in GroupIds |-> row(g)]
      /\ \A g \in G : groups[g].status = "WORK_DONE"
      /\ UNCHANGED <<made, instructions>>
  BY DEF ShipBatch
<1>2. GroupIds = 1 .. Len(groups) /\ Len(groups) \in Nat
  BY DEF GroupInv, GroupIds
<1>3. ASSUME NEW g \in GroupIds
      PROVE  /\ row(g) \in Group /\ row(g).instruction = groups[g].instruction
             /\ row(g).sheets = groups[g].sheets /\ row(g).cuts = groups[g].cuts /\ row(g).output = groups[g].output
             /\ g \in G => row(g).status = "SHIPPED"
             /\ g \notin G => row(g) = groups[g]
  <2>1. groups[g] \in Group
    BY <1>3 DEF GroupInv, GroupIds
  <2> QED BY <2>1 DEF Group, GroupStatuses
<1> HIDE DEF row
<1>4. groups' \in Seq(Group) /\ Len(groups') = Len(groups) /\ \A g \in GroupIds : groups'[g] = row(g)
  BY <1>1, <1>2, <1>3
<1>5. GroupInv'
  BY <1>1, <1>4 DEF GroupInv
<1>6. Moved
  <2> DEFINE m == <<"WORK_DONE", "SHIPPED">>
  <2>1. m \in Life!Moves /\ m[1] = "WORK_DONE" /\ m[2] = "SHIPPED"
    BY DEF Life!Moves
  <2>2. \A x \in G :
          /\ groups[x].status = m[1] /\ groups'[x].status = m[2]
          /\ groups'[x].sheets = groups[x].sheets /\ groups'[x].cuts = groups[x].cuts
          /\ m[2] = "WORK_DONE" =>
               \E z \in Sheets : groups'[x].output = [l \in LotsOfGroup(x) |-> z * groups[x].cuts[l]]
          /\ m[2] = "SHIPPED" => groups'[x].output = groups[x].output
    BY <1>1, <1>3, <1>4, <2>1
  <2>3. \A h \in GroupIds \ G : groups'[h] = groups[h]
    BY <1>3, <1>4
  <2> HIDE DEF m
  <2> QED BY <1>4, <2>1, <2>2, <2>3 DEF Moved
<1>7. Kept
  BY <1>1, <1>3, <1>4 DEF Kept, Open, LotsOfGroup
<1> QED BY <1>5, <1>6, <1>7 DEF StepOK

Instructs ==
  \E L \in SUBSET made, cuts \in [Lots -> CutCounts], s \in Sheets : \E grouping :
    IsFiniteSet(DOMAIN grouping) /\ InstructBatch(L, grouping, cuts, s)

Withdraws == \E g \in GroupIds : \E first : CancelWorkGroup(g, first)

\* Every step keeps the groups groups and moves them as they may.
LEMMA Step ==
  ASSUME GroupInv, Len(instructions) \in Nat, [Next]_vars
  PROVE  StepOK /\ (Kept \/ Instructs \/ Withdraws)
<1>1. CASE InstructionNext
  <2>1. ASSUME NEW L \in UNION {kSubset(n, made) : n \in 1 .. MaxBatch}, NEW c \in FirstCuts, NEW s \in Sheets,
               NEW grouping \in Groupings(L), InstructBatch(L, grouping, [l \in Lots |-> c], s)
        PROVE  StepOK /\ Instructs
    <3>1. L \in SUBSET made
      BY DEF kSubset
    <3>2. [l \in Lots |-> c] \in [Lots -> CutCounts]
      OBVIOUS
    <3>0. IsFiniteSet(DOMAIN grouping)
      <4>1. PICK n \in 0 .. MaxGroups : grouping \in [1 .. n -> SUBSET L \ {{}}]
        BY DEF Groupings
      <4>2. DOMAIN grouping = 1 .. n
        BY <4>1
      <4> QED BY <4>2, FS_Interval
    <3>3. StepOK
      BY <2>1, <3>0, <3>1, <3>2, InstructStep, Zenon DEF StepOK
    <3>4. Instructs
      <4> DEFINE cuts == [l \in Lots |-> c]
      <4>1. cuts \in [Lots -> CutCounts] /\ InstructBatch(L, grouping, cuts, s)
        BY <2>1, <3>2
      <4> HIDE DEF cuts
      <4> QED BY <3>0, <3>1, <4>1, Zenon DEF Instructs
    <3> QED BY <3>3, <3>4
  <2>2. ASSUME NEW g \in GroupIds, NEW first, CancelWorkGroup(g, first) PROVE StepOK /\ Withdraws
    <3>1. groups[g].status = "REGISTERED" /\ groups' = [groups EXCEPT ![g].status = "CANCELED"] /\ UNCHANGED made
      BY <2>2 DEF CancelWorkGroup, MayCancel
    <3>2. <<"REGISTERED", "CANCELED">> \in Life!Moves /\ {"REGISTERED", "CANCELED"} \subseteq GroupStatuses
      BY DEF Life!Moves, GroupStatuses
    <3>3. Withdraws
      BY <2>2, Zenon DEF Withdraws
    <3> QED BY <3>1, <3>2, <3>3, StatusStep
  <2> QED BY <1>1, <2>1, <2>2, UpdateStep DEF InstructionNext
<1>2. CASE VendorNext
  <2>1. ASSUME NEW g \in GroupIds, NEW first, Inbound(g, first) PROVE StepOK /\ Kept
    <3>1. groups[g].status = "REGISTERED" /\ groups' = [groups EXCEPT ![g].status = "VENDOR_RECEIVED"]
          /\ UNCHANGED <<made, instructions>>
      BY <2>1 DEF Inbound
    <3>2. <<"REGISTERED", "VENDOR_RECEIVED">> \in Life!Moves /\ {"REGISTERED", "VENDOR_RECEIVED"} \subseteq GroupStatuses
      BY DEF Life!Moves, GroupStatuses
    <3> QED BY <3>1, <3>2, StatusStep
  <2> QED BY <1>2, <2>1, WorkDoneStep, ShipStep DEF VendorNext
<1>3. CASE \E l \in Lots : CreateReworkLot(l)
  <2>1. UNCHANGED <<groups, instructions>> /\ made' \subseteq Lots
    BY <1>3 DEF CreateReworkLot, GroupInv
  <2> QED BY <2>1, NoGroupChanged
<1>4. ASSUME OrderNext \/ ScheduleNext \/ (\E g \in GroupIds, d \in Dates : CreateGroupSchedule(g, d)) \/ RebuildProgress
      PROVE  UNCHANGED <<made, groups, instructions>>
  <2>1. CASE OrderNext
    BY <2>1, Zenon DEF OrderNext, CreatePurchaseOrder
  <2>2. CASE ScheduleNext
    <3>1. \A l, d : CreateSchedule(l, d) => UNCHANGED <<made, groups, instructions>>
      BY Zenon DEF CreateSchedule
    <3>2. \A l, d : ReceiveSchedule(l, d) => UNCHANGED <<made, groups, instructions>>
      BY Zenon DEF ReceiveSchedule, Follow
    <3>3. \A l, d : StartSchedule(l, d) => UNCHANGED <<made, groups, instructions>>
      BY Zenon DEF StartSchedule, Follow
    <3>4. \A l, d : SaveResult(l, d) => UNCHANGED <<made, groups, instructions>>
      BY Zenon DEF SaveResult, Follow
    <3>5. \A l, d : CancelSchedule(l, d) => UNCHANGED <<made, groups, instructions>>
      BY Zenon DEF CancelSchedule, Follow
    <3>6. \A l, d, to : SavePartialResult(l, d, to) => UNCHANGED <<made, groups, instructions>>
      BY Zenon DEF SavePartialResult, Follow
    <3>7. \A l, d, to : MoveSchedule(l, d, to) => UNCHANGED <<made, groups, instructions>>
      BY Zenon DEF MoveSchedule
    <3> QED BY <2>2, <3>1, <3>2, <3>3, <3>4, <3>5, <3>6, <3>7, Zenon DEF ScheduleNext
  <2>3. CASE \E g \in GroupIds, d \in Dates : CreateGroupSchedule(g, d)
    BY <2>3, Zenon DEF CreateGroupSchedule
  <2>4. CASE RebuildProgress
    BY <2>4, Zenon DEF RebuildProgress
  <2> QED BY <1>4, <2>1, <2>2, <2>3, <2>4
<1>5. CASE UNCHANGED vars
  <2> QED BY <1>5, NoGroupChanged DEF vars, GroupInv
<1>6. ASSUME UNCHANGED <<made, groups, instructions>> PROVE StepOK /\ Kept
  BY <1>6, NoGroupChanged DEF GroupInv
<1> QED BY <1>1, <1>2, <1>3, <1>4, <1>5, <1>6 DEF Next
------------------------------------------------------------------------------
(* The instructions.                                                       *)

Instruction == [process : Processes, items : SUBSET Lots, active : SUBSET Lots]

InstructionInv == instructions \in Seq(Instruction)

\* What new instructions and their groups are: the items had no registration for
\* the process, which no other new instruction has, and the groups refer to one
\* of them and hold some of its items.
NewWork ==
  /\ Len(instructions) <= Len(instructions')
  /\ \A i \in InstructionIds : instructions'[i] = instructions[i]
  /\ \A i \in DOMAIN instructions' \ InstructionIds :
       /\ instructions'[i].items \subseteq made
       /\ instructions'[i].active = instructions'[i].items
       /\ \A l \in instructions'[i].items : /\ ~Registered(l, instructions'[i].process)
                                            /\ PrimaryProcess(l) = instructions'[i].process
                                            /\ l \notin InspectionOnlyLots
       /\ \A j \in DOMAIN instructions' \ InstructionIds :
            instructions'[j].process = instructions'[i].process => j = i
  /\ \A g \in DOMAIN groups' \ GroupIds :
       /\ groups'[g].instruction \in DOMAIN instructions' \ InstructionIds
       /\ DOMAIN groups'[g].cuts # {}
       /\ DOMAIN groups'[g].cuts \subseteq instructions'[groups'[g].instruction].items

\* Rows added behind others.
LEMMA RowsAdded ==
  ASSUME NEW S, NEW a \in Seq(S), NEW b \in Seq(S)
  PROVE  a \o b \in Seq(S) /\ Len(a \o b) = Len(a) + Len(b)
OBVIOUS

\* What an instruction request creates.
LEMMA InstructShape ==
  ASSUME GroupInv, InstructionInv, NEW L \in SUBSET made, NEW grouping, IsFiniteSet(DOMAIN grouping),
         NEW cuts \in [Lots -> CutCounts], NEW s \in Sheets, InstructBatch(L, grouping, cuts, s)
  PROVE  InstructionInv' /\ NewWork
<1> DEFINE of(p) == {l \in L : AvailableProcesses(l) # {} /\ PrimaryProcess(l) = p}
           new == IF of("CUT") = {} THEN <<"PRINT">> ELSE IF of("PRINT") = {} THEN <<"CUT">> ELSE <<"CUT", "PRINT">>
           idOf(p) == Len(instructions) + (IF p = new[1] THEN 1 ELSE 2)
           groupsOf(p) == IF of(p) = {} THEN <<>> ELSE NewGroups(idOf(p), of(p), grouping, cuts, s)
           added == groupsOf("CUT") \o groupsOf("PRINT")
           row(p) == [process |-> p, items |-> of(p), active |-> of(p)]
           rows == [k \in DOMAIN new |-> row(new[k])]
<1>1. /\ groups' = groups \o added
      /\ instructions' = instructions \o rows
      /\ \A p \in Processes : \A l \in of(p) : ~Registered(l, p)
  BY Zenon DEF InstructBatch
<1>2. \A p \in Processes : of(p) \in SUBSET Lots /\ of(p) \cap InspectionOnlyLots = {} /\ \A l \in of(p) : PrimaryProcess(l) = p
  BY DEF GroupInv, AvailableProcesses
<1>3. /\ new \in Seq(Processes) /\ Len(new) \in Nat /\ DOMAIN new = 1 .. Len(new)
      /\ \A a, b \in 1 .. Len(new) : new[a] = new[b] => a = b
  <2>1. new \in {<<"PRINT">>, <<"CUT">>, <<"CUT", "PRINT">>}
    OBVIOUS
  <2> HIDE DEF new
  <2>2. <<"PRINT">> \in Seq(Processes)
    BY DEF Processes
  <2>3. <<"CUT">> \in Seq(Processes)
    BY DEF Processes
  <2>4. <<"CUT", "PRINT">> \in Seq(Processes)
    BY DEF Processes
  <2>5. new \in Seq(Processes)
    BY <2>1, <2>2, <2>3, <2>4, Zenon
  <2>6. CASE new = <<"PRINT">>
    BY <2>5, <2>6
  <2>7. CASE new = <<"CUT">>
    BY <2>5, <2>7
  <2>8. CASE new = <<"CUT", "PRINT">>
    BY <2>5, <2>8
  <2> QED BY <2>1, <2>6, <2>7, <2>8
<1>4. ASSUME NEW p \in Processes, of(p) # {}
      PROVE  idOf(p) - Len(instructions) \in 1 .. Len(new) /\ new[idOf(p) - Len(instructions)] = p /\ idOf(p) \in Nat
  <2> HIDE DEF of
  <2> QED BY <1>4 DEF Processes, InstructionInv
<1> HIDE DEF new, idOf
<1>5. \A p \in Processes : /\ row(p) \in Instruction /\ row(p).process = p
                           /\ row(p).active = of(p) /\ row(p).items = of(p) /\ of(p) \subseteq made
  BY <1>2 DEF Instruction
<1> HIDE DEF row
<1>6. rows \in Seq(Instruction) /\ Len(rows) = Len(new) /\ \A k \in 1 .. Len(new) : rows[k] = row(new[k])
  BY <1>3, <1>5
<1> HIDE DEF rows
<1>7. /\ instructions' \in Seq(Instruction) /\ Len(instructions') = Len(instructions) + Len(new)
      /\ \A i \in InstructionIds : instructions'[i] = instructions[i]
      /\ \A k \in 1 .. Len(new) : instructions'[Len(instructions) + k] = row(new[k])
      /\ DOMAIN instructions' = 1 .. Len(instructions) + Len(new) /\ InstructionIds = 1 .. Len(instructions)
      /\ Len(instructions) \in Nat
  <2>1. instructions \in Seq(Instruction)
    BY DEF InstructionInv
  <2>2. Len(instructions) \in Nat /\ InstructionIds = 1 .. Len(instructions)
    BY <2>1 DEF InstructionIds
  <2>3. rows \in Seq(Instruction) /\ Len(rows) = Len(new) /\ instructions' = instructions \o rows
    BY <1>1, <1>6
  <2>4. instructions' \in Seq(Instruction) /\ Len(instructions') = Len(instructions) + Len(new)
    <3>1. instructions \o rows \in Seq(Instruction) /\ Len(instructions \o rows) = Len(instructions) + Len(rows)
      BY <2>1, <2>3, RowsAdded, Zenon
    <3> QED BY <2>3, <3>1, Zenon
  <2>5. ASSUME NEW i \in InstructionIds PROVE instructions'[i] = instructions[i]
    BY <2>1, <2>2, <2>3
  <2>6. ASSUME NEW k \in 1 .. Len(new) PROVE instructions'[Len(instructions) + k] = row(new[k])
    <3>1. instructions'[Len(instructions) + k] = rows[k]
      BY <1>3, <2>1, <2>2, <2>3
    <3> QED BY <1>6, <3>1
  <2> QED BY <2>2, <2>4, <2>5, <2>6
<1>8. ASSUME NEW p \in Processes, of(p) # {}
      PROVE  idOf(p) \in DOMAIN instructions' \ InstructionIds /\ instructions'[idOf(p)] = row(p)
  <2> DEFINE k == idOf(p) - Len(instructions)
  <2>1. k \in 1 .. Len(new) /\ new[k] = p /\ idOf(p) \in Nat
    BY <1>4, <1>8
  <2>2. Len(instructions) + k = idOf(p)
    BY <2>1, <1>7
  <2>3. instructions'[idOf(p)] = row(p)
    BY <2>1, <2>2, <1>7
  <2>4. idOf(p) \in DOMAIN instructions' \ InstructionIds
    BY <2>1, <2>2, <1>3, <1>7
  <2> QED BY <2>3, <2>4
\* A new instruction is the one of its process.
<1>9. ASSUME NEW i \in DOMAIN instructions' \ InstructionIds
      PROVE  LET k == i - Len(instructions) IN
             /\ k \in 1 .. Len(new) /\ i = Len(instructions) + k
             /\ new[k] \in Processes /\ instructions'[i] = row(new[k])
  <2> DEFINE k == i - Len(instructions)
  <2>1. k \in 1 .. Len(new) /\ i = Len(instructions) + k
    BY <1>3, <1>7
  <2> HIDE DEF k
  <2>2. instructions'[i] = row(new[k]) /\ new[k] \in Processes
    BY <1>3, <1>7, <2>1
  <2> QED BY <2>1, <2>2 DEF k
<1>10. ASSUME NEW i \in DOMAIN instructions' \ InstructionIds
       PROVE  /\ instructions'[i].items \subseteq made
              /\ instructions'[i].active = instructions'[i].items
              /\ \A l \in instructions'[i].items : /\ ~Registered(l, instructions'[i].process)
                                                   /\ PrimaryProcess(l) = instructions'[i].process
                                                   /\ l \notin InspectionOnlyLots
              /\ \A j \in DOMAIN instructions' \ InstructionIds :
                   instructions'[j].process = instructions'[i].process => j = i
  <2> DEFINE p == new[i - Len(instructions)]
  <2>1. p \in Processes /\ instructions'[i] = row(p)
    BY <1>9
  <2>2. ASSUME NEW j \in DOMAIN instructions' \ InstructionIds, instructions'[j].process = instructions'[i].process
        PROVE  j = i
    <3> DEFINE a == i - Len(instructions)
               b == j - Len(instructions)
    <3>1. /\ a \in 1 .. Len(new) /\ i = Len(instructions) + a /\ new[a] \in Processes /\ instructions'[i] = row(new[a])
          /\ b \in 1 .. Len(new) /\ j = Len(instructions) + b /\ new[b] \in Processes /\ instructions'[j] = row(new[b])
      BY <1>9
    <3> HIDE DEF a, b
    <3>2. new[a] = new[b]
      BY <1>5, <2>2, <3>1
    <3>3. a = b
      BY <1>3, <3>1, <3>2
    <3> QED BY <3>1, <3>3
  <2> HIDE DEF p, of
  <2>3. row(p).process = p /\ row(p).active = of(p) /\ row(p).items = of(p) /\ of(p) \subseteq made
    BY <1>5, <2>1
  <2>4. of(p) \cap InspectionOnlyLots = {} /\ \A l \in of(p) : PrimaryProcess(l) = p /\ ~Registered(l, p)
    BY <1>1, <1>2, <2>1
  <2> QED BY <2>1, <2>2, <2>3, <2>4
<1>11. ASSUME NEW p \in Processes
       PROVE  /\ groupsOf(p) \in Seq(Group)
              /\ \A k \in 1 .. Len(groupsOf(p)) :
                   /\ of(p) # {}
                   /\ groupsOf(p)[k].instruction = idOf(p)
                   /\ DOMAIN groupsOf(p)[k].cuts \subseteq of(p) /\ DOMAIN groupsOf(p)[k].cuts # {}
  <2>1. CASE of(p) = {}
    <3>1. groupsOf(p) = <<>>
      BY <2>1
    <3> HIDE DEF groupsOf
    <3> QED BY <3>1
  <2>2. CASE of(p) # {}
    <3>1. idOf(p) \in Nat /\ of(p) \in SUBSET Lots
      BY <1>2, <1>4, <2>2
    <3> HIDE DEF of, idOf
    <3> DEFINE r == NewGroups(idOf(p), of(p), grouping, cuts, s)
    <3>2. Fresh(r) /\ GroupsIn(idOf(p), of(p), r)
      BY <3>1, NewGroupsShape, Zenon
    <3>3. groupsOf(p) = r
      BY <2>2
    <3> HIDE DEF groupsOf, r
    <3> QED BY <2>2, <3>2, <3>3 DEF Fresh, GroupsIn
  <2> QED BY <2>1, <2>2
<1> HIDE DEF groupsOf
<1> DEFINE cut == groupsOf("CUT")
           print == groupsOf("PRINT")
<1>12. cut \in Seq(Group) /\ print \in Seq(Group) /\ {"CUT", "PRINT"} = Processes
  BY <1>11 DEF Processes
<1>13. groups' = groups \o (cut \o print)
  BY <1>1
\* Each added group is one of a process.
<1>14. ASSUME NEW g \in DOMAIN groups' \ GroupIds
       PROVE  \E p \in Processes : \E k \in 1 .. Len(groupsOf(p)) : groups'[g] = groupsOf(p)[k]
  <2> HIDE DEF cut, print
  <2> DEFINE all == cut \o print
             k == g - Len(groups)
  <2>1. groups \in Seq(Group) /\ GroupIds = 1 .. Len(groups) /\ Len(groups) \in Nat
    BY DEF GroupInv, GroupIds
  <2>2. all \in Seq(Group) /\ Len(all) = Len(cut) + Len(print) /\ Len(cut) \in Nat /\ Len(print) \in Nat
    BY <1>12
  <2>3. /\ \A j \in 1 .. Len(cut) : all[j] = cut[j]
        /\ \A j \in 1 .. Len(cut) + Len(print) : j > Len(cut) => all[j] = print[j - Len(cut)]
    BY <1>12
  <2> HIDE DEF all
  <2>4. groups' = groups \o all
    BY <1>13 DEF all
  <2>5. k \in 1 .. Len(all) /\ groups'[g] = all[k]
    BY <2>1, <2>2, <2>4
  <2> HIDE DEF k
  <2>6. CASE k <= Len(cut)
    <3>1. k \in 1 .. Len(cut)
      BY <2>2, <2>5, <2>6
    <3>2. groups'[g] = cut[k]
      BY <2>3, <2>5, <3>1, Zenon
    <3> QED BY <1>12, <3>1, <3>2 DEF cut
  <2>7. CASE k > Len(cut)
    <3> DEFINE j == k - Len(cut)
    <3>1. j \in 1 .. Len(print) /\ k \in 1 .. Len(cut) + Len(print)
      BY <2>2, <2>5, <2>7
    <3>2. groups'[g] = print[j]
      BY <2>3, <2>5, <2>7, <3>1, Zenon
    <3> HIDE DEF j
    <3> QED BY <1>12, <3>1, <3>2 DEF print
  <2> QED BY <2>2, <2>5, <2>6, <2>7
<1>15. ASSUME NEW g \in DOMAIN groups' \ GroupIds
       PROVE  /\ groups'[g].instruction \in DOMAIN instructions' \ InstructionIds
              /\ DOMAIN groups'[g].cuts # {}
              /\ DOMAIN groups'[g].cuts \subseteq instructions'[groups'[g].instruction].items
  <2>1. PICK p \in Processes : \E k \in 1 .. Len(groupsOf(p)) : groups'[g] = groupsOf(p)[k]
    BY <1>14
  <2>2. PICK k \in 1 .. Len(groupsOf(p)) : groups'[g] = groupsOf(p)[k]
    BY <2>1
  <2>3. /\ of(p) # {} /\ groups'[g].instruction = idOf(p)
        /\ DOMAIN groups'[g].cuts \subseteq of(p) /\ DOMAIN groups'[g].cuts # {}
    BY <1>11, <2>2
  <2> QED BY <1>5, <1>8, <2>3
<1>16. InstructionInv' /\ Len(instructions) <= Len(instructions')
  BY <1>3, <1>7 DEF InstructionInv
<1> QED BY <1>7, <1>10, <1>15, <1>16 DEF NewWork
------------------------------------------------------------------------------
(* The inductive invariant.                                                *)

\* A group belongs to an instruction, in which its LOTs are active exactly while
\* all the groups there that hold them are open; none of them is only inspected;
\* and a LOT is active in one instruction of a process at most.
ItemFollows(g, l) ==
  l \in instructions[groups[g].instruction].active <=> \A h \in NamedIn(groups[g].instruction, l) : Open(h)

ItemsOnce ==
  \A i, j \in InstructionIds :
    instructions[i].process = instructions[j].process /\ instructions[i].active \cap instructions[j].active # {}
    => i = j

OpenInv ==
  /\ \A g \in GroupIds : groups[g].instruction \in InstructionIds
  /\ \A g \in GroupIds : LotsOfGroup(g) \cap InspectionOnlyLots = {}
  /\ \A g \in GroupIds : \A l \in LotsOfGroup(g) : ItemFollows(g, l)
  /\ ItemsOnce

\* An item and the groups that hold its LOT, whatever state they are in.
Follows(gs, is, g, l) ==
  l \in is[gs[g].instruction].active <=>
    \A h \in DOMAIN gs :
      gs[h].instruction = gs[g].instruction /\ l \in DOMAIN gs[h].cuts => gs[h].status # "CANCELED"

AllFollow(gs, is) == \A g \in DOMAIN gs : \A l \in DOMAIN gs[g].cuts : Follows(gs, is, g, l)
ItemsFollow == \A g \in GroupIds : \A l \in LotsOfGroup(g) : ItemFollows(g, l)

LEMMA FollowsIs == ItemsFollow => AllFollow(groups, instructions)
BY DEF AllFollow, ItemsFollow, Follows, ItemFollows, NamedIn, Open, LotsOfGroup, GroupIds

LEMMA FollowsNext == AllFollow(groups', instructions') => ItemsFollow'
BY DEF AllFollow, ItemsFollow, Follows, ItemFollows, NamedIn, Open, LotsOfGroup, GroupIds

LEMMA OpenFollow == OpenInv => AllFollow(groups, instructions)
BY FollowsIs, Zenon DEF OpenInv, ItemsFollow

\* A row of the inspection that is linked to a group.
ScheduleRow == [status : ScheduleStatuses \cup {"NONE"}, group : Nat]

Beyond == {"RECEIVED", "IN_PROGRESS", "PARTIAL_DONE", "DONE"}

GoodRow(l, row) ==
  row.group # 0 =>
    /\ row.group \in GroupIds /\ Open(row.group) /\ l \in LotsOfGroup(row.group)
    /\ row.status \in Beyond => groups[row.group].status = "SHIPPED"

RowsInv ==
  /\ schedules \in [Lots -> [Dates -> ScheduleRow]]
  /\ \A l \in Lots, d \in Dates : GoodRow(l, schedules[l][d])

Order == [process : Processes, groups : SUBSET Nat, items : SUBSET (Nat \X Lots)]

\* A group is for the process its LOTs are instructed for, and orders name
\* groups, each with all its LOTs.
OrdersInv ==
  /\ \A g \in GroupIds : \A l \in LotsOfGroup(g) : PrimaryProcess(l) = Process(g)
  /\ orders \in Seq(Order)
  /\ \A k \in DOMAIN orders : orders[k].groups \subseteq GroupIds
  /\ OrderedTogether

Inv == GroupInv /\ InstructionInv /\ OutputFollowsCuts /\ OpenInv /\ RowsInv /\ OrdersInv

\* It holds before the first request.
LEMMA InitInv ==
  ASSUME Init
  PROVE  Inv
<1>1. GroupInv
  <2>1. MaxGroups \in Nat
    OBVIOUS
  <2> QED BY <2>1 DEF Init, GroupInv
<1>2. InstructionInv
  BY DEF Init, InstructionInv
<1>3. GroupIds = {}
  BY DEF Init, GroupIds
<1>4. OutputFollowsCuts /\ OpenInv
  <2>1. InstructionIds = {}
    BY DEF Init, InstructionIds
  <2> QED BY <1>3, <2>1 DEF OutputFollowsCuts, OpenInv, ItemsOnce
<1>5. RowsInv
  <2>1. NoRow \in ScheduleRow /\ NoRow.group = 0
    BY DEF NoRow, ScheduleRow
  <2> QED BY <2>1 DEF Init, RowsInv, GoodRow
<1>6. OrdersInv
  BY <1>3 DEF Init, OrdersInv, OrderedTogether
<1> QED BY <1>1, <1>2, <1>4, <1>5, <1>6 DEF Inv

FollowsCuts(row) == \E s \in Sheets : row.output = [l \in DOMAIN row.cuts |-> s * row.cuts[l]]

\* Outputs follow the cuts: only the report sets one, and from then on no step
\* changes the cuts.
LEMMA OutputStep ==
  ASSUME GroupInv, OutputFollowsCuts, StepOK
  PROVE  OutputFollowsCuts'
<1>1. GroupIds = 1 .. Len(groups) /\ GroupIds' = 1 .. Len(groups') /\ Len(groups) \in Nat /\ Len(groups') \in Nat
  BY DEF GroupInv, GroupIds, StepOK
<1>2. \A x \in GroupIds : groups[x].status \in {"WORK_DONE", "SHIPPED"} => FollowsCuts(groups[x])
  BY Zenon DEF OutputFollowsCuts, LotsOfGroup, FollowsCuts
<1> SUFFICES ASSUME NEW g \in GroupIds', groups'[g].status \in {"WORK_DONE", "SHIPPED"}
             PROVE  FollowsCuts(groups'[g])
  BY Zenon DEF OutputFollowsCuts, LotsOfGroup, FollowsCuts
<1>3. CASE Added
  <2>1. g \in GroupIds
    BY <1>3 DEF Added, GroupIds
  <2> QED BY <1>2, <1>3, <2>1 DEF Added
<1>4. CASE Renewed
  <2>1. g \in GroupIds
    BY <1>1, <1>4 DEF Renewed
  <2> QED BY <1>2, <1>4, <2>1 DEF Renewed
<1>5. CASE Moved
  <2>1. g \in GroupIds
    BY <1>1, <1>5 DEF Moved
  <2>2. PICK G \in SUBSET GroupIds, m \in Life!Moves :
          /\ \A x \in G :
               /\ groups[x].status = m[1] /\ groups'[x].status = m[2]
               /\ groups'[x].sheets = groups[x].sheets /\ groups'[x].cuts = groups[x].cuts
               /\ m[2] = "WORK_DONE" =>
                    \E s \in Sheets : groups'[x].output = [l \in LotsOfGroup(x) |-> s * groups[x].cuts[l]]
               /\ m[2] = "SHIPPED" => groups'[x].output = groups[x].output
          /\ \A h \in GroupIds \ G : groups'[h] = groups[h]
    BY <1>5, Zenon DEF Moved
  <2>3. CASE g \notin G
    BY <1>2, <2>1, <2>2, <2>3
  <2>4. CASE g \in G /\ m[2] = "WORK_DONE"
    <3>1. groups'[g].cuts = groups[g].cuts
      BY <2>2, <2>4
    <3>2. PICK s \in Sheets : groups'[g].output = [l \in DOMAIN groups[g].cuts |-> s * groups[g].cuts[l]]
      BY <2>2, <2>4, Zenon DEF LotsOfGroup
    <3>3. groups'[g].output = [l \in DOMAIN groups'[g].cuts |-> s * groups'[g].cuts[l]]
      BY <3>1, <3>2
    <3> QED BY <3>3, Zenon DEF FollowsCuts
  <2>5. CASE g \in G /\ m[2] = "SHIPPED"
    <3>1. m[1] = "WORK_DONE"
      BY <2>2, <2>5 DEF Life!Moves
    <3>2. groups[g].status = "WORK_DONE" /\ groups'[g].output = groups[g].output /\ groups'[g].cuts = groups[g].cuts
      BY <2>2, <2>5, <3>1
    <3>3. FollowsCuts(groups[g])
      BY <1>2, <2>1, <3>2
    <3>4. PICK s \in Sheets : groups[g].output = [l \in DOMAIN groups[g].cuts |-> s * groups[g].cuts[l]]
      BY <3>3, Zenon DEF FollowsCuts
    <3>5. groups'[g].output = [l \in DOMAIN groups'[g].cuts |-> s * groups'[g].cuts[l]]
      BY <3>2, <3>4
    <3> QED BY <3>5, Zenon DEF FollowsCuts
  <2> QED BY <2>2, <2>3, <2>4, <2>5
<1> QED BY <1>3, <1>4, <1>5 DEF StepOK

\* The action OrderedTermsKept is about.
TermsKept ==
  \A g \in GroupIds :
    /\ DOMAIN groups'[g].cuts = LotsOfGroup(g)
    /\ (\E k \in DOMAIN orders : g \in orders[k].groups) =>
         groups'[g].sheets = groups[g].sheets /\ groups'[g].cuts = groups[g].cuts

\* No step changes the terms of a group that was ordered.
LEMMA TermsStep ==
  ASSUME StepOK
  PROVE  TermsKept
<1>1. CASE Added
  BY <1>1 DEF Added, TermsKept, LotsOfGroup
<1>2. CASE Renewed
  BY <1>2, Zenon DEF Renewed, TermsKept, LotsOfGroup
<1>3. CASE Moved
  BY <1>3, Zenon DEF Moved, TermsKept, LotsOfGroup
<1> QED BY <1>1, <1>2, <1>3 DEF StepOK
------------------------------------------------------------------------------
(* The life of a group.                                                    *)

\* A step that adds, renews or moves groups is one of their promised life.
LEMMA LifeStep ==
  ASSUME GroupInv, StepOK
  PROVE  [Life!Next]_Stage
<1> DEFINE stage(g) == IF g \in GroupIds THEN groups[g].status ELSE "NONE"
           next(g) == IF g \in GroupIds' THEN groups'[g].status ELSE "NONE"
<1>1. Stage = [g \in 1 .. MaxGroups |-> stage(g)] /\ Stage' = [g \in 1 .. MaxGroups |-> next(g)]
  BY DEF Stage
<1>2. /\ GroupIds = 1 .. Len(groups) /\ GroupIds' = 1 .. Len(groups')
      /\ Len(groups) \in 0 .. MaxGroups /\ Len(groups') \in 0 .. MaxGroups
  BY DEF GroupInv, GroupIds, StepOK
<1>3. GroupIds \subseteq 1 .. MaxGroups /\ GroupIds' \subseteq 1 .. MaxGroups
  BY <1>2
\* A set of groups that moves together is a step, or there is none.
<1>4. ASSUME NEW m \in Life!Moves, NEW G \in SUBSET (1 .. MaxGroups),
             \A g \in G : stage(g) = m[1] /\ next(g) = m[2],
             \A g \in (1 .. MaxGroups) \ G : next(g) = stage(g)
      PROVE  [Life!Next]_Stage
  <2> HIDE DEF stage, next
  <2>1. CASE G = {}
    <3>1. Stage' = Stage
      BY <1>1, <1>4, <2>1
    <3> QED BY <3>1
  <2>2. CASE G # {}
    <3>1. \A g \in G : Stage[g] = m[1]
      BY <1>1, <1>4
    <3>2. Stage' = [g \in 1 .. MaxGroups |-> IF g \in G THEN m[2] ELSE Stage[g]]
      BY <1>1, <1>4
    <3>3. Life!Next
      BY <2>2, <3>1, <3>2, Zenon DEF Life!Next
    <3> QED BY <3>3
  <2> QED BY <2>1, <2>2
<1>5. CASE Added
  <2> DEFINE m == <<"NONE", "REGISTERED">>
             G == GroupIds' \ GroupIds
  <2>1. m \in Life!Moves /\ m[1] = "NONE" /\ m[2] = "REGISTERED"
    BY DEF Life!Moves
  <2>2. \A g \in G : stage(g) = "NONE" /\ next(g) = "REGISTERED"
    BY <1>5 DEF Added, GroupIds
  <2>3. GroupIds \subseteq GroupIds'
    BY <1>2, <1>5 DEF Added
  <2>4. \A g \in (1 .. MaxGroups) \ G : next(g) = stage(g)
    BY <1>5, <2>3 DEF Added
  <2>5. G \in SUBSET (1 .. MaxGroups)
    BY <1>3
  <2> HIDE DEF m, G, stage, next
  <2> QED BY <1>4, <2>1, <2>2, <2>4, <2>5
<1>6. CASE Renewed
  <2>1. GroupIds' = GroupIds /\ \A g \in GroupIds : groups'[g].status = groups[g].status
    BY <1>2, <1>6 DEF Renewed
  <2>2. \A g \in 1 .. MaxGroups : next(g) = stage(g)
    BY <2>1
  <2> HIDE DEF stage, next
  <2>3. Stage' = Stage
    BY <1>1, <2>2
  <2> QED BY <2>3
<1>7. CASE Moved
  <2>1. PICK G \in SUBSET GroupIds, m \in Life!Moves :
          /\ \A g \in G :
               /\ groups[g].status = m[1] /\ groups'[g].status = m[2]
               /\ groups'[g].sheets = groups[g].sheets /\ groups'[g].cuts = groups[g].cuts
               /\ m[2] = "WORK_DONE" =>
                    \E s \in Sheets : groups'[g].output = [l \in LotsOfGroup(g) |-> s * groups[g].cuts[l]]
               /\ m[2] = "SHIPPED" => groups'[g].output = groups[g].output
          /\ \A h \in GroupIds \ G : groups'[h] = groups[h]
    BY <1>7, Zenon DEF Moved
  <2>2. GroupIds' = GroupIds
    BY <1>2, <1>7 DEF Moved
  <2>3. \A g \in G : stage(g) = m[1] /\ next(g) = m[2]
    BY <2>1, <2>2
  <2>4. \A g \in (1 .. MaxGroups) \ G : next(g) = stage(g)
    BY <2>1, <2>2
  <2>5. G \in SUBSET (1 .. MaxGroups)
    BY <1>3
  <2> HIDE DEF stage, next
  <2> QED BY <1>4, <2>3, <2>4, <2>5
<1> QED BY <1>5, <1>6, <1>7 DEF StepOK
------------------------------------------------------------------------------
(* One open group, and its active items.                                   *)

\* Without instruction or withdrawal nothing changes for them.
LEMMA OpenKept ==
  ASSUME GroupInv, GroupInv', OpenInv, Kept
  PROVE  OpenInv'
<1>1. GroupIds' = GroupIds /\ InstructionIds' = InstructionIds /\ instructions' = instructions
  BY DEF Kept, GroupInv, GroupIds, InstructionIds
<1>2. \A g \in GroupIds : /\ groups'[g].instruction = groups[g].instruction
                          /\ DOMAIN groups'[g].cuts = DOMAIN groups[g].cuts
                          /\ groups'[g].status # "CANCELED" <=> groups[g].status # "CANCELED"
  BY DEF Kept, Open, LotsOfGroup
<1>3. \A g \in GroupIds' : groups'[g].instruction \in InstructionIds'
  BY <1>1, <1>2 DEF OpenInv
<1>4. \A g \in GroupIds' : DOMAIN groups'[g].cuts \cap InspectionOnlyLots = {}
  BY <1>1, <1>2 DEF OpenInv, LotsOfGroup
<1>5. \A g \in GroupIds : \A l \in DOMAIN groups[g].cuts : Follows(groups, instructions, g, l)
  BY OpenFollow DEF AllFollow, GroupIds
<1>6. ASSUME NEW g \in GroupIds', NEW l \in DOMAIN groups'[g].cuts
      PROVE  Follows(groups', instructions', g, l)
  BY <1>1, <1>2, <1>5 DEF Follows, GroupIds
<1>7. \A g \in GroupIds' : \A l \in LotsOfGroup(g)' : ItemFollows(g, l)'
  BY <1>6, FollowsNext, Zenon DEF AllFollow, ItemsFollow, GroupIds
<1>8. ItemsOnce'
  BY <1>1 DEF OpenInv, ItemsOnce
<1> QED BY <1>3, <1>4, <1>7, <1>8 DEF OpenInv, LotsOfGroup

\* New groups are of instructions of their own, of LOTs that had no registration.
LEMMA OpenInstructed ==
  ASSUME GroupInv, GroupInv', InstructionInv, InstructionInv', OpenInv, Added, NewWork
  PROVE  OpenInv'
<1> DEFINE new == DOMAIN groups' \ GroupIds
           newIds == DOMAIN instructions' \ InstructionIds
<1>1. GroupIds \subseteq DOMAIN groups' /\ InstructionIds \subseteq DOMAIN instructions'
  BY DEF GroupInv, GroupIds, Added, InstructionIds, InstructionInv, NewWork
<1>2. \A g \in GroupIds : groups'[g] = groups[g] /\ groups[g].instruction \in InstructionIds
  BY DEF Added, OpenInv
<1>3. \A i \in InstructionIds : instructions'[i] = instructions[i]
  BY DEF NewWork
<1>4. \A g \in new : groups'[g].status = "REGISTERED" /\ groups'[g].instruction \in newIds
  BY DEF Added, NewWork
<1>5. \A g \in new : \A l \in DOMAIN groups'[g].cuts :
        l \in instructions'[groups'[g].instruction].active /\ l \notin InspectionOnlyLots
  BY DEF NewWork
<1>6. ASSUME NEW g \in GroupIds, NEW l \in DOMAIN groups'[g].cuts PROVE Follows(groups', instructions', g, l)
  <2>1. Follows(groups, instructions, g, l)
    BY <1>2, <1>6, OpenFollow DEF AllFollow, GroupIds
  <2>2. instructions'[groups'[g].instruction] = instructions[groups[g].instruction]
    BY <1>2, <1>3
  <2>3. \A h \in DOMAIN groups' : groups'[h].instruction = groups'[g].instruction => h \in GroupIds
    BY <1>2, <1>4
  <2> QED BY <1>1, <1>2, <2>1, <2>2, <2>3 DEF Follows, GroupIds
<1>7. ASSUME NEW g \in new, NEW l \in DOMAIN groups'[g].cuts PROVE Follows(groups', instructions', g, l)
  <2>1. \A h \in DOMAIN groups' : groups'[h].instruction = groups'[g].instruction => groups'[h].status = "REGISTERED"
    BY <1>2, <1>4
  <2> QED BY <1>5, <2>1 DEF Follows
<1>8. \A g \in GroupIds' : \A l \in LotsOfGroup(g)' : ItemFollows(g, l)'
  <2>1. AllFollow(groups', instructions')
    BY <1>6, <1>7 DEF AllFollow
  <2> QED BY <2>1, FollowsNext, Zenon DEF ItemsFollow
<1>9. ASSUME NEW i \in newIds, NEW j \in DOMAIN instructions', instructions'[i].process = instructions'[j].process,
             NEW l \in instructions'[i].active, l \in instructions'[j].active
      PROVE  i = j
  <2>1. CASE j \in newIds
    BY <1>9, <2>1 DEF NewWork
  <2>2. CASE j \in InstructionIds
    <3>1. Registered(l, instructions'[i].process)
      <4>1. instructions[j].process = instructions'[i].process /\ l \in instructions[j].active
        BY <1>3, <1>9, <2>2
      <4> QED BY <2>2, <4>1, Zenon DEF Registered
    <3>2. ~Registered(l, instructions'[i].process)
      BY <1>9 DEF NewWork
    <3> QED BY <3>1, <3>2
  <2> QED BY <2>1, <2>2
<1>10. ASSUME NEW i \in DOMAIN instructions', NEW j \in DOMAIN instructions',
              instructions'[i].process = instructions'[j].process,
              NEW l \in instructions'[i].active, l \in instructions'[j].active
       PROVE  i = j
  <2>1. CASE i \in newIds
    BY <1>9, <1>10, <2>1
  <2>2. CASE j \in newIds
    BY <1>9, <1>10, <2>2
  <2>3. CASE i \in InstructionIds /\ j \in InstructionIds
    BY <1>3, <1>10, <2>3 DEF OpenInv, ItemsOnce
  <2> QED BY <2>1, <2>2, <2>3
<1>11. ItemsOnce'
  BY <1>10 DEF ItemsOnce, InstructionIds
<1>12. \A g \in DOMAIN groups' : groups'[g].instruction \in DOMAIN instructions'
  BY <1>1, <1>2, <1>4
<1>13. \A g \in DOMAIN groups' : DOMAIN groups'[g].cuts \cap InspectionOnlyLots = {}
  BY <1>2, <1>5 DEF OpenInv, LotsOfGroup
<1> QED BY <1>8, <1>11, <1>12, <1>13 DEF OpenInv, LotsOfGroup, GroupIds, InstructionIds

\* A withdrawn group takes the items of its LOTs along, also when another group of
\* the instruction holds one of them.
LEMMA OpenWithdrawn ==
  ASSUME GroupInv, GroupInv', InstructionInv, OpenInv, NEW g \in GroupIds, NEW first, CancelWorkGroup(g, first)
  PROVE  InstructionInv' /\ OpenInv'
<1> DEFINE i == groups[g].instruction
           r == [groups[g] EXCEPT !.status = "CANCELED"]
           row == [instructions[i] EXCEPT !.active = instructions[i].active \ LotsOfGroup(g)]
<1>1. /\ groups[g].status = "REGISTERED"
      /\ groups' = [groups EXCEPT ![g].status = "CANCELED"]
      /\ instructions' = [instructions EXCEPT ![groups[g].instruction].active = @ \ LotsOfGroup(g)]
  BY DEF CancelWorkGroup, MayCancel
<1>2. groups \in Seq(Group) /\ groups[g] \in Group /\ g \in DOMAIN groups
  BY DEF GroupInv, GroupIds
<1>3. r \in Group /\ r.status = "CANCELED" /\ r.instruction = i /\ DOMAIN r.cuts = LotsOfGroup(g)
  BY <1>2 DEF Group, GroupStatuses, LotsOfGroup
<1>4. instructions \in Seq(Instruction) /\ i \in DOMAIN instructions /\ instructions[i] \in Instruction
  BY DEF InstructionInv, InstructionIds, OpenInv
<1>5. row \in Instruction /\ row.process = instructions[i].process /\ row.active = instructions[i].active \ LotsOfGroup(g)
  BY <1>4 DEF Instruction
<1>6. groups' = [groups EXCEPT ![g] = r] /\ instructions' = [instructions EXCEPT ![i] = row]
  BY <1>1
<1> HIDE DEF r, row, i
<1>7. DOMAIN groups' = DOMAIN groups /\ groups'[g] = r /\ \A h \in DOMAIN groups \ {g} : groups'[h] = groups[h]
  BY <1>2, <1>6
<1>8. /\ instructions' \in Seq(Instruction) /\ DOMAIN instructions' = DOMAIN instructions
      /\ instructions'[i] = row /\ \A j \in DOMAIN instructions \ {i} : instructions'[j] = instructions[j]
  BY <1>4, <1>5, <1>6
<1>9. \A h \in DOMAIN groups : /\ groups'[h].instruction = groups[h].instruction
                               /\ DOMAIN groups'[h].cuts = DOMAIN groups[h].cuts
                               /\ groups[h].instruction \in DOMAIN instructions
                               /\ h # g => groups'[h].status = groups[h].status
  BY <1>3, <1>7 DEF OpenInv, InstructionIds, GroupIds, LotsOfGroup, i
<1>10. ASSUME NEW h \in DOMAIN groups', NEW l \in DOMAIN groups'[h].cuts
       PROVE  Follows(groups', instructions', h, l)
  <2>1. h \in DOMAIN groups /\ l \in DOMAIN groups[h].cuts /\ groups'[h].instruction = groups[h].instruction
    BY <1>7, <1>9, <1>10
  <2>2. Follows(groups, instructions, h, l)
    BY <2>1, OpenFollow DEF AllFollow
  <2>3. CASE groups[h].instruction # i
    <3>1. instructions'[groups[h].instruction] = instructions[groups[h].instruction]
      BY <1>8, <1>9, <2>1, <2>3
    <3>2. \A x \in DOMAIN groups : groups[x].instruction = groups[h].instruction => groups'[x] = groups[x]
      BY <1>7, <2>3 DEF i
    <3> QED BY <1>7, <1>9, <2>1, <2>2, <3>1, <3>2 DEF Follows
  <2>4. CASE groups[h].instruction = i /\ l \in LotsOfGroup(g)
    <3>1. l \notin instructions'[i].active
      BY <1>5, <1>8, <2>4
    <3>2. groups'[g].instruction = i /\ l \in DOMAIN groups'[g].cuts /\ groups'[g].status = "CANCELED" /\ g \in DOMAIN groups'
      BY <1>2, <1>3, <1>7, <2>4
    <3> QED BY <2>1, <2>4, <3>1, <3>2 DEF Follows
  <2>5. CASE groups[h].instruction = i /\ l \notin LotsOfGroup(g)
    <3>1. l \in instructions'[i].active <=> l \in instructions[i].active
      BY <1>5, <1>8, <2>5
    <3>2. \A x \in DOMAIN groups : l \in DOMAIN groups[x].cuts => groups'[x] = groups[x]
      BY <1>7, <2>5 DEF LotsOfGroup
    <3> QED BY <1>7, <1>9, <2>1, <2>2, <2>5, <3>1, <3>2 DEF Follows
  <2> QED BY <2>3, <2>4, <2>5
<1>11. \A h \in GroupIds' : \A l \in LotsOfGroup(h)' : ItemFollows(h, l)'
  <2>1. AllFollow(groups', instructions')
    BY <1>10 DEF AllFollow
  <2> QED BY <2>1, FollowsNext, Zenon DEF ItemsFollow
<1>12. \A j \in DOMAIN instructions : instructions'[j].process = instructions[j].process
                                     /\ instructions'[j].active \subseteq instructions[j].active
  BY <1>5, <1>8
<1>13. ASSUME NEW a \in DOMAIN instructions', NEW b \in DOMAIN instructions',
              instructions'[a].process = instructions'[b].process,
              NEW l \in instructions'[a].active, l \in instructions'[b].active
       PROVE  a = b
  <2>1. a \in InstructionIds /\ b \in InstructionIds /\ instructions[a].process = instructions[b].process
        /\ l \in instructions[a].active /\ l \in instructions[b].active
    BY <1>8, <1>12, <1>13 DEF InstructionIds
  <2> QED BY <2>1 DEF OpenInv, ItemsOnce
<1>14. ItemsOnce'
  BY <1>13 DEF ItemsOnce, InstructionIds
<1>15. \A h \in DOMAIN groups' : /\ groups'[h].instruction \in DOMAIN instructions'
                                 /\ DOMAIN groups'[h].cuts \cap InspectionOnlyLots = {}
  BY <1>7, <1>8, <1>9 DEF OpenInv, LotsOfGroup, GroupIds
<1> QED BY <1>8, <1>11, <1>14, <1>15 DEF OpenInv, LotsOfGroup, GroupIds, InstructionIds, InstructionInv

\* So a LOT that no request named in two groups is in one open group.
LEMMA OpenOnce ==
  ASSUME OpenInv, NEW g \in GroupIds, NEW h \in GroupIds, Open(g), Open(h), Process(g) = Process(h),
         NEW l, l \in LotsOfGroup(g), l \in LotsOfGroup(h), NamedOnce(l)
  PROVE  g = h
<1> DEFINE i == groups[g].instruction
           j == groups[h].instruction
<1>1. i \in InstructionIds /\ j \in InstructionIds /\ g \in NamedIn(i, l) /\ h \in NamedIn(j, l)
  BY DEF OpenInv, NamedIn
<1>2. (\A x \in NamedIn(i, l) : x = g) /\ (\A x \in NamedIn(j, l) : x = h)
  BY <1>1 DEF NamedOnce
<1>3. l \in instructions[i].active /\ l \in instructions[j].active
  BY <1>2 DEF OpenInv, ItemFollows
<1>4. i = j
  BY <1>1, <1>3 DEF OpenInv, ItemsOnce, Process
<1> QED BY <1>1, <1>2, <1>4

LEMMA OpenIsOne ==
  ASSUME OpenInv
  PROVE  OneOpenGroup
<1>1. \A g \in GroupIds : \A l \in LotsOfGroup(g) :
        l \in instructions[groups[g].instruction].active <=> \A h \in NamedIn(groups[g].instruction, l) : Open(h)
  BY DEF OpenInv, ItemFollows
<1>2. \A g \in GroupIds : \A l \in LotsOfGroup(g) : NamedOnce(l) /\ Open(g) =>
        \A h \in GroupIds \ {g} : l \in LotsOfGroup(h) /\ Process(h) = Process(g) => ~Open(h)
  BY OpenOnce
<1> QED BY <1>1, <1>2, Zenon DEF OneOpenGroup
------------------------------------------------------------------------------
(* Inspection rows and the groups they are linked to.                      *)

\* What the groups' steps leave to the rows.
GroupsStay ==
  \A g \in GroupIds :
    /\ g \in GroupIds'
    /\ DOMAIN groups'[g].cuts = DOMAIN groups[g].cuts
    /\ groups[g].status # "CANCELED" => groups'[g].status # "CANCELED"
    /\ groups[g].status = "SHIPPED" => groups'[g].status = "SHIPPED"

\* New groups leave the others as they are.
LEMMA AddedStay ==
  ASSUME GroupInv, GroupInv', Added
  PROVE  GroupsStay
<1>1. GroupIds \subseteq GroupIds'
  BY DEF GroupInv, GroupIds, Added
<1> QED BY <1>1 DEF Added, GroupsStay

\* A group that was shipped stays shipped.
LEMMA KeptStay ==
  ASSUME GroupInv, StepOK, Kept
  PROVE  GroupsStay
<1>1. GroupIds' = GroupIds
  BY DEF GroupInv, StepOK, GroupIds, Kept
<1>2. \A g \in GroupIds : /\ DOMAIN groups'[g].cuts = DOMAIN groups[g].cuts
                          /\ groups[g].status # "CANCELED" => groups'[g].status # "CANCELED"
  BY DEF Kept, Open, LotsOfGroup
<1>3. ASSUME NEW g \in GroupIds, groups[g].status = "SHIPPED" PROVE groups'[g].status = "SHIPPED"
  <2>1. CASE Added
    BY <1>3, <2>1 DEF Added
  <2>2. CASE Renewed
    BY <1>3, <2>2, Zenon DEF Renewed
  <2>3. CASE Moved
    <3>1. PICK G \in SUBSET GroupIds, m \in Life!Moves :
            /\ \A x \in G :
                 /\ groups[x].status = m[1] /\ groups'[x].status = m[2]
                 /\ groups'[x].sheets = groups[x].sheets /\ groups'[x].cuts = groups[x].cuts
                 /\ m[2] = "WORK_DONE" =>
                      \E s \in Sheets : groups'[x].output = [l \in LotsOfGroup(x) |-> s * groups[x].cuts[l]]
                 /\ m[2] = "SHIPPED" => groups'[x].output = groups[x].output
            /\ \A h \in GroupIds \ G : groups'[h] = groups[h]
      BY <2>3, Zenon DEF Moved
    <3>2. m[1] # "SHIPPED"
      BY DEF Life!Moves
    <3>3. g \notin G
      BY <1>3, <3>1, <3>2
    <3> QED BY <1>3, <3>1, <3>3
  <2> QED BY <2>1, <2>2, <2>3 DEF StepOK
<1> QED BY <1>1, <1>2, <1>3 DEF GroupsStay

\* Rows nobody writes are as good as before.
LEMMA RowsStay ==
  ASSUME RowsInv, GroupsStay, UNCHANGED schedules
  PROVE  RowsInv'
<1>1. ASSUME NEW l \in Lots, NEW d \in Dates
      PROVE  GoodRow(l, schedules[l][d])'
  <2> DEFINE row == schedules[l][d]
  <2>1. row.group # 0 =>
          /\ row.group \in GroupIds /\ groups[row.group].status # "CANCELED" /\ l \in DOMAIN groups[row.group].cuts
          /\ row.status \in Beyond => groups[row.group].status = "SHIPPED"
    BY DEF RowsInv, GoodRow, Open, LotsOfGroup
  <2>2. row' = row
    OBVIOUS
  <2>3. row'.group # 0 =>
          /\ row'.group \in GroupIds' /\ groups'[row'.group].status # "CANCELED" /\ l \in DOMAIN groups'[row'.group].cuts
          /\ row'.status \in Beyond => groups'[row'.group].status = "SHIPPED"
    BY <2>1, <2>2 DEF GroupsStay
  <2> QED BY <2>3, Zenon DEF GoodRow, Open, LotsOfGroup
<1> QED BY <1>1 DEF RowsInv

\* Rows written one by one: each of them must be good.
LEMMA RowsWritten ==
  ASSUME UNCHANGED groups, schedules' \in [Lots -> [Dates -> ScheduleRow]],
         \A l \in Lots, d \in Dates : GoodRow(l, schedules'[l][d])
  PROVE  RowsInv'
<1>1. ASSUME NEW l \in Lots, NEW d \in Dates
      PROVE  GoodRow(l, schedules[l][d])'
  <2> DEFINE row == schedules[l][d]
  <2>1. row'.group # 0 =>
          /\ row'.group \in GroupIds /\ groups[row'.group].status # "CANCELED" /\ l \in DOMAIN groups[row'.group].cuts
          /\ row'.status \in Beyond => groups[row'.group].status = "SHIPPED"
    BY DEF GoodRow, Open, LotsOfGroup
  <2>2. groups' = groups /\ GroupIds' = GroupIds
    BY DEF GroupIds
  <2> QED BY <2>1, <2>2 DEF GoodRow, Open, LotsOfGroup
<1> QED BY <1>1 DEF RowsInv

\* New rows of one date.
LEMMA Inserted ==
  ASSUME RowsInv, UNCHANGED groups, NEW ls \in SUBSET Lots, NEW d \in Dates, NEW row \in ScheduleRow,
         \A l \in ls : GoodRow(l, row), InsertRows(ls, d, row)
  PROVE  RowsInv'
<1>1. schedules' = [l \in Lots |-> IF l \in ls THEN [schedules[l] EXCEPT ![d] = row] ELSE schedules[l]]
  BY DEF InsertRows
<1>2. \A l \in Lots, e \in Dates : schedules[l][e] \in ScheduleRow /\ GoodRow(l, schedules[l][e])
  BY DEF RowsInv
<1>3. \A l \in Lots, e \in Dates : schedules'[l][e] = IF l \in ls /\ e = d THEN row ELSE schedules[l][e]
  BY <1>1 DEF RowsInv
<1>4. schedules' \in [Lots -> [Dates -> ScheduleRow]]
  BY <1>1 DEF RowsInv
<1>5. \A l \in Lots, e \in Dates : GoodRow(l, schedules'[l][e])
  BY <1>2, <1>3
<1> QED BY <1>4, <1>5, RowsWritten

\* Rows of one date that get a status.
LEMMA StatusesSet ==
  ASSUME RowsInv, UNCHANGED groups, NEW ls \in SUBSET Lots, NEW d \in Dates, NEW status \in ScheduleStatuses,
         \A l \in ls : status \in Beyond /\ schedules[l][d].group # 0 =>
           groups[schedules[l][d].group].status = "SHIPPED",
         SetStatus(ls, d, status)
  PROVE  RowsInv'
<1> DEFINE set(l) == [schedules[l][d] EXCEPT !.status = status]
<1>1. \A l \in Lots : /\ schedules[l] \in [Dates -> ScheduleRow]
                      /\ \A e \in Dates : schedules[l][e] \in ScheduleRow /\ GoodRow(l, schedules[l][e])
  BY DEF RowsInv
<1>2. \A l \in Lots : set(l) \in ScheduleRow /\ set(l).status = status /\ set(l).group = schedules[l][d].group
  BY <1>1 DEF ScheduleRow
<1>3. schedules' = [l \in Lots |-> IF l \in ls THEN [schedules[l] EXCEPT ![d] = set(l)] ELSE schedules[l]]
  BY DEF SetStatus
<1> HIDE DEF set
<1>4. \A l \in Lots, e \in Dates : schedules'[l][e] = IF l \in ls /\ e = d THEN set(l) ELSE schedules[l][e]
  BY <1>1, <1>3
<1>5. schedules' \in [Lots -> [Dates -> ScheduleRow]]
  BY <1>1, <1>2, <1>3
<1>6. ASSUME NEW l \in ls PROVE GoodRow(l, set(l))
  <2>1. GoodRow(l, schedules[l][d])
    BY <1>1
  <2> QED BY <1>2, <2>1 DEF GoodRow
<1>7. \A l \in Lots, e \in Dates : GoodRow(l, schedules'[l][e])
  BY <1>1, <1>4, <1>6
<1> QED BY <1>5, <1>7, RowsWritten

\* Two rows of a LOT written by one request.
LEMMA TwoRows ==
  ASSUME RowsInv, UNCHANGED groups, NEW l \in Lots, NEW d \in Dates, NEW e \in Dates, d # e,
         NEW r1 \in ScheduleRow, NEW r2 \in ScheduleRow, GoodRow(l, r1), GoodRow(l, r2),
         schedules' = [schedules EXCEPT ![l] = [[schedules[l] EXCEPT ![d] = r1] EXCEPT ![e] = r2]]
  PROVE  RowsInv'
<1>1. \A k \in Lots : /\ schedules[k] \in [Dates -> ScheduleRow]
                      /\ \A x \in Dates : schedules[k][x] \in ScheduleRow /\ GoodRow(k, schedules[k][x])
  BY DEF RowsInv
<1>2. schedules \in [Lots -> [Dates -> ScheduleRow]]
  BY DEF RowsInv
<1>3. schedules' \in [Lots -> [Dates -> ScheduleRow]]
  BY <1>1, <1>2
<1>4. \A k \in Lots, x \in Dates :
        schedules'[k][x] = IF k = l /\ x = e THEN r2 ELSE IF k = l /\ x = d THEN r1 ELSE schedules[k][x]
  BY <1>1, <1>2
<1>5. \A k \in Lots, x \in Dates : GoodRow(k, schedules'[k][x])
  BY <1>1, <1>4
<1> QED BY <1>3, <1>5, RowsWritten

\* A withdrawn group takes its rows along.
LEMMA RowsWithdrawn ==
  ASSUME GroupInv, RowsInv, NEW g \in GroupIds, NEW first, CancelWorkGroup(g, first)
  PROVE  RowsInv'
<1> DEFINE row(l, d) == IF schedules[l][d].group = g THEN NoRow ELSE schedules[l][d]
<1>1. /\ groups' = [groups EXCEPT ![g].status = "CANCELED"]
      /\ schedules' = [l \in Lots |-> [d \in Dates |-> row(l, d)]]
  BY DEF CancelWorkGroup, DeleteLinkedSchedules
<1>2. GroupIds' = GroupIds /\ \A h \in GroupIds \ {g} : groups'[h] = groups[h]
  BY <1>1 DEF GroupInv, GroupIds
<1>3. \A l \in Lots, d \in Dates : schedules[l][d] \in ScheduleRow /\ GoodRow(l, schedules[l][d])
  BY DEF RowsInv
<1>4. NoRow \in ScheduleRow /\ NoRow.group = 0
  BY DEF NoRow, ScheduleRow
<1>5. \A l \in Lots, d \in Dates : row(l, d) \in ScheduleRow /\ (row(l, d).group # 0 => row(l, d) = schedules[l][d] /\ row(l, d).group # g)
  BY <1>3, <1>4
<1> HIDE DEF row
<1>6. schedules' \in [Lots -> [Dates -> ScheduleRow]] /\ \A l \in Lots, d \in Dates : schedules'[l][d] = row(l, d)
  BY <1>1, <1>5
<1>7. ASSUME NEW l \in Lots, NEW d \in Dates
      PROVE  GoodRow(l, schedules[l][d])'
  <2> DEFINE r == schedules'[l][d]
  <2>1. r.group # 0 => r = schedules[l][d] /\ r.group # g
    BY <1>5, <1>6
  <2>2. r.group # 0 =>
          /\ r.group \in GroupIds /\ groups[r.group].status # "CANCELED" /\ l \in DOMAIN groups[r.group].cuts
          /\ r.status \in Beyond => groups[r.group].status = "SHIPPED"
    BY <1>3, <2>1 DEF GoodRow, Open, LotsOfGroup
  <2>3. r.group # 0 => r.group \in GroupIds \ {g} /\ groups'[r.group] = groups[r.group]
    BY <1>2, <2>1, <2>2
  <2>4. r.group # 0 =>
          /\ r.group \in GroupIds' /\ groups'[r.group].status # "CANCELED" /\ l \in DOMAIN groups'[r.group].cuts
          /\ r.status \in Beyond => groups'[r.group].status = "SHIPPED"
    BY <1>2, <2>2, <2>3
  <2> QED BY <2>4 DEF GoodRow, Open, LotsOfGroup
<1> QED BY <1>6, <1>7 DEF RowsInv

\* What a schedule request writes.
LEMMA ScheduleStep ==
  ASSUME RowsInv, OpenInv, ScheduleNext
  PROVE  RowsInv'
<1> PICK l \in Lots, d \in Dates :
      \/ CreateSchedule(l, d)
      \/ ReceiveSchedule(l, d)
      \/ StartSchedule(l, d)
      \/ SaveResult(l, d)
      \/ CancelSchedule(l, d)
      \/ \E to \in Dates : SavePartialResult(l, d, to) \/ MoveSchedule(l, d, to)
  BY Zenon DEF ScheduleNext
<1>1. \A k \in Lots, e \in Dates : schedules[k][e] \in ScheduleRow /\ GoodRow(k, schedules[k][e])
  BY DEF RowsInv
<1>2. \A st \in ScheduleStatuses : Row(st, 0) \in ScheduleRow /\ \A k : GoodRow(k, Row(st, 0))
  BY DEF Row, ScheduleRow, GoodRow
<1>3. {"WAITING", "RECEIVED", "IN_PROGRESS", "PARTIAL_DONE", "DONE", "CANCELED"} = ScheduleStatuses
  BY DEF ScheduleStatuses
\* A row that was received already is of a group that was shipped.
<1>4. ASSUME schedules[l][d].status \in Beyond, schedules[l][d].group # 0
      PROVE  groups[schedules[l][d].group].status = "SHIPPED"
  BY <1>1, <1>4 DEF GoodRow
<1>5. CASE CreateSchedule(l, d)
  <2>1. UNCHANGED groups /\ InsertRows({l}, d, Row("WAITING", 0))
    BY <1>5 DEF CreateSchedule
  <2> QED BY <1>2, <1>3, <2>1, Inserted
<1>6. CASE ReceiveSchedule(l, d)
  <2> DEFINE g == schedules[l][d].group
             together == IF l \in InspectionOnlyLots THEN {l}
                         ELSE {k \in Lots : schedules[k][d] = Row("WAITING", g)}
  <2>1. /\ l \notin InspectionOnlyLots => g # 0 /\ groups[g].status = "SHIPPED"
        /\ SetStatus(together, d, "RECEIVED")
        /\ UNCHANGED groups
    BY <1>6, Zenon DEF ReceiveSchedule, Follow
  <2>2. together \in SUBSET Lots
    OBVIOUS
  <2>3. ASSUME NEW k \in together, schedules[k][d].group # 0
        PROVE  groups[schedules[k][d].group].status = "SHIPPED"
    <3>1. CASE l \in InspectionOnlyLots
      <4>1. k = l
        BY <3>1
      <4>2. g \in GroupIds /\ l \in LotsOfGroup(g)
        BY <1>1, <2>3, <4>1 DEF GoodRow
      <4> QED BY <3>1, <4>2 DEF OpenInv
    <3>2. CASE l \notin InspectionOnlyLots
      <4>1. schedules[k][d].group = g
        BY <3>2 DEF Row
      <4> QED BY <2>1, <3>2, <4>1
    <3> QED BY <3>1, <3>2
  <2> HIDE DEF together, g
  <2> QED BY <1>3, <2>1, <2>2, <2>3, StatusesSet
<1>7. CASE StartSchedule(l, d)
  <2>1. schedules[l][d].status \in Beyond /\ UNCHANGED groups /\ SetStatus({l}, d, "IN_PROGRESS")
    BY <1>7, Zenon DEF StartSchedule, Follow, Beyond
  <2> QED BY <1>3, <1>4, <2>1, StatusesSet
<1>8. CASE SaveResult(l, d)
  <2>1. schedules[l][d].status \in Beyond /\ UNCHANGED groups /\ SetStatus({l}, d, "DONE")
    BY <1>8, Zenon DEF SaveResult, Follow, Beyond
  <2> QED BY <1>3, <1>4, <2>1, StatusesSet
<1>9. CASE CancelSchedule(l, d)
  <2>1. UNCHANGED groups /\ SetStatus({l}, d, "CANCELED")
    BY <1>9, Zenon DEF CancelSchedule, Follow
  <2>2. "CANCELED" \notin Beyond
    BY DEF Beyond
  <2> QED BY <1>3, <2>1, <2>2, StatusesSet
<1>10. ASSUME NEW to \in Dates, SavePartialResult(l, d, to) PROVE RowsInv'
  <2> DEFINE r1 == [schedules[l][d] EXCEPT !.status = "PARTIAL_DONE"]
             r2 == Row("RECEIVED", 0)
  <2>1. /\ schedules[l][d].status = "IN_PROGRESS" /\ schedules[l][to].status = "NONE"
        /\ schedules' = [schedules EXCEPT ![l][d].status = "PARTIAL_DONE", ![l][to] = Row("RECEIVED", 0)]
        /\ UNCHANGED groups
    BY <1>10, Zenon DEF SavePartialResult, Follow, HasRow
  <2>2. d # to
    BY <2>1
  <2>3. schedules' = [schedules EXCEPT ![l] = [[schedules[l] EXCEPT ![d] = r1] EXCEPT ![to] = r2]]
    BY <2>1, <2>2 DEF RowsInv
  <2>4. r1 \in ScheduleRow /\ r1.status = "PARTIAL_DONE" /\ r1.group = schedules[l][d].group
    BY <1>1, <1>3 DEF ScheduleRow
  <2> HIDE DEF r1
  <2>5. GoodRow(l, r1)
    <3>1. schedules[l][d].status \in Beyond
      BY <2>1 DEF Beyond
    <3> QED BY <1>1, <2>4, <3>1 DEF GoodRow
  <2>6. r2 \in ScheduleRow /\ GoodRow(l, r2)
    BY <1>2, <1>3
  <2>7. UNCHANGED groups
    BY <2>1
  <2> HIDE DEF r2
  <2> QED BY <2>2, <2>3, <2>4, <2>5, <2>6, <2>7, TwoRows
<1>11. ASSUME NEW to \in Dates, MoveSchedule(l, d, to) PROVE RowsInv'
  <2>1. /\ schedules[l][d].status \in {"WAITING", "RECEIVED"} /\ schedules[l][to].status = "NONE"
        /\ schedules' = [schedules EXCEPT ![l][d] = NoRow, ![l][to] = schedules[l][d]]
        /\ UNCHANGED groups
    BY <1>11, Zenon DEF MoveSchedule, HasRow
  <2>2. d # to
    BY <2>1
  <2>3. schedules' = [schedules EXCEPT ![l] = [[schedules[l] EXCEPT ![d] = NoRow] EXCEPT ![to] = schedules[l][d]]]
    BY <2>1, <2>2 DEF RowsInv
  <2>4. NoRow \in ScheduleRow /\ GoodRow(l, NoRow)
    BY DEF NoRow, ScheduleRow, GoodRow
  <2> DEFINE r2 == schedules[l][d]
  <2>5. r2 \in ScheduleRow /\ GoodRow(l, r2)
    BY <1>1
  <2>6. schedules' = [schedules EXCEPT ![l] = [[schedules[l] EXCEPT ![d] = NoRow] EXCEPT ![to] = r2]]
    BY <2>3
  <2>7. UNCHANGED groups
    BY <2>1
  <2> DEFINE r1 == NoRow
  <2>8. schedules' = [schedules EXCEPT ![l] = [[schedules[l] EXCEPT ![d] = r1] EXCEPT ![to] = r2]]
    BY <2>6
  <2>9. r1 \in ScheduleRow /\ GoodRow(l, r1)
    BY <2>4
  <2> HIDE DEF r1, r2
  <2> QED BY <2>2, <2>5, <2>7, <2>8, <2>9, TwoRows
<1> QED BY <1>5, <1>6, <1>7, <1>8, <1>9, <1>10, <1>11

\* Scheduling a group links rows to it while it is open.
LEMMA GroupScheduleStep ==
  ASSUME GroupInv, RowsInv, NEW g \in GroupIds, NEW d \in Dates, CreateGroupSchedule(g, d)
  PROVE  RowsInv'
<1> DEFINE ls == {l \in LotsOfGroup(g) : ~Active(l, d)}
           row == Row("WAITING", g)
<1>1. Open(g) /\ UNCHANGED groups /\ InsertRows(ls, d, row)
  BY Zenon DEF CreateGroupSchedule
<1>2. groups[g] \in Group /\ g \in Nat
  BY DEF GroupInv, GroupIds
<1>3. ls \in SUBSET Lots
  BY <1>2 DEF Group, CutsOfLots, LotsOfGroup
<1>4. row \in ScheduleRow /\ row.group = g /\ row.status = "WAITING"
  BY <1>2 DEF Row, ScheduleRow, ScheduleStatuses
<1>5. \A l \in ls : GoodRow(l, row)
  BY <1>1, <1>4 DEF GoodRow, Beyond
<1> HIDE DEF ls, row
<1> QED BY <1>1, <1>3, <1>4, <1>5, Inserted
------------------------------------------------------------------------------
(* Purchase orders.                                                        *)

\* The groups that there are keep what their orders name.
NamesStay ==
  \A g \in GroupIds :
    /\ g \in GroupIds'
    /\ groups'[g].instruction = groups[g].instruction
    /\ DOMAIN groups'[g].cuts = DOMAIN groups[g].cuts
    /\ instructions'[groups[g].instruction].process = instructions[groups[g].instruction].process

\* New groups fit their process.
NewFit ==
  \A g \in DOMAIN groups' \ GroupIds : \A l \in DOMAIN groups'[g].cuts :
    PrimaryProcess(l) = instructions'[groups'[g].instruction].process

\* Steps without an order keep the orders right.
LEMMA OrdersStay ==
  ASSUME OrdersInv, NamesStay, NewFit, UNCHANGED orders
  PROVE  OrdersInv'
<1>1. \A g \in GroupIds' : \A l \in DOMAIN groups'[g].cuts :
        PrimaryProcess(l) = instructions'[groups'[g].instruction].process
  BY DEF OrdersInv, NamesStay, NewFit, GroupIds, LotsOfGroup, Process
<1>2. \A k \in DOMAIN orders : orders[k].groups \subseteq GroupIds /\ orders[k].groups \subseteq GroupIds'
  BY DEF OrdersInv, NamesStay
<1>3. \A k \in DOMAIN orders : \A g \in orders[k].groups :
        /\ \A l \in DOMAIN groups'[g].cuts : <<groups'[g].instruction, l>> \in orders[k].items
        /\ \A j \in DOMAIN orders \ {k} : orders[j].process = orders[k].process => g \notin orders[j].groups
  BY <1>2 DEF OrdersInv, OrderedTogether, NamesStay, LotsOfGroup
<1>4. OrderedTogether'
  BY <1>3 DEF OrderedTogether, LotsOfGroup
<1> QED BY <1>1, <1>2, <1>4 DEF OrdersInv, LotsOfGroup, Process

\* An order names whole groups, and none twice: the items that were put to a group
\* are of its instruction and make up its LOTs.
LEMMA OrderStep ==
  ASSUME GroupInv, InstructionInv, OrdersInv, OrderNext
  PROVE  OrdersInv'
<1> PICK p \in Processes, items \in SUBSET UNION {{i} \X instructions[i].items : i \in InstructionIds} :
      \E groupOf \in [items -> GroupIds] : CreatePurchaseOrder(p, items, groupOf)
  BY Zenon DEF OrderNext
<1> PICK groupOf \in [items -> GroupIds] : CreatePurchaseOrder(p, items, groupOf)
  OBVIOUS
<1> DEFINE ordered == {groupOf[item] : item \in items}
           new == [process |-> p, items |-> items, groups |-> ordered]
<1>1. /\ \A item \in items : groupOf[item] \in GroupsOf(item)
      /\ \A g \in ordered :
           /\ LotsNamed({item \in items : groupOf[item] = g}) = LotsOfGroup(g)
           /\ ~ \E k \in DOMAIN orders : orders[k].process = p /\ g \in orders[k].groups
  BY Zenon DEF CreatePurchaseOrder, AcceptsOrder
<1>2. orders' = Append(orders, new) /\ UNCHANGED <<groups, instructions>>
  BY Zenon DEF CreatePurchaseOrder
<1>3. items \in SUBSET (Nat \X Lots)
  <2>1. ASSUME NEW i \in InstructionIds PROVE i \in Nat /\ instructions[i].items \subseteq Lots
    <3>1. instructions \in Seq(Instruction) /\ i \in 1 .. Len(instructions)
      BY DEF InstructionInv, InstructionIds
    <3>2. instructions[i] \in Instruction /\ i \in Nat
      BY <3>1
    <3> QED BY <3>2 DEF Instruction
  <2>2. \A item \in items : \E i \in InstructionIds : item \in {i} \X instructions[i].items
    OBVIOUS
  <2> QED BY <2>1, <2>2
<1>4. ASSUME NEW g \in ordered, NEW l \in LotsOfGroup(g)
      PROVE  <<groups[g].instruction, l>> \in items
  <2>1. l \in LotsNamed({item \in items : groupOf[item] = g})
    BY <1>1
  <2>2. PICK item \in items : item[2] = l /\ groupOf[item] = g
    BY <2>1 DEF LotsNamed
  <2>3. groups[g].instruction = item[1]
    BY <1>1, <2>2 DEF GroupsOf, NamedIn
  <2>4. item = <<groups[g].instruction, l>>
    BY <1>3, <2>2, <2>3
  <2> QED BY <2>4
<1>5. ordered \subseteq GroupIds
  OBVIOUS
<1>6. new \in Order /\ new.process = p /\ new.items = items /\ new.groups = ordered
  BY <1>3, <1>5 DEF Order, GroupInv, GroupIds
<1>7. \A g \in ordered : \A k \in DOMAIN orders : orders[k].process = p => g \notin orders[k].groups
  BY <1>1
<1> HIDE DEF ordered, new
<1> DEFINE n == Len(orders) + 1
<1>8. orders \in Seq(Order) /\ Len(orders) \in Nat
  BY DEF OrdersInv
<1>9. /\ orders' \in Seq(Order) /\ DOMAIN orders' = 1 .. n /\ DOMAIN orders = 1 .. Len(orders)
      /\ orders'[n] = new /\ \A k \in DOMAIN orders : orders'[k] = orders[k]
  BY <1>2, <1>6, <1>8
<1>10. DOMAIN orders' = DOMAIN orders \cup {n} /\ n \notin DOMAIN orders
  BY <1>8, <1>9
<1> HIDE DEF n
<1>11. \A k \in DOMAIN orders' : orders'[k].groups \subseteq GroupIds
  BY <1>5, <1>6, <1>9, <1>10 DEF OrdersInv
<1>12. \A k \in DOMAIN orders' : \A g \in orders'[k].groups : \A l \in LotsOfGroup(g) :
         <<groups[g].instruction, l>> \in orders'[k].items
  <2>1. \A k \in DOMAIN orders : \A g \in orders[k].groups : \A l \in LotsOfGroup(g) :
          <<groups[g].instruction, l>> \in orders[k].items
    BY DEF OrdersInv, OrderedTogether
  <2> QED BY <1>4, <1>6, <1>9, <1>10, <2>1
<1>13. ASSUME NEW k \in DOMAIN orders', NEW g \in orders'[k].groups, NEW j \in DOMAIN orders' \ {k},
              orders'[j].process = orders'[k].process
       PROVE  g \notin orders'[j].groups
  <2>1. CASE k = n
    BY <1>6, <1>7, <1>9, <1>10, <1>13, <2>1
  <2>2. CASE j = n
    <3>1. k \in DOMAIN orders /\ orders'[k] = orders[k] /\ orders'[j].process = p /\ orders'[j].groups = ordered
      BY <1>6, <1>9, <1>10, <2>2
    <3>2. orders[k].process = p /\ g \in orders[k].groups
      BY <1>13, <3>1
    <3> QED BY <1>7, <3>1, <3>2
  <2>3. CASE k # n /\ j # n
    BY <1>9, <1>10, <1>13, <2>3 DEF OrdersInv, OrderedTogether
  <2> QED BY <2>1, <2>2, <2>3
<1>14. OrderedTogether'
  BY <1>2, <1>12, <1>13 DEF OrderedTogether, LotsOfGroup
<1>15. \A g \in GroupIds' : \A l \in LotsOfGroup(g)' : PrimaryProcess(l) = Process(g)'
  BY <1>2 DEF OrdersInv, GroupIds, LotsOfGroup, Process
<1>16. \A k \in DOMAIN orders' : orders'[k].groups \subseteq GroupIds'
  BY <1>2, <1>11 DEF GroupIds
<1> QED BY <1>9, <1>14, <1>15, <1>16 DEF OrdersInv

\* Only a purchase order writes one.
LEMMA OnlyOrdered ==
  ASSUME [Next]_vars
  PROVE  OrderNext \/ UNCHANGED orders
<1>1. ASSUME NEW L, NEW grouping, NEW cuts, NEW s, InstructBatch(L, grouping, cuts, s) PROVE UNCHANGED orders
  BY <1>1, Zenon DEF InstructBatch
<1>2. \A g, s, c : UpdateWorkGroup(g, s, c) => UNCHANGED orders
  BY Zenon DEF UpdateWorkGroup
<1>3. \A g, first : CancelWorkGroup(g, first) => UNCHANGED orders
  BY Zenon DEF CancelWorkGroup
<1>4. \A g, first : Inbound(g, first) => UNCHANGED orders
  BY Zenon DEF Inbound
<1>5. \A g, s, first : WorkDone(g, s, first) => UNCHANGED orders
  BY Zenon DEF WorkDone
<1>6. \A G, first : ShipBatch(G, first) => UNCHANGED orders
  BY Zenon DEF ShipBatch
<1>7. InstructionNext \/ VendorNext => UNCHANGED orders
  BY <1>1, <1>2, <1>3, <1>4, <1>5, <1>6, Zenon DEF InstructionNext, VendorNext
<1>8. ScheduleNext => UNCHANGED orders
  <2>1. \A ls : Follow(ls) => UNCHANGED orders
    BY Zenon DEF Follow
  <2> QED BY <2>1, Zenon DEF ScheduleNext, CreateSchedule, ReceiveSchedule, StartSchedule, SaveResult,
                             CancelSchedule, SavePartialResult, MoveSchedule
<1>9. (\E g \in GroupIds, d \in Dates : CreateGroupSchedule(g, d)) => UNCHANGED orders
  BY Zenon DEF CreateGroupSchedule
<1>10. (\E l \in Lots : CreateReworkLot(l)) \/ RebuildProgress \/ UNCHANGED vars => UNCHANGED orders
  BY Zenon DEF CreateReworkLot, RebuildProgress, vars
<1> QED BY <1>7, <1>8, <1>9, <1>10, Zenon DEF Next

\* Every request keeps the orders right.
LEMMA OrdersStep ==
  ASSUME GroupInv, GroupInv', InstructionInv, OpenInv, OrdersInv, Kept \/ Instructs \/ Withdraws, [Next]_vars
  PROVE  OrdersInv'
<1>1. Len(instructions) \in Nat
  BY DEF InstructionInv
<1>2. CASE Instructs
  <2> PICK L \in SUBSET made, cuts \in [Lots -> CutCounts], s \in Sheets : \E grouping :
        IsFiniteSet(DOMAIN grouping) /\ InstructBatch(L, grouping, cuts, s)
    BY <1>2, Zenon DEF Instructs
  <2> PICK grouping : IsFiniteSet(DOMAIN grouping) /\ InstructBatch(L, grouping, cuts, s)
    OBVIOUS
  <2>1. Added
    BY <1>1, InstructStep, Zenon
  <2>2. NewWork
    BY InstructShape, Zenon
  <2>3. NamesStay
    <3>1. GroupIds \subseteq GroupIds'
      BY <2>1 DEF GroupInv, GroupIds, Added
    <3> QED BY <2>1, <2>2, <3>1 DEF NamesStay, Added, NewWork, OpenInv
  <2>4. NewFit
    BY <2>2, Zenon DEF NewFit, NewWork
  <2>5. UNCHANGED orders
    BY Zenon DEF InstructBatch
  <2> QED BY <2>3, <2>4, <2>5, OrdersStay
<1>3. ASSUME NEW g \in GroupIds, NEW first, CancelWorkGroup(g, first)
      PROVE  OrdersInv'
  <2>1. /\ groups' = [groups EXCEPT ![g].status = "CANCELED"]
        /\ instructions' = [instructions EXCEPT ![groups[g].instruction].active = @ \ LotsOfGroup(g)]
        /\ UNCHANGED orders
    BY <1>3 DEF CancelWorkGroup
  <2>2. /\ GroupIds' = GroupIds
        /\ \A h \in GroupIds : /\ groups'[h].instruction = groups[h].instruction
                               /\ DOMAIN groups'[h].cuts = DOMAIN groups[h].cuts
    <3>1. groups \in Seq(Group) /\ groups[g] \in Group
      BY DEF GroupInv, GroupIds
    <3> QED BY <2>1, <3>1 DEF GroupIds, Group
  <2>3. \A i \in InstructionIds : instructions'[i].process = instructions[i].process
    <3>1. instructions \in Seq(Instruction) /\ groups[g].instruction \in InstructionIds
      BY DEF InstructionInv, OpenInv
    <3> QED BY <2>1, <3>1 DEF InstructionIds, Instruction
  <2>4. NamesStay
    BY <2>2, <2>3 DEF NamesStay, OpenInv
  <2>5. NewFit
    BY <2>2 DEF NewFit, GroupIds
  <2> QED BY <2>1, <2>4, <2>5, OrdersStay
<1>4. CASE Kept
  <2>1. GroupIds' = GroupIds
    BY <1>4 DEF GroupInv, GroupIds, Kept
  <2>2. NamesStay
    BY <1>4, <2>1 DEF NamesStay, Kept, LotsOfGroup
  <2>3. NewFit
    BY <2>1 DEF NewFit, GroupIds
  <2>4. CASE OrderNext
    BY <2>4, OrderStep
  <2>5. ASSUME UNCHANGED orders PROVE OrdersInv'
    BY <2>2, <2>3, <2>5, OrdersStay
  <2> QED BY <2>4, <2>5, OnlyOrdered
<1> QED BY <1>2, <1>3, <1>4, Zenon DEF Withdraws
------------------------------------------------------------------------------
(* What the rows refer to.                                                 *)

\* Items are of LOTs that exist, a group has LOTs and they are items of its
\* instruction, and every item of an order belongs to a group of that order.
RefersInv ==
  /\ \A i \in InstructionIds : /\ instructions[i].active \subseteq instructions[i].items
                               /\ instructions[i].items \subseteq made
  /\ \A g \in GroupIds : LotsOfGroup(g) # {} /\ LotsOfGroup(g) \subseteq instructions[groups[g].instruction].items
  /\ \A k \in DOMAIN orders : \A item \in orders[k].items : \E g \in orders[k].groups :
       groups[g].instruction = item[1] /\ item[2] \in LotsOfGroup(g)

LEMMA RefersInit ==
  ASSUME Init
  PROVE  RefersInv
<1>1. InstructionIds = {} /\ GroupIds = {} /\ orders = <<>>
  BY DEF Init, InstructionIds, GroupIds
<1> QED BY <1>1 DEF RefersInv

\* LOTs come and never go.
LEMMA MadeStay ==
  ASSUME [Next]_vars
  PROVE  made \subseteq made'
<1>1. InstructionNext => UNCHANGED made
  <2>1. ASSUME NEW L, NEW grouping, NEW cuts, NEW s, InstructBatch(L, grouping, cuts, s) PROVE UNCHANGED made
    BY <2>1, Zenon DEF InstructBatch
  <2>2. \A g, s, c : UpdateWorkGroup(g, s, c) => UNCHANGED made
    BY Zenon DEF UpdateWorkGroup
  <2>3. \A g, first : CancelWorkGroup(g, first) => UNCHANGED made
    BY Zenon DEF CancelWorkGroup
  <2> QED BY <2>1, <2>2, <2>3, Zenon DEF InstructionNext
<1>2. VendorNext => UNCHANGED made
  <2>1. \A g, first : Inbound(g, first) => UNCHANGED made
    BY Zenon DEF Inbound
  <2>2. \A g, s, first : WorkDone(g, s, first) => UNCHANGED made
    BY Zenon DEF WorkDone
  <2>3. \A G, first : ShipBatch(G, first) => UNCHANGED made
    BY Zenon DEF ShipBatch
  <2> QED BY <2>1, <2>2, <2>3, Zenon DEF VendorNext
<1>3. OrderNext => UNCHANGED made
  BY Zenon DEF OrderNext, CreatePurchaseOrder
<1>4. ScheduleNext => UNCHANGED made
  <2>1. \A ls : Follow(ls) => UNCHANGED made
    BY Zenon DEF Follow
  <2> QED BY <2>1, Zenon DEF ScheduleNext, CreateSchedule, ReceiveSchedule, StartSchedule, SaveResult,
                             CancelSchedule, SavePartialResult, MoveSchedule
<1>5. (\E g \in GroupIds, d \in Dates : CreateGroupSchedule(g, d)) \/ RebuildProgress \/ UNCHANGED vars
        => UNCHANGED made
  BY Zenon DEF CreateGroupSchedule, RebuildProgress, vars
<1>6. ASSUME NEW l \in Lots, CreateReworkLot(l) PROVE made' = made \cup {l}
  BY <1>6, Zenon DEF CreateReworkLot
<1> QED BY <1>1, <1>2, <1>3, <1>4, <1>5, <1>6 DEF Next

\* What the groups and instructions keep, so that orders go on naming them.
LEMMA NamesKept ==
  ASSUME GroupInv, InstructionInv, OpenInv, RefersInv, OrdersInv, NamesStay, UNCHANGED orders
  PROVE  \A k \in DOMAIN orders' : \A item \in orders'[k].items : \E g \in orders'[k].groups :
           groups'[g].instruction = item[1] /\ item[2] \in DOMAIN groups'[g].cuts
<1>1. \A k \in DOMAIN orders : orders[k].groups \subseteq GroupIds
  BY DEF OrdersInv
<1> QED BY <1>1 DEF RefersInv, NamesStay, LotsOfGroup

LEMMA RefersStep ==
  ASSUME GroupInv, GroupInv', InstructionInv, OpenInv, OrdersInv, RefersInv,
         Kept \/ Instructs \/ Withdraws, [Next]_vars
  PROVE  RefersInv'
<1>1. Len(instructions) \in Nat /\ made \subseteq made'
  BY MadeStay DEF InstructionInv
<1>2. CASE Instructs
  <2> PICK L \in SUBSET made, cuts \in [Lots -> CutCounts], s \in Sheets : \E grouping :
        IsFiniteSet(DOMAIN grouping) /\ InstructBatch(L, grouping, cuts, s)
    BY <1>2, Zenon DEF Instructs
  <2> PICK grouping : IsFiniteSet(DOMAIN grouping) /\ InstructBatch(L, grouping, cuts, s)
    OBVIOUS
  <2>1. Added
    BY <1>1, InstructStep, Zenon
  <2>2. NewWork /\ InstructionInv'
    BY InstructShape, Zenon
  <2>3. NamesStay
    <3>1. GroupIds \subseteq GroupIds'
      BY <2>1 DEF GroupInv, GroupIds, Added
    <3> QED BY <2>1, <2>2, <3>1 DEF NamesStay, Added, NewWork, OpenInv
  <2>4. UNCHANGED orders
    BY Zenon DEF InstructBatch
  <2>5. \A i \in DOMAIN instructions' : /\ instructions'[i].active \subseteq instructions'[i].items
                                        /\ instructions'[i].items \subseteq made'
    BY <1>1, <2>2 DEF NewWork, RefersInv
  <2>6. ASSUME NEW g \in DOMAIN groups'
        PROVE  DOMAIN groups'[g].cuts # {} /\ DOMAIN groups'[g].cuts \subseteq instructions'[groups'[g].instruction].items
    <3>1. CASE g \in GroupIds
      <4>1. groups'[g] = groups[g] /\ groups[g].instruction \in InstructionIds
        BY <2>1, <3>1 DEF Added, OpenInv
      <4>2. instructions'[groups[g].instruction] = instructions[groups[g].instruction]
        BY <2>2, <4>1 DEF NewWork
      <4> QED BY <3>1, <4>1, <4>2 DEF RefersInv, LotsOfGroup
    <3>2. CASE g \notin GroupIds
      BY <2>2, <2>5, <3>2 DEF NewWork
    <3> QED BY <3>1, <3>2
  <2> QED BY <2>3, <2>4, <2>5, <2>6, NamesKept DEF RefersInv, LotsOfGroup, GroupIds, InstructionIds
<1>3. ASSUME NEW g \in GroupIds, NEW first, CancelWorkGroup(g, first)
      PROVE  RefersInv'
  <2>1. /\ groups' = [groups EXCEPT ![g].status = "CANCELED"]
        /\ instructions' = [instructions EXCEPT ![groups[g].instruction].active = @ \ LotsOfGroup(g)]
        /\ UNCHANGED orders
    BY <1>3 DEF CancelWorkGroup
  <2>2. /\ GroupIds' = GroupIds
        /\ \A h \in GroupIds : /\ groups'[h].instruction = groups[h].instruction
                               /\ DOMAIN groups'[h].cuts = DOMAIN groups[h].cuts
    <3>1. groups \in Seq(Group) /\ groups[g] \in Group
      BY DEF GroupInv, GroupIds
    <3> QED BY <2>1, <3>1 DEF GroupIds, Group
  <2>3. /\ DOMAIN instructions' = InstructionIds
        /\ \A i \in InstructionIds : /\ instructions'[i].process = instructions[i].process
                                     /\ instructions'[i].items = instructions[i].items
                                     /\ instructions'[i].active \subseteq instructions[i].active
    <3>1. instructions \in Seq(Instruction) /\ groups[g].instruction \in InstructionIds
      BY DEF InstructionInv, OpenInv
    <3> QED BY <2>1, <3>1 DEF InstructionIds, Instruction
  <2>4. NamesStay
    BY <2>2, <2>3 DEF NamesStay, OpenInv
  <2>5. \A i \in InstructionIds' : /\ instructions'[i].active \subseteq instructions'[i].items
                                   /\ instructions'[i].items \subseteq made'
    BY <1>1, <2>3 DEF RefersInv, InstructionIds
  <2>6. \A h \in GroupIds' :
          DOMAIN groups'[h].cuts # {} /\ DOMAIN groups'[h].cuts \subseteq instructions'[groups'[h].instruction].items
    BY <2>2, <2>3 DEF RefersInv, OpenInv, LotsOfGroup
  <2> QED BY <2>1, <2>4, <2>5, <2>6, NamesKept DEF RefersInv, LotsOfGroup
<1>4. CASE Kept
  <2>1. GroupIds' = GroupIds /\ InstructionIds' = InstructionIds /\ instructions' = instructions
    BY <1>4 DEF GroupInv, GroupIds, Kept, InstructionIds
  <2>2. NamesStay
    BY <1>4, <2>1 DEF NamesStay, Kept, LotsOfGroup
  <2>3. \A i \in InstructionIds' : /\ instructions'[i].active \subseteq instructions'[i].items
                                   /\ instructions'[i].items \subseteq made'
    BY <1>1, <2>1 DEF RefersInv
  <2>4. \A h \in GroupIds' :
          DOMAIN groups'[h].cuts # {} /\ DOMAIN groups'[h].cuts \subseteq instructions'[groups'[h].instruction].items
    BY <2>1, <2>2 DEF RefersInv, NamesStay, LotsOfGroup
  <2>5. CASE UNCHANGED orders
    BY <2>2, <2>3, <2>4, <2>5, NamesKept DEF RefersInv, LotsOfGroup
  <2>6. CASE OrderNext
    <3> PICK p \in Processes, items \in SUBSET UNION {{i} \X instructions[i].items : i \in InstructionIds} :
          \E groupOf \in [items -> GroupIds] : CreatePurchaseOrder(p, items, groupOf)
      BY <2>6, Zenon DEF OrderNext
    <3> PICK groupOf \in [items -> GroupIds] : CreatePurchaseOrder(p, items, groupOf)
      OBVIOUS
    <3> DEFINE ordered == {groupOf[item] : item \in items}
               new == [process |-> p, items |-> items, groups |-> ordered]
    <3>1. /\ \A item \in items : groupOf[item] \in GroupsOf(item)
          /\ orders' = Append(orders, new) /\ UNCHANGED groups
      BY Zenon DEF CreatePurchaseOrder, AcceptsOrder
    <3>2. \A item \in items : \E g \in ordered : groups[g].instruction = item[1] /\ item[2] \in LotsOfGroup(g)
      BY <3>1 DEF GroupsOf, NamedIn
    <3>3. new.items = items /\ new.groups = ordered
      OBVIOUS
    <3> HIDE DEF new, ordered
    <3>4. orders \in Seq(Order)
      BY DEF OrdersInv
    <3>5. \A k \in DOMAIN orders' : (k \in DOMAIN orders /\ orders'[k] = orders[k]) \/ orders'[k] = new
      BY <3>1, <3>4
    <3>6. \A k \in DOMAIN orders' : \A item \in orders'[k].items : \E g \in orders'[k].groups :
            groups[g].instruction = item[1] /\ item[2] \in LotsOfGroup(g)
      BY <3>2, <3>3, <3>5 DEF RefersInv
    <3> QED BY <2>3, <2>4, <3>1, <3>6 DEF RefersInv, LotsOfGroup
  <2> QED BY <2>5, <2>6, OnlyOrdered
<1> QED BY <1>2, <1>3, <1>4, Zenon DEF Withdraws
------------------------------------------------------------------------------
(* What is shown of the LOTs.                                              *)

ShownInv ==
  /\ lotStatus \in [Lots -> ScheduleStatuses]
  /\ progress \in [OrderLines -> 0 .. 7]
  /\ CompletedIsShown

LEMMA LeastOf ==
  ASSUME NEW S \in SUBSET (1 .. 7), S # {}
  PROVE  Min(S) \in S /\ \A y \in S : Min(S) <= y
<1>1. \E x \in S : \A y \in S : x =< y
  <2>1. 1 \in S \/ 2 \in S \/ 3 \in S \/ 4 \in S \/ 5 \in S \/ 6 \in S \/ 7 \in S
    <3>1. PICK n \in S : TRUE
      OBVIOUS
    <3>2. n \in 1 .. 7
      OBVIOUS
    <3> QED BY <3>1, <3>2
  <2> QED BY <2>1
<1> QED BY <1>1 DEF Min

Codes == {"LOT_CREATED", "OUTSOURCE_ORDERED", "DIECUT_RECEIVED", "OUTSOURCE_DONE",
          "INSPECTION_WAITING", "INSPECTION_IN_PROGRESS"}

LEMMA OrderOfCodes ==
  OrderOf("COMPLETED") = 7 /\ \A code \in Codes : OrderOf(code) \in 1 .. 6
<1>1. /\ ProcessOrder[1] = "LOT_CREATED" /\ ProcessOrder[2] = "OUTSOURCE_ORDERED"
      /\ ProcessOrder[3] = "DIECUT_RECEIVED" /\ ProcessOrder[4] = "OUTSOURCE_DONE"
      /\ ProcessOrder[5] = "INSPECTION_WAITING" /\ ProcessOrder[6] = "INSPECTION_IN_PROGRESS"
      /\ ProcessOrder[7] = "COMPLETED"
  BY DEF ProcessOrder
<1>2. \A i \in 1 .. 7 : i = 1 \/ i = 2 \/ i = 3 \/ i = 4 \/ i = 5 \/ i = 6 \/ i = 7
  OBVIOUS
<1>3. \A i \in 1 .. 7 : ProcessOrder[i] = "COMPLETED" <=> i = 7
  BY <1>1, <1>2
<1>4. OrderOf("COMPLETED") = 7
  BY <1>3 DEF OrderOf
<1>5. ASSUME NEW code \in Codes PROVE OrderOf(code) \in 1 .. 6
  <2>1. \E i \in 1 .. 7 : ProcessOrder[i] = code
    BY <1>1 DEF Codes
  <2>2. OrderOf(code) \in 1 .. 7 /\ ProcessOrder[OrderOf(code)] = code
    BY <2>1 DEF OrderOf
  <2>3. code # "COMPLETED"
    BY DEF Codes
  <2> QED BY <1>1, <2>2, <2>3
<1> QED BY <1>4, <1>5

LEMMA ProgressOfLot ==
  ASSUME NEW l, NEW is, NEW gs, NEW ss
  PROVE  /\ OrderOf(LotProgress(l, is, gs, ss)) \in 1 .. 7
         /\ OrderOf(LotProgress(l, is, gs, ss)) = 7 <=> Completed(l, ss)
<1> DEFINE inspected == ScheduleStatusesOf(l, ss)
           work == WorkStatuses(l, is, gs)
<1>1. Completed(l, ss) <=> "DONE" \in inspected
  BY DEF Completed
<1>2. CASE Completed(l, ss)
  <2>1. LotProgress(l, is, gs, ss) = "COMPLETED"
    <3> HIDE DEF work
    <3>1. ~(inspected \cap {"IN_PROGRESS", "PARTIAL_DONE", "DONE"} = {})
      BY <1>1, <1>2
    <3> QED BY <1>2, <3>1 DEF LotProgress
  <2> QED BY <1>2, <2>1, OrderOfCodes
<1>3. CASE ~Completed(l, ss)
  <2>1. LotProgress(l, is, gs, ss) \in Codes
    <3> HIDE DEF work, inspected
    <3>1. LotProgress(l, is, gs, ss) =
            CASE Completed(l, ss) -> "COMPLETED"
              [] ~Completed(l, ss) /\ inspected \cap {"IN_PROGRESS", "PARTIAL_DONE"} # {} -> "INSPECTION_IN_PROGRESS"
              [] inspected \cap {"IN_PROGRESS", "PARTIAL_DONE", "DONE"} = {} /\ "RECEIVED" \in inspected -> "INSPECTION_WAITING"
              [] OTHER ->
                   IF work = {} THEN "LOT_CREATED"
                   ELSE IF "REGISTERED" \in work THEN "OUTSOURCE_ORDERED"
                   ELSE IF "VENDOR_RECEIVED" \in work THEN "DIECUT_RECEIVED"
                   ELSE IF work \cap {"WORK_DONE", "SHIPPED"} # {} THEN "OUTSOURCE_DONE"
                   ELSE "OUTSOURCE_ORDERED"
      BY DEF LotProgress, inspected, work
    <3> QED BY <1>3, <3>1 DEF Codes
  <2> QED BY <1>3, <2>1, OrderOfCodes
<1> QED BY <1>2, <1>3

\* A row says completed exactly when all the LOTs of its order line are.
Complete(o, lots, ss) ==
  /\ \E l \in lots : OrderLineOf[l] = o
  /\ \A l \in lots : OrderLineOf[l] = o => Completed(l, ss)

LEMMA SnapshotShows ==
  ASSUME NEW o, NEW lots, NEW is, NEW gs, NEW ss
  PROVE  /\ Snapshot(o, lots, is, gs, ss) \in 0 .. 7
         /\ Snapshot(o, lots, is, gs, ss) = 7 <=> Complete(o, lots, ss)
<1> DEFINE ls == {l \in lots : OrderLineOf[l] = o}
           targets == TargetLots(ls, ss)
           order(l) == OrderOf(LotProgress(l, is, gs, ss))
           S == {order(l) : l \in targets}
<1>1. CASE ls = {}
  <2>1. Snapshot(o, lots, is, gs, ss) = 0
    BY <1>1 DEF Snapshot
  <2> QED BY <1>1, <2>1 DEF Complete
<1>2. CASE ls # {}
  <2>1. Snapshot(o, lots, is, gs, ss) = Min(S)
    BY <1>2, Zenon DEF Snapshot
  <2>2. \A l : order(l) \in 1 .. 7 /\ (order(l) = 7 <=> Completed(l, ss))
    BY ProgressOfLot
  <2>3. /\ targets # {} /\ targets \subseteq ls
        /\ (\A l \in targets : Completed(l, ss)) => \A l \in ls : Completed(l, ss)
    <3> HIDE DEF ls
    <3> DEFINE open == {l \in ls : ~Completed(l, ss)}
               rework == ls \cap ReworkLots
    <3>1. targets = CASE open = {} -> IF rework # {} THEN rework ELSE ls
                      [] open # {} /\ open \cap ReworkLots # {} -> open \cap ReworkLots
                      [] OTHER -> open
      BY DEF TargetLots
    <3>2. CASE open = {}
      BY <1>2, <3>1, <3>2
    <3>3. CASE open # {}
      <4>1. targets # {} /\ targets \subseteq open
        BY <3>1, <3>3
      <4> QED BY <4>1
    <3> QED BY <3>2, <3>3
  <2> HIDE DEF order, targets, ls
  <2>4. S \in SUBSET (1 .. 7) /\ S # {}
    BY <2>2, <2>3
  <2>5. Min(S) \in S /\ \A y \in S : Min(S) <= y
    BY <2>4, LeastOf
  <2>6. Min(S) = 7 <=> \A l \in targets : Completed(l, ss)
    <3>1. ASSUME Min(S) = 7, NEW l \in targets PROVE Completed(l, ss)
      <4>1. order(l) \in S /\ order(l) \in 1 .. 7
        BY <2>2
      <4> DEFINE n == order(l)
      <4>2. n \in S /\ n \in 1 .. 7
        BY <4>1
      <4> HIDE DEF n, S
      <4>3. n = 7
        BY <2>5, <3>1, <4>2
      <4> QED BY <2>2, <4>3 DEF n
    <3>2. ASSUME \A l \in targets : Completed(l, ss) PROVE Min(S) = 7
      <4>1. \A x \in S : x = 7
        BY <2>2, <3>2
      <4> QED BY <2>5, <4>1
    <3> QED BY <3>1, <3>2
  <2>7. Min(S) \in 0 .. 7
    BY <2>4, <2>5
  <2>8. (\A l \in targets : Completed(l, ss)) <=> Complete(o, lots, ss)
    BY <1>2, <2>3 DEF Complete, ls
  <2> QED BY <2>1, <2>6, <2>7, <2>8
<1> QED BY <1>1, <1>2

\* What a step leaves of a LOT as far as its order line's row is concerned.
SameLot(l) ==
  /\ l \in made' <=> l \in made
  /\ Completed(l, schedules') <=> Completed(l, schedules)

\* The row of an order line is built anew, or nothing changed of what it says.
RowShown(o) ==
  \/ \E is, gs : progress'[o] = Snapshot(o, made', is, gs, schedules')
  \/ /\ progress'[o] = progress[o]
     /\ \A l \in Lots : OrderLineOf[l] = o => SameLot(l)

ProgressStep ==
  /\ progress' = [o \in OrderLines |-> progress'[o]]
  /\ \A o \in OrderLines : RowShown(o)

LEMMA ProgressKept ==
  ASSUME GroupInv, GroupInv', ShownInv, ProgressStep
  PROVE  progress' \in [OrderLines -> 0 .. 7] /\ CompletedIsShown'
<1>1. made \subseteq Lots /\ made' \subseteq Lots
  BY DEF GroupInv
<1>2. OrderOf("COMPLETED") = 7
  BY OrderOfCodes
<1>3. ASSUME NEW o \in OrderLines
      PROVE  progress'[o] \in 0 .. 7 /\ (progress'[o] = 7 <=> Complete(o, made', schedules'))
  <2>1. CASE \E is, gs : progress'[o] = Snapshot(o, made', is, gs, schedules')
    BY <2>1, SnapshotShows
  <2>2. CASE progress'[o] = progress[o] /\ \A l \in Lots : OrderLineOf[l] = o => SameLot(l)
    <3>1. progress[o] \in 0 .. 7 /\ (progress[o] = 7 <=> Complete(o, made, schedules))
      BY <1>2 DEF ShownInv, CompletedIsShown, Complete
    <3>2. Complete(o, made, schedules) <=> Complete(o, made', schedules')
      BY <1>1, <2>2 DEF Complete, SameLot
    <3> QED BY <2>2, <3>1, <3>2
  <2> QED BY <2>1, <2>2, Zenon DEF ProgressStep, RowShown
<1>4. progress' \in [OrderLines -> 0 .. 7]
  BY <1>3 DEF ProgressStep
<1>5. OrderOf("COMPLETED")' = 7
  BY <1>2 DEF OrderOf, ProcessOrder
<1>6. \A o \in OrderLines : progress'[o] = OrderOf("COMPLETED")' <=> Complete(o, made', schedules')
  BY <1>3, <1>5
<1>7. CompletedIsShown'
  BY <1>6 DEF CompletedIsShown, Complete
<1> QED BY <1>4, <1>7

LEMMA RefreshedRows ==
  ASSUME ShownInv, NEW ls \in SUBSET Lots, progress' = Refreshed(ls),
         \A l \in Lots : l \notin ls => SameLot(l)
  PROVE  ProgressStep
<1>1. progress' = [o \in OrderLines |->
        IF o \in OrderLinesOf(ls) THEN Snapshot(o, made', instructions', groups', schedules') ELSE progress[o]]
  BY Zenon DEF Refreshed
<1>2. \A l \in ls : OrderLineOf[l] \in OrderLinesOf(ls)
  BY DEF OrderLinesOf
<1>3. ASSUME NEW o \in OrderLines PROVE RowShown(o)
  <2>1. CASE o \in OrderLinesOf(ls)
    <3>1. progress'[o] = Snapshot(o, made', instructions', groups', schedules')
      BY <1>1, <2>1
    <3> QED BY <3>1, Zenon DEF RowShown
  <2>2. CASE o \notin OrderLinesOf(ls)
    <3>1. progress'[o] = progress[o]
      BY <1>1, <2>2
    <3>2. \A l \in Lots : OrderLineOf[l] = o => SameLot(l)
      BY <1>2, <2>2, Zenon
    <3> QED BY <3>1, <3>2, Zenon DEF RowShown
  <2> QED BY <2>1, <2>2
<1>4. progress' = [o \in OrderLines |-> progress'[o]]
  BY <1>1
<1> QED BY <1>3, <1>4, Zenon DEF ProgressStep

LEMMA UnflushedRows ==
  ASSUME ShownInv, NEW ls \in SUBSET Lots, NEW first, progress' = RefreshedUnflushed(ls, first),
         \A l \in Lots : l \notin ls => SameLot(l)
  PROVE  ProgressStep
<1> DEFINE is == instructions'
<1>1. progress' = [Refreshed(ls) EXCEPT ![first] = Snapshot(first, made', is, groups, schedules')]
  BY Zenon DEF RefreshedUnflushed
<1>2. Refreshed(ls) = [o \in OrderLines |->
        IF o \in OrderLinesOf(ls) THEN Snapshot(o, made', is, groups', schedules') ELSE progress[o]]
  BY Zenon DEF Refreshed
<1> HIDE DEF is
<1>3. \A l \in ls : OrderLineOf[l] \in OrderLinesOf(ls)
  BY DEF OrderLinesOf
<1>4. ASSUME NEW o \in OrderLines PROVE RowShown(o)
  <2>1. CASE o = first
    <3>1. progress'[o] = Snapshot(o, made', is, groups, schedules')
      BY <1>1, <1>2, <2>1
    <3> QED BY <3>1, Zenon DEF RowShown
  <2>2. CASE o # first /\ o \in OrderLinesOf(ls)
    <3>1. progress'[o] = Snapshot(o, made', is, groups', schedules')
      BY <1>1, <1>2, <2>2
    <3> QED BY <3>1, Zenon DEF RowShown
  <2>3. CASE o # first /\ o \notin OrderLinesOf(ls)
    <3>1. progress'[o] = progress[o]
      BY <1>1, <1>2, <2>3
    <3>2. \A l \in Lots : OrderLineOf[l] = o => SameLot(l)
      BY <1>3, <2>3, Zenon
    <3> QED BY <3>1, <3>2, Zenon DEF RowShown
  <2> QED BY <2>1, <2>2, <2>3
<1>5. progress' = [o \in OrderLines |-> progress'[o]]
  BY <1>1, <1>2
<1> QED BY <1>4, <1>5, Zenon DEF ProgressStep

LEMMA RowsUntouched ==
  ASSUME ShownInv, UNCHANGED progress, \A l \in Lots : SameLot(l)
  PROVE  ProgressStep
<1>1. progress' = [o \in OrderLines |-> progress'[o]]
  BY DEF ShownInv
<1>2. \A o \in OrderLines : RowShown(o)
  BY Zenon DEF RowShown
<1> QED BY <1>1, <1>2, Zenon DEF ProgressStep

\* A LOT is completed by its final results only.
LEMMA SameResults ==
  ASSUME NEW l, UNCHANGED made,
         \A d \in Dates : schedules'[l][d].status = "DONE" <=> schedules[l][d].status = "DONE"
  PROVE  SameLot(l)
<1>1. Completed(l, schedules) <=> \E d \in Dates : schedules[l][d].status = "DONE"
  BY DEF Completed, ScheduleStatusesOf
<1>2. Completed(l, schedules') <=> \E d \in Dates : schedules'[l][d].status = "DONE"
  BY DEF Completed, ScheduleStatusesOf
<1> QED BY <1>1, <1>2 DEF SameLot

LEMMA SameSchedules ==
  ASSUME UNCHANGED <<made, schedules>>
  PROVE  \A l : SameLot(l)
<1>1. \A l : Completed(l, schedules') <=> Completed(l, schedules)
  <2>1. schedules' = schedules
    OBVIOUS
  <2> QED BY <2>1 DEF Completed, ScheduleStatusesOf
<1> QED BY <1>1 DEF SameLot

\* A LOT's status stays one.
LEMMA StatusesFollow ==
  ASSUME GroupInv, RowsInv, RowsInv', ShownInv, NEW ls \in SUBSET Lots, Follow(ls),
         \A l \in Lots : l \notin ls => schedules'[l] = schedules[l]
  PROVE  lotStatus' \in [Lots -> ScheduleStatuses] /\ ProgressStep
<1>1. /\ lotStatus' = [l \in Lots |->
           IF l \in ls THEN DeriveLotStatus({schedules'[l][d].status : d \in Dates} \ {"NONE"}, lotStatus[l])
           ELSE lotStatus[l]]
      /\ progress' = Refreshed(ls) /\ UNCHANGED made
  BY Zenon DEF Follow
<1>2. \A S, old : old \in ScheduleStatuses => DeriveLotStatus(S, old) \in ScheduleStatuses
  BY DEF DeriveLotStatus, ScheduleStatuses
<1>3. \A l \in Lots : lotStatus[l] \in ScheduleStatuses
  BY DEF ShownInv
<1>4. lotStatus' \in [Lots -> ScheduleStatuses]
  BY <1>1, <1>2, <1>3
<1>5. ASSUME NEW l \in Lots, l \notin ls PROVE SameLot(l)
  <2>1. \A d \in Dates : schedules'[l][d].status = "DONE" <=> schedules[l][d].status = "DONE"
    BY <1>5
  <2> QED BY <1>1, <2>1, SameResults
<1>6. ProgressStep
  BY <1>1, <1>5, RefreshedRows
<1> QED BY <1>4, <1>6

\* Rows that come in are new ones.
LEMMA NewRows ==
  ASSUME RowsInv, NEW ls \in SUBSET Lots, NEW d \in Dates, NEW row, row.status = "WAITING",
         InsertRows(ls, d, row), UNCHANGED made
  PROVE  \A l \in Lots : SameLot(l)
<1>1. /\ schedules' = [l \in Lots |-> IF l \in ls THEN [schedules[l] EXCEPT ![d] = row] ELSE schedules[l]]
      /\ \A l \in ls : schedules[l][d].status = "NONE"
  BY Zenon DEF InsertRows, HasRow
<1>2. ASSUME NEW l \in Lots PROVE SameLot(l)
  <2>1. schedules[l] \in [Dates -> ScheduleRow]
    BY DEF RowsInv
  <2>2. \A e \in Dates : schedules'[l][e].status = "DONE" <=> schedules[l][e].status = "DONE"
    BY <1>1, <2>1
  <2> QED BY <2>2, SameResults
<1> QED BY <1>2

LEMMA ScheduleShown ==
  ASSUME GroupInv, RowsInv, RowsInv', ShownInv, ScheduleNext
  PROVE  lotStatus' \in [Lots -> ScheduleStatuses] /\ ProgressStep
<1> PICK l \in Lots, d \in Dates :
      \/ CreateSchedule(l, d)
      \/ ReceiveSchedule(l, d)
      \/ StartSchedule(l, d)
      \/ SaveResult(l, d)
      \/ CancelSchedule(l, d)
      \/ \E to \in Dates : SavePartialResult(l, d, to) \/ MoveSchedule(l, d, to)
  BY Zenon DEF ScheduleNext
<1>0. \A k \in Lots : schedules[k] \in [Dates -> ScheduleRow]
  BY DEF RowsInv
<1>1. CASE CreateSchedule(l, d)
  <2>1. UNCHANGED <<made, lotStatus, progress>> /\ InsertRows({l}, d, Row("WAITING", 0))
    BY <1>1, Zenon DEF CreateSchedule
  <2>2. Row("WAITING", 0).status = "WAITING"
    BY DEF Row
  <2>3. \A k \in Lots : SameLot(k)
    BY <2>1, <2>2, NewRows
  <2> QED BY <2>1, <2>3, RowsUntouched DEF ShownInv
<1>2. ASSUME NEW ls \in SUBSET Lots, NEW status, SetStatus(ls, d, status), Follow(ls)
      PROVE  lotStatus' \in [Lots -> ScheduleStatuses] /\ ProgressStep
  <2>1. \A k \in Lots : k \notin ls => schedules'[k] = schedules[k]
    BY <1>2 DEF SetStatus
  <2> QED BY <1>2, <2>1, StatusesFollow
<1>3. CASE ReceiveSchedule(l, d)
  <2> DEFINE g == schedules[l][d].group
             together == IF l \in InspectionOnlyLots THEN {l}
                         ELSE {k \in Lots : schedules[k][d] = Row("WAITING", g)}
  <2>1. SetStatus(together, d, "RECEIVED") /\ Follow(together)
    BY <1>3, Zenon DEF ReceiveSchedule
  <2>2. together \in SUBSET Lots
    OBVIOUS
  <2> HIDE DEF together
  <2> QED BY <1>2, <2>1, <2>2
<1>4. CASE StartSchedule(l, d) \/ SaveResult(l, d) \/ CancelSchedule(l, d)
  <2>1. PICK status : SetStatus({l}, d, status) /\ Follow({l})
    BY <1>4, Zenon DEF StartSchedule, SaveResult, CancelSchedule
  <2> QED BY <1>2, <2>1
<1>5. ASSUME NEW to \in Dates, SavePartialResult(l, d, to)
      PROVE  lotStatus' \in [Lots -> ScheduleStatuses] /\ ProgressStep
  <2>1. /\ schedules' = [schedules EXCEPT ![l][d].status = "PARTIAL_DONE", ![l][to] = Row("RECEIVED", 0)]
        /\ Follow({l})
    BY <1>5, Zenon DEF SavePartialResult
  <2>2. \A k \in Lots : k \notin {l} => schedules'[k] = schedules[k]
    BY <2>1 DEF RowsInv
  <2> QED BY <2>1, <2>2, StatusesFollow
<1>6. ASSUME NEW to \in Dates, MoveSchedule(l, d, to)
      PROVE  lotStatus' \in [Lots -> ScheduleStatuses] /\ ProgressStep
  <2>1. /\ schedules[l][d].status \in {"WAITING", "RECEIVED"} /\ schedules[l][to].status = "NONE"
        /\ schedules' = [schedules EXCEPT ![l][d] = NoRow, ![l][to] = schedules[l][d]]
        /\ UNCHANGED <<made, lotStatus, progress>>
    BY <1>6, Zenon DEF MoveSchedule, HasRow
  <2>2. NoRow.status = "NONE"
    BY DEF NoRow
  <2> DEFINE none == NoRow
             row == schedules[l][d]
  <2>3. schedules' = [schedules EXCEPT ![l] = [schedules[l] EXCEPT ![d] = none, ![to] = row]]
    BY <2>1 DEF RowsInv
  <2>4. none.status = "NONE" /\ row.status \in {"WAITING", "RECEIVED"}
    BY <2>1, <2>2
  <2> HIDE DEF none, row
  <2>5. ASSUME NEW k \in Lots PROVE SameLot(k)
    <3>1. \A e \in Dates : schedules'[k][e].status = "DONE" <=> schedules[k][e].status = "DONE"
      BY <1>0, <2>1, <2>3, <2>4 DEF RowsInv, row
    <3> QED BY <2>1, <3>1, SameResults
  <2> QED BY <2>1, <2>5, RowsUntouched DEF ShownInv
<1> QED BY <1>1, <1>3, <1>4, <1>5, <1>6

LEMMA GroupLots ==
  ASSUME GroupInv, NEW g \in GroupIds
  PROVE  LotsOfGroup(g) \in SUBSET Lots
<1>1. groups[g] \in Group
  BY DEF GroupInv, GroupIds
<1> QED BY <1>1 DEF Group, CutsOfLots, LotsOfGroup

\* A group that may be withdrawn has no final result.
LEMMA WithdrawalShown ==
  ASSUME GroupInv, RowsInv, ShownInv, NEW g \in GroupIds, NEW first, CancelWorkGroup(g, first)
  PROVE  lotStatus' \in [Lots -> ScheduleStatuses] /\ ProgressStep
<1>1. /\ StatusesLinkedTo(g) \subseteq {"WAITING", "RECEIVED", "CANCELED"}
      /\ schedules' = [l \in Lots |-> [d \in Dates |-> IF schedules[l][d].group = g THEN NoRow ELSE schedules[l][d]]]
      /\ lotStatus' = [l \in Lots |->
           IF l \in LotsOfGroup(g) /\ lotStatus[l] \in {"WAITING", "RECEIVED"} /\ NothingElseOpen(l, g)
           THEN "WAITING" ELSE lotStatus[l]]
      /\ UNCHANGED made
      /\ progress' = RefreshedUnflushed(LotsOfGroup(g), first)
  BY Zenon DEF CancelWorkGroup, MayCancel, DeleteLinkedSchedules, ResetLots
<1>2. lotStatus' \in [Lots -> ScheduleStatuses]
  BY <1>1 DEF ShownInv, ScheduleStatuses
<1>3. LotsOfGroup(g) \in SUBSET Lots
  BY GroupLots
<1>4. ASSUME NEW l \in Lots PROVE SameLot(l)
  <2>1. ASSUME NEW d \in Dates, schedules[l][d].group = g PROVE schedules[l][d].status # "DONE"
    <3>1. <<l, d>> \in LinkedTo(g)
      BY <2>1 DEF LinkedTo
    <3>2. schedules[<<l, d>>[1]][<<l, d>>[2]].status \in StatusesLinkedTo(g)
      BY <3>1, Zenon DEF StatusesLinkedTo
    <3>3. schedules[l][d].status \in StatusesLinkedTo(g)
      BY <3>2
    <3> QED BY <1>1, <3>3
  <2>2. NoRow.status = "NONE"
    BY DEF NoRow
  <2>3. \A d \in Dates : schedules'[l][d].status = "DONE" <=> schedules[l][d].status = "DONE"
    BY <1>1, <2>1, <2>2
  <2> QED BY <1>1, <2>3, SameResults
<1>5. ProgressStep
  BY <1>1, <1>3, <1>4, UnflushedRows
<1> QED BY <1>2, <1>5

\* Requests that leave the inspection alone.
LEMMA OthersShown ==
  ASSUME GroupInv, ShownInv, UNCHANGED <<made, schedules, lotStatus>>,
         \/ UNCHANGED progress
         \/ \E ls \in SUBSET Lots : progress' = Refreshed(ls)
         \/ \E ls \in SUBSET Lots : \E first : progress' = RefreshedUnflushed(ls, first)
  PROVE  lotStatus' \in [Lots -> ScheduleStatuses] /\ ProgressStep
<1>1. \A l \in Lots : SameLot(l)
  BY SameSchedules
<1>2. lotStatus' \in [Lots -> ScheduleStatuses]
  BY DEF ShownInv
<1>3. CASE UNCHANGED progress
  BY <1>1, <1>2, <1>3, RowsUntouched
<1>4. ASSUME NEW ls \in SUBSET Lots, progress' = Refreshed(ls) PROVE ProgressStep
  BY <1>1, <1>4, RefreshedRows
<1>5. ASSUME NEW ls \in SUBSET Lots, NEW first, progress' = RefreshedUnflushed(ls, first) PROVE ProgressStep
  BY <1>1, <1>5, UnflushedRows
<1> QED BY <1>2, <1>3, <1>4, <1>5, Zenon

LEMMA ShownStep ==
  ASSUME GroupInv, GroupInv', RowsInv, RowsInv', ShownInv, [Next]_vars
  PROVE  ShownInv'
<1> DEFINE Shows == lotStatus' \in [Lots -> ScheduleStatuses] /\ ProgressStep
<1>1. \A g \in GroupIds : LotsOfGroup(g) \in SUBSET Lots
  BY GroupLots
<1>2. ASSUME InstructionNext PROVE Shows
  <2>1. ASSUME NEW L \in UNION {kSubset(n, made) : n \in 1 .. MaxBatch}, NEW grouping, NEW cuts, NEW s,
               InstructBatch(L, grouping, cuts, s)
        PROVE  Shows
    <3>1. UNCHANGED <<made, schedules, lotStatus>> /\ progress' = Refreshed(L)
      BY <2>1, Zenon DEF InstructBatch
    <3>2. L \in SUBSET Lots
      BY DEF kSubset, GroupInv
    <3> QED BY <3>1, <3>2, OthersShown
  <2>2. ASSUME NEW g \in GroupIds, NEW s, NEW c, UpdateWorkGroup(g, s, c) PROVE Shows
    <3>1. UNCHANGED <<made, schedules, lotStatus>> /\ progress' = Refreshed(LotsOfGroup(g))
      BY <2>2, Zenon DEF UpdateWorkGroup
    <3> QED BY <1>1, <3>1, OthersShown
  <2>3. ASSUME NEW g \in GroupIds, NEW first, CancelWorkGroup(g, first) PROVE Shows
    BY <2>3, WithdrawalShown
  <2> HIDE DEF Shows
  <2> QED BY <1>2, <2>1, <2>2, <2>3, Zenon DEF InstructionNext
<1>3. ASSUME VendorNext PROVE Shows
  <2>1. ASSUME NEW g \in GroupIds, NEW first, Inbound(g, first) PROVE Shows
    <3>1. UNCHANGED <<made, schedules, lotStatus>> /\ progress' = RefreshedUnflushed(LotsOfGroup(g), first)
      BY <2>1, Zenon DEF Inbound
    <3> QED BY <1>1, <3>1, OthersShown
  <2>2. ASSUME NEW g \in GroupIds, NEW s, NEW first, WorkDone(g, s, first) PROVE Shows
    <3>1. UNCHANGED <<made, schedules, lotStatus>> /\ progress' = RefreshedUnflushed(LotsOfGroup(g), first)
      BY <2>2, Zenon DEF WorkDone
    <3> QED BY <1>1, <3>1, OthersShown
  <2>3. ASSUME NEW G \in SUBSET {g \in GroupIds : groups[g].status = "WORK_DONE"}, NEW first, ShipBatch(G, first)
        PROVE  Shows
    <3> DEFINE ls == UNION {LotsOfGroup(g) : g \in G}
    <3>1. UNCHANGED <<made, schedules, lotStatus>> /\ progress' = RefreshedUnflushed(ls, first)
      BY <2>3, Zenon DEF ShipBatch
    <3>2. ls \in SUBSET Lots
      BY <1>1
    <3> HIDE DEF ls
    <3> QED BY <3>1, <3>2, OthersShown
  <2> HIDE DEF Shows
  <2> QED BY <1>3, <2>1, <2>2, <2>3, Zenon DEF VendorNext
<1>4. ASSUME OrderNext PROVE Shows
  <2>1. UNCHANGED <<made, schedules, lotStatus, progress>>
    BY <1>4, Zenon DEF OrderNext, CreatePurchaseOrder
  <2> QED BY <2>1, OthersShown
<1>5. ASSUME ScheduleNext PROVE Shows
  BY <1>5, ScheduleShown
<1>6. ASSUME NEW g \in GroupIds, NEW d \in Dates, CreateGroupSchedule(g, d) PROVE Shows
  <2> DEFINE ls == {l \in LotsOfGroup(g) : ~Active(l, d)}
             row == Row("WAITING", g)
  <2>1. UNCHANGED <<made, lotStatus, progress>> /\ InsertRows(ls, d, row)
    BY <1>6, Zenon DEF CreateGroupSchedule
  <2>2. ls \in SUBSET Lots /\ row.status = "WAITING"
    BY <1>1 DEF Row
  <2> HIDE DEF ls, row
  <2>3. \A l \in Lots : SameLot(l)
    BY <2>1, <2>2, NewRows
  <2> QED BY <2>1, <2>3, RowsUntouched DEF ShownInv
<1>7. ASSUME NEW l \in Lots, CreateReworkLot(l) PROVE Shows
  <2>1. made' = made \cup {l} /\ UNCHANGED <<schedules, lotStatus>> /\ progress' = Refreshed({l})
    BY <1>7, Zenon DEF CreateReworkLot
  <2>2. ASSUME NEW k \in Lots, k \notin {l} PROVE SameLot(k)
    <3>1. Completed(k, schedules') <=> Completed(k, schedules)
      BY <2>1 DEF Completed, ScheduleStatusesOf
    <3> QED BY <2>1, <2>2, <3>1 DEF SameLot
  <2> QED BY <2>1, <2>2, RefreshedRows DEF ShownInv
<1>8. ASSUME RebuildProgress PROVE Shows
  <2>1. /\ UNCHANGED <<made, schedules, lotStatus>>
        /\ progress' = [o \in OrderLines |-> Snapshot(o, made, instructions, groups, schedules)]
    BY <1>8, Zenon DEF RebuildProgress
  <2>2. ASSUME NEW o \in OrderLines PROVE RowShown(o)
    <3>1. progress'[o] = Snapshot(o, made', instructions, groups, schedules')
      BY <2>1
    <3> QED BY <3>1, Zenon DEF RowShown
  <2>3. progress' = [o \in OrderLines |-> progress'[o]]
    BY <2>1
  <2> QED BY <2>1, <2>2, <2>3 DEF ProgressStep, ShownInv
<1>9. ASSUME UNCHANGED vars PROVE Shows
  <2>1. UNCHANGED <<made, schedules, lotStatus, progress>>
    BY <1>9 DEF vars
  <2> QED BY <2>1, OthersShown
<1>10. Shows
  <2> HIDE DEF Shows
  <2> QED BY <1>2, <1>3, <1>4, <1>5, <1>6, <1>7, <1>8, <1>9, Zenon DEF Next
<1> QED BY <1>10, ProgressKept DEF ShownInv

LEMMA ShownInit ==
  ASSUME Init, GroupInv
  PROVE  ShownInv
<1>1. /\ lotStatus = [l \in Lots |-> "WAITING"]
      /\ progress = [o \in OrderLines |-> Snapshot(o, made, <<>>, <<>>, schedules)]
  BY Zenon DEF Init
<1>2. \A o \in OrderLines : progress[o] \in 0 .. 7 /\ (progress[o] = 7 <=> Complete(o, made, schedules))
  BY <1>1, SnapshotShows
<1>3. progress \in [OrderLines -> 0 .. 7]
  BY <1>1, <1>2
<1>4. CompletedIsShown
  BY <1>2, OrderOfCodes DEF CompletedIsShown, Complete
<1> QED BY <1>1, <1>3, <1>4 DEF ShownInv, ScheduleStatuses
------------------------------------------------------------------------------
(* The steps preserve the invariant.                                       *)

\* Each of the requests, and the step of its groups.
LEMMA InvStep ==
  ASSUME Inv, [Next]_vars
  PROVE  Inv' /\ StepOK
<1>1. GroupInv /\ InstructionInv /\ OutputFollowsCuts /\ OpenInv /\ RowsInv /\ OrdersInv
  BY DEF Inv
<1>2. Len(instructions) \in Nat
  BY <1>1 DEF InstructionInv
<1>3. StepOK /\ (Kept \/ Instructs \/ Withdraws)
  BY <1>1, <1>2, Step
<1>4. GroupInv'
  BY <1>3 DEF StepOK
<1>5. OutputFollowsCuts'
  BY <1>1, <1>3, OutputStep
<1>6. ASSUME Kept PROVE InstructionInv' /\ OpenInv'
  <2>1. InstructionInv'
    BY <1>1, <1>6 DEF InstructionInv, Kept
  <2>2. OpenInv'
    BY <1>1, <1>4, <1>6, OpenKept
  <2> QED BY <2>1, <2>2
<1>7. ASSUME Instructs PROVE InstructionInv' /\ OpenInv' /\ RowsInv'
  <2> PICK L \in SUBSET made, cuts \in [Lots -> CutCounts], s \in Sheets : \E grouping :
        IsFiniteSet(DOMAIN grouping) /\ InstructBatch(L, grouping, cuts, s)
    BY <1>7, Zenon DEF Instructs
  <2> PICK grouping : IsFiniteSet(DOMAIN grouping) /\ InstructBatch(L, grouping, cuts, s)
    OBVIOUS
  <2>1. Added
    BY <1>1, <1>2, InstructStep, Zenon
  <2>2. InstructionInv' /\ NewWork
    BY <1>1, InstructShape, Zenon
  <2>3. OpenInv'
    BY <1>1, <1>4, <2>1, <2>2, OpenInstructed
  <2>4. GroupsStay
    BY <1>1, <1>4, <2>1, AddedStay
  <2>5. UNCHANGED schedules
    BY Zenon DEF InstructBatch
  <2>6. RowsInv'
    BY <1>1, <2>4, <2>5, RowsStay
  <2> QED BY <2>2, <2>3, <2>6
<1>8. ASSUME Withdraws PROVE InstructionInv' /\ OpenInv' /\ RowsInv'
  <2> PICK g \in GroupIds : \E first : CancelWorkGroup(g, first)
    BY <1>8, Zenon DEF Withdraws
  <2> PICK first : CancelWorkGroup(g, first)
    OBVIOUS
  <2>1. InstructionInv' /\ OpenInv'
    BY <1>1, <1>4, OpenWithdrawn
  <2>2. RowsInv'
    BY <1>1, RowsWithdrawn
  <2> QED BY <2>1, <2>2
<1>9. ASSUME Kept PROVE RowsInv'
  <2>1. GroupsStay
    BY <1>1, <1>3, <1>9, KeptStay
  <2>2. ASSUME UNCHANGED schedules PROVE RowsInv'
    BY <1>1, <2>1, <2>2, RowsStay
  <2>3. CASE InstructionNext
    <3>1. \A g, s, c : UpdateWorkGroup(g, s, c) => UNCHANGED schedules
      BY Zenon DEF UpdateWorkGroup
    <3>2. ASSUME NEW L, NEW grouping, NEW cuts, NEW s, InstructBatch(L, grouping, cuts, s)
          PROVE  UNCHANGED schedules
      BY <3>2, Zenon DEF InstructBatch
    <3>3. \A g \in GroupIds : \A first : CancelWorkGroup(g, first) => RowsInv'
      BY <1>1, RowsWithdrawn, Zenon
    <3> QED BY <2>2, <2>3, <3>1, <3>2, <3>3, Zenon DEF InstructionNext
  <2>4. CASE VendorNext
    <3>1. \A g, first : Inbound(g, first) => UNCHANGED schedules
      BY Zenon DEF Inbound
    <3>2. \A g, s, first : WorkDone(g, s, first) => UNCHANGED schedules
      BY Zenon DEF WorkDone
    <3>3. \A G, first : ShipBatch(G, first) => UNCHANGED schedules
      BY Zenon DEF ShipBatch
    <3>4. UNCHANGED schedules
      BY <2>4, <3>1, <3>2, <3>3, Zenon DEF VendorNext
    <3> QED BY <2>2, <3>4
  <2>5. CASE OrderNext
    <3>1. UNCHANGED schedules
      BY <2>5, Zenon DEF OrderNext, CreatePurchaseOrder
    <3> QED BY <2>2, <3>1
  <2>6. CASE ScheduleNext
    BY <1>1, <2>6, ScheduleStep
  <2>7. CASE \E g \in GroupIds, d \in Dates : CreateGroupSchedule(g, d)
    BY <1>1, <2>7, GroupScheduleStep, Zenon
  <2>8. CASE (\E l \in Lots : CreateReworkLot(l)) \/ RebuildProgress
    <3>1. UNCHANGED schedules
      BY <2>8, Zenon DEF CreateReworkLot, RebuildProgress
    <3> QED BY <2>2, <3>1
  <2>9. CASE UNCHANGED vars
    BY <2>2, <2>9 DEF vars
  <2> QED BY <2>3, <2>4, <2>5, <2>6, <2>7, <2>8, <2>9, Zenon DEF Next
<1>10. OrdersInv'
  BY <1>1, <1>3, <1>4, OrdersStep
<1> QED BY <1>3, <1>4, <1>5, <1>6, <1>7, <1>8, <1>9, <1>10 DEF Inv

\* It holds in every reachable state.
LEMMA Invariant == Spec => []Inv
<1>1. Inv /\ [Next]_vars => Inv'
  BY InvStep
<1> QED BY InitInv, <1>1, PTL DEF Spec

\* With it hold what the rows refer to and what is shown.
WholeInv == Inv /\ RefersInv /\ ShownInv

LEMMA WholeInvariant == Spec => []WholeInv
<1>1. Init => WholeInv
  BY InitInv, RefersInit, ShownInit DEF WholeInv, Inv
<1>2. WholeInv /\ [Next]_vars => WholeInv'
  <2> SUFFICES ASSUME WholeInv, [Next]_vars PROVE WholeInv'
    OBVIOUS
  <2>1. Inv /\ RefersInv /\ ShownInv
    BY DEF WholeInv
  <2>2. Inv'
    BY <2>1, InvStep
  <2>3. Len(instructions) \in Nat
    BY <2>1 DEF Inv, InstructionInv
  <2>4. Kept \/ Instructs \/ Withdraws
    BY <2>1, <2>3, Step DEF Inv
  <2>5. RefersInv'
    BY <2>1, <2>2, <2>4, RefersStep DEF Inv
  <2>6. ShownInv'
    BY <2>1, <2>2, ShownStep DEF Inv
  <2> QED BY <2>2, <2>5, <2>6 DEF WholeInv
<1> QED BY <1>1, <1>2, PTL DEF Spec
------------------------------------------------------------------------------
(* What the screens offer.                                                 *)

\* A LOT that no request named in two groups is in one open group.
LEMMA OneGroupOpen ==
  ASSUME WholeInv, NEW g \in GroupIds, NEW h \in GroupIds, Open(g), Open(h),
         NEW l, l \in LotsOfGroup(g), l \in LotsOfGroup(h), NamedOnce(l)
  PROVE  g = h
<1>1. Process(g) = Process(h)
  BY DEF WholeInv, Inv, OrdersInv
<1> QED BY <1>1, OpenOnce DEF WholeInv, Inv

\* The routing of the LOTs of a group fits its process.
LEMMA RoutingFits ==
  ASSUME WholeInv, NEW g \in GroupIds, NEW l \in LotsOfGroup(g)
  PROVE  /\ l \in Lots /\ Process(g) \in Processes
         /\ AvailableProcesses(l) = IF Process(g) = "PRINT" THEN {"CUT", "PRINT"} ELSE {"CUT"}
<1>1. l \in Lots /\ l \notin InspectionOnlyLots
  BY GroupLots DEF WholeInv, Inv, OpenInv
<1>2. PrimaryProcess(l) = Process(g)
  BY DEF WholeInv, Inv, OrdersInv
<1> QED BY <1>1, <1>2 DEF PrimaryProcess, AvailableProcesses, Processes

\* A LOT that is ordered with its instruction is so with its open group.
LEMMA OrderedWithGroup ==
  ASSUME WholeInv, NEW g \in GroupIds, NEW l \in LotsOfGroup(g), NamedOnce(l), Open(g), NEW p, OrderedAs(l, p)
  PROVE  \E k \in DOMAIN orders : orders[k].process = p /\ g \in orders[k].groups
<1>1. PICK k \in DOMAIN orders, i \in InstructionIds :
        orders[k].process = p /\ <<i, l>> \in orders[k].items /\ l \in instructions[i].active
  BY Zenon DEF OrderedAs
<1>2. PICK h \in orders[k].groups : groups[h].instruction = i /\ l \in LotsOfGroup(h)
  <2> DEFINE item == <<i, l>>
  <2>1. item \in orders[k].items /\ item[1] = i /\ item[2] = l
    BY <1>1
  <2> HIDE DEF item
  <2> QED BY <2>1 DEF WholeInv, RefersInv
<1>3. h \in GroupIds
  BY <1>2 DEF WholeInv, Inv, OrdersInv
<1>4. Open(h)
  <2>1. ItemFollows(h, l) /\ h \in NamedIn(i, l)
    BY <1>2, <1>3 DEF WholeInv, Inv, OpenInv, NamedIn
  <2> QED BY <1>1, <1>2, <2>1 DEF ItemFollows
<1>5. h = g
  BY <1>2, <1>3, <1>4, OneGroupOpen
<1> QED BY <1>1, <1>2, <1>5

\* What is offered for ordering is accepted when the group is ordered as a whole.
LEMMA OrdersAccepted ==
  ASSUME WholeInv, NEW g \in GroupIds, NEW p \in Processes, NEW l0 \in LotsOfGroup(g), OffersOrder(p, g, l0),
         \A l \in LotsOfGroup(g) : NamedOnce(l)
  PROVE  LET items == {groups[g].instruction} \X LotsOfGroup(g) IN AcceptsOrder(p, items, [item \in items |-> g])
<1> DEFINE i == groups[g].instruction
           L == LotsOfGroup(g)
           items == {i} \X L
           groupOf == [item \in items |-> g]
<1>1. /\ Open(g) /\ p \in AvailableProcesses(l0)
      /\ ~ \E k \in DOMAIN orders : orders[k].process = p /\ g \in orders[k].groups
  BY Zenon DEF OffersOrder
<1>2. LotsNamed(items) = L
  <2>1. \A item \in items : item[2] \in L
    OBVIOUS
  <2>2. ASSUME NEW l \in L PROVE \E item \in items : item[2] = l
    <3>1. <<i, l>> \in items /\ <<i, l>>[2] = l
      OBVIOUS
    <3> HIDE DEF items
    <3> QED BY <3>1
  <2> HIDE DEF items, L
  <2> QED BY <2>1, <2>2 DEF LotsNamed
<1>3. Cardinality(LotsNamed(items)) = Cardinality(items)
  <2>1. IsFiniteSet(L)
    BY GroupLots, FS_Subset DEF WholeInv, Inv
  <2> DEFINE f == [l \in L |-> <<i, l>>]
  <2>2. f \in Bijection(L, items)
    <3>1. f \in [L -> items]
      OBVIOUS
    <3>2. \A a, b \in L : f[a] = f[b] => a = b
      OBVIOUS
    <3>3. \A item \in items : \E l \in L : f[l] = item
      OBVIOUS
    <3> HIDE DEF f, items, L
    <3> QED BY <3>1, <3>2, <3>3 DEF Bijection, Injection, Surjection, IsInjective
  <2> HIDE DEF f, items, L
  <2>3. Cardinality(items) = Cardinality(L)
    <3>1. \E b : b \in Bijection(L, items)
      BY <2>2
    <3>2. ExistsBijection(L, items)
      BY <3>1 DEF ExistsBijection
    <3> QED BY <2>1, <3>2, FS_Bijection
  <2> QED BY <1>2, <2>3
<1>4. ASSUME NEW l \in L PROVE ~OrderedAs(l, p) /\ p \in AvailableProcesses(l)
  <2>1. ~OrderedAs(l, p)
    BY <1>1, <1>4, OrderedWithGroup
  <2>2. AvailableProcesses(l) = AvailableProcesses(l0)
    BY RoutingFits
  <2> QED BY <1>1, <2>1, <2>2
<1>5. ASSUME NEW item \in items PROVE groupOf[item] \in GroupsOf(item)
  <2> DEFINE l == item[2]
  <2>1. item[1] = i /\ l \in L /\ groupOf[item] = g
    OBVIOUS
  <2> HIDE DEF l, groupOf, items
  <2>2. g \in NamedIn(i, l)
    BY <2>1 DEF NamedIn
  <2>3. i \in InstructionIds /\ ItemFollows(g, l)
    BY <2>1 DEF WholeInv, Inv, OpenInv
  <2>4. \A h \in NamedIn(i, l) : h = g
    BY <2>1, <2>2, <2>3 DEF NamedOnce
  <2>5. l \in instructions[i].active
    BY <1>1, <2>3, <2>4 DEF ItemFollows
  <2> QED BY <1>1, <2>1, <2>2, <2>5 DEF GroupsOf, l
<1>6. ASSUME NEW h \in {groupOf[item] : item \in items}
      PROVE  h = g /\ {item \in items : groupOf[item] = h} = items
  OBVIOUS
<1> HIDE DEF groupOf, items, L
<1>7. AcceptsOrder(p, items, groupOf)
  <2>1. \A h \in {groupOf[item] : item \in items} :
          /\ LotsNamed({item \in items : groupOf[item] = h}) = LotsOfGroup(h)
          /\ ~ \E k \in DOMAIN orders : orders[k].process = p /\ h \in orders[k].groups
    <3> SUFFICES ASSUME NEW h \in {groupOf[item] : item \in items}
                 PROVE  /\ LotsNamed({item \in items : groupOf[item] = h}) = LotsOfGroup(h)
                        /\ ~ \E k \in DOMAIN orders : orders[k].process = p /\ h \in orders[k].groups
      OBVIOUS
    <3>1. h = g /\ {item \in items : groupOf[item] = h} = items
      BY <1>6
    <3> QED BY <1>1, <1>2, <3>1 DEF L
  <2> QED BY <1>2, <1>3, <1>4, <1>5, <2>1 DEF AcceptsOrder
<1> QED BY <1>7 DEF groupOf, items, L

\* Whatever is offered for instruction has no registration.
LEMMA InstructionAccepted ==
  ASSUME WholeInv, NEW l \in Lots, OffersInstruction(l),
         \A i \in InstructionIds : l \in instructions[i].items => NamedIn(i, l) # {}
  PROVE  ~Registered(l, PrimaryProcess(l))
<1> SUFFICES ASSUME NEW i \in InstructionIds, l \in instructions[i].active PROVE FALSE
  BY DEF Registered
<1>1. l \in instructions[i].items
  BY DEF WholeInv, RefersInv
<1>2. PICK g \in GroupIds : groups[g].instruction = i /\ l \in LotsOfGroup(g)
  BY <1>1 DEF NamedIn
<1>3. Open(g)
  <2>1. ItemFollows(g, l) /\ g \in NamedIn(i, l)
    BY <1>2 DEF WholeInv, Inv, OpenInv, NamedIn
  <2> QED BY <1>2, <2>1 DEF ItemFollows
<1> QED BY <1>2, <1>3 DEF OffersInstruction

\* A group in work is the vendor's, with all its LOTs.
LEMMA VendorIsShown ==
  ASSUME WholeInv, NEW g \in GroupIds, groups[g].status \in {"REGISTERED", "VENDOR_RECEIVED", "WORK_DONE"}
  PROVE  VendorLists(g, "ALL") /\ VendorLists(g, groups[g].status) /\ VendorLots(g) = LotsOfGroup(g)
<1>1. \A l \in LotsOfGroup(g) : (Process(g) = "PRINT") = ("PRINT" \in AvailableProcesses(l))
  BY RoutingFits DEF Processes
<1>2. VendorLots(g) = LotsOfGroup(g)
  BY <1>1 DEF VendorLots
<1>3. VendorTarget(g)
  BY <1>2 DEF VendorTarget, WholeInv, RefersInv
<1> QED BY <1>2, <1>3 DEF VendorLists, Open

\* A LOT that no request named in two groups is offered for inspection once.
LEMMA OfferedOnce ==
  ASSUME WholeInv, NEW l \in Lots, NamedOnce(l)
  PROVE  Cardinality(InspectionTargets(l)) <= 1
<1> DEFINE open == {g \in GroupIds : Open(g) /\ l \in LotsOfGroup(g)}
           T == InspectionTargets(l)
<1>1. \A g, h \in open : g = h
  BY OneGroupOpen
<1>2. \A x, y \in T : x = y
  BY <1>1 DEF InspectionTargets
<1> HIDE DEF open, T
<1>3. CASE T = {}
  BY <1>3, FS_EmptySet DEF T
<1>4. CASE T # {}
  <2>1. PICK x \in T : TRUE
    BY <1>4
  <2>2. T = {x}
    BY <1>2, <2>1
  <2>3. Cardinality({x}) = 1
    BY FS_Singleton
  <2> QED BY <2>2, <2>3 DEF T
<1> QED BY <1>3, <1>4
------------------------------------------------------------------------------
(* The theorems.                                                           *)

\* Whatever the LOTs, their routings and the groups a client lists, an instruction
\* item is active exactly while all the groups of its LOT there are open: what the
\* registration checks (the items) and what the screens ask (the groups) differ
\* only where a request named a LOT in two groups and one of them was withdrawn.
\* A LOT that was never named twice is at one vendor for a process at most.
THEOREM OneVendor == Spec => []OneOpenGroup
<1>1. Inv => OneOpenGroup
  BY OpenIsOne DEF Inv
<1> QED BY Invariant, <1>1, PTL

\* The inspection never receives a row of a group that was not shipped, and no
\* row outlives the cancellation of its group.
THEOREM InspectedAfterShipment == Spec => []ReceivedAfterShipment
<1>1. Inv => ReceivedAfterShipment
  <2> SUFFICES ASSUME RowsInv PROVE ReceivedAfterShipment
    BY DEF Inv
  <2> QED BY DEF ReceivedAfterShipment, RowsInv, GoodRow, Beyond
<1> QED BY Invariant, <1>1, PTL

\* The output a vendor's report stores is sheets times the cuts of its group,
\* and neither is changed by any request that comes later.
THEOREM OutputCorrect == Spec => []OutputFollowsCuts
<1>1. Inv => OutputFollowsCuts
  BY DEF Inv
<1> QED BY Invariant, <1>1, PTL

\* A vendor is paid once: no two orders of a process share a group, and an order
\* that names a group names all of its LOTs, with the instruction of the group.
THEOREM PaidOnce == Spec => []OrderedTogether
<1>1. Inv => OrderedTogether
  BY DEF Inv, OrdersInv
<1> QED BY Invariant, <1>1, PTL

\* No request changes the sheets or the cuts of a group that was ordered, or
\* the LOTs of any group.
THEOREM TermsOfOrderKept == Spec => OrderedTermsKept
<1>1. Inv /\ [Next]_vars => [TermsKept]_vars
  BY InvStep, TermsStep
<1>2. [][TermsKept]_vars => OrderedTermsKept
  BY PTL DEF OrderedTermsKept, TermsKept
<1> QED BY Invariant, <1>1, <1>2, PTL DEF Spec

\* The requests implement the life a group was promised, for every number of
\* groups, batches of shipment included.
THEOREM GroupsLive == Spec => GroupLife
<1>1. Init => Life!Init
  <2>1. Init => GroupIds = {}
    BY DEF Init, GroupIds
  <2> QED BY <2>1 DEF Life!Init, Stage
<1>2. Inv /\ [Next]_vars => [Life!Next]_Stage
  BY InvStep, LifeStep DEF Inv
<1> QED BY Invariant, <1>1, <1>2, PTL DEF Spec, GroupLife, Life!Spec

\* Every row keeps its columns and names rows that exist: items LOTs, groups their
\* instruction and some of its items, orders groups, schedules a group or none.
THEOREM WorkTypeCorrect == Spec => []TypeOK
<1>1. WholeInv => TypeOK
  <2> SUFFICES ASSUME WholeInv PROVE TypeOK
    OBVIOUS
  <2>1. made \subseteq Lots
    BY DEF WholeInv, Inv, GroupInv
  <2>2. \A i \in InstructionIds :
          /\ instructions[i].process \in Processes
          /\ instructions[i].active \subseteq instructions[i].items
          /\ instructions[i].items \subseteq made
    <3>1. \A i \in InstructionIds : instructions[i] \in Instruction
      BY DEF WholeInv, Inv, InstructionInv, InstructionIds
    <3> QED BY <3>1 DEF WholeInv, RefersInv, Instruction
  <2>3. \A g \in GroupIds :
          /\ groups[g].instruction \in InstructionIds
          /\ groups[g].status \in GroupStatuses
          /\ LotsOfGroup(g) # {} /\ LotsOfGroup(g) \subseteq instructions[groups[g].instruction].items
    <3>1. \A g \in GroupIds : groups[g] \in Group
      BY DEF WholeInv, Inv, GroupInv, GroupIds
    <3> QED BY <3>1 DEF WholeInv, Inv, OpenInv, RefersInv, Group
  <2>4. \A k \in DOMAIN orders : orders[k].process \in Processes /\ orders[k].groups \subseteq GroupIds
    <3>1. \A k \in DOMAIN orders : orders[k] \in Order
      BY DEF WholeInv, Inv, OrdersInv
    <3> QED BY <3>1 DEF WholeInv, Inv, OrdersInv, Order
  <2>5. \A l \in Lots, d \in Dates :
          /\ schedules[l][d].status \in ScheduleStatuses \cup {"NONE"}
          /\ schedules[l][d].group \in GroupIds \cup {0}
    <3>1. \A l \in Lots, d \in Dates : schedules[l][d] \in ScheduleRow /\ GoodRow(l, schedules[l][d])
      BY DEF WholeInv, Inv, RowsInv
    <3> QED BY <3>1 DEF ScheduleRow, GoodRow
  <2>6. lotStatus \in [Lots -> ScheduleStatuses] /\ progress \in [OrderLines -> 0 .. Len(ProcessOrder)]
    BY DEF WholeInv, ShownInv, ProcessOrder
  <2> QED BY <2>1, <2>2, <2>3, <2>4, <2>5, <2>6 DEF TypeOK
<1> QED BY WholeInvariant, <1>1, PTL

\* The screen that reads the stored snapshot shows an order line as completed
\* exactly while a final result stands for each of its LOTs, though every
\* request refreshes only the rows it thinks of, and some before they flush.
THEOREM CompletionShown == Spec => []CompletedIsShown
<1>1. WholeInv => CompletedIsShown
  BY DEF WholeInv, ShownInv
<1> QED BY WholeInvariant, <1>1, PTL

\* What the screens offer for ordering and instruction is accepted, the vendor
\* sees all of a group in work, and a LOT is offered for inspection once, though
\* each screen asks other tables than the request that follows: for ordering and
\* inspection as long as no request named the LOTs in two of its groups.
THEOREM OffersHold == Spec => []TargetsAccepted
<1>1. WholeInv => TargetsAccepted
  <2> SUFFICES ASSUME WholeInv PROVE TargetsAccepted
    OBVIOUS
  <2>1. \A g \in GroupIds, p \in Processes :
          LET items == {groups[g].instruction} \X LotsOfGroup(g) IN
          /\ \E l \in LotsOfGroup(g) : OffersOrder(p, g, l)
          /\ \A l \in LotsOfGroup(g) : NamedOnce(l)
          => AcceptsOrder(p, items, [item \in items |-> g])
    BY OrdersAccepted, Zenon
  <2>2. \A l \in Lots :
          /\ OffersInstruction(l)
          /\ \A i \in InstructionIds : l \in instructions[i].items => NamedIn(i, l) # {}
          => ~Registered(l, PrimaryProcess(l))
    BY InstructionAccepted, Zenon
  <2>3. \A g \in GroupIds :
          groups[g].status \in {"REGISTERED", "VENDOR_RECEIVED", "WORK_DONE"} =>
            VendorLists(g, "ALL") /\ VendorLists(g, groups[g].status) /\ VendorLots(g) = LotsOfGroup(g)
    BY VendorIsShown, Zenon
  <2>4. \A l \in Lots : NamedOnce(l) => Cardinality(InspectionTargets(l)) <= 1
    BY OfferedOnce, Zenon
  <2> QED BY <2>1, <2>2, <2>3, <2>4, Zenon DEF TargetsAccepted
<1> QED BY WholeInvariant, <1>1, PTL
------------------------------------------------------------------------------
(* The vendor's requests in two steps: VendorOverlap.                      *)

\* A receipt that is written when the group was worked, shipped or withdrawn
\* since it was read, and a report that is written when it was shipped since.
StaleReceipt(s) ==
  /\ Write(s)
  /\ request[s].status = "VENDOR_RECEIVED"
  /\ groups[request[s].group].status \notin {"REGISTERED", "VENDOR_RECEIVED"}

StaleReport(s) ==
  /\ Write(s)
  /\ request[s].status = "WORK_DONE"
  /\ groups[request[s].group].status = "SHIPPED"

Stale(s) == StaleReceipt(s) \/ StaleReport(s)

Received == {"VENDOR_RECEIVED", "WORK_DONE", "SHIPPED"}
Reported(output, cuts) == \E z \in Sheets : output = [l \in DOMAIN cuts |-> z * cuts[l]]

\* The outputs a session may leave behind: what it has read to be the stored one
\* already, the write leaves alone.
Outputs(s) == IF request[s].outputs = {} THEN {groups[request[s].group].output} ELSE request[s].outputs

\* What a session will write: a report or a shipment is of a group that was
\* received, so that its cuts stay, and leaves an output that follows them.
Pending(s) ==
  LET g == request[s].group IN
  /\ g \in GroupIds
  /\ request[s].status \in Received
  /\ request[s].status # "WORK_DONE" => request[s].outputs = {}
  /\ request[s].status # "VENDOR_RECEIVED" =>
       /\ groups[g].status \in Received
       /\ \A output \in Outputs(s) : Reported(output, groups[g].cuts)

RequestInv ==
  /\ DOMAIN request = VendorSessions
  /\ \A s \in VendorSessions : request[s] # NoRequest => Pending(s)

OverlapInv == GroupInv /\ InstructionInv /\ OutputFollowsCuts /\ RequestInv

\* Without stale writes a group that is to be shipped was not set back.
ShipmentsStand ==
  \A s \in VendorSessions :
    request[s] # NoRequest /\ request[s].status = "SHIPPED" =>
      groups[request[s].group].status \in {"WORK_DONE", "SHIPPED"}

LEMMA ReportedIs == \A row : FollowsCuts(row) <=> Reported(row.output, row.cuts)
BY Zenon DEF FollowsCuts, Reported

LEMMA OutputsReported ==
  OutputFollowsCuts <=> \A g \in GroupIds : groups[g].status \in {"WORK_DONE", "SHIPPED"} =>
                          Reported(groups[g].output, groups[g].cuts)
BY Zenon DEF OutputFollowsCuts, LotsOfGroup, Reported

\* A report that is pending when another step leaves its group received, with the
\* cuts it has and an output that follows them if the one before did, stays so.
LEMMA StaysPending ==
  ASSUME NEW s \in VendorSessions, Pending(s), request'[s] = request[s],
         LET g == request[s].group IN
         /\ g \in GroupIds'
         /\ groups[g].status \in Received =>
              /\ groups'[g].status \in Received
              /\ groups'[g].cuts = groups[g].cuts
              /\ Reported(groups[g].output, groups[g].cuts) => Reported(groups'[g].output, groups'[g].cuts)
  PROVE  Pending(s)'
<1> DEFINE g == request[s].group
<1>1. /\ request'[s] = request[s] /\ g \in GroupIds' /\ request[s].status \in Received
      /\ request[s].status # "WORK_DONE" => request[s].outputs = {}
  BY DEF Pending
<1>2. ASSUME request[s].status # "VENDOR_RECEIVED"
      PROVE  groups'[g].status \in Received /\ \A output \in Outputs(s)' : Reported(output, groups'[g].cuts)
  <2>1. groups[g].status \in Received /\ \A output \in Outputs(s) : Reported(output, groups[g].cuts)
    BY <1>2 DEF Pending
  <2>2. /\ groups'[g].status \in Received /\ groups'[g].cuts = groups[g].cuts
        /\ Reported(groups[g].output, groups[g].cuts) => Reported(groups'[g].output, groups'[g].cuts)
    BY <2>1
  <2>3. CASE request[s].outputs = {}
    BY <1>1, <2>1, <2>2, <2>3, Zenon DEF Outputs
  <2>4. CASE request[s].outputs # {}
    <3>1. Outputs(s) = request[s].outputs /\ Outputs(s)' = request[s].outputs
      BY <1>1, <2>4 DEF Outputs
    <3> QED BY <2>1, <2>2, <3>1
  <2> QED BY <2>2, <2>3, <2>4
<1> HIDE DEF g
<1> QED BY <1>1, <1>2 DEF Pending, g

\* What the requests of OutsourceWork do to a group that was received, worked or
\* shipped: no more than go on.
LEMMA PendingStep ==
  ASSUME GroupInv, StepOK, NEW g \in GroupIds,
         groups[g].status \in Received
  PROVE  /\ g \in GroupIds'
         /\ groups'[g].status \in Received
         /\ groups[g].status # "VENDOR_RECEIVED" => groups'[g].status \in {"WORK_DONE", "SHIPPED"}
         /\ groups'[g].cuts = groups[g].cuts
         /\ Reported(groups[g].output, groups[g].cuts) => Reported(groups'[g].output, groups'[g].cuts)
<1>1. GroupIds = 1 .. Len(groups) /\ GroupIds' = 1 .. Len(groups') /\ Len(groups) \in Nat /\ Len(groups') \in Nat
  BY DEF GroupInv, GroupIds, StepOK
<1>2. CASE Added
  <2>1. g \in GroupIds' /\ groups'[g] = groups[g]
    BY <1>1, <1>2 DEF Added
  <2> QED BY <2>1 DEF Received
<1>3. CASE Renewed
  <2>1. g \in GroupIds' /\ groups'[g] = groups[g]
    BY <1>1, <1>3 DEF Renewed, Received
  <2> QED BY <2>1 DEF Received
<1>4. CASE Moved
  <2>1. g \in GroupIds'
    BY <1>1, <1>4 DEF Moved
  <2>2. PICK G \in SUBSET GroupIds, m \in Life!Moves :
          /\ \A x \in G :
               /\ groups[x].status = m[1] /\ groups'[x].status = m[2]
               /\ groups'[x].sheets = groups[x].sheets /\ groups'[x].cuts = groups[x].cuts
               /\ m[2] = "WORK_DONE" =>
                    \E s \in Sheets : groups'[x].output = [l \in LotsOfGroup(x) |-> s * groups[x].cuts[l]]
               /\ m[2] = "SHIPPED" => groups'[x].output = groups[x].output
          /\ \A h \in GroupIds \ G : groups'[h] = groups[h]
    BY <1>4, Zenon DEF Moved
  <2>3. CASE g \notin G
    <3>1. groups'[g] = groups[g]
      BY <2>2, <2>3
    <3> QED BY <2>1, <3>1 DEF Received
  <2>4. CASE g \in G
    <3>1. groups'[g].status = m[2] /\ groups[g].status = m[1] /\ groups'[g].cuts = groups[g].cuts
      BY <2>2, <2>4
    <3>2. m[2] \in {"WORK_DONE", "SHIPPED"}
      BY <3>1 DEF Life!Moves, Received
    <3>3. CASE m[2] = "WORK_DONE"
      <4>1. PICK s \in Sheets : groups'[g].output = [l \in DOMAIN groups[g].cuts |-> s * groups[g].cuts[l]]
        BY <2>2, <2>4, <3>3, Zenon DEF LotsOfGroup
      <4>2. Reported(groups'[g].output, groups'[g].cuts)
        BY <3>1, <4>1 DEF Reported
      <4> QED BY <2>1, <3>1, <3>3, <4>2 DEF Received
    <3>4. CASE m[2] = "SHIPPED"
      <4>1. groups'[g].output = groups[g].output
        BY <2>2, <2>4, <3>4
      <4> QED BY <2>1, <3>1, <3>4, <4>1 DEF Received
    <3> QED BY <3>2, <3>3, <3>4
  <2> QED BY <2>3, <2>4
<1> QED BY <1>2, <1>3, <1>4 DEF StepOK

\* A report's output has the type of the column.
LEMMA OutputType ==
  ASSUME GroupInv, NEW g \in GroupIds, NEW output, Reported(output, groups[g].cuts)
  PROVE  output \in UNION {[D -> Nat] : D \in SUBSET Lots}
<1>1. groups[g] \in Group
  BY DEF GroupInv, GroupIds
<1>2. PICK D \in SUBSET Lots : groups[g].cuts \in [D -> CutCounts]
  BY <1>1 DEF Group, CutsOfLots
<1>3. PICK z \in Sheets : output = [l \in DOMAIN groups[g].cuts |-> z * groups[g].cuts[l]]
  BY Zenon DEF Reported
<1>4. DOMAIN groups[g].cuts = D /\ \A l \in D : groups[g].cuts[l] \in Nat
  BY <1>2
<1>5. \A l \in D : z * groups[g].cuts[l] \in Nat
  <2>1. \A x, y \in Nat : x * y \in Nat
    OBVIOUS
  <2> QED BY <1>4, <2>1, Zenon
<1>6. output \in [D -> Nat]
  BY <1>3, <1>4, <1>5
<1> QED BY <1>6

\* A write changes the status of its group, with a report the output, and no other
\* column of any.
LEMMA WriteShape ==
  ASSUME OverlapInv, NEW s \in VendorSessions, Write(s)
  PROVE  LET g == request[s].group IN
         /\ request[s] # NoRequest
         /\ g \in GroupIds
         /\ UNCHANGED <<made, instructions, orders, schedules, lotStatus>>
         /\ request' = [request EXCEPT ![s] = NoRequest]
         /\ GroupInv' /\ GroupIds' = GroupIds /\ Len(groups') = Len(groups)
         /\ groups'[g].status = request[s].status
         /\ groups'[g].sheets = groups[g].sheets
         /\ groups'[g].cuts = groups[g].cuts
         /\ groups'[g].output \in Outputs(s)
         /\ \A h \in GroupIds \ {g} : groups'[h] = groups[h]
<1> DEFINE g == request[s].group
<1>1. /\ request[s] # NoRequest
      /\ UNCHANGED <<made, instructions, orders, schedules, lotStatus>>
      /\ request' = [request EXCEPT ![s] = NoRequest]
      /\ \E output \in Outputs(s) :
           groups' = [groups EXCEPT ![g].status = request[s].status, ![g].output = output]
  BY Zenon DEF Write, Outputs
<1>2. Pending(s)
  BY <1>1 DEF OverlapInv, RequestInv
<1>3. g \in GroupIds /\ request[s].status \in Received
  BY <1>2 DEF Pending
<1>4. groups \in Seq(Group) /\ groups[g] \in Group /\ g \in DOMAIN groups /\ GroupInv
  BY <1>3 DEF OverlapInv, GroupInv, GroupIds
<1> PICK output \in Outputs(s) :
      groups' = [groups EXCEPT ![g].status = request[s].status, ![g].output = output]
  BY <1>1
<1>5. output \in {NoOutput} \cup UNION {[D -> Nat] : D \in SUBSET Lots}
  <2>1. CASE request[s].outputs = {}
    BY <1>4, <2>1 DEF Outputs, Group
  <2>2. CASE request[s].outputs # {}
    <3>1. Reported(output, groups[g].cuts)
      BY <1>2, <2>2 DEF Pending
    <3> QED BY <1>3, <1>4, <3>1, OutputType
  <2> QED BY <2>1, <2>2
<1> DEFINE r1 == [groups[g] EXCEPT !.status = request[s].status]
           r == [r1 EXCEPT !.output = output]
<1>6. r1 \in Group /\ r1.status = request[s].status /\ r1.sheets = groups[g].sheets /\ r1.cuts = groups[g].cuts
  BY <1>3, <1>4 DEF Group, GroupStatuses, Received
<1>7. /\ r \in Group /\ r.status = request[s].status /\ r.sheets = groups[g].sheets
      /\ r.cuts = groups[g].cuts /\ r.output = output
  <2> HIDE DEF r1
  <2> QED BY <1>5, <1>6 DEF Group
<1>8. groups' = [groups EXCEPT ![g] = r]
  OBVIOUS
<1> HIDE DEF r, g
<1>9. /\ groups' \in Seq(Group) /\ Len(groups') = Len(groups) /\ groups'[g] = r
      /\ \A h \in GroupIds \ {g} : groups'[h] = groups[h]
  BY <1>3, <1>4, <1>7, <1>8, OneGroup, Zenon
<1>10. GroupInv' /\ GroupIds' = GroupIds
  BY <1>1, <1>4, <1>9 DEF GroupInv, GroupIds
<1>11. groups'[g].status = request[s].status /\ groups'[g].sheets = groups[g].sheets
       /\ groups'[g].cuts = groups[g].cuts /\ groups'[g].output \in Outputs(s)
  BY <1>7, <1>9
<1> QED BY <1>1, <1>3, <1>9, <1>10, <1>11 DEF g

\* A session reads.
Reads(s, g) ==
  ReadForInbound(s, g) \/ (\E sheets \in Sheets : ReadForReport(s, g, sheets)) \/ ReadForShipment(s, g)

\* The step that reads.
LEMMA ReadShape ==
  ASSUME OverlapInv, NEW s \in VendorSessions, NEW g \in GroupIds, Reads(s, g)
  PROVE  /\ UNCHANGED vars
         /\ DOMAIN request' = VendorSessions
         /\ request'[s].group = g
         /\ \A t \in VendorSessions \ {s} : request'[t] = request[t]
         /\ \/ request'[s].status = "VENDOR_RECEIVED" /\ request'[s].outputs = {}
            \/ /\ request'[s].status = "WORK_DONE" /\ groups[g].status = "VENDOR_RECEIVED"
               /\ \E z \in Sheets :
                    request'[s].outputs = {[l \in DOMAIN groups[g].cuts |-> z * groups[g].cuts[l]]} \ {groups[g].output}
            \/ request'[s].status = "SHIPPED" /\ request'[s].outputs = {} /\ groups[g].status = "WORK_DONE"
<1>0. DOMAIN request = VendorSessions
  BY DEF OverlapInv, RequestInv
<1>1. ASSUME NEW before, NEW after, NEW outputs, Read(s, g, before, after, outputs)
      PROVE  /\ UNCHANGED vars /\ groups[g].status = before
             /\ DOMAIN request' = VendorSessions
             /\ request'[s].group = g /\ request'[s].status = after
             /\ request'[s].outputs = outputs \ {groups[g].output}
             /\ \A t \in VendorSessions \ {s} : request'[t] = request[t]
  <2>1. /\ UNCHANGED vars /\ groups[g].status = before
        /\ request' = [request EXCEPT ![s] = [group |-> g, status |-> after, outputs |-> outputs \ {groups[g].output}]]
    BY <1>1, Zenon DEF Read
  <2> QED BY <1>0, <2>1
<1>2. CASE ReadForInbound(s, g)
  BY <1>1, <1>2 DEF ReadForInbound
<1>3. ASSUME NEW z \in Sheets, ReadForReport(s, g, z)
      PROVE  /\ UNCHANGED vars /\ groups[g].status = "VENDOR_RECEIVED"
             /\ DOMAIN request' = VendorSessions
             /\ request'[s].group = g /\ request'[s].status = "WORK_DONE"
             /\ request'[s].outputs = {[l \in DOMAIN groups[g].cuts |-> z * groups[g].cuts[l]]} \ {groups[g].output}
             /\ \A t \in VendorSessions \ {s} : request'[t] = request[t]
  <2> DEFINE outputs == {[l \in DOMAIN groups[g].cuts |-> z * groups[g].cuts[l]]}
  <2>1. Read(s, g, "VENDOR_RECEIVED", "WORK_DONE", outputs)
    BY <1>3 DEF ReadForReport, LotsOfGroup
  <2> HIDE DEF outputs
  <2>2. /\ UNCHANGED vars /\ groups[g].status = "VENDOR_RECEIVED"
        /\ DOMAIN request' = VendorSessions
        /\ request'[s].group = g /\ request'[s].status = "WORK_DONE"
        /\ request'[s].outputs = outputs \ {groups[g].output}
        /\ \A t \in VendorSessions \ {s} : request'[t] = request[t]
    BY <1>1, <2>1, Zenon
  <2> QED BY <2>2 DEF outputs
<1>4. CASE \E z \in Sheets : ReadForReport(s, g, z)
  <2> PICK z \in Sheets : ReadForReport(s, g, z)
    BY <1>4
  <2> QED BY <1>3
<1>5. CASE ReadForShipment(s, g)
  BY <1>1, <1>5 DEF ReadForShipment
<1> QED BY <1>2, <1>4, <1>5 DEF Reads

\* What a step of OutsourceWork leaves of the requests in flight.
LEMMA NextKeepsRequests ==
  ASSUME OverlapInv, [Next]_vars, UNCHANGED request
  PROVE  OverlapInv' /\ StepOK /\ (ShipmentsStand => ShipmentsStand')
<1>1. GroupInv /\ InstructionInv /\ OutputFollowsCuts /\ RequestInv /\ Len(instructions) \in Nat
  BY DEF OverlapInv, InstructionInv
<1>2. StepOK /\ (Kept \/ Instructs \/ Withdraws)
  BY <1>1, Step
<1>3. GroupInv'
  BY <1>2 DEF StepOK
<1>4. OutputFollowsCuts'
  BY <1>1, <1>2, OutputStep
<1>5. InstructionInv'
  <2>1. CASE Kept
    BY <1>1, <2>1 DEF InstructionInv, Kept
  <2>2. CASE Instructs
    <3> PICK L \in SUBSET made, cuts \in [Lots -> CutCounts], z \in Sheets : \E grouping :
          IsFiniteSet(DOMAIN grouping) /\ InstructBatch(L, grouping, cuts, z)
      BY <2>2, Zenon DEF Instructs
    <3> PICK grouping : IsFiniteSet(DOMAIN grouping) /\ InstructBatch(L, grouping, cuts, z)
      OBVIOUS
    <3> QED BY <1>1, InstructShape, Zenon
  <2>3. CASE Withdraws
    <3>1. PICK g \in GroupIds : \E first : CancelWorkGroup(g, first)
      BY <2>3, Zenon DEF Withdraws
    <3> DEFINE i == groups[g].instruction
    <3>2. instructions' = [instructions EXCEPT ![i].active = @ \ LotsOfGroup(g)]
      BY <3>1, Zenon DEF CancelWorkGroup
    <3> HIDE DEF i
    <3>3. ASSUME NEW k \in DOMAIN instructions PROVE instructions'[k] \in Instruction
      <4>1. instructions[k] \in Instruction
        BY <1>1, <3>3 DEF InstructionInv
      <4>2. instructions'[k] = IF k = i THEN [instructions[k] EXCEPT !.active = @ \ LotsOfGroup(g)] ELSE instructions[k]
        BY <3>2, <3>3, Zenon
      <4> QED BY <4>1, <4>2 DEF Instruction
    <3>4. DOMAIN instructions = 1 .. Len(instructions)
      BY <1>1 DEF InstructionInv
    <3>5. instructions' \in [1 .. Len(instructions) -> Instruction]
      <4> DEFINE next == [instructions EXCEPT ![i].active = @ \ LotsOfGroup(g)]
      <4>1. DOMAIN next = DOMAIN instructions /\ next = [k \in DOMAIN instructions |-> next[k]]
        OBVIOUS
      <4> HIDE DEF next
      <4>2. instructions' = next
        BY <3>2 DEF next
      <4> QED BY <3>3, <3>4, <4>1, <4>2
    <3> QED BY <1>1, <3>5 DEF InstructionInv
  <2> QED BY <1>2, <2>1, <2>2, <2>3
<1>6. ASSUME NEW g \in GroupIds, groups[g].status \in Received
      PROVE  /\ groups'[g].status \in Received
             /\ groups[g].status # "VENDOR_RECEIVED" => groups'[g].status \in {"WORK_DONE", "SHIPPED"}
             /\ groups'[g].cuts = groups[g].cuts
             /\ Reported(groups[g].output, groups[g].cuts) => Reported(groups'[g].output, groups'[g].cuts)
  BY <1>1, <1>2, <1>6, PendingStep, Zenon
<1>7. GroupIds \subseteq GroupIds'
  <2>1. GroupIds = 1 .. Len(groups) /\ GroupIds' = 1 .. Len(groups') /\ Len(groups) \in Nat /\ Len(groups') \in Nat
    BY <1>1, <1>3 DEF GroupInv, GroupIds
  <2>2. Len(groups) <= Len(groups')
    BY <1>2, <2>1 DEF StepOK, Added, Renewed, Moved
  <2> QED BY <2>1, <2>2
<1>8. RequestInv'
  <2>1. DOMAIN request' = VendorSessions
    BY <1>1 DEF RequestInv
  <2>2. ASSUME NEW s \in VendorSessions, request'[s] # NoRequest PROVE Pending(s)'
    <3> DEFINE g == request[s].group
    <3>1. Pending(s) /\ request'[s] = request[s]
      BY <1>1, <2>2 DEF RequestInv
    <3>2. g \in GroupIds
      BY <3>1 DEF Pending
    <3> HIDE DEF g
    <3>3. /\ g \in GroupIds'
          /\ groups[g].status \in Received =>
               /\ groups'[g].status \in Received
               /\ groups'[g].cuts = groups[g].cuts
               /\ Reported(groups[g].output, groups[g].cuts) => Reported(groups'[g].output, groups'[g].cuts)
      BY <1>6, <1>7, <3>2, Zenon
    <3> QED BY <3>1, <3>3, StaysPending DEF g
  <2> QED BY <2>1, <2>2 DEF RequestInv
<1>9. ASSUME ShipmentsStand PROVE ShipmentsStand'
  <2> SUFFICES ASSUME NEW s \in VendorSessions, request[s] # NoRequest, request[s].status = "SHIPPED"
               PROVE  groups'[request[s].group].status \in {"WORK_DONE", "SHIPPED"}
    BY DEF ShipmentsStand
  <2>1. groups[request[s].group].status \in Received \ {"VENDOR_RECEIVED"}
    BY <1>9 DEF ShipmentsStand, Received
  <2>2. request[s].group \in GroupIds
    BY <1>1 DEF RequestInv, Pending
  <2> QED BY <1>6, <2>1, <2>2
<1> QED BY <1>2, <1>3, <1>4, <1>5, <1>8, <1>9 DEF OverlapInv

\* What a read leaves of them, with the new one.
LEMMA ReadKeepsRequests ==
  ASSUME OverlapInv, NEW s \in VendorSessions, NEW g \in GroupIds, Reads(s, g)
  PROVE  OverlapInv' /\ UNCHANGED vars /\ (ShipmentsStand => ShipmentsStand')
<1>1. /\ UNCHANGED <<made, instructions, groups>> /\ UNCHANGED vars
      /\ DOMAIN request' = VendorSessions
      /\ request'[s].group = g
      /\ \A t \in VendorSessions \ {s} : request'[t] = request[t]
  BY ReadShape DEF vars
<1>2. groups' = groups /\ GroupIds' = GroupIds
  BY <1>1 DEF GroupIds
<1>3. GroupInv' /\ InstructionInv' /\ OutputFollowsCuts'
  <2>1. GroupInv' /\ InstructionInv'
    BY <1>1 DEF OverlapInv, GroupInv, InstructionInv
  <2>2. \A h \in GroupIds : groups[h].status \in {"WORK_DONE", "SHIPPED"} => FollowsCuts(groups[h])
    BY Zenon DEF OverlapInv, OutputFollowsCuts, FollowsCuts, LotsOfGroup
  <2>3. \A h \in GroupIds' : groups'[h].status \in {"WORK_DONE", "SHIPPED"} => FollowsCuts(groups'[h])
    BY <1>2, <2>2
  <2>4. OutputFollowsCuts'
    BY <2>3, Zenon DEF OutputFollowsCuts, FollowsCuts, LotsOfGroup
  <2> QED BY <2>1, <2>4
<1>4. Pending(s)'
  <2>1. CASE request'[s].status = "VENDOR_RECEIVED" /\ request'[s].outputs = {}
    BY <1>1, <1>2, <2>1 DEF Pending, Received
  <2>2. ASSUME request'[s].status = "WORK_DONE", groups[g].status = "VENDOR_RECEIVED",
               NEW z \in Sheets,
               request'[s].outputs = {[l \in DOMAIN groups[g].cuts |-> z * groups[g].cuts[l]]} \ {groups[g].output}
        PROVE  Pending(s)'
    <3> DEFINE output == [l \in DOMAIN groups[g].cuts |-> z * groups[g].cuts[l]]
    <3>1. Reported(output, groups[g].cuts)
      BY Zenon DEF Reported
    <3>2. request'[s].outputs = {output} \ {groups[g].output}
      BY <2>2
    <3> HIDE DEF output
    <3>3. \A o \in Outputs(s)' : o = output
      BY <1>1, <1>2, <3>2 DEF Outputs
    <3> QED BY <1>1, <1>2, <2>2, <3>1, <3>3 DEF Pending, Received
  <2>3. ASSUME request'[s].status = "SHIPPED", request'[s].outputs = {}, groups[g].status = "WORK_DONE"
        PROVE  Pending(s)'
    <3>1. Reported(groups[g].output, groups[g].cuts)
      BY <2>3, OutputsReported DEF OverlapInv
    <3>2. Outputs(s)' = {groups[g].output}
      BY <1>1, <1>2, <2>3 DEF Outputs
    <3> QED BY <1>1, <1>2, <2>3, <3>1, <3>2 DEF Pending, Received
  <2> QED BY <2>1, <2>2, <2>3, ReadShape
<1>5. ASSUME NEW t \in VendorSessions \ {s}, request'[t] # NoRequest PROVE Pending(t)'
  <2>1. request'[t] = request[t] /\ Pending(t)
    BY <1>1, <1>5 DEF OverlapInv, RequestInv
  <2> QED BY <1>2, <2>1 DEF Pending, Outputs
<1>6. RequestInv'
  BY <1>1, <1>4, <1>5 DEF RequestInv
<1>7. ASSUME ShipmentsStand PROVE ShipmentsStand'
  <2> SUFFICES ASSUME NEW t \in VendorSessions, request'[t] # NoRequest, request'[t].status = "SHIPPED"
               PROVE  groups[request'[t].group].status \in {"WORK_DONE", "SHIPPED"}
    BY <1>2 DEF ShipmentsStand
  <2>1. CASE t = s
    BY <1>1, <2>1, ReadShape
  <2>2. CASE t # s
    BY <1>1, <1>7, <2>2 DEF ShipmentsStand
  <2> QED BY <2>1, <2>2
<1> QED BY <1>1, <1>3, <1>6, <1>7 DEF OverlapInv

\* What a write leaves of the others.
LEMMA WriteKeepsRequests ==
  ASSUME OverlapInv, NEW s \in VendorSessions, Write(s)
  PROVE  OverlapInv' /\ (ShipmentsStand /\ ~StaleReceipt(s) => ShipmentsStand')
<1> DEFINE g == request[s].group
<1>1. /\ request[s] # NoRequest /\ g \in GroupIds
      /\ UNCHANGED <<made, instructions>>
      /\ request' = [request EXCEPT ![s] = NoRequest]
      /\ GroupInv' /\ GroupIds' = GroupIds
      /\ groups'[g].status = request[s].status
      /\ groups'[g].cuts = groups[g].cuts
      /\ groups'[g].output \in Outputs(s)
      /\ \A h \in GroupIds \ {g} : groups'[h] = groups[h]
  BY WriteShape
<1>2. InstructionInv'
  BY <1>1 DEF OverlapInv, InstructionInv
<1>3. Pending(s) /\ DOMAIN request = VendorSessions
  BY <1>1 DEF OverlapInv, RequestInv
<1>4. /\ request[s].status \in Received
      /\ request[s].status # "WORK_DONE" => groups'[g].output = groups[g].output
      /\ request[s].status # "VENDOR_RECEIVED" => Reported(groups'[g].output, groups'[g].cuts)
  <2>1. request[s].status # "WORK_DONE" => groups'[g].output = groups[g].output
    BY <1>1, <1>3 DEF Pending, Outputs
  <2>2. request[s].status # "VENDOR_RECEIVED" => Reported(groups'[g].output, groups'[g].cuts)
    BY <1>1, <1>3 DEF Pending
  <2> QED BY <1>3, <2>1, <2>2 DEF Pending
<1> HIDE DEF g
<1>5. ASSUME NEW h \in GroupIds
      PROVE  /\ groups'[h].cuts = groups[h].cuts
             /\ Reported(groups[h].output, groups[h].cuts) => Reported(groups'[h].output, groups'[h].cuts)
  <2>1. CASE h # g
    BY <1>1, <2>1
  <2>2. CASE h = g /\ request[s].status # "VENDOR_RECEIVED"
    BY <1>1, <1>4, <2>2
  <2>3. CASE h = g /\ request[s].status = "VENDOR_RECEIVED"
    BY <1>1, <1>4, <2>3
  <2> QED BY <2>1, <2>2, <2>3
<1>6. OutputFollowsCuts'
  <2>1. ASSUME NEW h \in GroupIds, groups'[h].status \in {"WORK_DONE", "SHIPPED"}
        PROVE  Reported(groups'[h].output, groups'[h].cuts)
    <3>1. CASE h = g
      BY <1>1, <1>4, <2>1, <3>1
    <3>2. CASE h # g
      <4>1. groups[h].status \in {"WORK_DONE", "SHIPPED"} /\ groups'[h] = groups[h]
        BY <1>1, <2>1, <3>2
      <4> QED BY <4>1, OutputsReported DEF OverlapInv
    <3> QED BY <3>1, <3>2
  <2> QED BY <1>1, <2>1, Zenon DEF OutputFollowsCuts, LotsOfGroup, Reported
<1>7. ASSUME NEW t \in VendorSessions, request'[t] # NoRequest
      PROVE  t # s /\ request'[t] = request[t]
  BY <1>1, <1>3, <1>7
<1>8. RequestInv'
  <2>1. ASSUME NEW t \in VendorSessions, request'[t] # NoRequest PROVE Pending(t)'
    <3> DEFINE x == request[t].group
    <3>1. request'[t] = request[t] /\ Pending(t)
      BY <1>7, <2>1 DEF OverlapInv, RequestInv
    <3>2. x \in GroupIds
      BY <3>1 DEF Pending
    <3> HIDE DEF x
    <3>3. groups[x].status \in Received => groups'[x].status \in Received
      BY <1>1, <1>4, <3>2
    <3>4. /\ x \in GroupIds'
          /\ groups[x].status \in Received =>
               /\ groups'[x].status \in Received
               /\ groups'[x].cuts = groups[x].cuts
               /\ Reported(groups[x].output, groups[x].cuts) => Reported(groups'[x].output, groups'[x].cuts)
      BY <1>1, <1>5, <3>2, <3>3
    <3> QED BY <3>1, <3>4, StaysPending DEF x
  <2> QED BY <1>1, <1>3, <2>1 DEF RequestInv
<1>9. ASSUME ShipmentsStand, ~StaleReceipt(s) PROVE ShipmentsStand'
  <2> SUFFICES ASSUME NEW t \in VendorSessions, request'[t] # NoRequest, request'[t].status = "SHIPPED"
               PROVE  groups'[request'[t].group].status \in {"WORK_DONE", "SHIPPED"}
    BY DEF ShipmentsStand
  <2>1. request'[t] = request[t] /\ request[t] # NoRequest
    BY <1>7
  <2>2. request[t].group \in GroupIds /\ groups[request[t].group].status \in {"WORK_DONE", "SHIPPED"}
    BY <1>9, <2>1 DEF ShipmentsStand, OverlapInv, RequestInv, Pending
  <2>3. CASE request[t].group # g
    BY <1>1, <2>1, <2>2, <2>3
  <2>4. CASE request[t].group = g
    <3>1. request[s].status \in {"WORK_DONE", "SHIPPED"}
      BY <1>4, <1>9, <2>2, <2>4 DEF StaleReceipt, Received, g
    <3> QED BY <1>1, <2>1, <2>4, <3>1
  <2> QED BY <2>3, <2>4
<1> QED BY <1>1, <1>2, <1>6, <1>8, <1>9 DEF OverlapInv

\* A write that is not stale is a step of the group's life, or none.
LEMMA WriteInLife ==
  ASSUME OverlapInv, ShipmentsStand, NEW s \in VendorSessions, Write(s), ~Stale(s)
  PROVE  [Life!Next]_Stage
<1> DEFINE g == request[s].group
           before == groups[g].status
           after == request[s].status
<1>1. /\ request[s] # NoRequest /\ g \in GroupIds /\ Len(groups') = Len(groups)
      /\ GroupInv' /\ GroupIds' = GroupIds /\ groups'[g].status = after
      /\ groups'[g].sheets = groups[g].sheets /\ groups'[g].cuts = groups[g].cuts
      /\ groups'[g].output \in Outputs(s)
      /\ \A h \in GroupIds \ {g} : groups'[h] = groups[h]
  BY WriteShape
<1>2. GroupInv /\ Pending(s)
  BY <1>1 DEF OverlapInv, RequestInv
<1>3. \/ before \in {"REGISTERED", "VENDOR_RECEIVED"} /\ after = "VENDOR_RECEIVED"
      \/ before \in {"VENDOR_RECEIVED", "WORK_DONE"} /\ after = "WORK_DONE"
      \/ before \in {"WORK_DONE", "SHIPPED"} /\ after = "SHIPPED"
  <2>1. CASE after = "VENDOR_RECEIVED"
    BY <2>1 DEF Stale, StaleReceipt
  <2>2. CASE after = "WORK_DONE"
    BY <1>2, <2>2 DEF Stale, StaleReport, Pending, Received
  <2>3. CASE after = "SHIPPED"
    BY <1>1, <2>3 DEF ShipmentsStand
  <2> QED BY <1>2, <2>1, <2>2, <2>3 DEF Pending, Received
<1>4. after = "WORK_DONE" => Reported(groups'[g].output, groups[g].cuts)
  BY <1>1, <1>2 DEF Pending
<1>5. after = "SHIPPED" => groups'[g].output = groups[g].output
  BY <1>1, <1>2 DEF Pending, Outputs
<1>6. groups[g].status = before
  OBVIOUS
<1> HIDE DEF g, before, after
<1>7. CASE before = after
  <2>1. \A h \in GroupIds : groups'[h].status = groups[h].status
    BY <1>1, <1>6, <1>7
  <2>2. Stage' = Stage
    BY <1>1, <2>1, Zenon DEF Stage
  <2> QED BY <2>2
<1>8. CASE before # after
  <2> DEFINE G == {g}
             m == <<before, after>>
  <2>1. G \in SUBSET GroupIds /\ m \in Life!Moves /\ m[1] = before /\ m[2] = after /\ before # "NONE"
    BY <1>1, <1>3, <1>8 DEF Life!Moves
  <2>2. \A x \in G :
          /\ groups[x].status = m[1] /\ groups'[x].status = m[2]
          /\ groups'[x].sheets = groups[x].sheets /\ groups'[x].cuts = groups[x].cuts
          /\ m[2] = "WORK_DONE" =>
               \E z \in Sheets : groups'[x].output = [l \in LotsOfGroup(x) |-> z * groups[x].cuts[l]]
          /\ m[2] = "SHIPPED" => groups'[x].output = groups[x].output
    <3>1. m[2] = "WORK_DONE" =>
            \E z \in Sheets : groups'[g].output = [l \in LotsOfGroup(g) |-> z * groups[g].cuts[l]]
      BY <1>4, <2>1, Zenon DEF Reported, LotsOfGroup
    <3> HIDE DEF m
    <3> QED BY <1>1, <1>5, <1>6, <2>1, <3>1
  <2>3. \A h \in GroupIds \ G : groups'[h] = groups[h]
    BY <1>1
  <2> HIDE DEF G, m
  <2>4. Moved
    BY <1>1, <2>1, <2>2, <2>3, Zenon DEF Moved
  <2> QED BY <1>1, <1>2, <2>4, LifeStep DEF StepOK
<1> QED BY <1>7, <1>8

\* The steps of OutsourceWork among them.
LEMMA OverlapStep ==
  ASSUME OverlapInv, [OverlapNext]_overlapVars
  PROVE  /\ OverlapInv' /\ [TermsKept]_vars
         /\ (ShipmentsStand /\ \A s \in VendorSessions : ~Stale(s)) =>
              ShipmentsStand' /\ [Life!Next]_Stage
<1>1. GroupInv
  BY DEF OverlapInv
<1>2. CASE [Next]_vars /\ UNCHANGED request
  <2>1. OverlapInv' /\ StepOK /\ (ShipmentsStand => ShipmentsStand')
    BY <1>2, NextKeepsRequests
  <2>2. TermsKept
    BY <2>1, TermsStep
  <2>3. [Life!Next]_Stage
    BY <1>1, <2>1, LifeStep
  <2> QED BY <2>1, <2>2, <2>3
<1>3. ASSUME NEW s \in VendorSessions, NEW g \in GroupIds, Reads(s, g)
      PROVE  /\ OverlapInv' /\ [TermsKept]_vars
             /\ ShipmentsStand => ShipmentsStand' /\ [Life!Next]_Stage
  <2>1. OverlapInv' /\ UNCHANGED vars /\ (ShipmentsStand => ShipmentsStand')
    BY <1>3, ReadKeepsRequests
  <2>2. UNCHANGED groups
    BY <2>1 DEF vars
  <2>3. UNCHANGED Stage
    BY <2>2 DEF Stage, GroupIds
  <2> QED BY <2>1, <2>3
<1>4. ASSUME NEW s \in VendorSessions, Write(s)
      PROVE  /\ OverlapInv' /\ TermsKept
             /\ ShipmentsStand /\ ~Stale(s) => ShipmentsStand' /\ [Life!Next]_Stage
  <2>1. OverlapInv' /\ (ShipmentsStand /\ ~Stale(s) => ShipmentsStand')
    BY <1>4, WriteKeepsRequests DEF Stale
  <2>2. TermsKept
    <3> DEFINE g == request[s].group
    <3>1. /\ g \in GroupIds /\ groups'[g].sheets = groups[g].sheets /\ groups'[g].cuts = groups[g].cuts
          /\ \A h \in GroupIds \ {g} : groups'[h] = groups[h]
      BY <1>4, WriteShape
    <3> HIDE DEF g
    <3> QED BY <3>1 DEF TermsKept, LotsOfGroup
  <2>3. ShipmentsStand /\ ~Stale(s) => [Life!Next]_Stage
    BY <1>4, WriteInLife
  <2> QED BY <2>1, <2>2, <2>3
<1>5. \/ [Next]_vars /\ UNCHANGED request
      \/ \E s \in VendorSessions : (\E g \in GroupIds : Reads(s, g)) \/ Write(s)
  BY Zenon DEF OverlapNext, overlapVars, Reads
<1> QED BY <1>2, <1>3, <1>4, <1>5

\* It holds in every reachable state.
LEMMA OverlapInvariant == OverlapSpec => []OverlapInv
<1>1. OverlapInit => OverlapInv
  <2> SUFFICES ASSUME OverlapInit PROVE OverlapInv
    OBVIOUS
  <2>1. Inv
    BY InitInv DEF OverlapInit
  <2>2. RequestInv
    BY DEF OverlapInit, RequestInv
  <2> QED BY <2>1, <2>2 DEF Inv, OverlapInv
<1>2. OverlapInv /\ [OverlapNext]_overlapVars => OverlapInv'
  BY OverlapStep
<1> QED BY <1>1, <1>2, PTL DEF OverlapSpec

\* What makes a group leave its promised life is a receipt that is written over
\* a report, a shipment or a withdrawal, or a report that is written over a
\* shipment, and nothing else: where none is, the vendor's requests may overlap
\* the planner's and each other as they like, two receipts, reports or shipments of
\* one group among them. Over a withdrawal no report is written: a group that was
\* received is not withdrawn any more.
THEOREM OnlyStaleWritesMislead ==
  OverlapSpec /\ [][\A s \in VendorSessions : ~Stale(s)]_overlapVars => GroupLife
<1>1. OverlapInit => Life!Init /\ ShipmentsStand
  <2> SUFFICES ASSUME OverlapInit PROVE Life!Init /\ ShipmentsStand
    OBVIOUS
  <2>1. GroupIds = {}
    BY DEF OverlapInit, Init, GroupIds
  <2>2. ShipmentsStand
    BY DEF OverlapInit, ShipmentsStand
  <2> QED BY <2>1, <2>2 DEF Life!Init, Stage
<1>2. ShipmentsStand /\ OverlapInv /\ [OverlapNext]_overlapVars
      /\ [\A s \in VendorSessions : ~Stale(s)]_overlapVars
      => ShipmentsStand' /\ [Life!Next]_Stage
  <2> SUFFICES ASSUME ShipmentsStand, OverlapInv, [OverlapNext]_overlapVars,
                      [\A s \in VendorSessions : ~Stale(s)]_overlapVars
               PROVE  ShipmentsStand' /\ [Life!Next]_Stage
    OBVIOUS
  <2>1. CASE UNCHANGED overlapVars
    <3>1. UNCHANGED <<groups, request>>
      BY <2>1 DEF overlapVars, vars
    <3>2. ShipmentsStand'
      BY <3>1 DEF ShipmentsStand
    <3>3. UNCHANGED Stage
      BY <3>1 DEF Stage, GroupIds
    <3> QED BY <3>2, <3>3
  <2>2. CASE \A s \in VendorSessions : ~Stale(s)
    BY <2>2, OverlapStep
  <2> QED BY <2>1, <2>2
<1> QED BY OverlapInvariant, <1>1, <1>2, PTL DEF OverlapSpec, GroupLife, Life!Spec

\* Whatever the vendor's requests overwrite, the terms of an ordered group and
\* the LOTs of every group stay as they are.
THEOREM OverlapKeepsTerms == OverlapSpec => OrderedTermsKept
<1>1. OverlapInv /\ [OverlapNext]_overlapVars => [TermsKept]_vars
  BY OverlapStep
<1>2. [][TermsKept]_vars => OrderedTermsKept
  BY PTL DEF OrderedTermsKept, TermsKept
<1> QED BY OverlapInvariant, <1>1, <1>2, PTL DEF OverlapSpec

\* And the output of every group that counts as worked or shipped is sheets times
\* its cuts, also of one that a stale receipt set back and a shipment in flight
\* ships before it is reported again, or that a stale report set back with the
\* sheets of another report.
THEOREM OverlapOutputCorrect == OverlapSpec => []OutputFollowsCuts
<1>1. OverlapInv => OutputFollowsCuts
  BY DEF OverlapInv
<1> QED BY OverlapInvariant, <1>1, PTL
=============================================================================
