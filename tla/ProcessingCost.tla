--------------------------- MODULE ProcessingCost ---------------------------
(***************************************************************************)
(* Settlement of what outside vendors charge: a cost group collects work   *)
(* groups, its standard and its actual amount are shared among their LOTs  *)
(* by area, and it is closed for the month.                                *)
(*                                                                         *)
(* A request reads the rows it is about without locking them and writes,   *)
(* when it commits, the columns it has changed.  With one session the two  *)
(* steps are one request after the other; with more, they interleave.      *)
(***************************************************************************)
EXTENDS Integers, Sequences, FiniteSets, FiniteSetsExt, Functions

CONSTANTS
  CostSessions,
  WorkGroups,       \* the outsourced work there is
  GroupProcess,     \* the process each work group was instructed for
  Areas,            \* the areas to be worked of each work group, LOT by LOT
  CostProcesses,    \* the cost categories
  Months,           \* settlement months
  Amounts,          \* amounts a user enters, in parts of the money unit
  UnitParts,        \* parts of a unit the amount column holds
  NoAmount, NoRequest,
  MaxCosts          \* bound of the model

\* A work group is instructed with its LOTs, which it keeps.
ASSUME CostAssumption ==
  /\ IsFiniteSet(WorkGroups) /\ WorkGroups \subseteq Nat
  /\ \A g \in WorkGroups : /\ DOMAIN Areas[g] \subseteq Nat /\ IsFiniteSet(DOMAIN Areas[g])
                           /\ DOMAIN Areas[g] # {} /\ Areas[g] \in [DOMAIN Areas[g] -> Nat]
  /\ Amounts \subseteq Nat /\ NoAmount \notin Int
  /\ UnitParts \in Nat \ {0}

VARIABLES
  costs,     \* cost groups in the order of their ids
  request    \* what each session has read and is going to write

costVars == <<costs, request>>

Kinds == {"standard", "actual"}
CostIds == DOMAIN costs
------------------------------------------------------------------------------
(* Sharing an amount.                                                      *)

\* The LOTs of work groups, each with its place in its group.
Items(T) == UNION {{g} \X DOMAIN Areas[g] : g \in T}

AreaOf(item) == Areas[item[1]][item[2]]

\* Half up, to whole units.
Units(amount) == (2 * amount + UnitParts) \div (2 * UnitParts)

Total(items) == SumFunctionOnSet([x \in items |-> AreaOf(x)], items)

RoundedShare(units, item, items) ==
  (2 * units * AreaOf(item) + Total(items)) \div (2 * Total(items))

\* Mutant: the last LOT is rounded like the others.
ShareRoundingAll(amount, items, last) ==
  IF amount = NoAmount THEN [x \in items |-> NoAmount]
  ELSE [x \in items |-> RoundedShare(Units(amount), x, items)]

\* All but the last LOT get their rounded part, the last one what is left: it
\* may be less than nothing, which the table refuses.
Share(amount, items, last) ==
  IF amount = NoAmount THEN [x \in items |-> NoAmount]
  ELSE LET others == [x \in items |-> IF x = last THEN 0 ELSE RoundedShare(Units(amount), x, items)]
       IN  [others EXCEPT ![last] = Units(amount) - SumFunctionOnSet(others, items)]

Shared(amounts, items, last) == [k \in Kinds |-> Share(amounts[k], items, last)]

NotNegative(share) == \A k \in Kinds : \A x \in DOMAIN share[k] : share[k][x] = NoAmount \/ share[k][x] >= 0
------------------------------------------------------------------------------
CostInit ==
  /\ costs = <<>>
  /\ request = [s \in CostSessions |-> NoRequest]

\* What a request has read, and what it will have made of it; cost 0 is new.
Ask(s, c, seen, wanted) ==
  /\ request[s] = NoRequest
  /\ request' = [request EXCEPT ![s] = [cost |-> c, seen |-> seen, wanted |-> wanted]]
  /\ UNCHANGED costs

\* Mutant: closed cost groups do not count.
ActiveUnlessClosed(c) == costs[c].status = "DRAFT"

Active(c) == costs[c].status \in {"DRAFT", "CLOSED"}

Registered(p, g) == \E c \in CostIds : Active(c) /\ costs[c].process = p /\ g \in costs[c].targets

\* Printing is charged for printed work only, cutting and die-cutting for any.
Chargeable(p, g) == p = "PRINT" => GroupProcess[g] = "PRINT"

\* Numbers count the cost groups of the process and the month.
NextNumber(p, m) == Cardinality({c \in CostIds : costs[c].process = p /\ costs[c].month = m}) + 1

CreateCost(s, p, m, T, amounts) ==
  LET items == Items(T)
      lastGroup == Max({x[1] : x \in items})
      last == <<lastGroup, Max(DOMAIN Areas[lastGroup])>>
  IN  /\ items # {}
      /\ \A g \in T : Chargeable(p, g) /\ ~Registered(p, g)
      /\ \A x \in items : AreaOf(x) > 0
      /\ Ask(s, 0, {}, [process |-> p, month |-> m, number |-> NextNumber(p, m), status |-> "DRAFT",
                        amounts |-> amounts, targets |-> T, share |-> Shared(amounts, items, last)])

Editable(c) == costs[c].status \notin {"CLOSED", "CANCELED"}

\* The areas are those of the day of the creation; in which order the rows are
\* read again, and so which of them is the last, is left to the database.
UpdateCost(s, c, amounts) ==
  /\ Editable(c)
  /\ \E last \in Items(costs[c].targets) :
       Ask(s, c, costs[c], [costs[c] EXCEPT !.amounts = amounts,
                                            !.share = Shared(amounts, Items(costs[c].targets), last)])

CloseCost(s, c) ==
  /\ costs[c].status # "CANCELED"
  /\ costs[c].amounts["actual"] # NoAmount
  /\ Ask(s, c, costs[c], [costs[c] EXCEPT !.status = "CLOSED"])

ReopenCost(s, c) ==
  /\ costs[c].status = "CLOSED"
  /\ Ask(s, c, costs[c], [costs[c] EXCEPT !.status = "DRAFT"])

CancelCost(s, c) == Ask(s, c, costs[c], [costs[c] EXCEPT !.status = "CANCELED"])

\* A column that the request did not change keeps what it holds by now.
Written(seen, wanted, now) == IF wanted # seen THEN wanted ELSE now

Merged(r, now) ==
  [now EXCEPT
     !.status = Written(r.seen.status, r.wanted.status, now.status),
     !.amounts = [k \in Kinds |-> Written(r.seen.amounts[k], r.wanted.amounts[k], now.amounts[k])],
     !.share = [k \in Kinds |-> [x \in DOMAIN now.share[k] |->
                  Written(r.seen.share[k][x], r.wanted.share[k][x], now.share[k][x])]]]

NumberFree(row) ==
  \A c \in CostIds : <<costs[c].process, costs[c].month, costs[c].number>>
                       # <<row.process, row.month, row.number>>

\* The tables refuse a negative share and a number that is taken.
CommitCost(s) ==
  LET r == request[s] IN
  /\ r # NoRequest
  /\ request' = [request EXCEPT ![s] = NoRequest]
  /\ CASE ~NotNegative(r.wanted.share) -> UNCHANGED costs
       [] NotNegative(r.wanted.share) /\ r.cost = 0 ->
            costs' = IF NumberFree(r.wanted) THEN Append(costs, r.wanted) ELSE costs
       [] OTHER -> costs' = [costs EXCEPT ![r.cost] = Merged(r, @)]

CostNext ==
  \E s \in CostSessions :
    \/ \E p \in CostProcesses, m \in Months, T \in SUBSET WorkGroups, a \in [Kinds -> Amounts \cup {NoAmount}] :
         Len(costs) < MaxCosts /\ CreateCost(s, p, m, T, a)
    \/ \E c \in CostIds, a \in [Kinds -> Amounts \cup {NoAmount}] : UpdateCost(s, c, a)
    \/ \E c \in CostIds : CloseCost(s, c) \/ ReopenCost(s, c) \/ CancelCost(s, c)
    \/ CommitCost(s)

CostSpec == CostInit /\ [][CostNext]_costVars
------------------------------------------------------------------------------
(* The two lists: of work groups to be charged, and of what was charged.   *)

\* The youngest cost group of the process; canceled ones only when asked for.
ShownCost(p, g, canceled) ==
  LET of == {c \in CostIds : costs[c].process = p /\ g \in costs[c].targets
                             /\ (canceled \/ costs[c].status # "CANCELED")}
  IN  IF of = {} THEN 0 ELSE Max(of)

Given(amount) == IF amount = NoAmount THEN 0 ELSE amount

\* What the list shows of a work group: the part of the cost group shown.
ShownAmount(kind, p, g) ==
  LET c == ShownCost(p, g, FALSE)
  IN  IF c = 0 THEN 0 ELSE SumFunctionOnSet([x \in Items({g}) |-> Given(costs[c].share[kind][x])], Items({g}))

\* Drafts whose actual amount is not the standard one.
HasVariance(c) ==
  /\ costs[c].status = "DRAFT"
  /\ \A k \in Kinds : costs[c].amounts[k] # NoAmount
  /\ costs[c].amounts["actual"] # costs[c].amounts["standard"]

TargetStatuses == {"UNREGISTERED", "DRAFT", "CLOSED", "CANCELED", "COST_VARIANCE"}

MatchesTargetStatus(c, status) ==
  CASE status = "UNREGISTERED" -> c = 0
    [] status = "COST_VARIANCE" -> c # 0 /\ HasVariance(c)
    [] OTHER -> c # 0 /\ costs[c].status = status

\* The work groups listed for a process under a status.
ListTargets(p, status) ==
  {g \in WorkGroups : /\ Chargeable(p, g)
                      /\ DOMAIN Areas[g] # {}
                      /\ MatchesTargetStatus(ShownCost(p, g, status = "CANCELED"), status)}

\* The cost groups listed for a process: canceled ones only when asked for.
ListCosts(p, status) ==
  {c \in CostIds : /\ costs[c].process = p
                   /\ CASE status = "COST_VARIANCE" -> HasVariance(c)
                        [] status \in {"DRAFT", "CLOSED", "CANCELED"} -> costs[c].status = status
                        [] OTHER -> costs[c].status # "CANCELED"}
------------------------------------------------------------------------------
(* Properties.                                                             *)

CostTypeOK ==
  \A c \in CostIds :
    /\ costs[c].process \in CostProcesses
    /\ costs[c].status \in {"DRAFT", "CLOSED", "CANCELED"}
    /\ costs[c].targets \subseteq WorkGroups
    /\ \A k \in Kinds : /\ costs[c].amounts[k] \in Amounts \cup {NoAmount}
                        /\ DOMAIN costs[c].share[k] = Items(costs[c].targets)

\* Not a unit of an amount is lost or charged twice: the shares of the LOTs add
\* up to it, rounded to units, through every edit; no share is negative.
SharesAddUp ==
  \A c \in CostIds, k \in Kinds :
    LET items == Items(costs[c].targets) IN
    IF costs[c].amounts[k] = NoAmount
    THEN \A x \in items : costs[c].share[k][x] = NoAmount
    ELSE /\ \A x \in items : costs[c].share[k][x] >= 0
         /\ SumFunctionOnSet(costs[c].share[k], items) = Units(costs[c].amounts[k])

\* A vendor's work is charged once.  For every process and every filter the two
\* lists show the same money, work group by work group and cost group by cost
\* group, and the work groups offered as unregistered are those of no list.
ChargedOnce ==
  \A p \in CostProcesses :
    /\ \A status \in {"DRAFT", "CLOSED", "COST_VARIANCE"} :
         LET targets == ListTargets(p, status)
             listed == ListCosts(p, status)
         IN  /\ targets = UNION {costs[c].targets : c \in listed}
             /\ \A k \in Kinds :
                  SumFunctionOnSet([g \in targets |-> ShownAmount(k, p, g)], targets) =
                  SumFunctionOnSet([c \in listed |-> IF costs[c].amounts[k] = NoAmount THEN 0
                                                     ELSE Units(costs[c].amounts[k])], listed)
    /\ \A g \in ListTargets(p, "UNREGISTERED") : ~Registered(p, g)
=============================================================================
