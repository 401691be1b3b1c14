----------------------- MODULE ConcurrentOrders_proofs -----------------------
(***************************************************************************)
(* What overlapping requests keep, for any number of sessions, order lines *)
(* and inventory lots: the books of the stock, the promises of the plans,  *)
(* the settled shipment lines, and the lock order.                         *)
(***************************************************************************)
EXTENDS ConcurrentOrders, SumLemmas, FunctionTheorems, SequenceTheorems
-----------------------------------------------------------------------------
(* The inductive invariant: what each session has read, locked and may go  *)
(* on to do, and what the rows say as long as nobody else may write them.  *)

LotRows == [order: OrderLines, qty: Nat \ {0}]
LineRows == [order: OrderLines, lot: StockLots, qty: Nat \ {0},
             status: {"WAITING", "DONE", "CANCELED"}]
Plans == [type: PlanTypes \cup {"NONE"}, stock: Nat, production: Nat]

Lockable == ({"lot_no", "order_line", "shipment_line", "product_inventory"} \X Nat)
              \cup ({"product_inventory_lot"} \X StockLots)
LockRows == [row: Lockable, mode: {"keyshare", "nokey", "update"}]

Statements ==
  {"idle", "inventory", "reserved", "shipped", "existing", "stock", "allocate", "confirm",
   "read_stock", "history", "commit_plan", "lots", "plan", "create", "insert", "commit_lot",
   "remaining", "commit_status", "edit", "void", "resize", "lines", "count", "commit_shipment",
   "increase", "decrease", "take", "commit_adjust"}

Working == [pc: Statements, req: RequestKinds \cup {"none"}, order: OrderLines \cup {0}, type: PlanTypes \cup {"none"},
            qty: Nat, row: OrderRows \cup {NoRow}, free: Int, plan: Plans,
            queue: Seq(StockLots), ids: SUBSET Nat, take: [StockLots -> Int], seen: Int,
            seenLots: [StockLots -> Int], number: Nat, tries: Nat]

\* The statements of each kind of request.
Path(req) ==
  CASE req = "none"        -> {"idle"}
    [] req = "plan"        -> {"inventory", "reserved", "shipped", "existing", "stock", "allocate",
                               "confirm", "read_stock", "history", "commit_plan", "create",
                               "insert", "commit_lot"}
    [] req = "base_lot"    -> {"lots", "plan", "create", "insert", "commit_lot"}
    [] req = "cancel"      -> {"lots", "commit_status"}
    [] req = "short_close" -> {"remaining", "commit_status"}
    [] req = "change"      -> {"edit", "void", "resize"}
    [] req = "ship"        -> {"lines", "count", "read_stock", "commit_shipment"}
    [] req = "increase"    -> {"increase", "commit_adjust"}
    [] req = "decrease"    -> {"decrease", "take", "commit_adjust"}
    [] OTHER               -> {}

Update(row) == [row |-> row, mode |-> "update"]
All(held, want) == held \cup Range(want)

ShipTypes == {"STOCK_SHIP_COMPLETE", "AUTO_STOCK_SHIP", "PARTIAL_STOCK_ONLY_CLOSE"}
StockTypes == ShipTypes \cup {"PARTIAL_STOCK_PLUS_PRODUCTION"}

SessionTyped(x, held, want) ==
  /\ x \in Working
  /\ held \in SUBSET LockRows
  /\ want \in Seq(LockRows)
  /\ x.pc \in Path(x.req)
  /\ x.req = "none" => x = Idle /\ held = {} /\ want = <<>>
  /\ x.req \in {"plan", "base_lot", "cancel", "short_close", "change"} => x.order \in OrderLines

\* What a plan confirmation and a base LOT have worked out so far.
PlanMade(x) ==
  /\ x.req = "plan" => x.type \in PlanTypes /\ x.row \in OrderRows /\ x.row.qty > 0
  /\ x.pc \in {"shipped", "existing", "stock", "allocate"} => x.free >= 0
  /\ x.pc = "shipped" => x.type # "STOCK_REPLENISHMENT"
  /\ x.pc \in {"existing", "stock", "allocate", "confirm", "history", "commit_plan"}
       => x.plan.type = x.type
  /\ x.pc = "read_stock" /\ x.req = "plan" => x.plan.type = x.type
  /\ x.pc \in {"existing", "stock", "allocate"} => x.type \in StockTypes
  /\ x.pc = "confirm" => x.type \in ShipTypes
  /\ x.pc = "read_stock" /\ x.req = "plan" => x.type \in ShipTypes
  /\ x.pc = "history" /\ x.type = "STOCK_REPLENISHMENT" => x.qty > 0
  /\ x.pc \in {"create", "insert", "commit_lot"} => x.qty > 0
  /\ x.req = "change" => x.qty > 0

\* The order in which the requests other than plan confirmations lock rows.
Level(row) ==
  CASE row[1] = "lot_no"                -> 1
    [] row[1] = "order_line"            -> 2
    [] row[1] = "shipment_line"         -> 3
    [] row[1] = "product_inventory"     -> 4
    [] row[1] = "product_inventory_lot" -> 5

Before(h, w) ==
  \/ Level(h.row) < Level(w.row)
  \/ Level(h.row) = 5 /\ Level(w.row) = 5
  \/ Level(h.row) = Level(w.row) /\ Level(h.row) \in {2, 3} /\ h.row[2] < w.row[2]
  \/ h.row = w.row /\ Level(h.row) = 2 /\ h.mode = "keyshare" /\ w.mode = "nokey"

InOrder(held, want) ==
  /\ \A h \in held : \A i \in DOMAIN want : Before(h, want[i])
  /\ \A i, j \in DOMAIN want : i < j => Before(want[i], want[j])
  /\ \A h \in All(held, want) : Level(h.row) = 5 => Update(Inventory) \in All(held, want)

\* How far in that order a request has come.
Reach(pc) ==
  CASE pc \in {"idle", "lots", "plan", "create", "remaining"}  -> 0
    [] pc = "insert"                                           -> 1
    [] pc \in {"commit_lot", "commit_status", "edit", "lines"} -> 2
    [] pc \in {"void", "resize", "count"}                      -> 3
    [] pc = "decrease"                                         -> 4
    [] OTHER                                                   -> 5

Orderly(x, held, want) ==
  x.req # "plan" =>
    /\ InOrder(held, want)
    /\ \A h \in All(held, want) : Level(h.row) <= Reach(x.pc)
    /\ x.pc = "insert" => \A h \in All(held, want) : h.row = LotNo(x.number)

\* From its read of the stock to its end a request holds the product.
StockRead(x) ==
  \/ x.pc \in {"commit_shipment", "commit_adjust"}
  \/ x.pc \in {"history", "commit_plan"} /\ x.plan.type \in ShipTypes

StockHeld(x, held, want) ==
  /\ x.pc \in {"read_stock", "increase", "decrease"} => Update(Inventory) \in All(held, want)
  /\ x.pc = "take" \/ StockRead(x) => Update(Inventory) \in held /\ x.seen = inventory
  /\ StockRead(x) => x.seenLots = lotQty /\ \A l \in StockLots : x.take[l] <= lotQty[l]

\* A shipment and a quantity change hold the lines that they will change.
LinesHeld(x, held, want) ==
  /\ x.req = "ship" \/ x.pc = "void" => x.ids \subseteq DOMAIN lines
  /\ x.pc = "count" => \A i \in x.ids :
       lines[i].status = "WAITING" => Update(Line(i)) \in All(held, want)
  /\ x.pc = "void" => \A i \in x.ids : Update(Line(i)) \in All(held, want)
  /\ x.req = "ship" /\ x.pc \in {"read_stock", "commit_shipment"} =>
       /\ \A i \in x.ids : lines[i].status = "WAITING" /\ Update(Line(i)) \in held
       /\ x.take = TakenBy(x.ids)

\* What a plan takes from a lot is neither reserved nor gone when it commits.
LotsHeld(x, held, want) ==
  /\ x.pc \in {"allocate", "take"} =>
       \A l \in Range(x.queue) : Update(Stock(l)) \in All(held, want)
  /\ x.req \in {"plan", "increase", "decrease"} =>
       \A l \in StockLots : x.take[l] > 0 => Update(Stock(l)) \in held
  /\ x.req = "increase" => \A l \in StockLots : x.take[l] <= 0
  /\ x.req = "plan" => \A l \in StockLots :
       /\ x.take[l] >= 0
       /\ x.take[l] > 0 => WaitingOn(l) + x.take[l] <= lotQty[l]

SessionOK(x, held, want) ==
  /\ SessionTyped(x, held, want)
  /\ PlanMade(x)
  /\ Orderly(x, held, want)
  /\ StockHeld(x, held, want)
  /\ LinesHeld(x, held, want)
  /\ LotsHeld(x, held, want)

RowsTyped ==
  /\ orders \in [OrderLines -> OrderRows]
  /\ \A o \in OrderLines : orders[o].qty > 0
  /\ lots \in Seq(LotRows)
  /\ lines \in Seq(LineRows)
  /\ lotQty \in [StockLots -> Nat]
  /\ manual \in [StockLots -> Int]
  /\ inventory \in Int

LocksCompatible ==
  \A s, t \in Sessions : s # t =>
    \A h \in locks[s], k \in locks[t] : h.row = k.row => Compatible(h.mode, k.mode)

SessionsOK ==
  /\ sess \in [Sessions -> Working]
  /\ locks \in [Sessions -> SUBSET LockRows]
  /\ todo \in [Sessions -> Seq(LockRows)]
  /\ \A s \in Sessions : SessionOK(sess[s], locks[s], todo[s])

OrdersInv ==
  /\ RowsTyped
  /\ BooksAgree
  /\ LocksCompatible
  /\ SessionsOK
  /\ left \in 0..MaxRequests
-----------------------------------------------------------------------------
(* Sets of numbers in order.                                               *)

\* A finite set of numbers can be counted upwards.
LEMMA AscendingExists ==
  ASSUME NEW S \in SUBSET Nat, IsFiniteSet(S)
  PROVE  \E q \in [1..Cardinality(S) -> S] :
           \A i, j \in 1..Cardinality(S) : i < j => q[i] < q[j]
<1> DEFINE Counted(n, T) == \E q \in [1..n -> T] : \A i, j \in 1..n : i < j => q[i] < q[j]
           P == {n \in Nat : \A T \in SUBSET S : Cardinality(T) = n => Counted(n, T)}
<1>1. \A T \in SUBSET S : IsFiniteSet(T) /\ Cardinality(T) \in Nat
  BY FS_Subset, FS_CardinalityType
<1>2. 0 \in P
  <2>1. ASSUME NEW T \in SUBSET S, Cardinality(T) = 0 PROVE Counted(0, T)
    <3>1. [i \in 1..0 |-> 0] \in [1..0 -> T]
      OBVIOUS
    <3>2. \A i, j \in 1..0 : i < j => [k \in 1..0 |-> 0][i] < [k \in 1..0 |-> 0][j]
      OBVIOUS
    <3> QED BY <3>1, <3>2
  <2> QED BY <2>1
<1>3. ASSUME NEW n \in P PROVE n + 1 \in P
  <2>1. n \in Nat /\ n + 1 \in Nat
    OBVIOUS
  <2>2. ASSUME NEW T \in SUBSET S, Cardinality(T) = n + 1 PROVE Counted(n + 1, T)
    <3>1. T # {}
      BY <1>1, <2>1, <2>2, FS_EmptySet
    <3>2. PICK m \in T : \A x \in T : m >= x
      BY <1>1, <3>1, GreatestNat
    <3>3. Cardinality(T \ {m}) = n
      BY <1>1, <2>1, <2>2, FS_RemoveElement
    <3>4. PICK q \in [1..n -> T \ {m}] : \A i, j \in 1..n : i < j => q[i] < q[j]
      BY <3>3
    <3> DEFINE r == [i \in 1..(n + 1) |-> IF i = n + 1 THEN m ELSE q[i]]
    <3>5. \A i \in 1..(n + 1) : i # n + 1 => i \in 1..n
      BY <2>1
    <3>6. r \in [1..(n + 1) -> T]
      BY <3>5
    <3>7. ASSUME NEW i \in 1..(n + 1), NEW j \in 1..(n + 1), i < j PROVE r[i] < r[j]
      <4>1. i \in 1..n
        BY <2>1, <3>7
      <4>2. q[i] \in T /\ q[i] # m /\ q[i] \in Nat /\ m \in Nat /\ m >= q[i]
        BY <3>2, <4>1
      <4>3. CASE j = n + 1
        BY <4>1, <4>2, <4>3, <2>1
      <4>4. CASE j # n + 1
        BY <3>4, <3>5, <3>7, <4>1, <4>4
      <4> QED BY <4>3, <4>4
    <3> HIDE DEF r
    <3> QED BY <3>6, <3>7
  <2> QED BY <2>1, <2>2
<1>4. P = Nat
  <2> HIDE DEF P
  <2>1. P \in SUBSET Nat
    BY DEF P
  <2> QED BY <1>2, <1>3, <2>1, NatSet
<1> QED BY <1>1, <1>4

\* What Ascending makes of a set of numbers: each of them once, in order.
LEMMA AscendingType ==
  ASSUME NEW S \in SUBSET Nat, IsFiniteSet(S)
  PROVE  /\ Cardinality(S) \in Nat
         /\ Ascending(S) \in [1..Cardinality(S) -> S]
         /\ Ascending(S) \in Seq(S)
         /\ DOMAIN Ascending(S) = 1..Cardinality(S)
         /\ \A i, j \in DOMAIN Ascending(S) : i < j => Ascending(S)[i] < Ascending(S)[j]
         /\ \A x \in S : \E i \in DOMAIN Ascending(S) : Ascending(S)[i] = x
<1> DEFINE n == Cardinality(S)
           q == Ascending(S)
<1>1. n \in Nat
  BY FS_CardinalityType
<1>2. q \in [1..n -> S] /\ \A i, j \in 1..n : i < j => q[i] < q[j]
  BY AscendingExists DEF Ascending
<1> HIDE DEF q
<1>3. \A i, j \in 1..n : q[i] = q[j] => i = j
  <2> SUFFICES ASSUME NEW i \in 1..n, NEW j \in 1..n, q[i] = q[j], i # j PROVE FALSE
    OBVIOUS
  <2>1. q[i] \in Nat /\ q[j] \in Nat
    BY <1>2
  <2> QED BY <1>1, <1>2, <2>1
<1>4. q \in Injection(1..n, S)
  BY <1>2, <1>3, Fun_IsInj
<1>5. Cardinality(1..n) = n
  BY <1>1, FS_Interval
<1>6. q \in Surjection(1..n, S)
  BY <1>4, <1>5, FS_Injection
<1>7. \A x \in S : \E i \in 1..n : q[i] = x
  BY <1>6 DEF Surjection
<1> QED BY <1>1, <1>2, <1>7 DEF q

\* ByAge lists lots of a set, each of them once.
LEMMA ByAgeType ==
  ASSUME NEW S \in SUBSET StockLots
  PROVE  /\ ByAge(S) \in Seq(S)
         /\ \A i, j \in DOMAIN ByAge(S) : ByAge(S)[i] = ByAge(S)[j] => i = j
         /\ \A l \in S : \E i \in DOMAIN ByAge(S) : ByAge(S)[i] = l
<1> DEFINE I == {i \in DOMAIN LotsByAge : LotsByAge[i] \in S}
           at == Ascending(I)
<1>1. LotsByAge \in Seq(StockLots)
  BY ConcurrentOrdersAssumption DEF StockLots
<1>2. DOMAIN LotsByAge = 1..Len(LotsByAge) /\ Len(LotsByAge) \in Nat
  BY <1>1
<1>3. I \in SUBSET Nat /\ IsFiniteSet(I)
  <2>1. IsFiniteSet(1..Len(LotsByAge))
    BY <1>2, FS_Interval
  <2>2. I \in SUBSET (1..Len(LotsByAge))
    BY <1>2
  <2> HIDE DEF I
  <2>3. I \in SUBSET Nat
    BY <1>2, <2>2
  <2> QED BY <2>1, <2>2, <2>3, FS_Subset
<1> HIDE DEF I
<1>4. /\ Cardinality(I) \in Nat /\ at \in [1..Cardinality(I) -> I]
      /\ DOMAIN at = 1..Cardinality(I)
      /\ \A i, j \in DOMAIN at : i < j => at[i] < at[j]
      /\ \A x \in I : \E i \in DOMAIN at : at[i] = x
  BY <1>3, AscendingType
<1> HIDE DEF at
<1>5. ByAge(S) = [k \in 1..Cardinality(I) |-> LotsByAge[at[k]]]
  BY <1>4 DEF ByAge, at, I
<1>6. \A k \in 1..Cardinality(I) : at[k] \in I /\ LotsByAge[at[k]] \in S /\ at[k] \in Nat
  BY <1>4, <1>3 DEF I
<1>7. ByAge(S) \in Seq(S) /\ DOMAIN ByAge(S) = 1..Cardinality(I)
  BY <1>4, <1>5, <1>6
<1>8. ASSUME NEW i \in DOMAIN ByAge(S), NEW j \in DOMAIN ByAge(S), ByAge(S)[i] = ByAge(S)[j]
      PROVE  i = j
  <2>1. LotsByAge[at[i]] = LotsByAge[at[j]] /\ at[i] \in DOMAIN LotsByAge /\ at[j] \in DOMAIN LotsByAge
    BY <1>5, <1>6, <1>7, <1>8 DEF I
  <2>2. at[i] = at[j]
    BY <2>1, ConcurrentOrdersAssumption
  <2>3. ~(at[i] < at[j]) /\ ~(at[j] < at[i])
    BY <1>6, <1>7, <2>2
  <2> QED BY <1>4, <1>7, <2>3
<1>9. ASSUME NEW l \in S PROVE \E i \in DOMAIN ByAge(S) : ByAge(S)[i] = l
  <2>1. PICK k \in DOMAIN LotsByAge : LotsByAge[k] = l
    BY DEF StockLots, Range
  <2>2. k \in I
    BY <2>1 DEF I
  <2> QED BY <1>4, <1>5, <1>7, <2>1, <2>2
<1> QED BY <1>7, <1>8, <1>9

LEMMA LotsFinite == IsFiniteSet(StockLots)
<1>1. LotsByAge \in Seq(StockLots)
  BY ConcurrentOrdersAssumption DEF StockLots
<1>2. DOMAIN LotsByAge = 1..Len(LotsByAge) /\ Len(LotsByAge) \in Nat
  BY <1>1
<1>3. LotsByAge \in Surjection(DOMAIN LotsByAge, StockLots)
  BY <1>1, <1>2, Fun_IsSurj DEF StockLots, Range
<1> QED BY <1>2, <1>3, FS_Surjection, FS_Interval
-----------------------------------------------------------------------------
(* The steps that leave the rows alone.                                    *)

LEMMA IdleTyped == SessionTyped(Idle, {}, <<>>) /\ PlanMade(Idle) /\ Orderly(Idle, {}, <<>>)
<1>1. Idle \in Working
  <2>1. NoPlan \in Plans
    BY DEF NoPlan, Plans
  <2>2. Nothing \in [StockLots -> Int]
    BY DEF Nothing
  <2>3. <<>> \in Seq(StockLots)
    OBVIOUS
  <2>4. 0 \in Nat /\ 0 \in Int /\ 0 \in OrderLines \cup {0} /\ {} \in SUBSET Nat
    OBVIOUS
  <2>5. /\ "none" \in PlanTypes \cup {"none"} /\ NoRow \in OrderRows \cup {NoRow}
        /\ "idle" \in Statements /\ "none" \in RequestKinds \cup {"none"}
    BY DEF Statements
  <2> QED BY <2>1, <2>2, <2>3, <2>4, <2>5, Zenon DEF Idle, Working
<1>2. Idle.pc = "idle" /\ Idle.req = "none" /\ Idle.pc \in Path(Idle.req)
  BY DEF Idle, Path
<1>3. SessionTyped(Idle, {}, <<>>)
  <2>1. <<>> \in Seq(LockRows) /\ {} \in SUBSET LockRows
    OBVIOUS
  <2> QED BY <1>1, <1>2, <2>1 DEF SessionTyped, RequestKinds
<1>4. PlanMade(Idle)
  BY <1>2 DEF PlanMade
<1>5. Orderly(Idle, {}, <<>>)
  <2>1. All({}, <<>>) = {} /\ DOMAIN <<>> = {}
    BY DEF All, Range
  <2> QED BY <1>2, <2>1 DEF Orderly, InOrder
<1> QED BY <1>3, <1>4, <1>5

\* A session without a request claims nothing about the rows.
LEMMA IdleOK == SessionOK(Idle, {}, <<>>)
<1>1. Idle.pc = "idle" /\ Idle.req = "none"
  BY DEF Idle
<1>2. StockHeld(Idle, {}, <<>>) /\ LinesHeld(Idle, {}, <<>>) /\ LotsHeld(Idle, {}, <<>>)
  BY <1>1 DEF StockHeld, StockRead, LinesHeld, LotsHeld
<1> QED BY <1>2, IdleTyped DEF SessionOK

LEMMA IdleOKNext == SessionOK(Idle, {}, <<>>)'
<1>1. Idle.pc = "idle" /\ Idle.req = "none"
  BY DEF Idle
<1>2. StockHeld(Idle, {}, <<>>)' /\ LinesHeld(Idle, {}, <<>>)' /\ LotsHeld(Idle, {}, <<>>)'
  BY <1>1 DEF StockHeld, StockRead, LinesHeld, LotsHeld
<1>3. SessionTyped(Idle, {}, <<>>)' /\ PlanMade(Idle)' /\ Orderly(Idle, {}, <<>>)'
  BY IdleTyped
<1> QED BY <1>2, <1>3 DEF SessionOK

\* What a session relies on holds as long as it and the rows stay as they are.
LEMMA SessionKept ==
  ASSUME NEW s \in Sessions, NEW x, NEW held, NEW want, SessionOK(x, held, want),
         sess'[s] = x, locks'[s] = held, todo'[s] = want, UNCHANGED tables
  PROVE  SessionOK(sess[s], locks[s], todo[s])'
<1>1. /\ SessionTyped(sess[s], locks[s], todo[s])' /\ PlanMade(sess[s])'
      /\ Orderly(sess[s], locks[s], todo[s])'
  BY DEF SessionOK
<1>2. StockHeld(sess[s], locks[s], todo[s])'
  BY DEF SessionOK, StockHeld, tables
<1>3. LinesHeld(sess[s], locks[s], todo[s])'
  BY DEF SessionOK, LinesHeld, TakenBy, LineQtys, tables
<1>4. LotsHeld(sess[s], locks[s], todo[s])'
  BY DEF SessionOK, LotsHeld, WaitingOn, LineQtys, tables
<1> QED BY <1>1, <1>2, <1>3, <1>4 DEF SessionOK

LEMMA RowsKept ==
  ASSUME RowsTyped, BooksAgree, UNCHANGED tables
  PROVE  RowsTyped' /\ BooksAgree'
<1>1. RowsTyped'
  BY DEF RowsTyped, tables
<1>2. BooksAgree'
  BY DEF BooksAgree, ShippedFrom, LineQtys, tables
<1> QED BY <1>1, <1>2

\* The locks of one session among those of the others.
LEMMA LocksKept ==
  ASSUME LocksCompatible, NEW s \in Sessions, NEW held,
         \A h \in held : \A t \in Sessions \ {s} : \A k \in locks[t] :
            h.row = k.row => Compatible(h.mode, k.mode),
         locks'[s] = held, \A t \in Sessions \ {s} : locks'[t] = locks[t]
  PROVE  LocksCompatible'
<1>1. \A m, n : Compatible(m, n) => Compatible(n, m)
  BY DEF Compatible
<1>2. ASSUME NEW a \in Sessions, NEW b \in Sessions, a # b,
             NEW h \in locks'[a], NEW k \in locks'[b], h.row = k.row
      PROVE  Compatible(h.mode, k.mode)
  <2>1. CASE a = s
    BY <1>2, <2>1
  <2>2. CASE b = s
    BY <1>1, <1>2, <2>2
  <2>3. CASE a # s /\ b # s
    BY <1>2, <2>3 DEF LocksCompatible
  <2> QED BY <2>1, <2>2, <2>3
<1> QED BY <1>2 DEF LocksCompatible

\* A session goes on with a request; the locks it gets or keeps were free.
LEMMA SessionStep ==
  ASSUME OrdersInv, NEW s \in Sessions, NEW x, NEW held, NEW want, SessionOK(x, held, want),
         \A h \in held : \A t \in Sessions \ {s} : \A k \in locks[t] :
            h.row = k.row => Compatible(h.mode, k.mode),
         sess' = [sess EXCEPT ![s] = x], locks' = [locks EXCEPT ![s] = held],
         todo' = [todo EXCEPT ![s] = want], left' \in 0..MaxRequests, UNCHANGED tables
  PROVE  OrdersInv'
<1>1. /\ sess \in [Sessions -> Working] /\ locks \in [Sessions -> SUBSET LockRows]
      /\ todo \in [Sessions -> Seq(LockRows)]
  BY DEF OrdersInv, SessionsOK
<1>2. sess'[s] = x /\ locks'[s] = held /\ todo'[s] = want
  BY <1>1
<1>3. \A t \in Sessions \ {s} : sess'[t] = sess[t] /\ locks'[t] = locks[t] /\ todo'[t] = todo[t]
  BY <1>1
<1>4. ASSUME NEW t \in Sessions PROVE SessionOK(sess[t], locks[t], todo[t])'
  <2>1. CASE t = s
    BY <1>2, <2>1, SessionKept
  <2>2. CASE t # s
    <3>1. SessionOK(sess[t], locks[t], todo[t])
      BY DEF OrdersInv, SessionsOK
    <3> QED BY <1>3, <2>2, <3>1, SessionKept
  <2> QED BY <2>1, <2>2
<1>5. SessionsOK'
  <2>1. x \in Working /\ held \in SUBSET LockRows /\ want \in Seq(LockRows)
    BY DEF SessionOK, SessionTyped
  <2>2. /\ sess' \in [Sessions -> Working] /\ locks' \in [Sessions -> SUBSET LockRows]
        /\ todo' \in [Sessions -> Seq(LockRows)]
    BY <1>1, <2>1
  <2> QED BY <1>4, <2>2 DEF SessionsOK
<1>6. LocksCompatible'
  BY <1>2, <1>3, LocksKept DEF OrdersInv
<1> QED BY <1>5, <1>6, RowsKept DEF OrdersInv

LEMMA OwnLocks ==
  ASSUME OrdersInv, NEW s \in Sessions
  PROVE  \A h \in locks[s] : \A t \in Sessions \ {s} : \A k \in locks[t] :
            h.row = k.row => Compatible(h.mode, k.mode)
BY DEF OrdersInv, LocksCompatible

LEMMA ContinueStep ==
  ASSUME OrdersInv, NEW s \in Sessions, NEW x, NEW want, Continue(s, x, want),
         SessionOK(x, locks[s], want)
  PROVE  OrdersInv'
<1>1. locks \in [Sessions -> SUBSET LockRows] /\ left \in 0..MaxRequests
  BY DEF OrdersInv, SessionsOK
<1>2. locks' = [locks EXCEPT ![s] = locks[s]]
  BY <1>1 DEF Continue
<1>3. /\ sess' = [sess EXCEPT ![s] = x] /\ todo' = [todo EXCEPT ![s] = want]
      /\ left' \in 0..MaxRequests /\ UNCHANGED tables
  BY <1>1 DEF Continue
<1> QED BY <1>2, <1>3, OwnLocks, SessionStep

LEMMA RefuseStep ==
  ASSUME OrdersInv, NEW s \in Sessions, Refuse(s)
  PROVE  OrdersInv'
<1> DEFINE none == {}
           nothing == <<>>
<1>1. /\ sess' = [sess EXCEPT ![s] = Idle] /\ locks' = [locks EXCEPT ![s] = none]
      /\ todo' = [todo EXCEPT ![s] = nothing] /\ UNCHANGED tables /\ left' \in 0..MaxRequests
  BY DEF OrdersInv, Refuse, End
<1>2. \A h \in none : \A t \in Sessions \ {s} : \A k \in locks[t] :
            h.row = k.row => Compatible(h.mode, k.mode)
  OBVIOUS
<1>3. SessionOK(Idle, none, nothing)
  BY IdleOK
<1> HIDE DEF none, nothing
<1> QED BY <1>1, <1>2, <1>3, SessionStep

\* A session gets the lock that it waits for.
LEMMA LockStep ==
  ASSUME OrdersInv, NEW s \in Sessions, LockNext(s)
  PROVE  OrdersInv'
<1> DEFINE x == sess[s]
           w == Head(todo[s])
           held == locks[s] \cup {w}
           want == Tail(todo[s])
<1>1. SessionOK(x, locks[s], todo[s])
  BY DEF OrdersInv, SessionsOK
<1>2. todo[s] \in Seq(LockRows) /\ todo[s] # <<>> /\ Granted(s, w)
  BY <1>1 DEF SessionOK, SessionTyped, LockNext
<1>3. /\ want \in Seq(LockRows) /\ w \in LockRows /\ 1 \in DOMAIN todo[s] /\ w = todo[s][1]
      /\ \A i \in DOMAIN want : i + 1 \in DOMAIN todo[s] /\ want[i] = todo[s][i + 1] /\ 1 < i + 1 /\ i \in Nat
  BY <1>2
<1>4. \A i \in DOMAIN todo[s] : i # 1 => i - 1 \in DOMAIN want /\ todo[s][i] = want[i - 1]
  BY <1>2
<1>5. All(held, want) = All(locks[s], todo[s])
  <2>1. Range(todo[s]) = {w} \cup Range(want)
    <3>1. ASSUME NEW i \in DOMAIN todo[s] PROVE todo[s][i] = w \/ todo[s][i] \in Range(want)
      <4>1. CASE i = 1
        BY <1>3, <4>1
      <4>2. CASE i # 1
        BY <1>4, <4>2 DEF Range
      <4> QED BY <4>1, <4>2
    <3>2. \A e \in Range(want) : e \in Range(todo[s])
      BY <1>3 DEF Range
    <3>3. w \in Range(todo[s])
      BY <1>3 DEF Range
    <3> QED BY <3>1, <3>2, <3>3 DEF Range
  <2> QED BY <2>1 DEF All
<1>6. locks[s] \subseteq held
  OBVIOUS
<1> HIDE DEF x, held, want, w
<1>7. SessionTyped(x, held, want)
  <2>1. x.req # "none"
    BY <1>1, <1>2 DEF SessionOK, SessionTyped
  <2> QED BY <1>1, <1>3, <2>1 DEF SessionOK, SessionTyped, held
<1>8. Orderly(x, held, want)
  <2> SUFFICES ASSUME x.req # "plan"
               PROVE  InOrder(held, want)
    BY <1>1, <1>5 DEF SessionOK, Orderly
  <2>1. InOrder(locks[s], todo[s])
    BY <1>1 DEF SessionOK, Orderly
  <2>2. ASSUME NEW h \in held, NEW i \in DOMAIN want PROVE Before(h, want[i])
    <3>1. CASE h \in locks[s]
      BY <1>3, <2>1, <3>1 DEF InOrder
    <3>2. CASE h = w
      BY <1>3, <2>1, <3>2 DEF InOrder
    <3> QED BY <3>1, <3>2 DEF held
  <2>3. ASSUME NEW i \in DOMAIN want, NEW j \in DOMAIN want, i < j PROVE Before(want[i], want[j])
    <3>1. i + 1 < j + 1
      BY <1>3, <2>3
    <3> QED BY <1>3, <2>1, <3>1 DEF InOrder
  <2> QED BY <1>5, <2>1, <2>2, <2>3 DEF InOrder
<1>9. StockHeld(x, held, want)
  BY <1>1, <1>5, <1>6 DEF SessionOK, StockHeld
<1>10. LinesHeld(x, held, want)
  BY <1>1, <1>5, <1>6 DEF SessionOK, LinesHeld
<1>11. LotsHeld(x, held, want)
  BY <1>1, <1>5, <1>6 DEF SessionOK, LotsHeld
<1>12. SessionOK(x, held, want)
  BY <1>1, <1>7, <1>8, <1>9, <1>10, <1>11 DEF SessionOK
<1>13. \A h \in held : \A t \in Sessions \ {s} : \A k \in locks[t] :
            h.row = k.row => Compatible(h.mode, k.mode)
  <2>1. \A m, n : Compatible(m, n) => Compatible(n, m)
    BY DEF Compatible
  <2>2. \A t \in Sessions \ {s} : \A k \in locks[t] : w.row = k.row => Compatible(w.mode, k.mode)
    BY <1>2, <2>1 DEF Granted
  <2> QED BY <2>2, OwnLocks DEF held
<1>14. sess \in [Sessions -> Working] /\ left \in 0..MaxRequests
  BY DEF OrdersInv, SessionsOK
<1>15. /\ sess' = [sess EXCEPT ![s] = x] /\ locks' = [locks EXCEPT ![s] = held]
       /\ todo' = [todo EXCEPT ![s] = want] /\ left' \in 0..MaxRequests /\ UNCHANGED tables
  BY <1>14 DEF LockNext, x, held, want, w
<1> QED BY <1>12, <1>13, <1>15, SessionStep
-----------------------------------------------------------------------------
(* The rows that a statement locks.                                        *)

LEMMA RowLevels ==
  /\ \A o \in Nat : /\ Order(o) \in Lockable /\ Level(Order(o)) = 2
                    /\ Order(o)[1] = "order_line" /\ Order(o)[2] = o
  /\ \A i \in Nat : /\ Line(i) \in Lockable /\ Level(Line(i)) = 3
                    /\ Line(i)[1] = "shipment_line" /\ Line(i)[2] = i
  /\ \A l \in StockLots : Stock(l) \in Lockable /\ Level(Stock(l)) = 5
  /\ \A n \in Nat : LotNo(n) \in Lockable /\ Level(LotNo(n)) = 1
  /\ Inventory \in Lockable /\ Level(Inventory) = 4
BY DEF Order, Line, Stock, LotNo, Inventory, Row, Lockable, Level

\* The locks that a statement asks for, one for each of its rows.
LEMMA NeedType ==
  ASSUME NEW n \in Nat, NEW rows \in [1..n -> Lockable],
         NEW mode \in {"keyshare", "nokey", "update"}
  PROVE  /\ Need(rows, mode) \in Seq(LockRows)
         /\ DOMAIN Need(rows, mode) = 1..n /\ Len(Need(rows, mode)) = n
         /\ \A i \in 1..n : /\ Need(rows, mode)[i] = [row |-> rows[i], mode |-> mode]
                            /\ Need(rows, mode)[i].row = rows[i]
                            /\ Need(rows, mode)[i].mode = mode
<1> DEFINE want == [i \in 1..n |-> [row |-> rows[i], mode |-> mode]]
<1>1. Need(rows, mode) = want
  BY DEF Need
<1>2. \A i \in 1..n : rows[i] \in Lockable /\ want[i] \in LockRows
  BY DEF LockRows
<1>3. want \in Seq(LockRows) /\ DOMAIN want = 1..n /\ Len(want) = n
  BY <1>2
<1>4. \A i \in 1..n : /\ want[i] = [row |-> rows[i], mode |-> mode]
                      /\ want[i].row = rows[i] /\ want[i].mode = mode
  OBVIOUS
<1> HIDE DEF want
<1> QED BY <1>1, <1>3, <1>4

LEMMA ForUpdateType ==
  ASSUME NEW n \in Nat, NEW rows \in [1..n -> Lockable]
  PROVE  /\ ForUpdate(rows) \in Seq(LockRows) /\ DOMAIN ForUpdate(rows) = 1..n
         /\ \A i \in 1..n : /\ ForUpdate(rows)[i] = Update(rows[i])
                            /\ ForUpdate(rows)[i].row = rows[i]
<1> DEFINE mode == "update"
<1>1. mode \in {"keyshare", "nokey", "update"}
  OBVIOUS
<1> HIDE DEF mode
<1>2. /\ Need(rows, mode) \in Seq(LockRows) /\ DOMAIN Need(rows, mode) = 1..n
      /\ \A i \in 1..n : /\ Need(rows, mode)[i] = [row |-> rows[i], mode |-> mode]
                         /\ Need(rows, mode)[i].row = rows[i]
  BY <1>1, NeedType
<1> QED BY <1>2 DEF mode, Update, ForUpdate

LEMMA AllOfNone == \A held : All(held, <<>>) = held
BY DEF All, Range

\* The same for a statement that locks one row.
LEMMA NeedOne ==
  ASSUME NEW r \in Lockable, NEW mode \in {"keyshare", "nokey", "update"}
  PROVE  /\ Need(<<r>>, mode) = <<[row |-> r, mode |-> mode]>>
         /\ [row |-> r, mode |-> mode] \in LockRows
         /\ Need(<<r>>, mode) \in Seq(LockRows)
         /\ \A held : All(held, Need(<<r>>, mode)) = held \cup {[row |-> r, mode |-> mode]}
<1> DEFINE e == [row |-> r, mode |-> mode]
<1>1. Need(<<r>>, mode) = <<e>>
  BY DEF Need
<1>2. e \in LockRows
  BY DEF LockRows
<1> HIDE DEF e
<1>3. <<e>> \in Seq(LockRows)
  BY <1>2
<1>4. Range(<<e>>) = {e}
  BY DEF Range
<1> QED BY <1>1, <1>2, <1>3, <1>4 DEF e, All

LEMMA InOrderNext ==
  ASSUME NEW held \in SUBSET LockRows, NEW want \in Seq(LockRows), InOrder(held, <<>>),
         NEW n \in Nat, \A h \in held : Level(h.row) <= n,
         \A i \in DOMAIN want : Level(want[i].row) > n,
         \A i, j \in DOMAIN want : i < j => Before(want[i], want[j]),
         \A i \in DOMAIN want : Level(want[i].row) = 5 => Update(Inventory) \in All(held, want)
  PROVE  InOrder(held, want)
<1>1. \A e \in LockRows : Level(e.row) \in Nat
  BY DEF LockRows, Lockable, Level
<1>2. \A i \in DOMAIN want : want[i] \in LockRows
  OBVIOUS
<1>3. \A h \in held : \A i \in DOMAIN want : Before(h, want[i])
  BY <1>1, <1>2 DEF Before
<1>4. ASSUME NEW h \in All(held, want), Level(h.row) = 5
      PROVE  Update(Inventory) \in All(held, want)
  <2>1. CASE h \in held
    <3>1. Update(Inventory) \in held
      BY <1>4, <2>1, AllOfNone DEF InOrder
    <3> QED BY <3>1 DEF All
  <2>2. CASE h \in Range(want)
    BY <1>4, <2>2 DEF Range
  <2> QED BY <2>1, <2>2 DEF All
<1> QED BY <1>3, <1>4 DEF InOrder

LEMMA OrderlyNext ==
  ASSUME NEW x \in Working, NEW new \in Working, new.req = x.req,
         NEW held \in SUBSET LockRows, NEW want \in Seq(LockRows), Orderly(x, held, <<>>),
         Reach(x.pc) \in Nat, Reach(new.pc) \in Nat,
         \A i \in DOMAIN want :
            Level(want[i].row) > Reach(x.pc) /\ Level(want[i].row) <= Reach(new.pc),
         \A i, j \in DOMAIN want : i < j => Before(want[i], want[j]),
         \A i \in DOMAIN want : Level(want[i].row) = 5 => Update(Inventory) \in All(held, want),
         Reach(x.pc) <= Reach(new.pc), new.pc # "insert"
  PROVE  Orderly(new, held, want)
<1> SUFFICES ASSUME x.req # "plan" PROVE Orderly(new, held, want)
  BY DEF Orderly
<1>1. InOrder(held, <<>>) /\ \A h \in held : Level(h.row) <= Reach(x.pc)
  BY AllOfNone DEF Orderly
<1>2. InOrder(held, want)
  BY <1>1, InOrderNext
<1>3. \A h \in held : Level(h.row) \in Nat
  BY DEF LockRows, Lockable, Level
<1>4. \A h \in All(held, want) : Level(h.row) <= Reach(new.pc)
  BY <1>1, <1>3 DEF All, Range
<1> QED BY <1>2, <1>4 DEF Orderly

\* A statement that locks nothing.
LEMMA OrderlyStays ==
  ASSUME NEW x \in Working, NEW new \in Working, new.req = x.req,
         NEW held \in SUBSET LockRows, Orderly(x, held, <<>>),
         Reach(x.pc) \in Nat, Reach(new.pc) \in Nat,
         Reach(x.pc) <= Reach(new.pc), new.pc # "insert"
  PROVE  Orderly(new, held, <<>>)
<1>1. <<>> \in Seq(LockRows) /\ DOMAIN <<>> = {}
  OBVIOUS
<1> QED BY <1>1, OrderlyNext

LEMMA SessionAt ==
  ASSUME OrdersInv, NEW s \in Sessions, NEW pc, At(s, pc)
  PROVE  /\ SessionOK(sess[s], locks[s], <<>>) /\ sess[s].pc = pc
         /\ sess[s] \in Working /\ locks[s] \in SUBSET LockRows
         /\ All(locks[s], <<>>) = locks[s]
         /\ <<>> \in Seq(LockRows)
BY AllOfNone DEF OrdersInv, SessionsOK, At

LEMMA BeginStep ==
  ASSUME OrdersInv, NEW s \in Sessions, NEW kind, NEW x, NEW want, Begin(s, kind, x, want),
         SessionOK(x, {}, want)
  PROVE  OrdersInv'
<1>1. locks \in [Sessions -> SUBSET LockRows] /\ left \in 0..MaxRequests
  BY DEF OrdersInv, SessionsOK
<1>2. locks[s] = {}
  <2>1. SessionTyped(sess[s], locks[s], todo[s]) /\ sess[s] = Idle
    BY DEF OrdersInv, SessionsOK, SessionOK, Begin
  <2>2. sess[s].req = "none"
    BY <2>1 DEF Idle
  <2> QED BY <2>1, <2>2 DEF SessionTyped
<1>3. locks' = [locks EXCEPT ![s] = locks[s]]
  BY <1>1 DEF Begin
<1>4. left' \in 0..MaxRequests
  BY <1>1, ConcurrentOrdersAssumption DEF Begin
<1>5. /\ sess' = [sess EXCEPT ![s] = x] /\ todo' = [todo EXCEPT ![s] = want] /\ UNCHANGED tables
  BY DEF Begin
<1>6. SessionOK(x, locks[s], want)
  BY <1>2
<1> QED BY <1>3, <1>4, <1>5, <1>6, OwnLocks, SessionStep
-----------------------------------------------------------------------------
(* The beginnings of the requests.                                         *)

LEMMA NothingTaken == \A l \in StockLots : Nothing[l] = 0
BY DEF Nothing

LEMMA BeginPlanStep ==
  ASSUME OrdersInv, NEW s \in Sessions, BeginPlan(s) PROVE OrdersInv'
<1>1. PICK o \in OrderLines, type \in PlanTypes :
        Begin(s, "plan", [Idle EXCEPT !.pc = "inventory", !.req = "plan", !.order = o,
                                      !.type = type, !.row = orders[o]], <<>>)
  BY DEF BeginPlan
<1> DEFINE x == [Idle EXCEPT !.pc = "inventory", !.req = "plan", !.order = o,
                             !.type = type, !.row = orders[o]]
<1>2. orders[o] \in OrderRows /\ orders[o].qty > 0
  BY DEF OrdersInv, RowsTyped
<1>3. Idle \in Working
  BY IdleTyped DEF SessionTyped
<1>4. x \in Working
  BY <1>2, <1>3 DEF Working, Statements, RequestKinds
<1>5. /\ x.pc = "inventory" /\ x.req = "plan" /\ x.order = o /\ x.type = type
      /\ x.row = orders[o] /\ x.take = Nothing
  BY DEF Idle
<1> HIDE DEF x
<1>6. SessionTyped(x, {}, <<>>)
  BY <1>4, <1>5 DEF SessionTyped, Path
<1>7. PlanMade(x)
  BY <1>2, <1>5 DEF PlanMade
<1>8. Orderly(x, {}, <<>>) /\ StockHeld(x, {}, <<>>) /\ LinesHeld(x, {}, <<>>)
  BY <1>5 DEF Orderly, StockHeld, StockRead, LinesHeld
<1>9. LotsHeld(x, {}, <<>>)
  BY <1>5, NothingTaken DEF LotsHeld
<1>10. SessionOK(x, {}, <<>>)
  BY <1>6, <1>7, <1>8, <1>9 DEF SessionOK
<1> QED BY <1>1, <1>10, BeginStep DEF x

\* The requests that read an order line without a lock and lock nothing at first.
LEMMA ReadFirst ==
  ASSUME OrdersInv, NEW o \in OrderLines, NEW pc, NEW req,
         \/ pc = "lots" /\ req \in {"base_lot", "cancel"}
         \/ pc = "remaining" /\ req = "short_close"
  PROVE  SessionOK([Idle EXCEPT !.pc = pc, !.req = req, !.order = o, !.row = orders[o]], {}, <<>>)
<1> DEFINE x == [Idle EXCEPT !.pc = pc, !.req = req, !.order = o, !.row = orders[o]]
<1>2. orders[o] \in OrderRows
  BY DEF OrdersInv, RowsTyped
<1>3. Idle \in Working
  BY IdleTyped DEF SessionTyped
<1>4. pc \in Statements /\ req \in RequestKinds
  BY DEF Statements, RequestKinds
<1>5. x \in Working
  BY <1>2, <1>3, <1>4 DEF Working
<1>6. x.pc = pc /\ x.req = req /\ x.order = o
  BY DEF Idle
<1> HIDE DEF x
<1>7. SessionTyped(x, {}, <<>>)
  BY <1>5, <1>6 DEF SessionTyped, Path
<1>8. PlanMade(x)
  BY <1>6 DEF PlanMade
<1>9. Orderly(x, {}, <<>>)
  BY <1>6, AllOfNone DEF Orderly, InOrder
<1>10. StockHeld(x, {}, <<>>) /\ LinesHeld(x, {}, <<>>)
  BY <1>6 DEF StockHeld, StockRead, LinesHeld
<1>11. LotsHeld(x, {}, <<>>)
  BY <1>6 DEF LotsHeld
<1> QED BY <1>7, <1>8, <1>9, <1>10, <1>11 DEF SessionOK, x

LEMMA BeginReadStep ==
  ASSUME OrdersInv, NEW s \in Sessions,
         BeginBaseLot(s) \/ BeginCancel(s) \/ BeginShortClose(s)
  PROVE  OrdersInv'
<1>1. CASE BeginBaseLot(s)
  <2>1. PICK o \in OrderLines :
          Begin(s, "base_lot", [Idle EXCEPT !.pc = "lots", !.req = "base_lot", !.order = o,
                                            !.row = orders[o]], <<>>)
    BY <1>1 DEF BeginBaseLot
  <2> QED BY <2>1, ReadFirst, BeginStep
<1>2. CASE BeginCancel(s)
  <2>1. PICK o \in OrderLines :
          Begin(s, "cancel", [Idle EXCEPT !.pc = "lots", !.req = "cancel", !.order = o,
                                          !.row = orders[o]], <<>>)
    BY <1>2 DEF BeginCancel
  <2> QED BY <2>1, ReadFirst, BeginStep
<1>3. CASE BeginShortClose(s)
  <2>1. PICK o \in OrderLines :
          Begin(s, "short_close", [Idle EXCEPT !.pc = "remaining", !.req = "short_close",
                                               !.order = o, !.row = orders[o]], <<>>)
    BY <1>3 DEF BeginShortClose
  <2> QED BY <2>1, ReadFirst, BeginStep
<1> QED BY <1>1, <1>2, <1>3

\* The requests that lock rows at once: a session without locks before.
LEMMA OrderlyFirst ==
  ASSUME NEW x \in Working, NEW want \in Seq(LockRows), Reach(x.pc) \in Nat, x.pc # "insert",
         \A i \in DOMAIN want : Level(want[i].row) > 0 /\ Level(want[i].row) <= Reach(x.pc),
         \A i, j \in DOMAIN want : i < j => Before(want[i], want[j]),
         \A i \in DOMAIN want : Level(want[i].row) = 5 => Update(Inventory) \in Range(want)
  PROVE  Orderly(x, {}, want)
<1>1. InOrder({}, <<>>)
  BY AllOfNone DEF InOrder
<1>2. All({}, want) = Range(want)
  BY DEF All
<1>3. InOrder({}, want)
  <2> DEFINE none == {}
  <2>1. none \in SUBSET LockRows /\ InOrder(none, <<>>) /\ \A h \in none : Level(h.row) <= 0
    BY <1>1
  <2>2. \A i \in DOMAIN want : Level(want[i].row) = 5 => Update(Inventory) \in All(none, want)
    BY <1>2
  <2> HIDE DEF none
  <2>3. InOrder(none, want)
    BY <2>1, <2>2, InOrderNext
  <2> QED BY <2>3 DEF none
<1>4. \A h \in Range(want) : Level(h.row) <= Reach(x.pc)
  BY DEF Range
<1> QED BY <1>2, <1>3, <1>4 DEF Orderly

LEMMA BeginChangeStep ==
  ASSUME OrdersInv, NEW s \in Sessions, BeginChange(s) PROVE OrdersInv'
<1>1. PICK o \in OrderLines, q \in OrderQtys :
        Begin(s, "change", [Idle EXCEPT !.pc = "edit", !.req = "change", !.order = o, !.qty = q],
              ForUpdate(<<Order(o)>>))
  BY DEF BeginChange
<1> DEFINE x == [Idle EXCEPT !.pc = "edit", !.req = "change", !.order = o, !.qty = q]
           want == Need(<<Order(o)>>, "update")
<1>2. q \in Nat /\ q > 0 /\ o \in Nat
  BY ConcurrentOrdersAssumption
<1>3. Idle \in Working
  BY IdleTyped DEF SessionTyped
<1>4. x \in Working
  BY <1>2, <1>3 DEF Working, Statements, RequestKinds
<1>5. /\ x.pc = "edit" /\ x.req = "change" /\ x.order = o /\ x.qty = q
  BY DEF Idle
<1>6. Order(o) \in Lockable /\ Level(Order(o)) = 2
  BY <1>2, RowLevels
<1>7. /\ want = <<Update(Order(o))>> /\ want \in Seq(LockRows)
  BY <1>6, NeedOne DEF Update
<1> HIDE DEF x, want
<1>8. SessionTyped(x, {}, want)
  BY <1>4, <1>5, <1>7 DEF SessionTyped, Path
<1>9. PlanMade(x)
  BY <1>2, <1>5 DEF PlanMade
<1>10. Orderly(x, {}, want)
  <2>1. \A i \in DOMAIN want : i = 1 /\ want[i].row = Order(o)
    BY <1>7 DEF Update
  <2>2. Reach(x.pc) = 2
    BY <1>5 DEF Reach
  <2>3. \A i \in DOMAIN want : Level(want[i].row) = 2
    BY <1>6, <2>1
  <2>4. \A i, j \in DOMAIN want : i < j => Before(want[i], want[j])
    BY <2>1
  <2>5. /\ Reach(x.pc) \in Nat /\ x.pc # "insert"
        /\ \A i \in DOMAIN want : Level(want[i].row) > 0 /\ Level(want[i].row) <= Reach(x.pc)
        /\ \A i \in DOMAIN want : Level(want[i].row) = 5 => Update(Inventory) \in Range(want)
    BY <1>5, <2>2, <2>3
  <2> QED BY <1>4, <1>7, <2>4, <2>5, OrderlyFirst
<1>11. StockHeld(x, {}, want) /\ LinesHeld(x, {}, want) /\ LotsHeld(x, {}, want)
  BY <1>5 DEF StockHeld, StockRead, LinesHeld, LotsHeld
<1>12. SessionOK(x, {}, want)
  BY <1>8, <1>9, <1>10, <1>11 DEF SessionOK
<1> QED BY <1>1, <1>12, BeginStep DEF x, want, ForUpdate

LEMMA BeginDecreaseStep ==
  ASSUME OrdersInv, NEW s \in Sessions, BeginDecrease(s) PROVE OrdersInv'
<1>1. PICK n \in AdjustQtys :
        Begin(s, "decrease", [Idle EXCEPT !.pc = "decrease", !.req = "decrease", !.qty = n],
              ForUpdate(<<Inventory>>))
  BY DEF BeginDecrease
<1> DEFINE x == [Idle EXCEPT !.pc = "decrease", !.req = "decrease", !.qty = n]
           want == Need(<<Inventory>>, "update")
<1>2. n \in Nat
  BY ConcurrentOrdersAssumption
<1>3. Idle \in Working
  BY IdleTyped DEF SessionTyped
<1>4. x \in Working
  BY <1>2, <1>3 DEF Working, Statements, RequestKinds
<1>5. /\ x.pc = "decrease" /\ x.req = "decrease" /\ x.take = Nothing
  BY DEF Idle
<1>6. Inventory \in Lockable /\ Level(Inventory) = 4
  BY RowLevels
<1>7. /\ want = <<Update(Inventory)>> /\ want \in Seq(LockRows)
      /\ Update(Inventory) \in All({}, want)
  BY <1>6, NeedOne DEF Update
<1> HIDE DEF x, want
<1>8. SessionTyped(x, {}, want)
  BY <1>4, <1>5, <1>7 DEF SessionTyped, Path
<1>9. PlanMade(x)
  BY <1>5 DEF PlanMade
<1>10. Orderly(x, {}, want)
  <2>1. \A i \in DOMAIN want : i = 1 /\ want[i].row = Inventory
    BY <1>7 DEF Update
  <2>2. Reach(x.pc) = 4
    BY <1>5 DEF Reach
  <2>3. \A i \in DOMAIN want : Level(want[i].row) = 4
    BY <1>6, <2>1
  <2>4. \A i, j \in DOMAIN want : i < j => Before(want[i], want[j])
    BY <2>1
  <2>5. /\ Reach(x.pc) \in Nat /\ x.pc # "insert"
        /\ \A i \in DOMAIN want : Level(want[i].row) > 0 /\ Level(want[i].row) <= Reach(x.pc)
        /\ \A i \in DOMAIN want : Level(want[i].row) = 5 => Update(Inventory) \in Range(want)
    BY <1>5, <2>2, <2>3
  <2> QED BY <1>4, <1>7, <2>4, <2>5, OrderlyFirst
<1>11. StockHeld(x, {}, want)
  BY <1>5, <1>7 DEF StockHeld, StockRead
<1>12. LinesHeld(x, {}, want) /\ LotsHeld(x, {}, want)
  BY <1>5, NothingTaken DEF LinesHeld, LotsHeld
<1>13. SessionOK(x, {}, want)
  BY <1>8, <1>9, <1>10, <1>11, <1>12 DEF SessionOK
<1> QED BY <1>1, <1>13, BeginStep DEF x, want, ForUpdate

LEMMA BeginIncreaseStep ==
  ASSUME OrdersInv, NEW s \in Sessions, BeginIncrease(s) PROVE OrdersInv'
<1>1. PICK n \in AdjustQtys, l \in StockLots :
        Begin(s, "increase", [Idle EXCEPT !.pc = "increase", !.req = "increase",
                                          !.take = [Nothing EXCEPT ![l] = -n]],
              ForUpdate(<<Inventory, Stock(l)>>))
  BY DEF BeginIncrease
<1> DEFINE take == [Nothing EXCEPT ![l] = -n]
           x == [Idle EXCEPT !.pc = "increase", !.req = "increase", !.take = take]
           rows == <<Inventory, Stock(l)>>
           want == ForUpdate(rows)
<1>2. n \in Nat
  BY ConcurrentOrdersAssumption
<1>3. Idle \in Working
  BY IdleTyped DEF SessionTyped
<1>4. take \in [StockLots -> Int] /\ \A k \in StockLots : take[k] <= 0
  BY <1>2 DEF Nothing
<1> HIDE DEF take
<1>5. x \in Working
  BY <1>3, <1>4 DEF Working, Statements, RequestKinds
<1>6. /\ x.pc = "increase" /\ x.req = "increase" /\ x.take = take
  BY DEF Idle
<1>7. /\ Inventory \in Lockable /\ Level(Inventory) = 4
      /\ Stock(l) \in Lockable /\ Level(Stock(l)) = 5
  BY RowLevels
<1>8. rows \in [1..2 -> Lockable] /\ rows[1] = Inventory /\ rows[2] = Stock(l)
  BY <1>7
<1> HIDE DEF rows
<1>9. /\ want \in Seq(LockRows) /\ DOMAIN want = 1..2
      /\ \A i \in 1..2 : want[i] = Update(rows[i]) /\ want[i].row = rows[i]
  <2> DEFINE m == 2
  <2>1. m \in Nat /\ rows \in [1..m -> Lockable]
    BY <1>8
  <2> HIDE DEF m
  <2>2. /\ want \in Seq(LockRows) /\ DOMAIN want = 1..m
        /\ \A i \in 1..m : want[i] = Update(rows[i]) /\ want[i].row = rows[i]
    BY <2>1, ForUpdateType
  <2> QED BY <2>2 DEF m
<1> HIDE DEF want
<1>10. Update(Inventory) \in Range(want)
  <2>1. 1 \in 1..2
    OBVIOUS
  <2> QED BY <1>8, <1>9, <2>1 DEF Range
<1> HIDE DEF x
<1>11. SessionTyped(x, {}, want)
  BY <1>5, <1>6, <1>9 DEF SessionTyped, Path
<1>12. PlanMade(x)
  BY <1>6 DEF PlanMade
<1>13. Orderly(x, {}, want)
  <2>1. \A i \in DOMAIN want : \/ i = 1 /\ want[i].row = Inventory
                               \/ i = 2 /\ want[i].row = Stock(l)
    BY <1>8, <1>9
  <2>2. Reach(x.pc) = 5
    BY <1>6 DEF Reach
  <2>3. \A i, j \in DOMAIN want : i < j => Before(want[i], want[j])
    BY <1>7, <2>1 DEF Before
  <2>4. \A i \in DOMAIN want : Level(want[i].row) > 0 /\ Level(want[i].row) <= 5
    BY <1>7, <2>1
  <2> QED BY <1>5, <1>6, <1>9, <1>10, <2>2, <2>3, <2>4, OrderlyFirst
<1>14. StockHeld(x, {}, want)
  BY <1>6, <1>10 DEF StockHeld, StockRead, All
<1>15. LinesHeld(x, {}, want)
  BY <1>6 DEF LinesHeld
<1>16. LotsHeld(x, {}, want)
  <2>1. \A k \in StockLots : ~(take[k] > 0)
    BY <1>4
  <2> QED BY <1>4, <1>6, <2>1 DEF LotsHeld
<1>17. SessionOK(x, {}, want)
  BY <1>11, <1>12, <1>13, <1>14, <1>15, <1>16 DEF SessionOK
<1> QED BY <1>1, <1>17, BeginStep DEF x, want, rows, take

LEMMA OrdersAscend ==
  ASSUME NEW n \in Nat, NEW q \in [1..n -> Nat], \A i, j \in 1..n : i < j => q[i] < q[j],
         NEW want \in Seq(LockRows), DOMAIN want = 1..n,
         \/ \A i \in 1..n : want[i].row = Order(q[i])
         \/ \A i \in 1..n : want[i].row = Line(q[i])
  PROVE  \A i, j \in DOMAIN want : i < j => Before(want[i], want[j])
<1> SUFFICES ASSUME NEW i \in 1..n, NEW j \in 1..n, i < j PROVE Before(want[i], want[j])
  OBVIOUS
<1>1. q[i] \in Nat /\ q[j] \in Nat /\ q[i] < q[j]
  OBVIOUS
<1>2. CASE \A k \in 1..n : want[k].row = Order(q[k])
  <2>1. want[i].row = Order(q[i]) /\ want[j].row = Order(q[j])
    BY <1>2
  <2> QED BY <1>1, <2>1, RowLevels DEF Before
<1>3. CASE \A k \in 1..n : want[k].row = Line(q[k])
  <2>1. want[i].row = Line(q[i]) /\ want[j].row = Line(q[j])
    BY <1>3
  <2> QED BY <1>1, <2>1, RowLevels DEF Before
<1> QED BY <1>2, <1>3

LEMMA BeginShipmentStep ==
  ASSUME OrdersInv, NEW s \in Sessions, BeginShipment(s) PROVE OrdersInv'
<1>1. PICK ids \in SUBSET {i \in DOMAIN lines : lines[i].status = "WAITING"} :
        LET affected == Ascending({lines[i].order : i \in ids}) IN
        Begin(s, "ship", [Idle EXCEPT !.pc = "lines", !.req = "ship", !.ids = ids],
              ForUpdate([k \in DOMAIN affected |-> Order(affected[k])]))
  BY DEF BeginShipment
<1> DEFINE owners == {lines[i].order : i \in ids}
           affected == Ascending(owners)
           n == Cardinality(owners)
           rows == [k \in DOMAIN affected |-> Order(affected[k])]
           x == [Idle EXCEPT !.pc = "lines", !.req = "ship", !.ids = ids]
           want == ForUpdate(rows)
<1>2. lines \in Seq(LineRows) /\ ids \subseteq DOMAIN lines
  BY DEF OrdersInv, RowsTyped
<1>3. ids \in SUBSET Nat /\ \A i \in DOMAIN lines : lines[i].order \in OrderLines
  <2>1. \A i \in DOMAIN lines : lines[i] \in LineRows /\ i \in Nat
    BY <1>2
  <2> QED BY <1>2, <2>1 DEF LineRows
<1>4. owners \in SUBSET Nat /\ IsFiniteSet(owners)
  <2>1. owners \in SUBSET OrderLines
    BY <1>2, <1>3
  <2> HIDE DEF owners
  <2> QED BY <2>1, ConcurrentOrdersAssumption, FS_Subset
<1> HIDE DEF owners
<1>5. /\ n \in Nat /\ affected \in [1..n -> Nat] /\ DOMAIN affected = 1..n
      /\ \A i, j \in 1..n : i < j => affected[i] < affected[j]
  BY <1>4, AscendingType
<1> HIDE DEF affected, n
<1>6. rows \in [1..n -> Lockable] /\ \A k \in 1..n : rows[k] = Order(affected[k])
  <2>1. \A k \in 1..n : Order(affected[k]) \in Lockable
    BY <1>5, RowLevels
  <2> QED BY <1>5, <2>1
<1> HIDE DEF rows
<1>7. /\ want \in Seq(LockRows) /\ DOMAIN want = 1..n
      /\ \A k \in 1..n : want[k].row = Order(affected[k])
  BY <1>5, <1>6, ForUpdateType
<1> HIDE DEF want
<1>8. Idle \in Working
  BY IdleTyped DEF SessionTyped
<1>9. x \in Working
  BY <1>3, <1>8 DEF Working, Statements, RequestKinds
<1>10. x.pc = "lines" /\ x.req = "ship" /\ x.ids = ids
  BY DEF Idle
<1> HIDE DEF x
<1>11. SessionTyped(x, {}, want)
  BY <1>7, <1>9, <1>10 DEF SessionTyped, Path
<1>12. PlanMade(x)
  BY <1>10 DEF PlanMade
<1>13. Orderly(x, {}, want)
  <2>1. \A k \in 1..n : Level(want[k].row) = 2
    BY <1>5, <1>7, RowLevels
  <2>2. \A i, j \in DOMAIN want : i < j => Before(want[i], want[j])
    BY <1>5, <1>7, OrdersAscend
  <2>3. Reach(x.pc) = 2
    BY <1>10 DEF Reach
  <2>4. /\ Reach(x.pc) \in Nat /\ x.pc # "insert"
        /\ \A i \in DOMAIN want : Level(want[i].row) > 0 /\ Level(want[i].row) <= Reach(x.pc)
        /\ \A i \in DOMAIN want : Level(want[i].row) = 5 => Update(Inventory) \in Range(want)
    BY <1>7, <1>10, <2>1, <2>3
  <2> QED BY <1>7, <1>9, <2>2, <2>4, OrderlyFirst
<1>14. StockHeld(x, {}, want) /\ LinesHeld(x, {}, want) /\ LotsHeld(x, {}, want)
  BY <1>2, <1>10 DEF StockHeld, StockRead, LinesHeld, LotsHeld
<1>15. SessionOK(x, {}, want)
  BY <1>11, <1>12, <1>13, <1>14 DEF SessionOK
<1> QED BY <1>1, <1>15, BeginStep DEF x, want, rows, affected, owners
-----------------------------------------------------------------------------
(* The statements of a plan confirmation.                                  *)

LEMMA RequestAt ==
  ASSUME NEW x \in Working, x.pc \in Path(x.req)
  PROVE  /\ x.pc \in {"inventory", "reserved", "shipped", "existing", "stock", "allocate",
                      "confirm", "history", "commit_plan"} => x.req = "plan"
         /\ x.pc \in {"create", "insert", "commit_lot"} => x.req \in {"plan", "base_lot"}
         /\ x.pc = "read_stock" => x.req \in {"plan", "ship"}
         /\ x.pc = "lots" => x.req \in {"base_lot", "cancel"}
         /\ x.pc = "plan" => x.req = "base_lot"
         /\ x.pc = "remaining" => x.req = "short_close"
         /\ x.pc = "commit_status" => x.req \in {"cancel", "short_close"}
         /\ x.pc \in {"edit", "void", "resize"} => x.req = "change"
         /\ x.pc \in {"lines", "count", "commit_shipment"} => x.req = "ship"
         /\ x.pc = "increase" => x.req = "increase"
         /\ x.pc \in {"decrease", "take"} => x.req = "decrease"
         /\ x.pc = "commit_adjust" => x.req \in {"increase", "decrease"}
BY DEF Path, Working, RequestKinds

LEMMA PlanGoesOn ==
  ASSUME OrdersInv, NEW s \in Sessions, sess[s].req = "plan",
         NEW new \in Working, new.req = "plan", new.order = sess[s].order,
         new.pc \in Path("plan"), NEW want \in Seq(LockRows),
         PlanMade(new), StockHeld(new, locks[s], want), LotsHeld(new, locks[s], want)
  PROVE  SessionOK(new, locks[s], want)
<1>1. SessionTyped(sess[s], locks[s], todo[s])
  BY DEF OrdersInv, SessionsOK, SessionOK
<1>2. SessionTyped(new, locks[s], want)
  BY <1>1 DEF SessionTyped
<1>3. Orderly(new, locks[s], want)
  BY DEF Orderly
<1>4. new.pc # "void" /\ new.pc # "count"
  BY DEF Path
<1>5. LinesHeld(new, locks[s], want)
  BY <1>4 DEF LinesHeld
<1> QED BY <1>2, <1>3, <1>5 DEF SessionOK

\* What is taken does not change, and the lots are not asked for.
LEMMA LotsStayHeld ==
  ASSUME NEW x, NEW new, NEW held, NEW want, LotsHeld(x, held, <<>>),
         new.req = x.req, new.take = x.take, new.pc \notin {"allocate", "take"}
  PROVE  LotsHeld(new, held, want)
BY DEF LotsHeld

LEMMA ReadInventoryStep ==
  ASSUME OrdersInv, NEW s \in Sessions, ReadInventory(s) PROVE OrdersInv'
<1> DEFINE x == sess[s]
           new == [sess[s] EXCEPT !.pc = "reserved", !.free = inventory]
<1>1. At(s, "inventory") /\ Continue(s, new, <<>>)
  BY DEF ReadInventory
<1>2. /\ SessionOK(x, locks[s], <<>>) /\ x.pc = "inventory" /\ x \in Working
      /\ <<>> \in Seq(LockRows) /\ x.req = "plan"
  BY <1>1, SessionAt, RequestAt DEF SessionOK, SessionTyped
<1>3. inventory \in Int
  BY DEF OrdersInv, RowsTyped
<1>4. new \in Working
  BY <1>2, <1>3 DEF Working, Statements
<1>5. /\ new.pc = "reserved" /\ new.req = "plan" /\ new.order = x.order /\ new.type = x.type
      /\ new.row = x.row /\ new.take = x.take
  BY <1>2 DEF Working
<1> HIDE DEF new
<1>6. new.pc \in Path("plan")
  BY <1>5 DEF Path
<1>7. PlanMade(new)
  BY <1>2, <1>5 DEF SessionOK, PlanMade
<1>8. StockHeld(new, locks[s], <<>>)
  BY <1>5 DEF StockHeld, StockRead
<1>9. LotsHeld(new, locks[s], <<>>)
  BY <1>2, <1>5, LotsStayHeld DEF SessionOK
<1>10. SessionOK(new, locks[s], <<>>)
  BY <1>2, <1>4, <1>5, <1>6, <1>7, <1>8, <1>9, PlanGoesOn
<1> QED BY <1>1, <1>10, ContinueStep

LEMMA SumsOfLines ==
  ASSUME RowsTyped, NEW S \in SUBSET DOMAIN lines
  PROVE  /\ IsFiniteSet(S) /\ SumFunctionOnSet(LineQtys, S) \in Nat
         /\ \A i \in DOMAIN lines : LineQtys[i] = lines[i].qty /\ LineQtys[i] \in Nat
<1>1. lines \in Seq(LineRows) /\ DOMAIN lines = 1..Len(lines) /\ Len(lines) \in Nat
  BY DEF RowsTyped
<1>2. \A i \in DOMAIN lines : lines[i] \in LineRows
  BY <1>1
<1>3. \A i \in DOMAIN lines : LineQtys[i] = lines[i].qty /\ LineQtys[i] \in Nat
  BY <1>2 DEF LineQtys, LineRows
<1>4. IsFiniteSet(S)
  <2>1. IsFiniteSet(1..Len(lines)) /\ S \in SUBSET (1..Len(lines))
    BY <1>1, FS_Interval
  <2> QED BY <2>1, FS_Subset
<1>5. SumFunctionOnSet(LineQtys, S) \in Nat
  BY <1>3, <1>4, SumNat
<1> QED BY <1>3, <1>4, <1>5

LEMMA QuantitiesType ==
  ASSUME RowsTyped
  PROVE  /\ Reserved \in Int
         /\ \A o : Shipped(o) \in Nat
         /\ \A l : WaitingOn(l) \in Nat /\ ShippedFrom(l) \in Nat
<1>1. \A l : WaitingOn(l) \in Nat
  <2> TAKE l
  <2> DEFINE S == {i \in DOMAIN lines : lines[i].lot = l /\ lines[i].status = "WAITING"}
  <2>1. S \in SUBSET DOMAIN lines
    OBVIOUS
  <2> HIDE DEF S
  <2>2. SumFunctionOnSet(LineQtys, S) \in Nat
    BY <2>1, SumsOfLines
  <2> QED BY <2>2 DEF S, WaitingOn
<1>2. \A l : ShippedFrom(l) \in Nat
  <2> TAKE l
  <2> DEFINE S == {i \in DOMAIN lines : lines[i].lot = l /\ lines[i].status = "DONE"}
  <2>1. S \in SUBSET DOMAIN lines
    OBVIOUS
  <2> HIDE DEF S
  <2>2. SumFunctionOnSet(LineQtys, S) \in Nat
    BY <2>1, SumsOfLines
  <2> QED BY <2>2 DEF S, ShippedFrom
<1>3. \A o : Shipped(o) \in Nat
  <2> TAKE o
  <2>1. LinesOf(o, {"DONE"}) \in SUBSET DOMAIN lines
    BY DEF LinesOf
  <2> QED BY <2>1, SumsOfLines DEF Shipped
<1>4. Reserved \in Int
  <2> DEFINE f == [l \in StockLots |-> WaitingOn(l)]
  <2>1. \A l \in StockLots : f[l] \in Int
    BY <1>1
  <2>2. DOMAIN f = StockLots
    OBVIOUS
  <2> HIDE DEF f
  <2>3. SumFunctionOnSet(f, StockLots) \in Int
    BY <2>1, LotsFinite, SumType
  <2>4. SumFunction(f) = SumFunctionOnSet(f, DOMAIN f)
    BY DEF SumFunction
  <2> QED BY <2>2, <2>3, <2>4 DEF f, Reserved
<1> QED BY <1>1, <1>2, <1>3, <1>4

LEMMA AtLeastZeroNat == \A n \in Int : AtLeastZero(n) \in Nat
BY DEF AtLeastZero

LEMMA ReadReservedStep ==
  ASSUME OrdersInv, NEW s \in Sessions, ReadReserved(s) PROVE OrdersInv'
<1> DEFINE x == sess[s]
           free == AtLeastZero(x.free - Reserved)
           to_shipped == [x EXCEPT !.pc = "shipped", !.free = free]
           to_history == [x EXCEPT !.pc = "history", !.free = free, !.qty = x.row.qty,
             !.plan = [type |-> x.type, stock |-> 0, production |-> x.row.qty]]
<1>1. At(s, "reserved")
  BY DEF ReadReserved
<1>2. /\ SessionOK(x, locks[s], <<>>) /\ x.pc = "reserved" /\ x \in Working
      /\ <<>> \in Seq(LockRows) /\ x.req = "plan"
  BY <1>1, SessionAt, RequestAt DEF SessionOK, SessionTyped
<1>3. free \in Nat /\ free \in Int
  <2>1. x.free \in Int /\ Reserved \in Int
    BY <1>2, QuantitiesType DEF OrdersInv, Working
  <2> QED BY <2>1, AtLeastZeroNat
<1>4. x.type \in PlanTypes /\ x.row \in OrderRows /\ x.row.qty > 0 /\ x.row.qty \in Nat
  BY <1>2 DEF SessionOK, PlanMade, OrderRows
<1> HIDE DEF free
<1>5. ASSUME x.type # "STOCK_REPLENISHMENT", Continue(s, to_shipped, <<>>) PROVE OrdersInv'
  <2> DEFINE new == to_shipped
  <2>1. new \in Working
    BY <1>2, <1>3 DEF Working, Statements
  <2>2. /\ new.pc = "shipped" /\ new.req = "plan" /\ new.order = x.order /\ new.type = x.type
        /\ new.row = x.row /\ new.take = x.take /\ new.free = free
    BY <1>2 DEF Working
  <2> HIDE DEF new
  <2>3. new.pc \in Path("plan")
    BY <2>2 DEF Path
  <2>4. PlanMade(new)
    BY <1>3, <1>4, <1>5, <2>2 DEF PlanMade
  <2>5. StockHeld(new, locks[s], <<>>)
    BY <2>2 DEF StockHeld, StockRead
  <2>6. LotsHeld(new, locks[s], <<>>)
    BY <1>2, <2>2, LotsStayHeld DEF SessionOK
  <2>7. SessionOK(new, locks[s], <<>>)
    BY <1>2, <2>1, <2>2, <2>3, <2>4, <2>5, <2>6, PlanGoesOn
  <2> QED BY <1>5, <2>7, ContinueStep DEF new
<1>6. ASSUME x.type = "STOCK_REPLENISHMENT", Continue(s, to_history, <<>>) PROVE OrdersInv'
  <2> DEFINE new == to_history
             plan == [type |-> x.type, stock |-> 0, production |-> x.row.qty]
  <2>1. plan \in Plans /\ plan.type = x.type
    BY <1>4 DEF Plans
  <2>2. new \in Working
    BY <1>2, <1>3, <1>4, <2>1 DEF Working, Statements
  <2>3. /\ new.pc = "history" /\ new.req = "plan" /\ new.order = x.order /\ new.type = x.type
        /\ new.row = x.row /\ new.take = x.take /\ new.plan.type = x.type /\ new.qty = x.row.qty
    BY <1>2 DEF Working
  <2> HIDE DEF new
  <2>4. new.pc \in Path("plan")
    BY <2>3 DEF Path
  <2>5. PlanMade(new)
    BY <1>4, <2>3 DEF PlanMade
  <2>6. StockHeld(new, locks[s], <<>>)
    BY <1>6, <2>3 DEF StockHeld, StockRead, ShipTypes
  <2>7. LotsHeld(new, locks[s], <<>>)
    BY <1>2, <2>3, LotsStayHeld DEF SessionOK
  <2>8. SessionOK(new, locks[s], <<>>)
    BY <1>2, <2>2, <2>3, <2>4, <2>5, <2>6, <2>7, PlanGoesOn
  <2> QED BY <1>6, <2>8, ContinueStep DEF new
<1>7. \/ x.type # "STOCK_REPLENISHMENT" /\ Continue(s, to_shipped, <<>>)
      \/ x.type = "STOCK_REPLENISHMENT" /\ Continue(s, to_history, <<>>)
      \/ Refuse(s)
  BY DEF ReadReserved, free
<1> QED BY <1>5, <1>6, <1>7, RefuseStep

\* What a confirmation makes of a plan that it accepts.
LEMMA AcceptedPlan ==
  ASSUME NEW free \in Nat, NEW remaining \in Nat, NEW qty \in Nat,
         NEW type \in AcceptedPlans(free, remaining)
  PROVE  /\ PlannedStock(type, free, remaining) \in Nat
         /\ PlannedProduction(type, qty, free, remaining) \in Nat
         /\ type \in PlanTypes
         /\ PlannedStock(type, free, remaining) > 0 <=> type \in StockTypes
BY DEF AcceptedPlans, PlannedStock, PlannedProduction, PlanTypes, StockTypes, ShipTypes

LEMMA ReadShippedStep ==
  ASSUME OrdersInv, NEW s \in Sessions, ReadShipped(s) PROVE OrdersInv'
<1> DEFINE x == sess[s]
           remaining == AtLeastZero(Target(x.row.qty) - Shipped(x.order))
           stock == PlannedStock(x.type, x.free, remaining)
           production == PlannedProduction(x.type, x.row.qty, x.free, remaining)
           plan == [type |-> x.type, stock |-> stock, production |-> production]
           pc == IF stock > 0 THEN "existing" ELSE "history"
           new == [x EXCEPT !.pc = pc, !.plan = plan]
<1>1. At(s, "shipped")
  BY DEF ReadShipped
<1>2. /\ SessionOK(x, locks[s], <<>>) /\ x.pc = "shipped" /\ x \in Working
      /\ <<>> \in Seq(LockRows) /\ x.req = "plan"
  BY <1>1, SessionAt, RequestAt DEF SessionOK, SessionTyped
<1>3. /\ x.type \in PlanTypes /\ x.type # "STOCK_REPLENISHMENT"
      /\ x.row \in OrderRows /\ x.row.qty \in Nat /\ x.row.qty > 0 /\ x.free \in Nat
  BY <1>2 DEF SessionOK, PlanMade, OrderRows, Working
<1>4. remaining \in Nat
  <2>1. Target(x.row.qty) \in Int /\ Shipped(x.order) \in Int
    BY <1>3, QuantitiesType DEF OrdersInv, Target, CalculateShipQty
  <2> QED BY <2>1, AtLeastZeroNat
<1> HIDE DEF remaining
<1>5. \/ x.type \in AcceptedPlans(x.free, remaining) /\ Continue(s, new, <<>>)
      \/ Refuse(s)
  <2>1. pc = IF plan.stock > 0 THEN "existing" ELSE "history"
    OBVIOUS
  <2> QED BY <2>1 DEF ReadShipped, remaining
<1>6. ASSUME x.type \in AcceptedPlans(x.free, remaining), Continue(s, new, <<>>) PROVE OrdersInv'
  <2>1. stock \in Nat /\ production \in Nat /\ (stock > 0 <=> x.type \in StockTypes)
    BY <1>3, <1>4, <1>6, AcceptedPlan
  <2> HIDE DEF stock, production
  <2>2. plan \in Plans /\ plan.type = x.type
    BY <1>3, <2>1 DEF Plans
  <2>3. pc \in Statements /\ pc \in {"existing", "history"}
        /\ (pc = "existing" => x.type \in StockTypes) /\ (pc = "history" => x.type \notin StockTypes)
    BY <2>1 DEF Statements
  <2> HIDE DEF plan, pc
  <2>4. new \in Working
    BY <1>2, <2>2, <2>3 DEF Working
  <2>5. /\ new.pc = pc /\ new.req = "plan" /\ new.order = x.order /\ new.type = x.type
        /\ new.row = x.row /\ new.take = x.take /\ new.plan = plan /\ new.free = x.free
    BY <1>2 DEF Working
  <2> HIDE DEF new
  <2>6. new.pc \in Path("plan")
    BY <2>3, <2>5 DEF Path
  <2>7. PlanMade(new)
    BY <1>3, <2>2, <2>3, <2>5 DEF PlanMade
  <2>8. StockHeld(new, locks[s], <<>>)
    BY <2>2, <2>3, <2>5 DEF StockHeld, StockRead, StockTypes
  <2>9. LotsHeld(new, locks[s], <<>>)
    <3>1. new.pc \notin {"allocate", "take"}
      BY <2>3, <2>5
    <3> QED BY <1>2, <2>5, <3>1, LotsStayHeld DEF SessionOK
  <2>10. SessionOK(new, locks[s], <<>>)
    BY <1>2, <2>4, <2>5, <2>6, <2>7, <2>8, <2>9, PlanGoesOn
  <2> QED BY <1>6, <2>10, ContinueStep
<1> QED BY <1>5, <1>6, RefuseStep

LEMMA CheckExistingLinesStep ==
  ASSUME OrdersInv, NEW s \in Sessions, CheckExistingLines(s) PROVE OrdersInv'
<1> DEFINE x == sess[s]
           new == [sess[s] EXCEPT !.pc = "stock"]
<1>1. At(s, "existing") /\ (Continue(s, new, <<>>) \/ Refuse(s))
  BY DEF CheckExistingLines
<1>2. /\ SessionOK(x, locks[s], <<>>) /\ x.pc = "existing" /\ x \in Working
      /\ <<>> \in Seq(LockRows) /\ x.req = "plan"
  BY <1>1, SessionAt, RequestAt DEF SessionOK, SessionTyped
<1>3. new \in Working
  BY <1>2 DEF Working, Statements
<1>4. /\ new.pc = "stock" /\ new.req = "plan" /\ new.order = x.order /\ new.type = x.type
      /\ new.row = x.row /\ new.take = x.take /\ new.plan = x.plan /\ new.free = x.free
  BY <1>2 DEF Working
<1> HIDE DEF new
<1>5. new.pc \in Path("plan")
  BY <1>4 DEF Path
<1>6. PlanMade(new)
  BY <1>2, <1>4 DEF SessionOK, PlanMade
<1>7. StockHeld(new, locks[s], <<>>)
  BY <1>4 DEF StockHeld, StockRead
<1>8. LotsHeld(new, locks[s], <<>>)
  BY <1>2, <1>4, LotsStayHeld DEF SessionOK
<1>9. SessionOK(new, locks[s], <<>>)
  BY <1>2, <1>3, <1>4, <1>5, <1>6, <1>7, <1>8, PlanGoesOn
<1> QED BY <1>1, <1>9, ContinueStep, RefuseStep
\* The queue of the lots that hold pieces, and the locks on them.
LEMMA QueueType == ByAge({l \in StockLots : lotQty[l] > 0}) \in Seq(StockLots)
<1> DEFINE S == {l \in StockLots : lotQty[l] > 0}
<1>1. S \in SUBSET StockLots
  OBVIOUS
<1> HIDE DEF S
<1>2. ByAge(S) \in Seq(S)
  BY <1>1, ByAgeType
<1>3. ByAge(S) \in Seq(StockLots)
  BY <1>1, <1>2
<1> QED BY <1>3 DEF S

LEMMA QueueLocks ==
  ASSUME NEW queue \in Seq(StockLots),
         NEW want, want = ForUpdate([i \in DOMAIN queue |-> Stock(queue[i])])
  PROVE  /\ want \in Seq(LockRows)
         /\ \A l \in Range(queue) : Update(Stock(l)) \in Range(want)
         /\ \A i \in DOMAIN want : Level(want[i].row) = 5
<1> DEFINE n == Len(queue)
           rows == [i \in DOMAIN queue |-> Stock(queue[i])]
<1>2. n \in Nat /\ DOMAIN queue = 1..n /\ \A i \in 1..n : queue[i] \in StockLots
  OBVIOUS
<1> HIDE DEF n
<1>3. rows \in [1..n -> Lockable] /\ \A i \in 1..n : rows[i] = Stock(queue[i])
  BY <1>2, RowLevels
<1>4. want = ForUpdate(rows)
  OBVIOUS
<1> HIDE DEF rows
<1>5. /\ want \in Seq(LockRows) /\ DOMAIN want = 1..n
      /\ \A i \in 1..n : want[i] = Update(rows[i]) /\ want[i].row = rows[i]
  BY <1>2, <1>3, <1>4, ForUpdateType
<1>6. \A l \in Range(queue) : Update(Stock(l)) \in Range(want)
  BY <1>2, <1>3, <1>5 DEF Range
<1>7. \A i \in DOMAIN want : Level(want[i].row) = 5
  BY <1>2, <1>3, <1>5, RowLevels
<1> QED BY <1>5, <1>6, <1>7

LEMMA LockLotsStep ==
  ASSUME OrdersInv, NEW s \in Sessions, LockLots(s) PROVE OrdersInv'
<1> DEFINE x == sess[s]
           queue == ByAge({l \in StockLots : lotQty[l] > 0})
           want == ForUpdate([i \in DOMAIN queue |-> Stock(queue[i])])
           new == [sess[s] EXCEPT !.pc = "allocate", !.queue = queue]
<1>1. At(s, "stock") /\ Continue(s, new, want)
  BY DEF LockLots
<1>2. /\ SessionOK(x, locks[s], <<>>) /\ x.pc = "stock" /\ x \in Working /\ x.req = "plan"
  BY <1>1, SessionAt, RequestAt DEF SessionOK, SessionTyped
<1> HIDE DEF queue
<1>3. /\ queue \in Seq(StockLots) /\ want \in Seq(LockRows)
      /\ \A l \in Range(queue) : Update(Stock(l)) \in Range(want)
  <2>1. queue \in Seq(StockLots)
    BY QueueType DEF queue
  <2> QED BY <2>1, QueueLocks
<1> HIDE DEF want
<1>4. new \in Working
  BY <1>2, <1>3 DEF Working, Statements
<1>5. /\ new.pc = "allocate" /\ new.req = "plan" /\ new.order = x.order /\ new.type = x.type
      /\ new.row = x.row /\ new.take = x.take /\ new.plan = x.plan /\ new.free = x.free
      /\ new.queue = queue
  BY <1>2 DEF Working
<1> HIDE DEF new
<1>6. new.pc \in Path("plan")
  BY <1>5 DEF Path
<1>7. PlanMade(new)
  BY <1>2, <1>5 DEF SessionOK, PlanMade
<1>8. StockHeld(new, locks[s], want)
  BY <1>5 DEF StockHeld, StockRead
<1>9. LotsHeld(new, locks[s], want)
  BY <1>2, <1>3, <1>5 DEF SessionOK, LotsHeld, All
<1>10. SessionOK(new, locks[s], want)
  BY <1>2, <1>3, <1>4, <1>5, <1>6, <1>7, <1>8, <1>9, PlanGoesOn
<1> QED BY <1>1, <1>10, ContinueStep DEF queue, want

\* What is taken from the lots of a queue is there, and comes from them only.
LEMMA FifoTakeType ==
  ASSUME NEW queue \in Seq(StockLots), NEW avail \in [StockLots -> Nat], NEW need \in Nat
  PROVE  /\ FifoTake(queue, avail, need) \in [StockLots -> Nat]
         /\ \A l \in StockLots : FifoTake(queue, avail, need)[l] <= avail[l]
         /\ \A l \in StockLots : FifoTake(queue, avail, need)[l] > 0 => l \in Range(queue)
<1> DEFINE take == FifoTake(queue, avail, need)
           pos(l) == CHOOSE j \in DOMAIN queue : queue[j] = l
           before(l) == SumFunctionOnSet(avail, {queue[j] : j \in 1..(pos(l) - 1)})
           piece(l) == Least(avail[l], AtLeastZero(need - before(l)))
<1>1. take = [l \in StockLots |-> IF l \notin Range(queue) THEN 0 ELSE piece(l)]
  BY DEF FifoTake
<1>2. ASSUME NEW l \in StockLots, l \in Range(queue) PROVE piece(l) \in Nat /\ piece(l) <= avail[l]
  <2> DEFINE S == {queue[j] : j \in 1..(pos(l) - 1)}
  <2>1. \E j \in DOMAIN queue : queue[j] = l
    BY <1>2 DEF Range
  <2>2. pos(l) \in DOMAIN queue
    BY <2>1
  <2> HIDE DEF pos
  <2>3. S \in SUBSET StockLots
    BY <2>2
  <2> HIDE DEF S
  <2>4. IsFiniteSet(S) /\ \A k \in S : avail[k] \in Int
    BY <2>3, LotsFinite, FS_Subset
  <2>5. SumFunctionOnSet(avail, S) \in Int
    BY <2>4, SumType
  <2>6. before(l) \in Int
    BY <2>5 DEF S
  <2> HIDE DEF before
  <2>7. avail[l] \in Nat /\ need - before(l) \in Int
    BY <2>6
  <2>8. AtLeastZero(need - before(l)) \in Nat
    BY <2>7, AtLeastZeroNat
  <2>9. \A m, n \in Nat : Least(m, n) \in Nat /\ Least(m, n) <= m
    BY DEF Least
  <2> QED BY <2>7, <2>8, <2>9
<1> HIDE DEF piece
<1>3. \A l \in StockLots : take[l] = IF l \notin Range(queue) THEN 0 ELSE piece(l)
  BY <1>1
<1>4. take \in [StockLots -> Nat]
  BY <1>1, <1>2
<1>5. \A l \in StockLots : take[l] <= avail[l]
  BY <1>2, <1>3
<1>6. \A l \in StockLots : take[l] > 0 => l \in Range(queue)
  BY <1>3
<1> QED BY <1>4, <1>5, <1>6

LEMMA AllocateStep ==
  ASSUME OrdersInv, NEW s \in Sessions, Allocate(s) PROVE OrdersInv'
<1> DEFINE x == sess[s]
           free == [l \in StockLots |-> AtLeastZero(lotQty[l] - WaitingOn(l))]
           take == FifoTake(x.queue, free, x.plan.stock)
           pc == IF x.type = "PARTIAL_STOCK_PLUS_PRODUCTION" THEN "history" ELSE "confirm"
           new == [x EXCEPT !.take = take, !.pc = pc]
           want == Need(<<Order(x.order)>>, "keyshare")
<1>1. At(s, "allocate") /\ (Continue(s, new, want) \/ Refuse(s))
  BY DEF Allocate
<1>2. /\ SessionOK(x, locks[s], <<>>) /\ x.pc = "allocate" /\ x \in Working /\ x.req = "plan"
      /\ All(locks[s], <<>>) = locks[s]
  BY <1>1, SessionAt, RequestAt DEF SessionOK, SessionTyped
<1>3. /\ lotQty \in [StockLots -> Nat] /\ \A l \in StockLots : WaitingOn(l) \in Nat
  BY QuantitiesType DEF OrdersInv, RowsTyped
<1>4. /\ free \in [StockLots -> Nat]
      /\ \A l \in StockLots : free[l] > 0 => free[l] = lotQty[l] - WaitingOn(l)
      /\ \A l \in StockLots : free[l] <= lotQty[l]
  <2>1. \A l \in StockLots : AtLeastZero(lotQty[l] - WaitingOn(l)) \in Nat
    BY <1>3, AtLeastZeroNat
  <2>2. \A l \in StockLots : free[l] > 0 => free[l] = lotQty[l] - WaitingOn(l)
    BY DEF AtLeastZero
  <2>3. \A l \in StockLots : lotQty[l] \in Nat /\ WaitingOn(l) \in Nat
    BY <1>3
  <2>4. \A l \in StockLots : free[l] <= lotQty[l]
    BY <2>1, <2>3 DEF AtLeastZero
  <2> QED BY <2>1, <2>2, <2>4
<1>5. x.plan.stock \in Nat /\ x.queue \in Seq(StockLots)
  BY <1>2 DEF Working, Plans
<1> HIDE DEF free
<1>6. /\ take \in [StockLots -> Nat] /\ \A l \in StockLots : take[l] <= free[l]
      /\ \A l \in StockLots : take[l] > 0 => l \in Range(x.queue)
  BY <1>4, <1>5, FifoTakeType
<1> HIDE DEF take
<1>7. want \in Seq(LockRows)
  <2>1. x.order \in Nat
    BY <1>2, ConcurrentOrdersAssumption DEF SessionOK, SessionTyped
  <2>2. Order(x.order) \in Lockable
    BY <2>1, RowLevels
  <2> QED BY <2>2, NeedOne
<1>8. pc \in {"history", "confirm"} /\ pc \in Statements
  BY DEF Statements
<1>9. /\ pc = "history" => x.type = "PARTIAL_STOCK_PLUS_PRODUCTION"
      /\ pc = "confirm" => x.type # "PARTIAL_STOCK_PLUS_PRODUCTION"
  OBVIOUS
<1> HIDE DEF want, pc
<1>10. new \in Working
  <2>1. take \in [StockLots -> Int]
    BY <1>6
  <2> QED BY <1>2, <1>8, <2>1 DEF Working
<1>11. /\ new.pc = pc /\ new.req = "plan" /\ new.order = x.order /\ new.type = x.type
       /\ new.row = x.row /\ new.take = take /\ new.plan = x.plan /\ new.free = x.free
  BY <1>2 DEF Working
<1> HIDE DEF new
<1>12. new.pc \in Path("plan")
  BY <1>8, <1>11 DEF Path
<1>13. x.plan.type = x.type /\ x.type \in StockTypes
  BY <1>2 DEF SessionOK, PlanMade
<1>14. PlanMade(new)
  BY <1>2, <1>8, <1>9, <1>11, <1>13 DEF SessionOK, PlanMade, StockTypes
<1>15. StockHeld(new, locks[s], want)
  BY <1>8, <1>9, <1>11, <1>13 DEF StockHeld, StockRead, ShipTypes
<1>16. LotsHeld(new, locks[s], want)
  <2>1. \A l \in StockLots : take[l] > 0 => Update(Stock(l)) \in locks[s]
    BY <1>2, <1>6 DEF SessionOK, LotsHeld
  <2>2. \A l \in StockLots : take[l] > 0 => WaitingOn(l) + take[l] <= lotQty[l]
    <3> SUFFICES ASSUME NEW l \in StockLots, take[l] > 0
                 PROVE  WaitingOn(l) + take[l] <= lotQty[l]
      OBVIOUS
    <3>1. take[l] \in Nat /\ free[l] \in Nat /\ take[l] <= free[l]
      BY <1>4, <1>6
    <3>2. lotQty[l] \in Nat /\ WaitingOn(l) \in Nat
      BY <1>3
    <3>3. free[l] = lotQty[l] - WaitingOn(l)
      BY <1>4, <3>1
    <3> QED BY <3>1, <3>2, <3>3
  <2>3. \A l \in StockLots : take[l] >= 0
    BY <1>6
  <2> QED BY <1>8, <1>11, <2>1, <2>2, <2>3 DEF LotsHeld
<1>17. SessionOK(new, locks[s], want)
  BY <1>2, <1>7, <1>10, <1>11, <1>12, <1>14, <1>15, <1>16, PlanGoesOn
<1> QED BY <1>1, <1>17, ContinueStep, RefuseStep

LEMMA ConfirmOwnLinesStep ==
  ASSUME OrdersInv, NEW s \in Sessions, ConfirmOwnLines(s) PROVE OrdersInv'
<1> DEFINE x == sess[s]
           new == [x EXCEPT !.pc = "read_stock"]
           rows == <<Order(x.order), Inventory>>
           want == ForUpdate(rows)
<1>1. At(s, "confirm") /\ Continue(s, new, want)
  BY DEF ConfirmOwnLines
<1>2. /\ SessionOK(x, locks[s], <<>>) /\ x.pc = "confirm" /\ x \in Working /\ x.req = "plan"
  BY <1>1, SessionAt, RequestAt DEF SessionOK, SessionTyped
<1>3. want \in Seq(LockRows) /\ Update(Inventory) \in Range(want)
  <2> DEFINE n == 2
  <2>1. x.order \in Nat
    BY <1>2, ConcurrentOrdersAssumption DEF SessionOK, SessionTyped
  <2>2. n \in Nat /\ rows \in [1..n -> Lockable] /\ rows[2] = Inventory
    BY <2>1, RowLevels
  <2> HIDE DEF n, rows
  <2>3. /\ want \in Seq(LockRows) /\ DOMAIN want = 1..n
        /\ \A i \in 1..n : want[i] = Update(rows[i])
    BY <2>2, ForUpdateType
  <2>4. 2 \in DOMAIN want /\ want[2] = Update(Inventory)
    BY <2>2, <2>3 DEF n
  <2> QED BY <2>3, <2>4 DEF Range
<1> HIDE DEF want, rows
<1>4. new \in Working
  BY <1>2 DEF Working, Statements
<1>5. /\ new.pc = "read_stock" /\ new.req = "plan" /\ new.order = x.order /\ new.type = x.type
      /\ new.row = x.row /\ new.take = x.take /\ new.plan = x.plan
  BY <1>2 DEF Working
<1> HIDE DEF new
<1>6. new.pc \in Path("plan")
  BY <1>5 DEF Path
<1>7. PlanMade(new)
  BY <1>2, <1>5 DEF SessionOK, PlanMade
<1>8. StockHeld(new, locks[s], want)
  BY <1>3, <1>5 DEF StockHeld, StockRead, All
<1>9. LotsHeld(new, locks[s], want)
  BY <1>2, <1>5, LotsStayHeld DEF SessionOK
<1>10. SessionOK(new, locks[s], want)
  BY <1>2, <1>3, <1>4, <1>5, <1>6, <1>7, <1>8, <1>9, PlanGoesOn
<1> QED BY <1>1, <1>10, ContinueStep

LEMMA WriteHistoryStep ==
  ASSUME OrdersInv, NEW s \in Sessions, WriteHistory(s) PROVE OrdersInv'
<1> DEFINE x == sess[s]
           pc == IF x.type = "STOCK_REPLENISHMENT" THEN "create" ELSE "commit_plan"
           new == [x EXCEPT !.pc = pc]
           want == Need(<<Order(x.order)>>, "nokey")
<1>1. At(s, "history") /\ Continue(s, new, want)
  BY DEF WriteHistory
<1>2. /\ SessionOK(x, locks[s], <<>>) /\ x.pc = "history" /\ x \in Working /\ x.req = "plan"
  BY <1>1, SessionAt, RequestAt DEF SessionOK, SessionTyped
<1>3. want \in Seq(LockRows)
  <2>1. x.order \in Nat
    BY <1>2, ConcurrentOrdersAssumption DEF SessionOK, SessionTyped
  <2>2. Order(x.order) \in Lockable
    BY <2>1, RowLevels
  <2> QED BY <2>2, NeedOne
<1>4. /\ pc \in {"create", "commit_plan"} /\ pc \in Statements
      /\ pc = "create" => x.type = "STOCK_REPLENISHMENT"
  BY DEF Statements
<1> HIDE DEF want, pc
<1>5. new \in Working
  BY <1>2, <1>4 DEF Working
<1>6. /\ new.pc = pc /\ new.req = "plan" /\ new.order = x.order /\ new.type = x.type
      /\ new.row = x.row /\ new.take = x.take /\ new.plan = x.plan /\ new.qty = x.qty
      /\ new.seen = x.seen /\ new.seenLots = x.seenLots
  BY <1>2 DEF Working
<1> HIDE DEF new
<1>7. new.pc \in Path("plan")
  BY <1>4, <1>6 DEF Path
<1>8. PlanMade(new)
  BY <1>2, <1>4, <1>6 DEF SessionOK, PlanMade
<1>9. StockHeld(new, locks[s], want)
  BY <1>2, <1>4, <1>6 DEF SessionOK, StockHeld, StockRead, PlanMade
<1>10. LotsHeld(new, locks[s], want)
  <2>1. new.pc \notin {"allocate", "take"}
    BY <1>4, <1>6
  <2> QED BY <1>2, <1>6, <2>1, LotsStayHeld DEF SessionOK
<1>11. SessionOK(new, locks[s], want)
  BY <1>2, <1>3, <1>5, <1>6, <1>7, <1>8, <1>9, <1>10, PlanGoesOn
<1> QED BY <1>1, <1>11, ContinueStep
-----------------------------------------------------------------------------
(* The statements that make a LOT, cancel and close.                       *)

\* Requests that take nothing and hold no line claim only their place.
LEMMA PlaceOnly ==
  ASSUME NEW new, NEW held, NEW want, new.req \in {"base_lot", "cancel", "short_close"},
         new.pc \in {"lots", "plan", "create", "insert", "commit_lot", "remaining", "commit_status"}
  PROVE  StockHeld(new, held, want) /\ LinesHeld(new, held, want) /\ LotsHeld(new, held, want)
BY DEF StockHeld, StockRead, LinesHeld, LotsHeld

\* The order line's row, locked by an update of it.
LEMMA OrderWant ==
  ASSUME NEW o \in Nat, NEW mode \in {"keyshare", "nokey", "update"},
         NEW want, want = Need(<<Order(o)>>, mode)
  PROVE  /\ want \in Seq(LockRows)
         /\ \A i \in DOMAIN want : i = 1 /\ Level(want[i].row) = 2
<1>1. Order(o) \in Lockable /\ Level(Order(o)) = 2
  BY RowLevels
<1> DEFINE r == Order(o)
<1> HIDE DEF r
<1>2. r \in Lockable /\ Level(r) = 2
  BY <1>1 DEF r
<1>3. want = <<[row |-> r, mode |-> mode]>> /\ want \in Seq(LockRows)
  BY <1>2, NeedOne DEF r
<1> QED BY <1>2, <1>3

LEMMA ToStatus ==
  ASSUME OrdersInv, NEW s \in Sessions, NEW pc, At(s, pc), pc \in {"lots", "remaining"},
         pc = "lots" => sess[s].req = "cancel",
         Continue(s, [sess[s] EXCEPT !.pc = "commit_status"], Need(<<Order(sess[s].order)>>, "nokey"))
  PROVE  OrdersInv'
<1> DEFINE x == sess[s]
           new == [sess[s] EXCEPT !.pc = "commit_status"]
           want == Need(<<Order(sess[s].order)>>, "nokey")
<1>1. /\ SessionOK(x, locks[s], <<>>) /\ x.pc = pc /\ x \in Working /\ locks[s] \in SUBSET LockRows
      /\ x.req \in {"cancel", "short_close"}
  BY SessionAt, RequestAt DEF SessionOK, SessionTyped
<1>2. x.order \in OrderLines /\ x.order \in Nat
  BY <1>1, ConcurrentOrdersAssumption DEF SessionOK, SessionTyped
<1>3. want \in Seq(LockRows) /\ \A i \in DOMAIN want : i = 1 /\ Level(want[i].row) = 2
  BY <1>2, OrderWant
<1> HIDE DEF want
<1>4. new \in Working
  BY <1>1 DEF Working, Statements
<1>5. new.pc = "commit_status" /\ new.req = x.req /\ new.order = x.order
  BY <1>1 DEF Working
<1> HIDE DEF new
<1>6. SessionTyped(new, locks[s], want)
  BY <1>1, <1>2, <1>3, <1>4, <1>5 DEF SessionTyped, Path
<1>7. PlanMade(new)
  BY <1>1, <1>5 DEF PlanMade
<1>8. Orderly(new, locks[s], want)
  <2>1. Reach(x.pc) = 0 /\ Reach(new.pc) = 2
    BY <1>1, <1>5 DEF Reach
  <2>2. \A i \in DOMAIN want :
            Level(want[i].row) > Reach(x.pc) /\ Level(want[i].row) <= Reach(new.pc)
    BY <1>3, <2>1
  <2>3. \A i, j \in DOMAIN want : i < j => Before(want[i], want[j])
    BY <1>3
  <2>4. \A i \in DOMAIN want : Level(want[i].row) = 5 => Update(Inventory) \in All(locks[s], want)
    BY <1>3
  <2>5. /\ Orderly(x, locks[s], <<>>) /\ Reach(x.pc) \in Nat /\ Reach(new.pc) \in Nat
        /\ Reach(x.pc) <= Reach(new.pc) /\ new.pc # "insert"
    BY <1>1, <1>5, <2>1 DEF SessionOK
  <2> QED BY <1>1, <1>3, <1>4, <1>5, <2>2, <2>3, <2>4, <2>5, OrderlyNext
<1>9. StockHeld(new, locks[s], want) /\ LinesHeld(new, locks[s], want) /\ LotsHeld(new, locks[s], want)
  BY <1>1, <1>5, PlaceOnly
<1>10. SessionOK(new, locks[s], want)
  BY <1>6, <1>7, <1>8, <1>9 DEF SessionOK
<1> QED BY <1>10, ContinueStep DEF new, want

LEMMA ReadRemainingStep ==
  ASSUME OrdersInv, NEW s \in Sessions, ReadRemaining(s) PROVE OrdersInv'
<1>1. /\ At(s, "remaining")
      /\ \/ Continue(s, [sess[s] EXCEPT !.pc = "commit_status"], Need(<<Order(sess[s].order)>>, "nokey"))
         \/ Refuse(s)
  BY DEF ReadRemaining
<1> DEFINE pc == "remaining"
<1>2. At(s, pc) /\ pc \in {"lots", "remaining"} /\ (pc = "lots" => sess[s].req = "cancel")
  BY <1>1
<1> HIDE DEF pc
<1> QED BY <1>1, <1>2, ToStatus, RefuseStep

LEMMA CheckNoLotStep ==
  ASSUME OrdersInv, NEW s \in Sessions, CheckNoLot(s) PROVE OrdersInv'
<1> DEFINE x == sess[s]
           new == [sess[s] EXCEPT !.pc = "plan"]
<1>1. /\ At(s, "lots")
      /\ \/ Refuse(s)
         \/ x.req = "base_lot" /\ Continue(s, new, <<>>)
         \/ /\ x.req # "base_lot"
            /\ Continue(s, [sess[s] EXCEPT !.pc = "commit_status"], Need(<<Order(sess[s].order)>>, "nokey"))
  BY DEF CheckNoLot
<1>2. /\ SessionOK(x, locks[s], <<>>) /\ x.pc = "lots" /\ x \in Working
      /\ locks[s] \in SUBSET LockRows /\ x.req \in {"base_lot", "cancel"} /\ <<>> \in Seq(LockRows)
  BY <1>1, SessionAt, RequestAt DEF SessionOK, SessionTyped
<1>3. ASSUME x.req = "base_lot", Continue(s, new, <<>>) PROVE OrdersInv'
  <2>1. new \in Working
    BY <1>2 DEF Working, Statements
  <2>2. new.pc = "plan" /\ new.req = "base_lot" /\ new.req = x.req /\ new.order = x.order
    BY <1>2, <1>3 DEF Working
  <2> HIDE DEF new
  <2>3. SessionTyped(new, locks[s], <<>>)
    BY <1>2, <2>1, <2>2 DEF SessionOK, SessionTyped, Path
  <2>4. PlanMade(new)
    BY <2>2 DEF PlanMade
  <2>5. Orderly(new, locks[s], <<>>)
    <3>1. Reach(x.pc) = 0 /\ Reach(new.pc) = 0
      BY <1>2, <2>2 DEF Reach
    <3>2. /\ Orderly(x, locks[s], <<>>) /\ Reach(x.pc) \in Nat /\ Reach(new.pc) \in Nat
          /\ Reach(x.pc) <= Reach(new.pc) /\ new.pc # "insert"
      BY <1>2, <2>2, <3>1 DEF SessionOK
    <3> QED BY <1>2, <2>1, <2>2, <3>2, OrderlyStays
  <2>6. StockHeld(new, locks[s], <<>>) /\ LinesHeld(new, locks[s], <<>>) /\ LotsHeld(new, locks[s], <<>>)
    BY <2>2, PlaceOnly
  <2>7. SessionOK(new, locks[s], <<>>)
    BY <2>3, <2>4, <2>5, <2>6 DEF SessionOK
  <2> QED BY <1>3, <2>7, ContinueStep
<1>4. ASSUME x.req # "base_lot",
             Continue(s, [sess[s] EXCEPT !.pc = "commit_status"], Need(<<Order(sess[s].order)>>, "nokey"))
      PROVE  OrdersInv'
  <2> DEFINE pc == "lots"
  <2>1. At(s, pc) /\ pc \in {"lots", "remaining"} /\ (pc = "lots" => sess[s].req = "cancel")
    BY <1>1, <1>2, <1>4
  <2> HIDE DEF pc
  <2> QED BY <1>4, <2>1, ToStatus
<1> QED BY <1>1, <1>3, <1>4, RefuseStep

LEMMA ReadPlanStep ==
  ASSUME OrdersInv, NEW s \in Sessions, ReadPlan(s) PROVE OrdersInv'
<1> DEFINE x == sess[s]
           production == orders[x.order].plan.production
           new == [x EXCEPT !.pc = "create", !.qty = production]
<1>1. /\ At(s, "plan")
      /\ \/ production > 0 /\ Continue(s, new, <<>>)
         \/ Refuse(s)
  BY DEF ReadPlan
<1>2. /\ SessionOK(x, locks[s], <<>>) /\ x.pc = "plan" /\ x \in Working
      /\ locks[s] \in SUBSET LockRows /\ x.req = "base_lot" /\ <<>> \in Seq(LockRows)
  BY <1>1, SessionAt, RequestAt DEF SessionOK, SessionTyped
<1>3. production \in Nat
  <2>1. x.order \in OrderLines
    BY <1>2 DEF SessionOK, SessionTyped
  <2>2. orders[x.order] \in OrderRows
    BY <2>1 DEF OrdersInv, RowsTyped
  <2> QED BY <2>2 DEF OrderRows
<1> HIDE DEF production
<1>4. ASSUME production > 0, Continue(s, new, <<>>) PROVE OrdersInv'
  <2>1. new \in Working
    BY <1>2, <1>3 DEF Working, Statements
  <2>2. /\ new.pc = "create" /\ new.req = "base_lot" /\ new.req = x.req /\ new.order = x.order
        /\ new.qty = production
    BY <1>2, <1>4 DEF Working
  <2> HIDE DEF new
  <2>3. SessionTyped(new, locks[s], <<>>)
    BY <1>2, <2>1, <2>2 DEF SessionOK, SessionTyped, Path
  <2>4. PlanMade(new)
    BY <1>4, <2>2 DEF PlanMade
  <2>5. Orderly(new, locks[s], <<>>)
    <3>1. Reach(x.pc) = 0 /\ Reach(new.pc) = 0
      BY <1>2, <2>2 DEF Reach
    <3>2. /\ Orderly(x, locks[s], <<>>) /\ Reach(x.pc) \in Nat /\ Reach(new.pc) \in Nat
          /\ Reach(x.pc) <= Reach(new.pc) /\ new.pc # "insert"
      BY <1>2, <2>2, <3>1 DEF SessionOK
    <3> QED BY <1>2, <2>1, <2>2, <3>2, OrderlyStays
  <2>6. StockHeld(new, locks[s], <<>>) /\ LinesHeld(new, locks[s], <<>>) /\ LotsHeld(new, locks[s], <<>>)
    BY <2>2, PlaceOnly
  <2>7. SessionOK(new, locks[s], <<>>)
    BY <2>3, <2>4, <2>5, <2>6 DEF SessionOK
  <2> QED BY <1>4, <2>7, ContinueStep
<1> QED BY <1>1, <1>4, RefuseStep

\* A request for a base LOT holds nothing until it has a number.
LEMMA NothingHeld ==
  ASSUME NEW x, NEW held \in SUBSET LockRows, Orderly(x, held, <<>>), x.req # "plan",
         Reach(x.pc) = 0
  PROVE  held = {}
<1>1. \A h \in LockRows : Level(h.row) > 0
  BY DEF LockRows, Lockable, Level
<1>2. \A h \in held : Level(h.row) <= 0
  BY AllOfNone DEF Orderly
<1>3. \A h \in LockRows : Level(h.row) \in Nat
  BY DEF LockRows, Lockable, Level
<1> QED BY <1>1, <1>2, <1>3

LEMMA NumberLotStep ==
  ASSUME OrdersInv, NEW s \in Sessions, NumberLot(s) PROVE OrdersInv'
<1> DEFINE x == sess[s]
           number == Len(lots) + 1
           new == [x EXCEPT !.pc = "insert", !.number = number]
           want == Need(<<LotNo(number)>>, "update")
<1>1. At(s, "create") /\ (Continue(s, new, want) \/ Refuse(s))
  BY DEF NumberLot, ForUpdate
<1>2. /\ SessionOK(x, locks[s], <<>>) /\ x.pc = "create" /\ x \in Working
      /\ locks[s] \in SUBSET LockRows /\ x.req \in {"plan", "base_lot"}
  BY <1>1, SessionAt, RequestAt DEF SessionOK, SessionTyped
<1>3. number \in Nat
  <2>1. lots \in Seq(LotRows)
    BY DEF OrdersInv, RowsTyped
  <2> QED BY <2>1
<1> HIDE DEF number
<1>4. LotNo(number) \in Lockable /\ Level(LotNo(number)) = 1
  BY <1>3, RowLevels
<1>5. /\ want \in Seq(LockRows) /\ DOMAIN want = 1..1
      /\ \A h \in All({}, want) : h.row = LotNo(number)
  <2> DEFINE r == LotNo(number)
             e == [row |-> r, mode |-> "update"]
  <2>1. r \in Lockable
    BY <1>4
  <2> HIDE DEF r
  <2>2. want = <<e>> /\ want \in Seq(LockRows) /\ \A held : All(held, want) = held \cup {e}
    BY <2>1, NeedOne DEF r
  <2>3. e.row = r
    OBVIOUS
  <2> HIDE DEF e, want
  <2>4. \A h \in All({}, want) : h.row = r
    BY <2>2, <2>3
  <2>5. DOMAIN want = 1..1
    BY <2>2
  <2> QED BY <2>2, <2>4, <2>5 DEF r
<1>6. \A i \in DOMAIN want : i = 1
  BY <1>5
<1> HIDE DEF want
<1>7. new \in Working
  BY <1>2, <1>3 DEF Working, Statements
<1>8. /\ new.pc = "insert" /\ new.req = x.req /\ new.order = x.order /\ new.qty = x.qty
      /\ new.type = x.type /\ new.row = x.row /\ new.take = x.take /\ new.number = number
  BY <1>2 DEF Working
<1> HIDE DEF new
<1>9. new.pc \in Path(new.req)
  BY <1>2, <1>8 DEF Path
<1>10. PlanMade(new)
  BY <1>2, <1>8 DEF SessionOK, PlanMade
<1>11. ASSUME x.req = "plan" PROVE SessionOK(new, locks[s], want)
  <2>1. StockHeld(new, locks[s], want)
    BY <1>8 DEF StockHeld, StockRead
  <2>2. LotsHeld(new, locks[s], want)
    BY <1>2, <1>8, LotsStayHeld DEF SessionOK
  <2> QED BY <1>5, <1>7, <1>8, <1>9, <1>10, <1>11, <2>1, <2>2, PlanGoesOn
<1>12. ASSUME x.req = "base_lot" PROVE SessionOK(new, locks[s], want)
  <2>1. locks[s] = {}
    <3>1. Reach(x.pc) = 0
      BY <1>2 DEF Reach
    <3> QED BY <1>2, <1>12, <3>1, NothingHeld DEF SessionOK
  <2>2. SessionTyped(new, locks[s], want)
    BY <1>2, <1>5, <1>7, <1>8, <1>9, <1>12 DEF SessionOK, SessionTyped
  <2>3. Orderly(new, locks[s], want)
    <3>1. \A h \in All(locks[s], want) : h.row = LotNo(number) /\ Level(h.row) = 1
      BY <1>4, <1>5, <2>1
    <3>2. InOrder(locks[s], want)
      <4>1. \A i, j \in DOMAIN want : ~(i < j)
        BY <1>6
      <4> QED BY <2>1, <3>1, <4>1 DEF InOrder
    <3>3. Reach(new.pc) = 1
      BY <1>8 DEF Reach
    <3> QED BY <1>8, <3>1, <3>2, <3>3 DEF Orderly
  <2>4. StockHeld(new, locks[s], want) /\ LinesHeld(new, locks[s], want) /\ LotsHeld(new, locks[s], want)
    BY <1>8, <1>12, PlaceOnly
  <2> QED BY <1>10, <2>2, <2>3, <2>4 DEF SessionOK
<1> QED BY <1>1, <1>2, <1>11, <1>12, ContinueStep, RefuseStep

LEMMA InsertLotStep ==
  ASSUME OrdersInv, NEW s \in Sessions, InsertLot(s) PROVE OrdersInv'
<1> DEFINE x == sess[s]
           new == [x EXCEPT !.pc = "commit_lot"]
           want == Need(<<Order(x.order)>>, "keyshare") \o Need(<<Order(x.order)>>, "nokey")
           again == [x EXCEPT !.pc = "create", !.tries = x.tries + 1]
           kept == {held \in locks[s] : held.row # LotNo(x.number)}
<1>1. At(s, "insert")
  BY DEF InsertLot
<1>2. /\ SessionOK(x, locks[s], <<>>) /\ x.pc = "insert" /\ x \in Working
      /\ locks[s] \in SUBSET LockRows /\ x.req \in {"plan", "base_lot"}
  BY <1>1, SessionAt, RequestAt DEF SessionOK, SessionTyped
<1>3. \/ Continue(s, new, want)
      \/ /\ sess' = [sess EXCEPT ![s] = again] /\ locks' = [locks EXCEPT ![s] = kept]
         /\ UNCHANGED <<todo, left>> /\ UNCHANGED tables
      \/ Refuse(s)
  <2>1. sess \in [Sessions -> Working]
    BY DEF OrdersInv, SessionsOK
  <2>2. [sess EXCEPT ![s].pc = "create", ![s].tries = @ + 1] = [sess EXCEPT ![s] = again]
    BY <2>1, <1>2 DEF Working
  <2> QED BY <2>2 DEF InsertLot
<1>4. x.order \in OrderLines /\ x.order \in Nat
  BY <1>2, ConcurrentOrdersAssumption DEF SessionOK, SessionTyped
<1>5. ASSUME Continue(s, new, want) PROVE OrdersInv'
  <2> DEFINE r == Order(x.order)
             a == [row |-> r, mode |-> "keyshare"]
             b == [row |-> r, mode |-> "nokey"]
  <2>1. r \in Lockable /\ Level(r) = 2
    BY <1>4, RowLevels
  <2> HIDE DEF r
  <2>2. Need(<<r>>, "keyshare") = <<a>> /\ Need(<<r>>, "nokey") = <<b>> /\ a \in LockRows /\ b \in LockRows
    BY <2>1, NeedOne
  <2>3. /\ a.row = r /\ b.row = r /\ a.mode = "keyshare" /\ b.mode = "nokey"
    OBVIOUS
  <2> DEFINE p == <<a>>
             q == <<b>>
  <2>4. /\ p \in Seq(LockRows) /\ Len(p) = 1 /\ p[1] = a
        /\ q \in Seq(LockRows) /\ Len(q) = 1 /\ q[1] = b /\ want = p \o q
    BY <2>2 DEF r
  <2> HIDE DEF a, b, p, q, want
  <2>5. /\ want \in Seq(LockRows)
        /\ \A i \in DOMAIN want : (i = 1 /\ want[i] = a) \/ (i = 2 /\ want[i] = b)
    <3>1. /\ p \o q \in Seq(LockRows) /\ Len(p \o q) = Len(p) + Len(q)
          /\ \A i \in 1..(Len(p) + Len(q)) :
               (p \o q)[i] = IF i <= Len(p) THEN p[i] ELSE q[i - Len(p)]
      BY <2>4, ConcatProperties
    <3>2. want \in Seq(LockRows) /\ DOMAIN want = 1..2
      BY <2>4, <3>1
    <3>3. (p \o q)[1] = p[1]
      BY <2>4, <3>1
    <3>4. (p \o q)[2] = q[1]
      BY <2>4, <3>1
    <3>5. \A i \in 1..2 : i = 1 \/ i = 2
      OBVIOUS
    <3> QED BY <2>4, <3>2, <3>3, <3>4, <3>5
  <2>6. new \in Working
    BY <1>2 DEF Working, Statements
  <2>7. /\ new.pc = "commit_lot" /\ new.req = x.req /\ new.order = x.order /\ new.qty = x.qty
        /\ new.type = x.type /\ new.row = x.row /\ new.take = x.take
    BY <1>2 DEF Working
  <2> HIDE DEF new
  <2>8. new.pc \in Path(new.req)
    BY <1>2, <2>7 DEF Path
  <2>9. PlanMade(new)
    BY <1>2, <2>7 DEF SessionOK, PlanMade
  <2>10. ASSUME x.req = "plan" PROVE SessionOK(new, locks[s], want)
    <3>1. StockHeld(new, locks[s], want)
      BY <2>7 DEF StockHeld, StockRead
    <3>2. LotsHeld(new, locks[s], want)
      BY <1>2, <2>7, LotsStayHeld DEF SessionOK
    <3> QED BY <2>5, <2>6, <2>7, <2>8, <2>9, <2>10, <3>1, <3>2, PlanGoesOn
  <2>11. ASSUME x.req = "base_lot" PROVE SessionOK(new, locks[s], want)
    <3>1. SessionTyped(new, locks[s], want)
      BY <1>2, <1>4, <2>5, <2>6, <2>7, <2>8, <2>11 DEF SessionTyped
    <3>2. Orderly(new, locks[s], want)
      <4>1. Reach(x.pc) = 1 /\ Reach(new.pc) = 2
        BY <1>2, <2>7 DEF Reach
      <4>2. \A i \in DOMAIN want : Level(want[i].row) = 2
        BY <2>1, <2>3, <2>5
      <4>3. \A i, j \in DOMAIN want : i < j => Before(want[i], want[j])
        <5> SUFFICES ASSUME NEW i \in DOMAIN want, NEW j \in DOMAIN want, i < j
                     PROVE  Before(want[i], want[j])
          OBVIOUS
        <5>1. want[i] = a /\ want[j] = b
          BY <2>5
        <5> QED BY <2>1, <2>3, <5>1 DEF Before
      <4>4. \A i \in DOMAIN want :
              /\ Level(want[i].row) > Reach(x.pc) /\ Level(want[i].row) <= Reach(new.pc)
              /\ Level(want[i].row) = 5 => Update(Inventory) \in All(locks[s], want)
        BY <4>1, <4>2
      <4>5. /\ Orderly(x, locks[s], <<>>) /\ Reach(x.pc) \in Nat /\ Reach(new.pc) \in Nat
            /\ Reach(x.pc) <= Reach(new.pc) /\ new.pc # "insert"
        BY <1>2, <2>7, <4>1 DEF SessionOK
      <4> QED BY <1>2, <2>5, <2>6, <2>7, <4>3, <4>4, <4>5, OrderlyNext
    <3>3. StockHeld(new, locks[s], want) /\ LinesHeld(new, locks[s], want) /\ LotsHeld(new, locks[s], want)
      BY <2>7, <2>11, PlaceOnly
    <3> QED BY <2>9, <3>1, <3>2, <3>3 DEF SessionOK
  <2> QED BY <1>2, <1>5, <2>10, <2>11, ContinueStep
<1>6. ASSUME sess' = [sess EXCEPT ![s] = again], locks' = [locks EXCEPT ![s] = kept],
             UNCHANGED <<todo, left>>, UNCHANGED tables
      PROVE  OrdersInv'
  <2> DEFINE none == <<>>
  <2>1. x.tries + 1 \in Nat
    BY <1>2 DEF Working
  <2>2. again \in Working
    BY <1>2, <2>1 DEF Working, Statements
  <2>3. /\ again.pc = "create" /\ again.req = x.req /\ again.order = x.order /\ again.qty = x.qty
        /\ again.type = x.type /\ again.row = x.row /\ again.take = x.take
    BY <1>2 DEF Working
  <2> HIDE DEF again
  <2>4. again.pc \in Path(again.req)
    BY <1>2, <2>3 DEF Path
  <2>5. PlanMade(again)
    BY <1>2, <2>3 DEF SessionOK, PlanMade
  <2>6. kept \subseteq locks[s] /\ kept \in SUBSET LockRows /\ none \in Seq(LockRows)
    BY <1>2
  <2>7. \A l \in StockLots : Update(Stock(l)) \in locks[s] => Update(Stock(l)) \in kept
    BY DEF Update, Stock, LotNo, Row
  <2>8. SessionTyped(again, kept, none)
    BY <1>2, <1>4, <2>2, <2>3, <2>4, <2>6 DEF SessionTyped
  <2>9. Orderly(again, kept, none)
    <3> SUFFICES ASSUME x.req = "base_lot" PROVE Orderly(again, kept, none)
      BY <1>2, <2>3 DEF Orderly
    <3>1. kept = {}
      BY <1>2, AllOfNone DEF SessionOK, Orderly
    <3>2. All(kept, none) = {}
      BY <3>1, AllOfNone
    <3> QED BY <2>3, <3>1, <3>2 DEF Orderly, InOrder
  <2>10. StockHeld(again, kept, none) /\ LinesHeld(again, kept, none)
    BY <1>2, <2>3 DEF StockHeld, StockRead, LinesHeld
  <2>11. LotsHeld(again, kept, none)
    BY <1>2, <2>3, <2>7 DEF SessionOK, LotsHeld
  <2>12. SessionOK(again, kept, none)
    BY <2>5, <2>8, <2>9, <2>10, <2>11 DEF SessionOK
  <2>13. todo' = [todo EXCEPT ![s] = none] /\ left' \in 0..MaxRequests
    <3>1. todo \in [Sessions -> Seq(LockRows)] /\ todo[s] = none /\ left \in 0..MaxRequests
      BY <1>1 DEF OrdersInv, SessionsOK, At
    <3>2. todo = [todo EXCEPT ![s] = none]
      BY <3>1
    <3> QED BY <1>6, <3>1, <3>2
  <2>14. \A h \in kept : \A t \in Sessions \ {s} : \A k \in locks[t] :
            h.row = k.row => Compatible(h.mode, k.mode)
    BY <2>6, OwnLocks
  <2> HIDE DEF kept, none
  <2> QED BY <1>6, <2>12, <2>13, <2>14, SessionStep
<1> QED BY <1>3, <1>5, <1>6, RefuseStep
-----------------------------------------------------------------------------
(* The statements that lock shipment lines, the product and its lots.      *)

LEMMA LineLocks ==
  ASSUME NEW n \in Nat, NEW ids \in [1..n -> Nat],
         \A i, j \in 1..n : i < j => ids[i] < ids[j],
         NEW rows \in [1..n -> Lockable], \A k \in 1..n : rows[k] = Line(ids[k]),
         NEW want \in Seq(LockRows), DOMAIN want = 1..n,
         \A i \in 1..n : want[i] = Update(rows[i]) /\ want[i].row = rows[i]
  PROVE  /\ \A i \in 1..n : want[i] = Update(Line(ids[i]))
         /\ \A i \in DOMAIN want : Level(want[i].row) = 3
         /\ \A i, j \in DOMAIN want : i < j => Before(want[i], want[j])
<1>1. \A i \in 1..n : ids[i] \in Nat /\ want[i].row = Line(ids[i]) /\ Level(want[i].row) = 3
  BY RowLevels
<1>2. \A i, j \in DOMAIN want : i < j => Before(want[i], want[j])
  BY <1>1, OrdersAscend
<1> QED BY <1>1, <1>2

LEMMA LinesWant ==
  ASSUME NEW S \in SUBSET Nat, IsFiniteSet(S), NEW ids, ids = Ascending(S),
         NEW want, want = ForUpdate([k \in DOMAIN ids |-> Line(ids[k])])
  PROVE  /\ want \in Seq(LockRows)
         /\ \A i \in DOMAIN want : Level(want[i].row) = 3
         /\ \A i, j \in DOMAIN want : i < j => Before(want[i], want[j])
         /\ \A i \in S : Update(Line(i)) \in Range(want)
<1> DEFINE n == Cardinality(S)
           q == Ascending(S)
           rows == [k \in 1..n |-> Line(q[k])]
           w == ForUpdate(rows)
<1>1. /\ n \in Nat /\ q \in [1..n -> S] /\ DOMAIN q = 1..n
      /\ \A i, j \in 1..n : i < j => q[i] < q[j]
      /\ \A i \in S : \E k \in 1..n : q[k] = i
  BY AscendingType
<1>2. want = w
  BY <1>1
<1> HIDE DEF q, n
<1>3. q \in [1..n -> Nat] /\ \A k \in 1..n : Line(q[k]) \in Lockable
  BY <1>1, RowLevels
<1>4. rows \in [1..n -> Lockable] /\ \A k \in 1..n : rows[k] = Line(q[k])
  BY <1>3
<1> HIDE DEF rows
<1>5. /\ w \in Seq(LockRows) /\ DOMAIN w = 1..n
      /\ \A i \in 1..n : w[i] = Update(rows[i]) /\ w[i].row = rows[i]
  BY <1>1, <1>4, ForUpdateType
<1> HIDE DEF w
<1>6. /\ \A i \in 1..n : w[i] = Update(Line(q[i]))
      /\ \A i \in DOMAIN w : Level(w[i].row) = 3
      /\ \A i, j \in DOMAIN w : i < j => Before(w[i], w[j])
  BY <1>1, <1>3, <1>4, <1>5, LineLocks
<1>7. \A i \in S : Update(Line(i)) \in Range(w)
  BY <1>1, <1>5, <1>6 DEF Range
<1> QED BY <1>2, <1>5, <1>6, <1>7

\* A statement of a request that keeps the lock order.
LEMMA RequestGoesOn ==
  ASSUME OrdersInv, NEW s \in Sessions, todo[s] = <<>>,
         NEW new \in Working, new.req = sess[s].req, new.req # "none", new.order = sess[s].order,
         new.pc \in Path(new.req), NEW want \in Seq(LockRows),
         PlanMade(new), Orderly(new, locks[s], want), StockHeld(new, locks[s], want),
         LinesHeld(new, locks[s], want), LotsHeld(new, locks[s], want)
  PROVE  SessionOK(new, locks[s], want)
<1>1. SessionTyped(sess[s], locks[s], todo[s])
  BY DEF OrdersInv, SessionsOK, SessionOK
<1>2. SessionTyped(new, locks[s], want)
  BY <1>1 DEF SessionTyped
<1> QED BY <1>2 DEF SessionOK

\* One more fact about a statement: the locks keep the order of Level.
LEMMA OrderlyLevel ==
  ASSUME NEW x \in Working, NEW new \in Working, new.req = x.req,
         NEW held \in SUBSET LockRows, NEW want \in Seq(LockRows), Orderly(x, held, <<>>),
         NEW m \in Nat, NEW n \in Nat, Reach(x.pc) = m, Reach(new.pc) = n, m < n,
         \A i \in DOMAIN want : Level(want[i].row) = n,
         \A i, j \in DOMAIN want : i < j => Before(want[i], want[j]),
         n = 5 => Update(Inventory) \in All(held, want),
         new.pc # "insert"
  PROVE  Orderly(new, held, want)
<1>1. \A i \in DOMAIN want :
         Level(want[i].row) > Reach(x.pc) /\ Level(want[i].row) <= Reach(new.pc)
  OBVIOUS
<1>2. \A i \in DOMAIN want : Level(want[i].row) = 5 => Update(Inventory) \in All(held, want)
  OBVIOUS
<1>3. Reach(x.pc) \in Nat /\ Reach(new.pc) \in Nat /\ Reach(x.pc) <= Reach(new.pc)
  OBVIOUS
<1> QED BY <1>1, <1>2, <1>3, OrderlyNext

LEMMA LinesNat ==
  ASSUME OrdersInv
  PROVE  /\ DOMAIN lines \in SUBSET Nat /\ IsFiniteSet(DOMAIN lines)
         /\ \A i \in DOMAIN lines : lines[i] \in LineRows
<1>1. lines \in Seq(LineRows)
  BY DEF OrdersInv, RowsTyped
<1>2. DOMAIN lines = 1..Len(lines) /\ Len(lines) \in Nat
  BY <1>1
<1>3. IsFiniteSet(1..Len(lines))
  BY <1>2, FS_Interval
<1> QED BY <1>1, <1>2, <1>3

LEMMA EditOrderStep ==
  ASSUME OrdersInv, NEW s \in Sessions, EditOrder(s) PROVE OrdersInv'
<1> DEFINE x == sess[s]
           o == x.order
           withLot == LotsOf(o) # {}
           statuses == IF withLot THEN {"WAITING", "DONE"} ELSE {"WAITING"}
           S == LinesOf(o, statuses)
           ids == Ascending(S)
           pc == IF withLot THEN "resize" ELSE "void"
           new == [x EXCEPT !.pc = pc, !.row = orders[o], !.ids = S]
           want == ForUpdate([i \in DOMAIN ids |-> Line(ids[i])])
<1>1. At(s, "edit") /\ (Continue(s, new, want) \/ Refuse(s))
  BY DEF EditOrder
<1>2. /\ SessionOK(x, locks[s], <<>>) /\ x.pc = "edit" /\ x \in Working
      /\ locks[s] \in SUBSET LockRows /\ x.req = "change" /\ x.order \in OrderLines
  BY <1>1, SessionAt, RequestAt DEF SessionOK, SessionTyped
<1>3. todo[s] = <<>>
  BY <1>1 DEF At
<1>4. S \subseteq DOMAIN lines /\ S \in SUBSET Nat /\ IsFiniteSet(S)
  <2>1. S \in SUBSET DOMAIN lines
    BY DEF LinesOf
  <2> HIDE DEF S
  <2> QED BY <2>1, LinesNat, FS_Subset
<1>5. pc \in {"resize", "void"} /\ pc \in Statements
  BY DEF Statements
<1> HIDE DEF pc, S
<1>6. /\ want \in Seq(LockRows)
      /\ \A i \in DOMAIN want : Level(want[i].row) = 3
      /\ \A i, j \in DOMAIN want : i < j => Before(want[i], want[j])
      /\ \A i \in S : Update(Line(i)) \in Range(want)
  BY <1>4, LinesWant
<1> HIDE DEF want
<1>7. orders[o] \in OrderRows
  BY <1>2 DEF OrdersInv, RowsTyped
<1>8. new \in Working
  BY <1>2, <1>4, <1>5, <1>7 DEF Working
<1>9. /\ new.pc = pc /\ new.req = "change" /\ new.req = x.req /\ new.order = x.order
      /\ new.qty = x.qty /\ new.ids = S
  BY <1>2 DEF Working
<1> HIDE DEF new
<1>10. new.pc \in Path(new.req)
  BY <1>5, <1>9 DEF Path
<1>11. PlanMade(new)
  BY <1>2, <1>5, <1>9 DEF SessionOK, PlanMade
<1>12. Orderly(new, locks[s], want)
  <2> DEFINE m == 2
             n == 3
  <2>1. /\ Reach(x.pc) = m /\ Reach(new.pc) = n /\ m \in Nat /\ n \in Nat /\ m < n /\ n # 5
        /\ \A i \in DOMAIN want : Level(want[i].row) = n
    BY <1>2, <1>5, <1>6, <1>9 DEF Reach
  <2>2. Orderly(x, locks[s], <<>>) /\ new.pc # "insert"
    BY <1>2, <1>5, <1>9 DEF SessionOK
  <2> HIDE DEF m, n
  <2> QED BY <1>2, <1>6, <1>8, <1>9, <2>1, <2>2, OrderlyLevel
<1>13. StockHeld(new, locks[s], want) /\ LotsHeld(new, locks[s], want)
  BY <1>5, <1>9 DEF StockHeld, StockRead, LotsHeld
<1>14. LinesHeld(new, locks[s], want)
  BY <1>4, <1>5, <1>6, <1>9 DEF LinesHeld, All
<1>15. SessionOK(new, locks[s], want)
  BY <1>3, <1>6, <1>8, <1>9, <1>10, <1>11, <1>12, <1>13, <1>14, RequestGoesOn
<1> QED BY <1>1, <1>15, ContinueStep, RefuseStep

LEMMA LockLinesStep ==
  ASSUME OrdersInv, NEW s \in Sessions, LockLines(s) PROVE OrdersInv'
<1> DEFINE x == sess[s]
           S == {i \in x.ids : lines[i].status = "WAITING"}
           ids == Ascending(S)
           new == [x EXCEPT !.pc = "count"]
           want == ForUpdate([k \in DOMAIN ids |-> Line(ids[k])])
<1>1. At(s, "lines") /\ Continue(s, new, want)
  BY DEF LockLines
<1>2. /\ SessionOK(x, locks[s], <<>>) /\ x.pc = "lines" /\ x \in Working
      /\ locks[s] \in SUBSET LockRows /\ x.req = "ship"
  BY <1>1, SessionAt, RequestAt DEF SessionOK, SessionTyped
<1>3. todo[s] = <<>>
  BY <1>1 DEF At
<1>4. x.ids \subseteq DOMAIN lines
  BY <1>2 DEF SessionOK, LinesHeld
<1>5. S \in SUBSET Nat /\ IsFiniteSet(S)
  <2>1. S \in SUBSET DOMAIN lines
    BY <1>4
  <2> HIDE DEF S
  <2> QED BY <2>1, LinesNat, FS_Subset
<1>6. \A i \in x.ids : lines[i].status = "WAITING" => i \in S
  OBVIOUS
<1> HIDE DEF S
<1>7. /\ want \in Seq(LockRows)
      /\ \A i \in DOMAIN want : Level(want[i].row) = 3
      /\ \A i, j \in DOMAIN want : i < j => Before(want[i], want[j])
      /\ \A i \in S : Update(Line(i)) \in Range(want)
  BY <1>5, LinesWant
<1> HIDE DEF want
<1>8. new \in Working
  BY <1>2 DEF Working, Statements
<1>9. /\ new.pc = "count" /\ new.req = "ship" /\ new.req = x.req /\ new.order = x.order
      /\ new.ids = x.ids
  BY <1>2 DEF Working
<1> HIDE DEF new
<1>10. new.pc \in Path(new.req)
  BY <1>9 DEF Path
<1>11. PlanMade(new)
  BY <1>9 DEF PlanMade
<1>12. Orderly(new, locks[s], want)
  <2> DEFINE m == 2
             n == 3
  <2>1. /\ Reach(x.pc) = m /\ Reach(new.pc) = n /\ m \in Nat /\ n \in Nat /\ m < n /\ n # 5
        /\ \A i \in DOMAIN want : Level(want[i].row) = n
    BY <1>2, <1>7, <1>9 DEF Reach
  <2>2. Orderly(x, locks[s], <<>>) /\ new.pc # "insert"
    BY <1>2, <1>9 DEF SessionOK
  <2> HIDE DEF m, n
  <2> QED BY <1>2, <1>7, <1>8, <1>9, <2>1, <2>2, OrderlyLevel
<1>13. StockHeld(new, locks[s], want) /\ LotsHeld(new, locks[s], want)
  BY <1>9 DEF StockHeld, StockRead, LotsHeld
<1>14. LinesHeld(new, locks[s], want)
  BY <1>4, <1>6, <1>7, <1>9 DEF LinesHeld, All
<1>15. SessionOK(new, locks[s], want)
  BY <1>3, <1>7, <1>8, <1>9, <1>10, <1>11, <1>12, <1>13, <1>14, RequestGoesOn
<1> QED BY <1>1, <1>15, ContinueStep

LEMMA TakenByType ==
  ASSUME OrdersInv, NEW ids \in SUBSET DOMAIN lines
  PROVE  TakenBy(ids) \in [StockLots -> Nat]
<1>1. ASSUME NEW l \in StockLots
      PROVE  SumFunctionOnSet(LineQtys, {i \in ids : lines[i].lot = l}) \in Nat
  <2> DEFINE S == {i \in ids : lines[i].lot = l}
  <2>1. S \in SUBSET DOMAIN lines
    OBVIOUS
  <2> HIDE DEF S
  <2>2. SumFunctionOnSet(LineQtys, S) \in Nat
    BY <2>1, SumsOfLines DEF OrdersInv
  <2> QED BY <2>2 DEF S
<1> QED BY <1>1 DEF TakenBy

LEMMA CountLinesStep ==
  ASSUME OrdersInv, NEW s \in Sessions, CountLines(s) PROVE OrdersInv'
<1> DEFINE x == sess[s]
           ids == Ascending(x.ids)
           new == [x EXCEPT !.pc = "read_stock", !.take = TakenBy(x.ids)]
           stock == [k \in DOMAIN ids |-> Stock(lines[ids[k]].lot)]
           rows == <<Inventory>> \o stock
           want == ForUpdate(rows)
<1>1. /\ At(s, "count")
      /\ \/ (\A i \in x.ids : lines[i].status = "WAITING") /\ Continue(s, new, want)
         \/ Refuse(s)
  BY DEF CountLines
<1>2. /\ SessionOK(x, locks[s], <<>>) /\ x.pc = "count" /\ x \in Working
      /\ locks[s] \in SUBSET LockRows /\ x.req = "ship" /\ All(locks[s], <<>>) = locks[s]
  BY <1>1, SessionAt, RequestAt DEF SessionOK, SessionTyped
<1>3. todo[s] = <<>>
  BY <1>1 DEF At
<1>4. x.ids \in SUBSET DOMAIN lines /\ x.ids \in SUBSET Nat /\ IsFiniteSet(x.ids)
  <2>1. x.ids \in SUBSET DOMAIN lines
    BY <1>2 DEF SessionOK, LinesHeld
  <2> QED BY <2>1, LinesNat, FS_Subset
<1> DEFINE n == Cardinality(x.ids)
<1>5. n \in Nat /\ ids \in [1..n -> x.ids] /\ DOMAIN ids = 1..n
  BY <1>4, AscendingType
<1> HIDE DEF ids, n
<1>6. stock \in Seq(Lockable) /\ Len(stock) = n /\ \A k \in 1..n : Level(stock[k]) = 5
  <2>1. ASSUME NEW k \in 1..n PROVE Stock(lines[ids[k]].lot) \in Lockable /\ Level(Stock(lines[ids[k]].lot)) = 5
    <3>1. ids[k] \in DOMAIN lines
      BY <1>4, <1>5
    <3>2. lines[ids[k]].lot \in StockLots
      BY <3>1, LinesNat DEF LineRows
    <3> QED BY <3>2, RowLevels
  <2> QED BY <1>5, <2>1
<1> HIDE DEF stock
<1>7. /\ rows \in [1..(n + 1) -> Lockable] /\ rows[1] = Inventory
      /\ \A k \in 1..(n + 1) : k = 1 \/ Level(rows[k]) = 5
  <2> DEFINE first == <<Inventory>>
  <2>1. first \in Seq(Lockable) /\ Len(first) = 1 /\ first[1] = Inventory
    <3>1. Inventory \in Lockable
      BY RowLevels
    <3> QED BY <3>1
  <2>2. rows = first \o stock
    OBVIOUS
  <2> HIDE DEF first, rows
  <2>3. /\ rows \in Seq(Lockable) /\ Len(rows) = Len(first) + Len(stock)
        /\ \A i \in 1..(Len(first) + Len(stock)) :
               rows[i] = IF i <= Len(first) THEN first[i] ELSE stock[i - Len(first)]
    BY <1>6, <2>1, <2>2, ConcatProperties
  <2>4. Len(rows) = n + 1 /\ rows[1] = Inventory
    BY <1>5, <1>6, <2>1, <2>3
  <2>5. ASSUME NEW k \in 1..(n + 1), k # 1 PROVE Level(rows[k]) = 5
    <3>1. rows[k] = stock[k - 1] /\ k - 1 \in 1..n
      BY <1>5, <1>6, <2>1, <2>3, <2>5
    <3> QED BY <1>6, <3>1
  <2> QED BY <2>3, <2>4, <2>5
<1> DEFINE m == n + 1
<1>8. m \in Nat /\ 1 \in 1..m
  BY <1>5
<1> HIDE DEF rows
<1>9. /\ want \in Seq(LockRows) /\ DOMAIN want = 1..m
      /\ \A i \in 1..m : want[i] = Update(rows[i]) /\ want[i].row = rows[i]
  <2> HIDE DEF m
  <2>1. rows \in [1..m -> Lockable]
    BY <1>7 DEF m
  <2> QED BY <1>8, <2>1, ForUpdateType
<1> HIDE DEF want
<1>10. Update(Inventory) \in Range(want)
  BY <1>7, <1>8, <1>9 DEF Range
<1>11. ASSUME \A i \in x.ids : lines[i].status = "WAITING", Continue(s, new, want) PROVE OrdersInv'
  <2>1. TakenBy(x.ids) \in [StockLots -> Nat]
    BY <1>4, TakenByType
  <2>2. TakenBy(x.ids) \in [StockLots -> Int]
    BY <2>1
  <2>3. new \in Working
    BY <1>2, <2>2 DEF Working, Statements
  <2>4. /\ new.pc = "read_stock" /\ new.req = "ship" /\ new.req = x.req /\ new.order = x.order
        /\ new.ids = x.ids /\ new.take = TakenBy(x.ids)
    BY <1>2 DEF Working
  <2> HIDE DEF new
  <2>5. new.pc \in Path(new.req)
    BY <2>4 DEF Path
  <2>6. PlanMade(new)
    BY <2>4 DEF PlanMade
  <2>7. Orderly(new, locks[s], want)
    <3>1. Reach(x.pc) = 3 /\ Reach(new.pc) = 5
      BY <1>2, <2>4 DEF Reach
    <3>2. \A i \in DOMAIN want : \/ i = 1 /\ Level(want[i].row) = 4
                                 \/ Level(want[i].row) = 5
      BY <1>7, <1>8, <1>9, RowLevels
    <3>3. \A i \in DOMAIN want : i \in Nat /\ i >= 1
      BY <1>9
    <3>4. \A i, j \in DOMAIN want : i < j => Before(want[i], want[j])
      <4> SUFFICES ASSUME NEW i \in DOMAIN want, NEW j \in DOMAIN want, i < j
                   PROVE  Before(want[i], want[j])
        OBVIOUS
      <4>1. j # 1
        BY <3>3
      <4>2. Level(want[j].row) = 5
        BY <3>2, <4>1
      <4>3. Level(want[i].row) = 4 \/ Level(want[i].row) = 5
        BY <3>2
      <4> QED BY <4>2, <4>3 DEF Before
    <3>5. \A i \in DOMAIN want :
              /\ Level(want[i].row) > Reach(x.pc) /\ Level(want[i].row) <= Reach(new.pc)
              /\ Level(want[i].row) = 5 => Update(Inventory) \in All(locks[s], want)
      BY <1>10, <3>1, <3>2 DEF All
    <3>6. /\ Orderly(x, locks[s], <<>>) /\ Reach(x.pc) \in Nat /\ Reach(new.pc) \in Nat
          /\ Reach(x.pc) <= Reach(new.pc) /\ new.pc # "insert"
      BY <1>2, <2>4, <3>1 DEF SessionOK
    <3> QED BY <1>2, <1>9, <2>3, <2>4, <3>4, <3>5, <3>6, OrderlyNext
  <2>8. StockHeld(new, locks[s], want) /\ LotsHeld(new, locks[s], want)
    BY <1>10, <2>4 DEF StockHeld, StockRead, LotsHeld, All
  <2>9. LinesHeld(new, locks[s], want)
    <3>1. \A i \in x.ids : Update(Line(i)) \in locks[s]
      BY <1>2, <1>11 DEF SessionOK, LinesHeld
    <3> QED BY <1>4, <1>11, <2>4, <3>1 DEF LinesHeld
  <2>10. SessionOK(new, locks[s], want)
    BY <1>3, <1>9, <2>3, <2>4, <2>5, <2>6, <2>7, <2>8, <2>9, RequestGoesOn
  <2> QED BY <1>11, <2>10, ContinueStep
<1> QED BY <1>1, <1>11, RefuseStep

LEMMA ReadStockStep ==
  ASSUME OrdersInv, NEW s \in Sessions, ReadStock(s) PROVE OrdersInv'
<1> DEFINE x == sess[s]
           pc == IF x.req = "plan" THEN "history" ELSE "commit_shipment"
           new == [x EXCEPT !.pc = pc, !.seen = inventory, !.seenLots = lotQty]
<1>1. /\ At(s, "read_stock")
      /\ \/ (\A l \in StockLots : lotQty[l] >= x.take[l]) /\ Continue(s, new, <<>>)
         \/ Refuse(s)
  BY DEF ReadStock
<1>2. /\ SessionOK(x, locks[s], <<>>) /\ x.pc = "read_stock" /\ x \in Working
      /\ locks[s] \in SUBSET LockRows /\ x.req \in {"plan", "ship"} /\ <<>> \in Seq(LockRows)
      /\ All(locks[s], <<>>) = locks[s]
  BY <1>1, SessionAt, RequestAt DEF SessionOK, SessionTyped
<1>3. todo[s] = <<>>
  BY <1>1 DEF At
<1>4. inventory \in Int /\ lotQty \in [StockLots -> Nat] /\ lotQty \in [StockLots -> Int]
  BY DEF OrdersInv, RowsTyped
<1>5. /\ pc \in {"history", "commit_shipment"} /\ pc \in Statements
      /\ (x.req = "plan" => pc = "history") /\ (x.req = "ship" => pc = "commit_shipment")
  BY DEF Statements
<1> HIDE DEF pc
<1>6. ASSUME \A l \in StockLots : lotQty[l] >= x.take[l], Continue(s, new, <<>>) PROVE OrdersInv'
  <2>1. new \in Working
    BY <1>2, <1>4, <1>5 DEF Working
  <2>2. /\ new.pc = pc /\ new.req = x.req /\ new.order = x.order /\ new.type = x.type
        /\ new.row = x.row /\ new.plan = x.plan /\ new.ids = x.ids /\ new.take = x.take
        /\ new.seen = inventory /\ new.seenLots = lotQty
    BY <1>2 DEF Working
  <2> HIDE DEF new
  <2>3. new.pc \in Path(new.req)
    BY <1>2, <1>5, <2>2 DEF Path
  <2>4. PlanMade(new)
    BY <1>2, <1>5, <2>2 DEF SessionOK, PlanMade, ShipTypes
  <2>5. StockHeld(new, locks[s], <<>>)
    <3>1. Update(Inventory) \in locks[s]
      BY <1>2 DEF SessionOK, StockHeld
    <3>2. \A l \in StockLots : x.take[l] <= lotQty[l]
      <4>1. \A l \in StockLots : x.take[l] \in Int /\ lotQty[l] \in Int
        BY <1>2, <1>4 DEF Working
      <4> QED BY <1>6, <4>1
    <3> QED BY <1>5, <2>2, <3>1, <3>2 DEF StockHeld
  <2>6. LotsHeld(new, locks[s], <<>>)
    <3>1. new.pc \notin {"allocate", "take"}
      BY <1>5, <2>2
    <3> QED BY <1>2, <2>2, <3>1, LotsStayHeld DEF SessionOK
  <2>7. LinesHeld(new, locks[s], <<>>)
    BY <1>2, <1>5, <2>2 DEF SessionOK, LinesHeld
  <2>8. Orderly(new, locks[s], <<>>)
    <3> SUFFICES ASSUME x.req = "ship" PROVE Orderly(new, locks[s], <<>>)
      BY <1>2, <2>2 DEF Orderly
    <3>1. Reach(x.pc) = 5 /\ Reach(new.pc) = 5
      BY <1>2, <1>5, <2>2 DEF Reach
    <3>2. /\ Orderly(x, locks[s], <<>>) /\ Reach(x.pc) \in Nat /\ Reach(new.pc) \in Nat
          /\ Reach(x.pc) <= Reach(new.pc) /\ new.pc # "insert"
      BY <1>2, <1>5, <2>2, <3>1 DEF SessionOK
    <3> QED BY <1>2, <2>1, <2>2, <3>2, OrderlyStays
  <2>9. SessionOK(new, locks[s], <<>>)
    BY <1>2, <1>3, <2>1, <2>2, <2>3, <2>4, <2>5, <2>6, <2>7, <2>8, RequestGoesOn
  <2> QED BY <1>6, <2>9, ContinueStep
<1> QED BY <1>1, <1>6, RefuseStep

LEMMA ReadIncreaseStep ==
  ASSUME OrdersInv, NEW s \in Sessions, ReadIncrease(s) PROVE OrdersInv'
<1> DEFINE x == sess[s]
           new == [x EXCEPT !.pc = "commit_adjust", !.seen = inventory, !.seenLots = lotQty]
<1>1. At(s, "increase") /\ Continue(s, new, <<>>)
  BY DEF ReadIncrease
<1>2. /\ SessionOK(x, locks[s], <<>>) /\ x.pc = "increase" /\ x \in Working
      /\ locks[s] \in SUBSET LockRows /\ x.req = "increase" /\ <<>> \in Seq(LockRows)
      /\ All(locks[s], <<>>) = locks[s]
  BY <1>1, SessionAt, RequestAt DEF SessionOK, SessionTyped
<1>3. todo[s] = <<>>
  BY <1>1 DEF At
<1>4. inventory \in Int /\ lotQty \in [StockLots -> Nat] /\ lotQty \in [StockLots -> Int]
  BY DEF OrdersInv, RowsTyped
<1>5. new \in Working
  BY <1>2, <1>4 DEF Working, Statements
<1>6. /\ new.pc = "commit_adjust" /\ new.req = "increase" /\ new.req = x.req /\ new.order = x.order
      /\ new.take = x.take /\ new.seen = inventory /\ new.seenLots = lotQty
  BY <1>2 DEF Working
<1> HIDE DEF new
<1>7. new.pc \in Path(new.req)
  BY <1>6 DEF Path
<1>8. PlanMade(new)
  BY <1>6 DEF PlanMade
<1>9. StockHeld(new, locks[s], <<>>)
  <2>1. Update(Inventory) \in locks[s]
    BY <1>2 DEF SessionOK, StockHeld
  <2>2. \A l \in StockLots : x.take[l] <= lotQty[l]
    <3>1. \A l \in StockLots : x.take[l] \in Int /\ lotQty[l] \in Nat /\ x.take[l] <= 0
      BY <1>2, <1>4 DEF Working, SessionOK, LotsHeld
    <3> QED BY <3>1
  <2> QED BY <1>6, <2>1, <2>2 DEF StockHeld
<1>10. LotsHeld(new, locks[s], <<>>)
  BY <1>2, <1>6, LotsStayHeld DEF SessionOK
<1>11. LinesHeld(new, locks[s], <<>>)
  BY <1>6 DEF LinesHeld
<1>12. Orderly(new, locks[s], <<>>)
  <2>1. Reach(x.pc) = 5 /\ Reach(new.pc) = 5
    BY <1>2, <1>6 DEF Reach
  <2>2. /\ Orderly(x, locks[s], <<>>) /\ Reach(x.pc) \in Nat /\ Reach(new.pc) \in Nat
        /\ Reach(x.pc) <= Reach(new.pc) /\ new.pc # "insert"
    BY <1>2, <1>6, <2>1 DEF SessionOK
  <2> QED BY <1>2, <1>5, <1>6, <2>2, OrderlyStays
<1>13. SessionOK(new, locks[s], <<>>)
  BY <1>2, <1>3, <1>5, <1>6, <1>7, <1>8, <1>9, <1>10, <1>11, <1>12, RequestGoesOn
<1> QED BY <1>1, <1>13, ContinueStep

LEMMA LockDecreaseStep ==
  ASSUME OrdersInv, NEW s \in Sessions, LockDecrease(s) PROVE OrdersInv'
<1> DEFINE x == sess[s]
           queue == ByAge({l \in StockLots : lotQty[l] > 0})
           new == [x EXCEPT !.pc = "take", !.queue = queue, !.seen = inventory]
           want == ForUpdate([i \in DOMAIN queue |-> Stock(queue[i])])
<1>1. At(s, "decrease") /\ (Continue(s, new, want) \/ Refuse(s))
  BY DEF LockDecrease
<1>2. /\ SessionOK(x, locks[s], <<>>) /\ x.pc = "decrease" /\ x \in Working
      /\ locks[s] \in SUBSET LockRows /\ x.req = "decrease" /\ All(locks[s], <<>>) = locks[s]
  BY <1>1, SessionAt, RequestAt DEF SessionOK, SessionTyped
<1>3. todo[s] = <<>>
  BY <1>1 DEF At
<1> HIDE DEF queue
<1>4. /\ queue \in Seq(StockLots) /\ want \in Seq(LockRows)
      /\ \A l \in Range(queue) : Update(Stock(l)) \in Range(want)
      /\ \A i \in DOMAIN want : Level(want[i].row) = 5
  <2>1. queue \in Seq(StockLots)
    BY QueueType DEF queue
  <2> QED BY <2>1, QueueLocks
<1> HIDE DEF want
<1>5. inventory \in Int
  BY DEF OrdersInv, RowsTyped
<1>6. new \in Working
  BY <1>2, <1>4, <1>5 DEF Working, Statements
<1>7. /\ new.pc = "take" /\ new.req = "decrease" /\ new.req = x.req /\ new.order = x.order
      /\ new.take = x.take /\ new.seen = inventory /\ new.queue = queue
  BY <1>2 DEF Working
<1> HIDE DEF new
<1>8. new.pc \in Path(new.req)
  BY <1>7 DEF Path
<1>9. PlanMade(new)
  BY <1>7 DEF PlanMade
<1>10. Update(Inventory) \in locks[s]
  BY <1>2 DEF SessionOK, StockHeld
<1>11. StockHeld(new, locks[s], want)
  BY <1>7, <1>10 DEF StockHeld, StockRead
<1>12. LotsHeld(new, locks[s], want)
  BY <1>2, <1>4, <1>7 DEF SessionOK, LotsHeld, All
<1>13. LinesHeld(new, locks[s], want)
  BY <1>7 DEF LinesHeld
<1>14. Orderly(new, locks[s], want)
  <2> DEFINE m == 4
             n == 5
  <2>1. /\ Reach(x.pc) = m /\ Reach(new.pc) = n /\ m \in Nat /\ n \in Nat /\ m < n
        /\ \A i \in DOMAIN want : Level(want[i].row) = n
    BY <1>2, <1>4, <1>7 DEF Reach
  <2>2. Orderly(x, locks[s], <<>>) /\ new.pc # "insert"
    BY <1>2, <1>7 DEF SessionOK
  <2>3. \A i, j \in DOMAIN want : i < j => Before(want[i], want[j])
    BY <1>4 DEF Before
  <2>4. Update(Inventory) \in All(locks[s], want)
    BY <1>10 DEF All
  <2> HIDE DEF m, n
  <2> QED BY <1>2, <1>4, <1>6, <1>7, <2>1, <2>2, <2>3, <2>4, OrderlyLevel
<1>15. SessionOK(new, locks[s], want)
  BY <1>3, <1>4, <1>6, <1>7, <1>8, <1>9, <1>11, <1>12, <1>13, <1>14, RequestGoesOn
<1> QED BY <1>1, <1>15, ContinueStep, RefuseStep

LEMMA TakeDecreaseStep ==
  ASSUME OrdersInv, NEW s \in Sessions, TakeDecrease(s) PROVE OrdersInv'
<1> DEFINE x == sess[s]
           take == FifoTake(x.queue, lotQty, x.qty)
           new == [x EXCEPT !.pc = "commit_adjust", !.take = take, !.seenLots = lotQty]
<1>1. At(s, "take") /\ (Continue(s, new, <<>>) \/ Refuse(s))
  BY DEF TakeDecrease
<1>2. /\ SessionOK(x, locks[s], <<>>) /\ x.pc = "take" /\ x \in Working
      /\ locks[s] \in SUBSET LockRows /\ x.req = "decrease" /\ <<>> \in Seq(LockRows)
      /\ All(locks[s], <<>>) = locks[s]
  BY <1>1, SessionAt, RequestAt DEF SessionOK, SessionTyped
<1>3. todo[s] = <<>>
  BY <1>1 DEF At
<1>4. lotQty \in [StockLots -> Nat] /\ lotQty \in [StockLots -> Int]
  BY DEF OrdersInv, RowsTyped
<1>5. x.queue \in Seq(StockLots) /\ x.qty \in Nat
  BY <1>2 DEF Working
<1>6. /\ take \in [StockLots -> Nat] /\ \A l \in StockLots : take[l] <= lotQty[l]
      /\ \A l \in StockLots : take[l] > 0 => l \in Range(x.queue)
  BY <1>4, <1>5, FifoTakeType
<1> HIDE DEF take
<1>7. take \in [StockLots -> Int]
  BY <1>6
<1>8. new \in Working
  BY <1>2, <1>4, <1>7 DEF Working, Statements
<1>9. /\ new.pc = "commit_adjust" /\ new.req = "decrease" /\ new.req = x.req /\ new.order = x.order
      /\ new.take = take /\ new.seen = x.seen /\ new.seenLots = lotQty
  BY <1>2 DEF Working
<1> HIDE DEF new
<1>10. new.pc \in Path(new.req)
  BY <1>9 DEF Path
<1>11. PlanMade(new)
  BY <1>9 DEF PlanMade
<1>12. StockHeld(new, locks[s], <<>>)
  BY <1>2, <1>6, <1>9 DEF SessionOK, StockHeld
<1>13. LotsHeld(new, locks[s], <<>>)
  <2>1. \A l \in StockLots : take[l] > 0 => Update(Stock(l)) \in locks[s]
    BY <1>2, <1>6 DEF SessionOK, LotsHeld
  <2> QED BY <1>9, <2>1 DEF LotsHeld
<1>14. LinesHeld(new, locks[s], <<>>)
  BY <1>9 DEF LinesHeld
<1>15. Orderly(new, locks[s], <<>>)
  <2>1. Reach(x.pc) = 5 /\ Reach(new.pc) = 5
    BY <1>2, <1>9 DEF Reach
  <2>2. /\ Orderly(x, locks[s], <<>>) /\ Reach(x.pc) \in Nat /\ Reach(new.pc) \in Nat
        /\ Reach(x.pc) <= Reach(new.pc) /\ new.pc # "insert"
    BY <1>2, <1>9, <2>1 DEF SessionOK
  <2> QED BY <1>2, <1>8, <1>9, <2>2, OrderlyStays
<1>16. SessionOK(new, locks[s], <<>>)
  BY <1>2, <1>3, <1>8, <1>9, <1>10, <1>11, <1>12, <1>13, <1>14, <1>15, RequestGoesOn
<1> QED BY <1>1, <1>16, ContinueStep, RefuseStep
-----------------------------------------------------------------------------
(* A commit: what it writes is protected by the locks of its session.      *)

LinesWritten(s) ==
  \A i \in DOMAIN lines :
    /\ i \in DOMAIN lines'
    /\ \/ lines'[i] = lines[i]
       \/ /\ Update(Line(i)) \in locks[s] /\ lines[i].status = "WAITING"
          /\ \E status \in {"DONE", "CANCELED"} : lines'[i] = [lines[i] EXCEPT !.status = status]

StockWritten(s) == UNCHANGED <<inventory, lotQty>> \/ Update(Inventory) \in locks[s]

LotsWritten(s) ==
  \A l \in StockLots : \/ Update(Stock(l)) \in locks[s]
                       \/ WaitingOn(l)' + lotQty[l] <= WaitingOn(l) + lotQty'[l]

\* Two sessions do not hold the same row for an update.
LEMMA OneUpdate ==
  ASSUME LocksCompatible, NEW s \in Sessions, NEW t \in Sessions, s # t, NEW row,
         Update(row) \in locks[s], Update(row) \in locks[t]
  PROVE  FALSE
<1>1. Update(row).row = row /\ Update(row).mode = "update"
  BY DEF Update
<1>2. Compatible("update", "update")
  BY <1>1 DEF LocksCompatible
<1> QED BY <1>2 DEF Compatible

LEMMA QuantitiesTypeNext ==
  ASSUME RowsTyped'
  PROVE  /\ \A S \in SUBSET DOMAIN lines' :
              IsFiniteSet(S) /\ SumFunctionOnSet(LineQtys', S) \in Nat
         /\ \A l : WaitingOn(l)' \in Nat /\ ShippedFrom(l)' \in Nat
         /\ \A i \in DOMAIN lines' : LineQtys'[i] = lines'[i].qty /\ LineQtys'[i] \in Nat
<1>1. lines' \in Seq(LineRows)
  BY DEF RowsTyped
<1>2. DOMAIN lines' = 1..Len(lines') /\ Len(lines') \in Nat
  BY <1>1
<1>3. \A i \in DOMAIN lines' : LineQtys'[i] = lines'[i].qty /\ LineQtys'[i] \in Nat
  <2>1. \A i \in DOMAIN lines' : lines'[i] \in LineRows
    BY <1>1
  <2> QED BY <2>1 DEF LineQtys, LineRows
<1>4. ASSUME NEW S \in SUBSET DOMAIN lines'
      PROVE  IsFiniteSet(S) /\ SumFunctionOnSet(LineQtys', S) \in Nat
  <2>1. IsFiniteSet(S)
    <3>1. IsFiniteSet(1..Len(lines'))
      BY <1>2, FS_Interval
    <3>2. S \in SUBSET (1..Len(lines'))
      BY <1>2
    <3> QED BY <3>1, <3>2, FS_Subset
  <2>2. \A i \in S : LineQtys'[i] \in Nat
    BY <1>3
  <2> QED BY <2>1, <2>2, SumNat
<1>5. ASSUME NEW l PROVE WaitingOn(l)' \in Nat /\ ShippedFrom(l)' \in Nat
  <2> DEFINE W == {i \in DOMAIN lines' : lines'[i].lot = l /\ lines'[i].status = "WAITING"}
             D == {i \in DOMAIN lines' : lines'[i].lot = l /\ lines'[i].status = "DONE"}
  <2>1. W \in SUBSET DOMAIN lines' /\ D \in SUBSET DOMAIN lines'
    OBVIOUS
  <2> HIDE DEF W, D
  <2>2. SumFunctionOnSet(LineQtys', W) \in Nat /\ SumFunctionOnSet(LineQtys', D) \in Nat
    BY <1>4, <2>1
  <2>3. WaitingOn(l)' = SumFunctionOnSet(LineQtys', W) /\ ShippedFrom(l)' = SumFunctionOnSet(LineQtys', D)
    BY DEF WaitingOn, ShippedFrom, W, D
  <2> QED BY <2>2, <2>3
<1> QED BY <1>3, <1>4, <1>5

\* What the other sessions rely on survives the commit.
LEMMA OthersKeep ==
  ASSUME OrdersInv, NEW s \in Sessions, NEW t \in Sessions, s # t,
         LinesWritten(s), StockWritten(s), LotsWritten(s), RowsTyped',
         NEW x, NEW held, NEW want, x = sess[t], held = locks[t], want = todo[t],
         sess'[t] = x, locks'[t] = held, todo'[t] = want
  PROVE  SessionOK(sess[t], locks[t], todo[t])'
<1>1. SessionOK(x, held, want) /\ RowsTyped /\ LocksCompatible
  BY DEF OrdersInv, SessionsOK
<1>2. SessionTyped(sess[t], locks[t], todo[t])' /\ PlanMade(sess[t])' /\ Orderly(sess[t], locks[t], todo[t])'
  BY <1>1 DEF SessionOK
<1>3. StockHeld(sess[t], locks[t], todo[t])'
  <2>1. StockHeld(x, held, want)
    BY <1>1 DEF SessionOK
  <2>2. CASE UNCHANGED <<inventory, lotQty>>
    BY <2>1, <2>2 DEF StockHeld
  <2>3. CASE Update(Inventory) \in locks[s]
    <3>1. Update(Inventory) \notin held
      BY <1>1, <2>3, OneUpdate
    <3>2. ~(x.pc = "take" \/ StockRead(x))
      BY <2>1, <3>1 DEF StockHeld
    <3> QED BY <2>1, <3>2 DEF StockHeld
  <2> QED BY <2>2, <2>3 DEF StockWritten
<1>4. ASSUME NEW i \in DOMAIN lines
      PROVE  /\ Update(Line(i)) \in held => lines'[i] = lines[i]
             /\ i \in DOMAIN lines'
             /\ lines'[i].status = "WAITING" => lines[i].status = "WAITING"
  <2>1. lines[i] \in LineRows
    BY LinesNat
  <2>2. \A status : [lines[i] EXCEPT !.status = status].status = status
    BY <2>1 DEF LineRows
  <2>3. Update(Line(i)) \in held => Update(Line(i)) \notin locks[s]
    BY <1>1, OneUpdate
  <2> QED BY <2>2, <2>3 DEF LinesWritten
<1>5. LinesHeld(sess[t], locks[t], todo[t])'
  <2>1. LinesHeld(x, held, want)
    BY <1>1 DEF SessionOK
  <2>2. x.req = "ship" \/ x.pc = "void" => x.ids \subseteq DOMAIN lines /\ x.ids \subseteq DOMAIN lines'
    BY <1>4, <2>1 DEF LinesHeld
  <2>3. x.pc = "count" => x.req = "ship"
    BY <1>1, RequestAt DEF SessionOK, SessionTyped
  <2>4. x.pc = "count" => \A i \in x.ids :
           lines'[i].status = "WAITING" => Update(Line(i)) \in All(held, want)
    BY <1>4, <2>1, <2>2, <2>3 DEF LinesHeld
  <2>5. x.pc = "void" => \A i \in x.ids : Update(Line(i)) \in All(held, want)
    BY <2>1 DEF LinesHeld
  <2>6. ASSUME x.req = "ship", x.pc \in {"read_stock", "commit_shipment"}
        PROVE  /\ \A i \in x.ids : lines'[i].status = "WAITING" /\ Update(Line(i)) \in held
               /\ x.take = TakenBy(x.ids)'
    <3>1. /\ \A i \in x.ids : lines[i].status = "WAITING" /\ Update(Line(i)) \in held
          /\ x.take = TakenBy(x.ids)
      BY <2>1, <2>6 DEF LinesHeld
    <3>2. \A i \in x.ids : i \in DOMAIN lines /\ i \in DOMAIN lines' /\ lines'[i] = lines[i]
      BY <1>4, <2>2, <2>6, <3>1
    <3>3. ASSUME NEW l \in StockLots
          PROVE  SumFunctionOnSet(LineQtys, {i \in x.ids : lines[i].lot = l})
                   = SumFunctionOnSet(LineQtys', {i \in x.ids : lines'[i].lot = l})
      <4> DEFINE S == {i \in x.ids : lines[i].lot = l}
      <4>1. S = {i \in x.ids : lines'[i].lot = l}
        BY <3>2
      <4>2. \A i \in S : LineQtys[i] = LineQtys'[i]
        BY <3>2 DEF LineQtys
      <4>3. S \in SUBSET DOMAIN lines
        BY <3>2
      <4> HIDE DEF S
      <4>4. IsFiniteSet(S)
        BY <4>3, <1>1, SumsOfLines
      <4>5. SumFunctionOnSet(LineQtys, S) = SumFunctionOnSet(LineQtys', S)
        BY <4>2, <4>4, SumSame
      <4> QED BY <4>1, <4>5 DEF S
    <3>4. TakenBy(x.ids)' = [l \in StockLots |->
             SumFunctionOnSet(LineQtys', {i \in x.ids : lines'[i].lot = l})]
      BY DEF TakenBy
    <3> QED BY <3>1, <3>2, <3>3, <3>4 DEF TakenBy
  <2>7. /\ x.req = "ship" \/ x.pc = "void" => x.ids \subseteq DOMAIN lines'
        /\ x.pc = "count" => \A i \in x.ids :
             lines'[i].status = "WAITING" => Update(Line(i)) \in All(held, want)
        /\ x.pc = "void" => \A i \in x.ids : Update(Line(i)) \in All(held, want)
        /\ x.req = "ship" /\ x.pc \in {"read_stock", "commit_shipment"} =>
             /\ \A i \in x.ids : lines'[i].status = "WAITING" /\ Update(Line(i)) \in held
             /\ x.take = TakenBy(x.ids)'
    BY <2>2, <2>4, <2>5, <2>6
  <2> QED BY <2>7 DEF LinesHeld
<1>6. LotsHeld(sess[t], locks[t], todo[t])'
  <2>1. LotsHeld(x, held, want)
    BY <1>1 DEF SessionOK
  <2>2. ASSUME NEW l \in StockLots, x.req = "plan", x.take[l] > 0
        PROVE  WaitingOn(l)' + x.take[l] <= lotQty'[l]
    <3>1. Update(Stock(l)) \in held /\ WaitingOn(l) + x.take[l] <= lotQty[l]
      BY <2>1, <2>2 DEF LotsHeld
    <3>2. Update(Stock(l)) \notin locks[s]
      BY <1>1, <3>1, OneUpdate
    <3>3. WaitingOn(l)' + lotQty[l] <= WaitingOn(l) + lotQty'[l]
      BY <3>2 DEF LotsWritten
    <3>4. WaitingOn(l) \in Nat /\ WaitingOn(l)' \in Nat
      BY <1>1, QuantitiesType, QuantitiesTypeNext
    <3>5. lotQty[l] \in Nat /\ lotQty'[l] \in Nat /\ x.take[l] \in Int
      BY <1>1 DEF RowsTyped, SessionOK, SessionTyped, Working
    <3> QED BY <3>1, <3>3, <3>4, <3>5
  <2> QED BY <2>1, <2>2 DEF LotsHeld
<1> QED BY <1>2, <1>3, <1>5, <1>6 DEF SessionOK

LEMMA CommitStep ==
  ASSUME OrdersInv, NEW s \in Sessions, End(s), RowsTyped', BooksAgree',
         LinesWritten(s), StockWritten(s), LotsWritten(s)
  PROVE  OrdersInv'
<1> DEFINE none == {}
           nothing == <<>>
<1>1. /\ sess \in [Sessions -> Working] /\ locks \in [Sessions -> SUBSET LockRows]
      /\ todo \in [Sessions -> Seq(LockRows)] /\ LocksCompatible /\ left \in 0..MaxRequests
  BY DEF OrdersInv, SessionsOK
<1>2. /\ sess' = [sess EXCEPT ![s] = Idle] /\ locks' = [locks EXCEPT ![s] = none]
      /\ todo' = [todo EXCEPT ![s] = nothing] /\ left' = left
  BY DEF End
<1>3. Idle \in Working /\ none \in SUBSET LockRows /\ nothing \in Seq(LockRows)
  BY IdleTyped DEF SessionTyped
<1>4. /\ sess' \in [Sessions -> Working] /\ locks' \in [Sessions -> SUBSET LockRows]
      /\ todo' \in [Sessions -> Seq(LockRows)]
  BY <1>1, <1>2, <1>3
<1>5. sess'[s] = Idle /\ locks'[s] = none /\ todo'[s] = nothing
  BY <1>1, <1>2
<1>6. \A t \in Sessions \ {s} : sess'[t] = sess[t] /\ locks'[t] = locks[t] /\ todo'[t] = todo[t]
  BY <1>1, <1>2
<1>7. ASSUME NEW t \in Sessions PROVE SessionOK(sess[t], locks[t], todo[t])'
  <2>1. CASE t = s
    BY <1>5, <2>1, IdleOKNext
  <2>2. CASE t # s
    BY <1>6, <2>2, OthersKeep
  <2> QED BY <2>1, <2>2
<1>8. LocksCompatible'
  <2>1. \A h \in none : \A t \in Sessions \ {s} : \A k \in locks[t] :
            h.row = k.row => Compatible(h.mode, k.mode)
    OBVIOUS
  <2> HIDE DEF none
  <2> QED BY <1>1, <1>5, <1>6, <2>1, LocksKept
<1> QED BY <1>1, <1>2, <1>4, <1>7, <1>8 DEF OrdersInv, SessionsOK

LEMMA LinesStay ==
  ASSUME OrdersInv, UNCHANGED lines
  PROVE  /\ \A s : LinesWritten(s)
         /\ \A l : WaitingOn(l)' = WaitingOn(l) /\ ShippedFrom(l)' = ShippedFrom(l)
<1>1. \A s : LinesWritten(s)
  BY DEF LinesWritten
<1>2. \A l : WaitingOn(l)' = WaitingOn(l) /\ ShippedFrom(l)' = ShippedFrom(l)
  BY DEF WaitingOn, ShippedFrom, LineQtys
<1> QED BY <1>1, <1>2

\* A commit that writes neither shipment lines nor stock.
LEMMA CommitOrders ==
  ASSUME OrdersInv, NEW s \in Sessions, End(s), UNCHANGED <<lines, inventory, lotQty, manual>>,
         orders' \in [OrderLines -> OrderRows], \A o \in OrderLines : orders'[o].qty > 0,
         lots' \in Seq(LotRows)
  PROVE  OrdersInv'
<1>1. RowsTyped'
  BY DEF OrdersInv, RowsTyped
<1>2. BooksAgree'
  <2>1. \A l : ShippedFrom(l)' = ShippedFrom(l)
    BY LinesStay
  <2> QED BY <2>1 DEF OrdersInv, BooksAgree
<1>3. LotsWritten(s)
  <2>1. \A l : WaitingOn(l)' = WaitingOn(l) /\ WaitingOn(l) \in Nat
    BY LinesStay, QuantitiesType DEF OrdersInv
  <2>2. \A l \in StockLots : lotQty[l] \in Nat
    BY DEF OrdersInv, RowsTyped
  <2> QED BY <2>1, <2>2 DEF LotsWritten
<1>4. LinesWritten(s) /\ StockWritten(s)
  BY LinesStay DEF StockWritten
<1> QED BY <1>1, <1>2, <1>3, <1>4, CommitStep

LEMMA OrderRow ==
  ASSUME OrdersInv, NEW o \in OrderLines
  PROVE  /\ orders[o] \in OrderRows /\ orders[o].qty \in Nat /\ orders[o].qty > 0
         /\ orders[o].plan \in Plans /\ orders[o].decided \in BOOLEAN
         /\ orders[o].status \in {"OPEN", "CLOSED", "DONE", "CANCELED"}
<1>1. orders[o] \in OrderRows /\ orders[o].qty > 0
  BY DEF OrdersInv, RowsTyped
<1> QED BY <1>1 DEF OrderRows, Plans

\* One row of orders is written.
LEMMA OrderWritten ==
  ASSUME OrdersInv, NEW o \in OrderLines, NEW row \in OrderRows, row.qty > 0,
         orders' = [orders EXCEPT ![o] = row]
  PROVE  orders' \in [OrderLines -> OrderRows] /\ \A p \in OrderLines : orders'[p].qty > 0
<1>1. orders \in [OrderLines -> OrderRows] /\ \A p \in OrderLines : orders[p].qty > 0
  BY DEF OrdersInv, RowsTyped
<1>2. orders' \in [OrderLines -> OrderRows]
  BY <1>1
<1>3. ASSUME NEW p \in OrderLines PROVE orders'[p].qty > 0
  BY <1>1
<1> QED BY <1>2, <1>3

LEMMA CommitStatusStep ==
  ASSUME OrdersInv, NEW s \in Sessions, CommitStatus(s) PROVE OrdersInv'
<1> DEFINE o == sess[s].order
           status == IF sess[s].req = "cancel" THEN "CANCELED" ELSE "DONE"
           row == [orders[o] EXCEPT !.status = status]
<1>1. /\ At(s, "commit_status") /\ orders' = [orders EXCEPT ![o].status = status] /\ End(s)
      /\ UNCHANGED <<lots, lines, inventory, lotQty, manual>>
  BY DEF CommitStatus
<1>2. o \in OrderLines
  BY <1>1, SessionAt, RequestAt DEF SessionOK, SessionTyped
<1>3. status \in {"OPEN", "CLOSED", "DONE", "CANCELED"}
  OBVIOUS
<1>4. orders' = [orders EXCEPT ![o] = row]
  BY <1>1
<1> HIDE DEF o, status
<1>5. row \in OrderRows /\ row.qty > 0
  BY <1>2, <1>3, OrderRow DEF OrderRows
<1> HIDE DEF row
<1>6. orders' \in [OrderLines -> OrderRows] /\ \A p \in OrderLines : orders'[p].qty > 0
  BY <1>2, <1>4, <1>5, OrderWritten
<1>7. lots' \in Seq(LotRows)
  BY <1>1 DEF OrdersInv, RowsTyped
<1> QED BY <1>1, <1>6, <1>7, CommitOrders

LEMMA LatestPlanType ==
  ASSUME OrdersInv, NEW s \in Sessions, sess[s].order \in OrderLines
  PROVE  LatestPlan(s) \subseteq Plans
<1>1. sess[s].plan \in Plans
  BY DEF OrdersInv, SessionsOK, SessionOK, SessionTyped, Working
<1>2. orders[sess[s].order].plan \in Plans
  BY OrderRow
<1> QED BY <1>1, <1>2 DEF LatestPlan

LEMMA CommitLotStep ==
  ASSUME OrdersInv, NEW s \in Sessions, CommitLot(s) PROVE OrdersInv'
<1> DEFINE o == sess[s].order
           lot == [order |-> o, qty |-> sess[s].qty]
<1>1. /\ At(s, "commit_lot") /\ lots' = Append(lots, lot) /\ End(s)
      /\ UNCHANGED <<lines, inventory, lotQty, manual>>
      /\ \/ \E plan \in LatestPlan(s) :
              orders' = [orders EXCEPT ![o].status = "CLOSED", ![o].decided = TRUE, ![o].plan = plan]
         \/ orders' = [orders EXCEPT ![o].status = "CLOSED"]
  BY DEF CommitLot
<1>2. /\ SessionOK(sess[s], locks[s], <<>>) /\ sess[s] \in Working /\ sess[s].pc = "commit_lot"
      /\ sess[s].req \in {"plan", "base_lot"}
  BY <1>1, SessionAt, RequestAt DEF SessionOK, SessionTyped
<1>3. o \in OrderLines /\ sess[s].qty \in Nat /\ sess[s].qty > 0
  BY <1>2 DEF SessionOK, SessionTyped, PlanMade, Working
<1>4. lots' \in Seq(LotRows)
  <2>1. lot \in LotRows
    BY <1>3 DEF LotRows
  <2>2. lots \in Seq(LotRows)
    BY DEF OrdersInv, RowsTyped
  <2> HIDE DEF lot
  <2> QED BY <1>1, <2>1, <2>2
<1>5. \E row \in OrderRows : row.qty > 0 /\ orders' = [orders EXCEPT ![o] = row]
  <2> HIDE DEF o
  <2>1. ASSUME NEW plan \in LatestPlan(s),
               orders' = [orders EXCEPT ![o].status = "CLOSED", ![o].decided = TRUE, ![o].plan = plan]
        PROVE  \E row \in OrderRows : row.qty > 0 /\ orders' = [orders EXCEPT ![o] = row]
    <3> DEFINE row == [orders[o] EXCEPT !.status = "CLOSED", !.decided = TRUE, !.plan = plan]
    <3>1. plan \in Plans
      BY <1>3, LatestPlanType DEF o
    <3>2. row \in OrderRows /\ row.qty > 0
      BY <1>3, <3>1, OrderRow DEF OrderRows, Plans
    <3>3. orders' = [orders EXCEPT ![o] = row]
      BY <1>3, <2>1 DEF OrdersInv, RowsTyped
    <3> QED BY <3>2, <3>3
  <2>2. ASSUME orders' = [orders EXCEPT ![o].status = "CLOSED"]
        PROVE  \E row \in OrderRows : row.qty > 0 /\ orders' = [orders EXCEPT ![o] = row]
    <3> DEFINE row == [orders[o] EXCEPT !.status = "CLOSED"]
    <3>1. row \in OrderRows /\ row.qty > 0
      BY <1>3, OrderRow DEF OrderRows
    <3>2. orders' = [orders EXCEPT ![o] = row]
      BY <2>2
    <3> QED BY <3>1, <3>2
  <2> QED BY <1>1, <2>1, <2>2
<1>6. orders' \in [OrderLines -> OrderRows] /\ \A p \in OrderLines : orders'[p].qty > 0
  BY <1>3, <1>5, OrderWritten
<1> QED BY <1>1, <1>4, <1>6, CommitOrders

LEMMA CommitResizeStep ==
  ASSUME OrdersInv, NEW s \in Sessions, CommitResize(s) PROVE OrdersInv'
<1> DEFINE o == sess[s].order
           plan == orders[o].plan
           kept == SumFunctionOnSet(LineQtys, LinesOf(o, {"WAITING"}))
           production == IF plan.type = "STOCK_REPLENISHMENT" THEN sess[s].qty
                         ELSE Target(sess[s].qty) - kept
           lot == CHOOSE n \in LotsOf(o) : TRUE
           new == [type |-> plan.type, stock |-> kept, production |-> production]
           row == [orders[o] EXCEPT !.qty = sess[s].qty, !.plan = new]
<1>1. At(s, "resize")
  BY DEF CommitResize
<1>2. \/ Refuse(s)
      \/ /\ production > 0 /\ orders' = [orders EXCEPT ![o].qty = sess[s].qty, ![o].plan = new]
         /\ lots' = [lots EXCEPT ![lot].qty = production]
         /\ End(s) /\ UNCHANGED <<lines, inventory, lotQty, manual>>
  BY Zenon DEF CommitResize
<1>3. /\ SessionOK(sess[s], locks[s], <<>>) /\ sess[s] \in Working /\ sess[s].pc = "resize"
      /\ sess[s].req = "change"
  BY <1>1, SessionAt, RequestAt DEF SessionOK, SessionTyped
<1>4. o \in OrderLines /\ sess[s].qty \in Nat /\ sess[s].qty > 0
  BY <1>3 DEF SessionOK, SessionTyped, PlanMade, Working
<1>5. kept \in Nat
  <2>1. LinesOf(o, {"WAITING"}) \in SUBSET DOMAIN lines
    BY DEF LinesOf
  <2> QED BY <2>1, SumsOfLines DEF OrdersInv
<1>6. Target(sess[s].qty) \in Nat
  BY <1>4 DEF Target, CalculateShipQty
<1> HIDE DEF kept
<1>7. production \in Int
  BY <1>4, <1>5, <1>6
<1>8. ASSUME production > 0, orders' = [orders EXCEPT ![o].qty = sess[s].qty, ![o].plan = new],
             lots' = [lots EXCEPT ![lot].qty = production],
             End(s), UNCHANGED <<lines, inventory, lotQty, manual>>
      PROVE  OrdersInv'
  <2> HIDE DEF production, lot
  <2>1. production \in Nat \ {0}
    BY <1>7, <1>8
  <2>2. new \in Plans
    BY <1>4, <1>5, <2>1, OrderRow DEF Plans
  <2> HIDE DEF new
  <2>3. row \in OrderRows /\ row.qty > 0
    BY <1>4, <2>2, OrderRow DEF OrderRows, Plans
  <2>4. orders' = [orders EXCEPT ![o] = row]
    BY <1>4, <1>8 DEF OrdersInv, RowsTyped
  <2> HIDE DEF row, o
  <2>5. orders' \in [OrderLines -> OrderRows] /\ \A p \in OrderLines : orders'[p].qty > 0
    BY <1>4, <2>3, <2>4, OrderWritten
  <2>6. lots' \in Seq(LotRows)
    <3>1. lots \in Seq(LotRows)
      BY DEF OrdersInv, RowsTyped
    <3>2. \A n \in DOMAIN lots : lots[n] \in LotRows /\ [lots[n] EXCEPT !.qty = production] \in LotRows
      <4>1. \A r \in LotRows : [r EXCEPT !.qty = production] \in LotRows
        BY <2>1 DEF LotRows
      <4>2. \A n \in DOMAIN lots : lots[n] \in LotRows
        BY <3>1
      <4> QED BY <4>1, <4>2
    <3>3. CASE lot \in DOMAIN lots
      BY <1>8, <3>1, <3>2, <3>3
    <3>4. CASE lot \notin DOMAIN lots
      <4>1. lots' = lots
        BY <1>8, <3>1, <3>4
      <4> QED BY <3>1, <4>1
    <3> QED BY <3>3, <3>4
  <2> QED BY <1>8, <2>5, <2>6, CommitOrders
<1> QED BY <1>2, <1>8, RefuseStep

-----------------------------------------------------------------------------
(* Commits that settle or add shipment lines and write the stock.          *)

LineSum(l, status) ==
  SumFunctionOnSet(LineQtys, {i \in DOMAIN lines : lines[i].lot = l /\ lines[i].status = status})

LEMMA LineSums ==
  /\ \A l : WaitingOn(l) = LineSum(l, "WAITING") /\ ShippedFrom(l) = LineSum(l, "DONE")
  /\ \A l : WaitingOn(l)' = LineSum(l, "WAITING")' /\ ShippedFrom(l)' = LineSum(l, "DONE")'
BY DEF LineSum, WaitingOn, ShippedFrom

\* The lines of ids get another status.
LEMMA LinesSettled ==
  ASSUME OrdersInv, NEW s \in Sessions, NEW ids \in SUBSET DOMAIN lines,
         \A i \in ids : lines[i].status = "WAITING" /\ Update(Line(i)) \in locks[s],
         NEW status \in {"DONE", "CANCELED"},
         lines' = [i \in DOMAIN lines |-> IF i \in ids THEN [lines[i] EXCEPT !.status = status]
                                          ELSE lines[i]]
  PROVE  /\ lines' \in Seq(LineRows) /\ LinesWritten(s)
         /\ \A l \in StockLots :
              /\ TakenBy(ids)[l] \in Nat
              /\ WaitingOn(l)' = WaitingOn(l) - TakenBy(ids)[l]
              /\ ShippedFrom(l)' = ShippedFrom(l) + IF status = "DONE" THEN TakenBy(ids)[l] ELSE 0
<1>1. RowsTyped /\ lines \in Seq(LineRows)
  BY DEF OrdersInv, RowsTyped
<1>2. \A i \in DOMAIN lines : lines[i] \in LineRows
  BY LinesNat
<1>3. \A r \in LineRows :
        /\ [r EXCEPT !.status = status] \in LineRows /\ [r EXCEPT !.status = status].lot = r.lot
        /\ [r EXCEPT !.status = status].qty = r.qty /\ [r EXCEPT !.status = status].status = status
  BY DEF LineRows
<1>4. /\ DOMAIN lines' = DOMAIN lines
      /\ \A i \in DOMAIN lines :
           /\ lines'[i] \in LineRows /\ lines'[i].lot = lines[i].lot /\ lines'[i].qty = lines[i].qty
           /\ lines'[i].status = IF i \in ids THEN status ELSE lines[i].status
  BY <1>2, <1>3
<1>5. lines' \in Seq(LineRows)
  <2>1. DOMAIN lines = 1..Len(lines) /\ Len(lines) \in Nat
    BY <1>1
  <2> QED BY <1>4, <2>1
<1>6. LinesWritten(s)
  BY DEF LinesWritten
<1>7. ASSUME NEW S \in SUBSET DOMAIN lines
      PROVE  /\ SumFunctionOnSet(LineQtys', S) = SumFunctionOnSet(LineQtys, S)
             /\ IsFiniteSet(S) /\ SumFunctionOnSet(LineQtys, S) \in Nat
  <2>1. IsFiniteSet(S) /\ SumFunctionOnSet(LineQtys, S) \in Nat
    BY <1>1, SumsOfLines
  <2>2. \A i \in S : LineQtys'[i] = LineQtys[i]
    BY <1>4 DEF LineQtys
  <2> QED BY <2>1, <2>2, SumSame
<1>8. ASSUME NEW l \in StockLots
      PROVE  /\ TakenBy(ids)[l] \in Nat
             /\ WaitingOn(l)' = WaitingOn(l) - TakenBy(ids)[l]
             /\ ShippedFrom(l)' = ShippedFrom(l) + IF status = "DONE" THEN TakenBy(ids)[l] ELSE 0
  <2> DEFINE W == {i \in DOMAIN lines : lines[i].lot = l /\ lines[i].status = "WAITING"}
             D == {i \in DOMAIN lines : lines[i].lot = l /\ lines[i].status = "DONE"}
             T == {i \in ids : lines[i].lot = l}
             V == W \ T
             more == IF status = "DONE" THEN T ELSE {}
             sum(S) == SumFunctionOnSet(LineQtys, S)
  <2>1. /\ WaitingOn(l) = sum(W) /\ ShippedFrom(l) = sum(D) /\ TakenBy(ids)[l] = sum(T)
    BY DEF WaitingOn, ShippedFrom, TakenBy
  <2>2. V = {i \in DOMAIN lines' : lines'[i].lot = l /\ lines'[i].status = "WAITING"}
    BY <1>4
  <2>3. D \cup more = {i \in DOMAIN lines' : lines'[i].lot = l /\ lines'[i].status = "DONE"}
    BY <1>4
  <2>4. WaitingOn(l)' = SumFunctionOnSet(LineQtys', V)
    BY <2>2 DEF WaitingOn
  <2>5. ShippedFrom(l)' = SumFunctionOnSet(LineQtys', D \cup more)
    BY <2>3 DEF ShippedFrom
  <2>6. V \cup T = W /\ V \cap T = {} /\ D \cap more = {}
    OBVIOUS
  <2>7. \A S \in {V, T, D, more, W} : S \in SUBSET DOMAIN lines
    OBVIOUS
  <2>8. \A i \in DOMAIN lines : LineQtys[i] \in Int
    BY <1>2 DEF LineQtys, LineRows
  <2>9. sum(W) = sum(V) + sum(T)
    <3> HIDE DEF V, T, W
    <3>1. \A i \in V \cup T : LineQtys[i] \in Int
      BY <2>7, <2>8
    <3>2. IsFiniteSet(V) /\ IsFiniteSet(T)
      BY <1>7, <2>7
    <3> QED BY <2>6, <3>1, <3>2, SumDisjoint
  <2>10. sum(D \cup more) = sum(D) + sum(more)
    <3> HIDE DEF D, more
    <3>1. \A i \in D \cup more : LineQtys[i] \in Int
      BY <2>7, <2>8
    <3>2. IsFiniteSet(D) /\ IsFiniteSet(more)
      BY <1>7, <2>7
    <3> QED BY <2>6, <3>1, <3>2, SumDisjoint
  <2>11. sum(more) = IF status = "DONE" THEN sum(T) ELSE 0
    <3>1. sum({}) = 0
      BY SumOfNone
    <3> QED BY <3>1
  <2> HIDE DEF W, D, T, V, more
  <2>12. WaitingOn(l)' = sum(V) /\ ShippedFrom(l)' = sum(D \cup more)
    BY <1>7, <2>4, <2>5, <2>7
  <2>13. sum(T) \in Nat /\ sum(W) \in Nat /\ sum(V) \in Nat /\ sum(D) \in Nat /\ sum(more) \in Nat
    BY <1>7, <2>7
  <2> HIDE DEF sum
  <2> QED BY <2>1, <2>9, <2>10, <2>11, <2>12, <2>13
<1> QED BY <1>5, <1>6, <1>8

\* The stock is written as it was read, less what is taken.
LEMMA StockTaken ==
  ASSUME OrdersInv, NEW s \in Sessions, todo[s] = <<>>, StockRead(sess[s]), WriteStock(s)
  PROVE  /\ Update(Inventory) \in locks[s]
         /\ lotQty' \in [StockLots -> Nat] /\ inventory' \in Int /\ inventory' = SumFunction(lotQty')
         /\ \A l \in StockLots : lotQty'[l] = lotQty[l] - sess[s].take[l] /\ sess[s].take[l] \in Int
<1> DEFINE x == sess[s]
<1>1. /\ Update(Inventory) \in locks[s] /\ x.seen = inventory /\ x.seenLots = lotQty
      /\ \A l \in StockLots : x.take[l] <= lotQty[l]
  BY DEF OrdersInv, SessionsOK, SessionOK, StockHeld
<1>2. /\ lotQty \in [StockLots -> Nat] /\ x.take \in [StockLots -> Int] /\ inventory \in Int
      /\ inventory = SumFunction(lotQty)
  BY DEF OrdersInv, RowsTyped, BooksAgree, SessionsOK, Working
<1>3. /\ inventory' = inventory - SumFunction(x.take)
      /\ lotQty' = [l \in StockLots |-> IF x.take[l] # 0 THEN lotQty[l] - x.take[l] ELSE lotQty[l]]
  BY <1>1 DEF WriteStock
<1> HIDE DEF x
<1>4. ASSUME NEW l \in StockLots
      PROVE  lotQty'[l] = lotQty[l] - x.take[l] /\ x.take[l] \in Int /\ lotQty'[l] \in Nat
  <2>1. lotQty[l] \in Nat /\ x.take[l] \in Int /\ x.take[l] <= lotQty[l]
    BY <1>1, <1>2
  <2> QED BY <1>3, <2>1
<1>5. lotQty' \in [StockLots -> Nat]
  BY <1>3, <1>4
<1>6. inventory' = SumFunction(lotQty')
  <2>1. \A l \in StockLots : lotQty[l] \in Int /\ x.take[l] \in Int /\ lotQty'[l] = lotQty[l] - x.take[l]
    BY <1>2, <1>4
  <2>2. SumFunctionOnSet(lotQty', StockLots)
          = SumFunctionOnSet(lotQty, StockLots) - SumFunctionOnSet(x.take, StockLots)
    BY <2>1, LotsFinite, SumDifference
  <2>3. DOMAIN lotQty = StockLots /\ DOMAIN lotQty' = StockLots /\ DOMAIN x.take = StockLots
    BY <1>2, <1>5
  <2> QED BY <1>2, <1>3, <2>2, <2>3 DEF SumFunction
<1>7. inventory' \in Int
  <2>1. \A l \in StockLots : lotQty'[l] \in Int
    BY <1>5
  <2>2. SumFunctionOnSet(lotQty', StockLots) \in Int
    BY <2>1, LotsFinite, SumType
  <2> QED BY <1>5, <1>6, <2>2 DEF SumFunction
<1> QED BY <1>1, <1>4, <1>5, <1>6, <1>7 DEF x
-----------------------------------------------------------------------------

\* The promises of the plans, of one step.
PromisesKept ==
  \A l \in StockLots :
    WaitingOn(l) <= lotQty[l] /\ WaitingOn(l)' > lotQty'[l] => manual'[l] < manual[l]

LEMMA QuantitiesNow ==
  ASSUME OrdersInv, NEW l \in StockLots
  PROVE  /\ WaitingOn(l) \in Nat /\ ShippedFrom(l) \in Nat /\ lotQty[l] \in Nat
         /\ manual[l] \in Int /\ lotQty[l] = manual[l] - ShippedFrom(l)
<1>1. WaitingOn(l) \in Nat /\ ShippedFrom(l) \in Nat
  BY QuantitiesType DEF OrdersInv
<1>2. lotQty[l] \in Nat /\ manual[l] \in Int
  BY DEF OrdersInv, RowsTyped
<1>3. lotQty[l] = manual[l] - ShippedFrom(l)
  BY DEF OrdersInv, BooksAgree
<1> QED BY <1>1, <1>2, <1>3

LEMMA CommitVoidStep ==
  ASSUME OrdersInv, NEW s \in Sessions, CommitVoid(s)
  PROVE  OrdersInv' /\ PromisesKept /\ LinesWritten(s)
<1> DEFINE x == sess[s]
           o == x.order
           status == IF orders[o].status = "CLOSED" THEN "OPEN" ELSE orders[o].status
           row == [orders[o] EXCEPT !.qty = x.qty, !.decided = FALSE, !.status = status]
           ids == {i \in x.ids : lines[i].status = "WAITING"}
           canceled == "CANCELED"
<1>1. /\ At(s, "void") /\ End(s) /\ UNCHANGED <<lots, inventory, lotQty, manual>>
      /\ orders' = [orders EXCEPT ![o].qty = x.qty, ![o].decided = FALSE,
                                  ![o].status = IF @ = "CLOSED" THEN "OPEN" ELSE @]
      /\ lines' = [i \in DOMAIN lines |->
                    IF i \in x.ids /\ lines[i].status = "WAITING"
                    THEN [lines[i] EXCEPT !.status = "CANCELED"] ELSE lines[i]]
  BY DEF CommitVoid
<1>2. /\ SessionOK(x, locks[s], <<>>) /\ x \in Working /\ x.pc = "void" /\ x.req = "change"
      /\ All(locks[s], <<>>) = locks[s]
  BY <1>1, SessionAt, RequestAt DEF SessionOK, SessionTyped
<1>3. o \in OrderLines /\ x.qty \in Nat /\ x.qty > 0
  BY <1>2 DEF SessionOK, SessionTyped, PlanMade, Working
<1>4. /\ ids \in SUBSET DOMAIN lines
      /\ \A i \in ids : lines[i].status = "WAITING" /\ Update(Line(i)) \in locks[s]
  BY <1>2 DEF SessionOK, LinesHeld
<1>5. lines' = [i \in DOMAIN lines |-> IF i \in ids THEN [lines[i] EXCEPT !.status = canceled]
                                      ELSE lines[i]]
  BY <1>1
<1>6. canceled \in {"DONE", "CANCELED"} /\ canceled # "DONE"
  OBVIOUS
<1>7. orders' \in [OrderLines -> OrderRows] /\ \A p \in OrderLines : orders'[p].qty > 0
  <2>1. status \in {"OPEN", "CLOSED", "DONE", "CANCELED"}
    BY <1>3, OrderRow
  <2>2. orders' = [orders EXCEPT ![o] = row]
    BY <1>1, <1>3 DEF OrdersInv, RowsTyped
  <2> HIDE DEF status, o
  <2>3. row \in OrderRows /\ row.qty > 0
    <3> DEFINE q == x.qty
    <3>1. q \in Nat /\ q > 0
      BY <1>3
    <3> HIDE DEF q
    <3>2. \A r \in OrderRows :
             /\ [r EXCEPT !.qty = q, !.decided = FALSE, !.status = status] \in OrderRows
             /\ [r EXCEPT !.qty = q, !.decided = FALSE, !.status = status].qty = q
      BY <2>1, <3>1 DEF OrderRows
    <3>3. orders[o] \in OrderRows
      BY <1>3, OrderRow
    <3> QED BY <3>1, <3>2, <3>3 DEF q
  <2> HIDE DEF row
  <2> QED BY <1>3, <2>2, <2>3, OrderWritten
<1> HIDE DEF ids, canceled
<1>8. /\ lines' \in Seq(LineRows) /\ LinesWritten(s)
      /\ \A l \in StockLots :
           /\ TakenBy(ids)[l] \in Nat
           /\ WaitingOn(l)' = WaitingOn(l) - TakenBy(ids)[l]
           /\ ShippedFrom(l)' = ShippedFrom(l) + IF canceled = "DONE" THEN TakenBy(ids)[l] ELSE 0
  BY <1>4, <1>5, <1>6, LinesSettled
<1>9. ASSUME NEW l \in StockLots
      PROVE  /\ ShippedFrom(l)' = ShippedFrom(l) /\ lotQty'[l] = manual'[l] - ShippedFrom(l)'
             /\ WaitingOn(l)' + lotQty[l] <= WaitingOn(l) + lotQty'[l]
             /\ ~(WaitingOn(l) <= lotQty[l] /\ WaitingOn(l)' > lotQty'[l])
  <2>1. ShippedFrom(l)' = ShippedFrom(l)
    BY <1>6, <1>8, QuantitiesNow
  <2>2. TakenBy(ids)[l] \in Nat /\ WaitingOn(l)' = WaitingOn(l) - TakenBy(ids)[l]
    BY <1>8
  <2>3. lotQty' = lotQty /\ manual' = manual
    BY <1>1
  <2> QED BY <2>1, <2>2, <2>3, QuantitiesNow
<1>10. RowsTyped'
  BY <1>1, <1>7, <1>8 DEF OrdersInv, RowsTyped, LineRows
<1>11. BooksAgree'
  BY <1>1, <1>9 DEF OrdersInv, BooksAgree
<1>12. LotsWritten(s) /\ StockWritten(s) /\ PromisesKept
  BY <1>1, <1>9 DEF LotsWritten, StockWritten, PromisesKept
<1> QED BY <1>1, <1>8, <1>10, <1>11, <1>12, CommitStep

LEMMA CommitShipmentStep ==
  ASSUME OrdersInv, NEW s \in Sessions, CommitShipment(s)
  PROVE  OrdersInv' /\ PromisesKept /\ LinesWritten(s)
<1> DEFINE x == sess[s]
           done == "DONE"
<1>1. /\ At(s, "commit_shipment") /\ End(s) /\ UNCHANGED <<lots, manual>> /\ WriteStock(s)
      /\ lines' = [i \in DOMAIN lines |-> IF i \in x.ids THEN [lines[i] EXCEPT !.status = "DONE"]
                                         ELSE lines[i]]
  BY DEF CommitShipment
<1>2. /\ SessionOK(x, locks[s], <<>>) /\ x \in Working /\ x.pc = "commit_shipment" /\ x.req = "ship"
      /\ todo[s] = <<>>
  BY <1>1, SessionAt, RequestAt DEF SessionOK, SessionTyped, At
<1>3. /\ x.ids \in SUBSET DOMAIN lines /\ x.take = TakenBy(x.ids)
      /\ \A i \in x.ids : lines[i].status = "WAITING" /\ Update(Line(i)) \in locks[s]
  BY <1>2 DEF SessionOK, LinesHeld
<1>4. /\ orders' \in [OrderLines -> OrderRows] /\ \A p \in OrderLines : orders'[p].qty > 0
  <2>1. PICK settled \in SUBSET OrderLines :
            orders' = [o \in OrderLines |-> IF o \in settled THEN [orders[o] EXCEPT !.status = "DONE"]
                                            ELSE orders[o]]
    <3> DEFINE affected == {lines[i].order : i \in x.ids}
               more(o) == SumFunctionOnSet(LineQtys, {i \in x.ids : lines[i].order = o})
               due(o, first) == /\ o \in affected
                                /\ orders[o].status \notin {"CANCELED", "DONE"}
                                /\ Target(orders[o].qty) <= Shipped(o) + IF o = first THEN 0 ELSE more(o)
    <3>1. PICK first \in affected :
            orders' = [o \in OrderLines |-> IF due(o, first) THEN [orders[o] EXCEPT !.status = "DONE"]
                                            ELSE orders[o]]
      BY Zenon DEF CommitShipment
    <3> DEFINE settled == {o \in OrderLines : due(o, first)}
    <3> HIDE DEF due
    <3>2. settled \in SUBSET OrderLines
      OBVIOUS
    <3>3. orders' = [o \in OrderLines |-> IF o \in settled THEN [orders[o] EXCEPT !.status = "DONE"]
                                          ELSE orders[o]]
      BY <3>1
    <3> HIDE DEF settled
    <3> QED BY <3>2, <3>3
  <2>2. \A o \in OrderLines : /\ [orders[o] EXCEPT !.status = "DONE"] \in OrderRows
                              /\ [orders[o] EXCEPT !.status = "DONE"].qty > 0
                              /\ orders[o] \in OrderRows /\ orders[o].qty > 0
    BY OrderRow DEF OrderRows
  <2> QED BY <2>1, <2>2
<1>5. done \in {"DONE", "CANCELED"} /\ done = "DONE"
  OBVIOUS
<1>6. lines' = [i \in DOMAIN lines |-> IF i \in x.ids THEN [lines[i] EXCEPT !.status = done] ELSE lines[i]]
  BY <1>1
<1> HIDE DEF done
<1>7. /\ lines' \in Seq(LineRows) /\ LinesWritten(s)
      /\ \A l \in StockLots :
           /\ TakenBy(x.ids)[l] \in Nat
           /\ WaitingOn(l)' = WaitingOn(l) - TakenBy(x.ids)[l]
           /\ ShippedFrom(l)' = ShippedFrom(l) + IF done = "DONE" THEN TakenBy(x.ids)[l] ELSE 0
  BY <1>3, <1>5, <1>6, LinesSettled
<1>8. /\ Update(Inventory) \in locks[s]
      /\ lotQty' \in [StockLots -> Nat] /\ inventory' \in Int /\ inventory' = SumFunction(lotQty')
      /\ \A l \in StockLots : lotQty'[l] = lotQty[l] - x.take[l] /\ x.take[l] \in Int
  <2>1. StockRead(x)
    BY <1>2 DEF StockRead
  <2> QED BY <1>1, <1>2, <2>1, StockTaken
<1>9. ASSUME NEW l \in StockLots
      PROVE  /\ lotQty'[l] = manual'[l] - ShippedFrom(l)'
             /\ WaitingOn(l)' + lotQty[l] <= WaitingOn(l) + lotQty'[l]
             /\ ~(WaitingOn(l) <= lotQty[l] /\ WaitingOn(l)' > lotQty'[l])
  <2>1. /\ x.take[l] \in Nat /\ WaitingOn(l)' = WaitingOn(l) - x.take[l]
        /\ ShippedFrom(l)' = ShippedFrom(l) + x.take[l]
    BY <1>3, <1>5, <1>7
  <2>2. lotQty'[l] = lotQty[l] - x.take[l] /\ manual' = manual
    BY <1>1, <1>8
  <2> QED BY <2>1, <2>2, QuantitiesNow
<1>10. RowsTyped'
  BY <1>1, <1>4, <1>7, <1>8 DEF OrdersInv, RowsTyped
<1>11. BooksAgree'
  BY <1>8, <1>9 DEF BooksAgree
<1>12. LotsWritten(s) /\ StockWritten(s) /\ PromisesKept
  BY <1>8, <1>9 DEF LotsWritten, StockWritten, PromisesKept
<1> QED BY <1>1, <1>7, <1>10, <1>11, <1>12, CommitStep

LEMMA CommitAdjustStep ==
  ASSUME OrdersInv, NEW s \in Sessions, CommitAdjust(s)
  PROVE  OrdersInv' /\ PromisesKept /\ LinesWritten(s)
<1> DEFINE x == sess[s]
<1>1. /\ At(s, "commit_adjust") /\ End(s) /\ UNCHANGED <<orders, lots, lines>> /\ WriteStock(s)
      /\ manual' = [l \in StockLots |-> manual[l] - x.take[l]]
  BY DEF CommitAdjust
<1>2. /\ SessionOK(x, locks[s], <<>>) /\ x \in Working /\ x.pc = "commit_adjust"
      /\ x.req \in {"increase", "decrease"} /\ todo[s] = <<>>
  BY <1>1, SessionAt, RequestAt DEF SessionOK, SessionTyped, At
<1>3. /\ Update(Inventory) \in locks[s]
      /\ lotQty' \in [StockLots -> Nat] /\ inventory' \in Int /\ inventory' = SumFunction(lotQty')
      /\ \A l \in StockLots : lotQty'[l] = lotQty[l] - x.take[l] /\ x.take[l] \in Int
  <2>1. StockRead(x)
    BY <1>2 DEF StockRead
  <2> QED BY <1>1, <1>2, <2>1, StockTaken
<1>4. \A l \in StockLots : x.take[l] > 0 => Update(Stock(l)) \in locks[s]
  BY <1>2 DEF SessionOK, LotsHeld
<1>5. ASSUME NEW l \in StockLots
      PROVE  /\ lotQty'[l] = manual'[l] - ShippedFrom(l)' /\ manual'[l] \in Int
             /\ \/ Update(Stock(l)) \in locks[s]
                \/ WaitingOn(l)' + lotQty[l] <= WaitingOn(l) + lotQty'[l]
             /\ WaitingOn(l) <= lotQty[l] /\ WaitingOn(l)' > lotQty'[l] => manual'[l] < manual[l]
  <2>1. WaitingOn(l)' = WaitingOn(l) /\ ShippedFrom(l)' = ShippedFrom(l)
    BY <1>1, LinesStay
  <2>2. /\ lotQty'[l] = lotQty[l] - x.take[l] /\ manual'[l] = manual[l] - x.take[l]
        /\ x.take[l] \in Int
    BY <1>1, <1>3
  <2> HIDE DEF x
  <2>3. lotQty'[l] = manual'[l] - ShippedFrom(l)' /\ manual'[l] \in Int
    BY <2>1, <2>2, QuantitiesNow
  <2>4. WaitingOn(l) <= lotQty[l] /\ WaitingOn(l)' > lotQty'[l] => manual'[l] < manual[l]
    BY <2>1, <2>2, QuantitiesNow
  <2>5. ~(x.take[l] > 0) => WaitingOn(l)' + lotQty[l] <= WaitingOn(l) + lotQty'[l]
    BY <2>1, <2>2, QuantitiesNow
  <2> QED BY <1>4, <2>3, <2>4, <2>5 DEF x
<1>6. RowsTyped'
  <2>1. manual' \in [StockLots -> Int]
    BY <1>1, <1>5
  <2> QED BY <1>1, <1>3, <2>1 DEF OrdersInv, RowsTyped
<1>7. BooksAgree'
  BY <1>3, <1>5 DEF BooksAgree
<1>8. LotsWritten(s) /\ StockWritten(s) /\ PromisesKept /\ LinesWritten(s)
  BY <1>1, <1>3, <1>5, LinesStay DEF LotsWritten, StockWritten, PromisesKept
<1> QED BY <1>1, <1>6, <1>7, <1>8, CommitStep
-----------------------------------------------------------------------------
(* The commit of a plan adds a line for each lot that it takes from.       *)

Settled == {"WAITING", "DONE"}

\* The new lines: one for each lot, of what is taken from it.
LEMMA NewLinesType ==
  ASSUME NEW o \in OrderLines, NEW take \in [StockLots -> Nat], NEW status \in Settled,
         NEW new, new = NewLines(o, take, status)
  PROVE  /\ new \in Seq(LineRows)
         /\ \A i \in DOMAIN new : new[i].status = status /\ new[i].qty = take[new[i].lot]
         /\ \A i, j \in DOMAIN new : new[i].lot = new[j].lot => i = j
         /\ \A l \in StockLots : take[l] > 0 => \E i \in DOMAIN new : new[i].lot = l
<1> DEFINE S == {l \in StockLots : take[l] > 0}
           used == ByAge(S)
<1>1. S \in SUBSET StockLots
  OBVIOUS
<1>2. new = [i \in DOMAIN used |-> [order |-> o, lot |-> used[i], qty |-> take[used[i]],
                                    status |-> status]]
  BY DEF NewLines
<1>3. \A l \in S : l \in StockLots /\ take[l] \in Nat \ {0}
  OBVIOUS
<1> HIDE DEF S
<1>4. /\ used \in Seq(S)
      /\ \A i, j \in DOMAIN used : used[i] = used[j] => i = j
      /\ \A l \in S : \E i \in DOMAIN used : used[i] = l
  BY <1>1, ByAgeType
<1> HIDE DEF used
<1>5. DOMAIN used = 1..Len(used) /\ Len(used) \in Nat /\ \A i \in DOMAIN used : used[i] \in S
  BY <1>4
<1>6. \A i \in DOMAIN used : [order |-> o, lot |-> used[i], qty |-> take[used[i]],
                              status |-> status] \in LineRows
  BY <1>3, <1>5 DEF LineRows, Settled
<1>7. /\ DOMAIN new = DOMAIN used
      /\ \A i \in DOMAIN used : /\ new[i] \in LineRows /\ new[i].lot = used[i]
                                /\ new[i].qty = take[used[i]] /\ new[i].status = status
  BY <1>2, <1>6
<1>8. new \in Seq(LineRows)
  BY <1>2, <1>5, <1>6
<1>9. \A i \in DOMAIN new : new[i].status = status /\ new[i].qty = take[new[i].lot]
  BY <1>7
<1>10. \A i, j \in DOMAIN new : new[i].lot = new[j].lot => i = j
  BY <1>4, <1>7
<1>11. \A l \in StockLots : take[l] > 0 => \E i \in DOMAIN new : new[i].lot = l
  <2>1. \A l \in StockLots : take[l] > 0 => l \in S
    BY DEF S
  <2> QED BY <1>4, <1>7, <2>1
<1> QED BY <1>8, <1>9, <1>10, <1>11

\* What the new lines add to the sums of the lines.
LEMMA LinesAdded ==
  ASSUME OrdersInv, NEW o \in OrderLines, NEW take \in [StockLots -> Nat], NEW status \in {"WAITING", "DONE"},
         lines' = lines \o NewLines(o, take, status)
  PROVE  /\ lines' \in Seq(LineRows) /\ \A s : LinesWritten(s)
         /\ \A l \in StockLots :
              /\ WaitingOn(l)' = WaitingOn(l) + IF status = "WAITING" THEN take[l] ELSE 0
              /\ ShippedFrom(l)' = ShippedFrom(l) + IF status = "DONE" THEN take[l] ELSE 0
<1> DEFINE new == NewLines(o, take, status)
           m == Len(lines)
           n == Len(new)
<1>1. /\ new \in Seq(LineRows)
      /\ \A i \in DOMAIN new : new[i].status = status /\ new[i].qty = take[new[i].lot]
      /\ \A i, j \in DOMAIN new : new[i].lot = new[j].lot => i = j
      /\ \A l \in StockLots : take[l] > 0 => \E i \in DOMAIN new : new[i].lot = l
  <2> HIDE DEF n, m
  <2>1. new = NewLines(o, take, status)
    OBVIOUS
  <2> HIDE DEF new
  <2>2. status \in Settled
    BY DEF Settled
  <2> QED BY <2>1, <2>2, NewLinesType
<1>2. lines \in Seq(LineRows) /\ RowsTyped
  BY DEF OrdersInv, RowsTyped
<1>3. lines' = lines \o new
  OBVIOUS
<1> HIDE DEF new
<1>4. /\ m \in Nat /\ n \in Nat /\ DOMAIN lines = 1..m /\ DOMAIN new = 1..n
      /\ lines' \in Seq(LineRows) /\ DOMAIN lines' = 1..(m + n)
      /\ \A i \in 1..(m + n) : lines'[i] = IF i <= m THEN lines[i] ELSE new[i - m]
  <2>1. /\ lines' \in Seq(LineRows) /\ Len(lines') = m + n
        /\ \A i \in 1..(m + n) : lines'[i] = IF i <= m THEN lines[i] ELSE new[i - m]
    BY <1>1, <1>2, <1>3, ConcatProperties
  <2>2. m \in Nat /\ n \in Nat /\ DOMAIN lines = 1..m /\ DOMAIN new = 1..n
    BY <1>1, <1>2
  <2>3. DOMAIN lines' = 1..Len(lines')
    BY <2>1
  <2> QED BY <2>1, <2>2, <2>3
<1> HIDE DEF m, n
<1>5. \A i \in 1..m : i \in DOMAIN lines' /\ lines'[i] = lines[i]
  BY <1>4
<1>6. \A k \in 1..n : m + k \in DOMAIN lines' /\ lines'[m + k] = new[k]
  BY <1>4
<1>7. \A i \in DOMAIN lines' : i \in 1..m \/ \E k \in 1..n : i = m + k
  <2> SUFFICES ASSUME NEW i \in DOMAIN lines', i \notin 1..m PROVE \E k \in 1..n : i = m + k
    OBVIOUS
  <2>1. i - m \in 1..n /\ i = m + (i - m)
    BY <1>4
  <2> QED BY <2>1
<1>8. \A s : LinesWritten(s)
  BY <1>4, <1>5 DEF LinesWritten
<1>9. ASSUME NEW l \in StockLots, NEW st \in {"WAITING", "DONE"}
      PROVE  LineSum(l, st)' = LineSum(l, st) + IF st = status THEN take[l] ELSE 0
  <2> DEFINE A == {i \in DOMAIN lines : lines[i].lot = l /\ lines[i].status = st}
             B == {i \in DOMAIN lines' : i \notin 1..m /\ lines'[i].lot = l /\ lines'[i].status = st}
             q == LineQtys'
  <2>1. A \cup B = {i \in DOMAIN lines' : lines'[i].lot = l /\ lines'[i].status = st}
    BY <1>4, <1>5
  <2>2. A \cap B = {}
    BY <1>4
  <2>3. A \in SUBSET DOMAIN lines /\ B \in SUBSET DOMAIN lines'
    OBVIOUS
  <2>4. IsFiniteSet(A) /\ IsFiniteSet(B) /\ SumFunctionOnSet(LineQtys, A) \in Nat
    <3> HIDE DEF A, B
    <3>1. IsFiniteSet(A) /\ SumFunctionOnSet(LineQtys, A) \in Nat
      BY <1>2, <2>3, SumsOfLines
    <3>2. IsFiniteSet(DOMAIN lines')
      <4>1. DOMAIN lines' = 1..Len(lines') /\ Len(lines') \in Nat
        BY <1>4
      <4> QED BY <4>1, FS_Interval
    <3> QED BY <2>3, <3>1, <3>2, FS_Subset
  <2>5. \A i \in DOMAIN lines' : q[i] = lines'[i].qty /\ q[i] \in Int
    <3>1. \A i \in DOMAIN lines' : lines'[i] \in LineRows
      BY <1>4
    <3> QED BY <3>1 DEF LineQtys, LineRows
  <2>6. \A i \in A : q[i] = LineQtys[i]
    BY <1>4, <1>5, <2>5 DEF LineQtys
  <2>7. SumFunctionOnSet(q, A) = SumFunctionOnSet(LineQtys, A)
    <3> HIDE DEF A, q
    <3> QED BY <2>4, <2>6, SumSame
  <2>8. SumFunctionOnSet(q, B) = IF st = status THEN take[l] ELSE 0
    <3>1. CASE st = status /\ take[l] > 0
      <4>1. PICK k \in DOMAIN new : new[k].lot = l
        BY <1>1, <3>1
      <4>2. m + k \in B
        <5>1. k \in 1..n /\ new[k].status = st
          BY <1>1, <1>4, <3>1, <4>1
        <5>2. m + k \in DOMAIN lines' /\ lines'[m + k] = new[k]
          BY <1>6, <5>1
        <5>3. m + k \notin 1..m
          BY <1>4, <5>1
        <5> QED BY <4>1, <5>1, <5>2, <5>3
      <4>3. ASSUME NEW i \in B PROVE i = m + k
        <5>1. PICK j \in 1..n : i = m + j
          BY <1>7
        <5>2. new[j].lot = l /\ j \in DOMAIN new
          BY <1>4, <1>6, <5>1
        <5> QED BY <1>1, <4>1, <5>1, <5>2
      <4> DEFINE x == m + k
                 v == take[l]
      <4>4. lines'[x] = new[k] /\ x \in DOMAIN lines' /\ new[k].qty = v
        BY <1>1, <1>4, <1>6, <4>1
      <4> HIDE DEF x
      <4>5. x \in B /\ v \in Int /\ \A y \in B : q[y] = IF y = x THEN v ELSE 0
        <5>1. q[x] = v
          BY <2>5, <4>4
        <5>2. x \in B /\ \A y \in B : y = x
          BY <4>2, <4>3 DEF x
        <5> HIDE DEF B, q
        <5> QED BY <5>1, <5>2
      <4> HIDE DEF v, B, q
      <4>6. SumFunctionOnSet(q, B) = v
        BY <2>4, <4>5, SumOnly
      <4> QED BY <3>1, <4>6 DEF v
    <3>2. CASE ~(st = status /\ take[l] > 0)
      <4>1. B = {}
        <5> SUFFICES ASSUME NEW i \in B PROVE FALSE
          OBVIOUS
        <5>1. PICK j \in 1..n : i = m + j
          BY <1>7
        <5>2. new[j].lot = l /\ j \in DOMAIN new /\ new[j].status = st
          BY <1>4, <1>6, <5>1
        <5>3. new[j].qty = take[l] /\ st = status
          BY <1>1, <5>2
        <5>4. new[j].qty \in Nat /\ new[j].qty > 0
          <6>1. new[j] \in LineRows
            BY <1>1, <5>2
          <6> QED BY <6>1 DEF LineRows
        <5> QED BY <3>2, <5>3, <5>4
      <4>2. SumFunctionOnSet(q, B) = 0
        BY <4>1, SumOfNone
      <4>3. st = status => take[l] = 0
        BY <3>2
      <4> QED BY <4>2, <4>3
    <3> QED BY <3>1, <3>2
  <2>9. LineSum(l, st) = SumFunctionOnSet(LineQtys, A)
    BY DEF LineSum
  <2>10. LineSum(l, st)' = SumFunctionOnSet(q, A \cup B)
    BY <2>1 DEF LineSum
  <2>11. SumFunctionOnSet(q, A \cup B) = SumFunctionOnSet(q, A) + SumFunctionOnSet(q, B)
    <3>1. \A i \in A \cup B : q[i] \in Int
      BY <2>1, <2>5
    <3> HIDE DEF A, B, q
    <3> QED BY <2>2, <2>4, <3>1, SumDisjoint
  <2> HIDE DEF A, B, q
  <2> QED BY <2>7, <2>8, <2>9, <2>10, <2>11
<1>10. ASSUME NEW l \in StockLots
       PROVE  /\ WaitingOn(l)' = WaitingOn(l) + IF status = "WAITING" THEN take[l] ELSE 0
              /\ ShippedFrom(l)' = ShippedFrom(l) + IF status = "DONE" THEN take[l] ELSE 0
  <2>1. LineSum(l, "WAITING")' = LineSum(l, "WAITING") + IF status = "WAITING" THEN take[l] ELSE 0
    BY <1>9
  <2>2. LineSum(l, "DONE")' = LineSum(l, "DONE") + IF status = "DONE" THEN take[l] ELSE 0
    BY <1>9
  <2> QED BY <2>1, <2>2, LineSums
<1> QED BY <1>4, <1>8, <1>10

LEMMA CommitPlanStep ==
  ASSUME OrdersInv, NEW s \in Sessions, CommitPlan(s)
  PROVE  OrdersInv' /\ PromisesKept /\ LinesWritten(s)
<1> DEFINE x == sess[s]
           o == x.order
           status == IF Ships(s) THEN "DONE" ELSE "WAITING"
<1>1. /\ At(s, "commit_plan") /\ End(s) /\ UNCHANGED <<lots, manual>>
      /\ lines' = lines \o NewLines(o, x.take, status)
      /\ IF Ships(s) THEN WriteStock(s) ELSE UNCHANGED <<inventory, lotQty>>
  BY DEF CommitPlan
<1>2. /\ SessionOK(x, locks[s], <<>>) /\ x \in Working /\ x.pc = "commit_plan" /\ x.req = "plan"
      /\ todo[s] = <<>>
  BY <1>1, SessionAt, RequestAt DEF SessionOK, SessionTyped, At
<1>3. /\ o \in OrderLines /\ x.take \in [StockLots -> Nat]
      /\ \A l \in StockLots :
           /\ x.take[l] >= 0
           /\ x.take[l] > 0 => Update(Stock(l)) \in locks[s] /\ WaitingOn(l) + x.take[l] <= lotQty[l]
  <2>1. x.take \in [StockLots -> Int] /\ \A l \in StockLots : x.take[l] >= 0
    BY <1>2 DEF SessionOK, LotsHeld, Working
  <2>2. x.take \in [StockLots -> Nat]
    BY <2>1
  <2> QED BY <1>2, <2>2 DEF SessionOK, SessionTyped, LotsHeld
<1>4. orders' \in [OrderLines -> OrderRows] /\ \A p \in OrderLines : orders'[p].qty > 0
  <2>1. PICK plan \in LatestPlan(s) :
          orders' = [orders EXCEPT ![o].decided = TRUE, ![o].plan = plan,
                                   ![o].status = IF Ships(s) THEN "DONE" ELSE @]
    BY DEF CommitPlan
  <2> DEFINE new == IF Ships(s) THEN "DONE" ELSE orders[o].status
             row == [orders[o] EXCEPT !.decided = TRUE, !.plan = plan, !.status = new]
  <2>2. orders' = [orders EXCEPT ![o] = row]
    BY <1>3, <2>1 DEF OrdersInv, RowsTyped
  <2>3. new \in {"OPEN", "CLOSED", "DONE", "CANCELED"}
    BY <1>3, OrderRow
  <2> HIDE DEF new, o
  <2>4. plan \in Plans
    BY <1>3, LatestPlanType DEF o
  <2>5. row \in OrderRows /\ row.qty > 0
    BY <1>3, <2>3, <2>4, OrderRow DEF OrderRows, Plans
  <2> HIDE DEF row
  <2> QED BY <1>3, <2>2, <2>5, OrderWritten
<1>5. status \in {"WAITING", "DONE"} /\ (status = "DONE" <=> Ships(s)) /\ (status = "WAITING" <=> ~Ships(s))
  OBVIOUS
<1> HIDE DEF status, o
<1>6. /\ lines' \in Seq(LineRows) /\ LinesWritten(s)
      /\ \A l \in StockLots :
           /\ WaitingOn(l)' = WaitingOn(l) + IF status = "WAITING" THEN x.take[l] ELSE 0
           /\ ShippedFrom(l)' = ShippedFrom(l) + IF status = "DONE" THEN x.take[l] ELSE 0
  BY <1>1, <1>3, <1>5, LinesAdded
<1>7. /\ lotQty' \in [StockLots -> Nat] /\ inventory' \in Int /\ inventory' = SumFunction(lotQty')
      /\ StockWritten(s)
      /\ \A l \in StockLots : lotQty'[l] = lotQty[l] - IF status = "DONE" THEN x.take[l] ELSE 0
  <2>1. CASE Ships(s)
    <3>1. StockRead(x)
      BY <1>2, <2>1 DEF StockRead, Ships, ShipTypes
    <3>2. /\ Update(Inventory) \in locks[s]
          /\ lotQty' \in [StockLots -> Nat] /\ inventory' \in Int /\ inventory' = SumFunction(lotQty')
          /\ \A l \in StockLots : lotQty'[l] = lotQty[l] - x.take[l] /\ x.take[l] \in Int
      BY <1>1, <1>2, <2>1, <3>1, StockTaken
    <3> QED BY <1>5, <2>1, <3>2 DEF StockWritten
  <2>2. CASE ~Ships(s)
    <3>1. lotQty \in [StockLots -> Nat] /\ inventory \in Int /\ inventory = SumFunction(lotQty)
      BY DEF OrdersInv, RowsTyped, BooksAgree
    <3>2. inventory' = inventory /\ lotQty' = lotQty
      BY <1>1, <2>2
    <3>3. \A l \in StockLots : lotQty[l] - 0 = lotQty[l]
      BY <3>1
    <3> QED BY <1>5, <2>2, <3>1, <3>2, <3>3 DEF StockWritten
  <2> QED BY <2>1, <2>2
<1>8. ASSUME NEW l \in StockLots
      PROVE  /\ lotQty'[l] = manual'[l] - ShippedFrom(l)'
             /\ \/ Update(Stock(l)) \in locks[s]
                \/ WaitingOn(l)' + lotQty[l] <= WaitingOn(l) + lotQty'[l]
             /\ ~(WaitingOn(l) <= lotQty[l] /\ WaitingOn(l)' > lotQty'[l])
  <2> DEFINE taken == x.take[l]
  <2>1. taken \in Nat /\ (taken > 0 => Update(Stock(l)) \in locks[s] /\ WaitingOn(l) + taken <= lotQty[l])
    BY <1>3
  <2>2. /\ WaitingOn(l)' = WaitingOn(l) + IF status = "WAITING" THEN taken ELSE 0
        /\ ShippedFrom(l)' = ShippedFrom(l) + IF status = "DONE" THEN taken ELSE 0
        /\ lotQty'[l] = lotQty[l] - IF status = "DONE" THEN taken ELSE 0
    BY <1>6, <1>7
  <2>3. manual' = manual
    BY <1>1
  <2> HIDE DEF taken
  <2>4. CASE status = "DONE"
    <3>1. WaitingOn(l)' = WaitingOn(l) + 0 /\ ShippedFrom(l)' = ShippedFrom(l) + taken
          /\ lotQty'[l] = lotQty[l] - taken
      BY <2>2, <2>4
    <3> QED BY <2>1, <2>3, <3>1, QuantitiesNow
  <2>5. CASE status = "WAITING"
    <3>1. WaitingOn(l)' = WaitingOn(l) + taken /\ ShippedFrom(l)' = ShippedFrom(l) + 0
          /\ lotQty'[l] = lotQty[l] - 0
      BY <2>2, <2>5
    <3> QED BY <2>1, <2>3, <3>1, QuantitiesNow
  <2> QED BY <1>5, <2>4, <2>5
<1>9. RowsTyped'
  BY <1>1, <1>4, <1>6, <1>7 DEF OrdersInv, RowsTyped
<1>10. BooksAgree'
  BY <1>7, <1>8 DEF BooksAgree
<1>11. LotsWritten(s) /\ PromisesKept
  BY <1>8 DEF LotsWritten, PromisesKept
<1> QED BY <1>1, <1>6, <1>7, <1>9, <1>10, <1>11, CommitStep
-----------------------------------------------------------------------------
(* All the steps, and the states a system starts in.                       *)

SettledKept == \A i \in DOMAIN lines : lines[i].status # "WAITING" => lines'[i] = lines[i]

LEMMA StatementStep ==
  ASSUME OrdersInv, NEW s \in Sessions, Statement(s)
  PROVE  OrdersInv' /\ PromisesKept /\ SettledKept
<1>1. ASSUME UNCHANGED <<lines, lotQty>> PROVE PromisesKept /\ SettledKept
  <2>1. \A l : WaitingOn(l)' = WaitingOn(l)
    BY <1>1, LinesStay
  <2> QED BY <1>1, <2>1, QuantitiesNow DEF PromisesKept, SettledKept
<1>2. LinesWritten(s) => SettledKept
  BY DEF LinesWritten, SettledKept
<1>3. ASSUME NEW new, NEW want, Continue(s, new, want) PROVE UNCHANGED <<lines, lotQty>>
  BY <1>3 DEF Continue, tables
<1>4. Refuse(s) => UNCHANGED <<lines, lotQty>>
  BY DEF Refuse, tables
<1>5. CASE ReadInventory(s)
  BY <1>1, <1>3, <1>5, ReadInventoryStep, Zenon DEF ReadInventory
<1>6. CASE ReadReserved(s)
  BY <1>1, <1>3, <1>4, <1>6, ReadReservedStep, Zenon DEF ReadReserved
<1>7. CASE ReadShipped(s)
  BY <1>1, <1>3, <1>4, <1>7, ReadShippedStep, Zenon DEF ReadShipped
<1>8. CASE CheckExistingLines(s)
  BY <1>1, <1>3, <1>4, <1>8, CheckExistingLinesStep, Zenon DEF CheckExistingLines
<1>9. CASE LockLots(s)
  BY <1>1, <1>3, <1>4, <1>9, LockLotsStep, Zenon DEF LockLots
<1>10. CASE Allocate(s)
  BY <1>1, <1>3, <1>4, <1>10, AllocateStep, Zenon DEF Allocate
<1>11. CASE ConfirmOwnLines(s)
  BY <1>1, <1>3, <1>4, <1>11, ConfirmOwnLinesStep, Zenon DEF ConfirmOwnLines
<1>12. CASE WriteHistory(s)
  BY <1>1, <1>3, <1>4, <1>12, WriteHistoryStep, Zenon DEF WriteHistory
<1>13. CASE CommitPlan(s)
  BY <1>2, <1>13, CommitPlanStep
<1>14. CASE CheckNoLot(s)
  BY <1>1, <1>3, <1>4, <1>14, CheckNoLotStep, Zenon DEF CheckNoLot
<1>15. CASE ReadPlan(s)
  BY <1>1, <1>3, <1>4, <1>15, ReadPlanStep, Zenon DEF ReadPlan
<1>16. CASE NumberLot(s)
  BY <1>1, <1>3, <1>4, <1>16, NumberLotStep, Zenon DEF NumberLot
<1>17. CASE InsertLot(s)
  <2>1. UNCHANGED <<lines, lotQty>>
    BY <1>3, <1>4, <1>17, Zenon DEF InsertLot, tables
  <2> QED BY <1>1, <1>17, <2>1, InsertLotStep
<1>18. CASE CommitLot(s)
  BY <1>1, <1>18, CommitLotStep, Zenon DEF CommitLot
<1>19. CASE ReadRemaining(s)
  BY <1>1, <1>3, <1>4, <1>19, ReadRemainingStep, Zenon DEF ReadRemaining
<1>20. CASE CommitStatus(s)
  BY <1>1, <1>20, CommitStatusStep, Zenon DEF CommitStatus
<1>21. CASE EditOrder(s)
  BY <1>1, <1>3, <1>4, <1>21, EditOrderStep, Zenon DEF EditOrder
<1>22. CASE CommitVoid(s)
  BY <1>2, <1>22, CommitVoidStep
<1>23. CASE CommitResize(s)
  BY <1>1, <1>4, <1>23, CommitResizeStep, Zenon DEF CommitResize
<1>24. CASE LockLines(s)
  BY <1>1, <1>3, <1>4, <1>24, LockLinesStep, Zenon DEF LockLines
<1>25. CASE CountLines(s)
  BY <1>1, <1>3, <1>4, <1>25, CountLinesStep, Zenon DEF CountLines
<1>26. CASE ReadStock(s)
  BY <1>1, <1>3, <1>4, <1>26, ReadStockStep, Zenon DEF ReadStock
<1>27. CASE CommitShipment(s)
  BY <1>2, <1>27, CommitShipmentStep
<1>28. CASE ReadIncrease(s)
  BY <1>1, <1>3, <1>4, <1>28, ReadIncreaseStep, Zenon DEF ReadIncrease
<1>29. CASE LockDecrease(s)
  BY <1>1, <1>3, <1>4, <1>29, LockDecreaseStep, Zenon DEF LockDecrease
<1>30. CASE TakeDecrease(s)
  BY <1>1, <1>3, <1>4, <1>30, TakeDecreaseStep, Zenon DEF TakeDecrease
<1>31. CASE CommitAdjust(s)
  BY <1>2, <1>31, CommitAdjustStep
<1> QED BY <1>5, <1>6, <1>7, <1>8, <1>9, <1>10, <1>11, <1>12, <1>13, <1>14, <1>15, <1>16, <1>17,
           <1>18, <1>19, <1>20, <1>21, <1>22, <1>23, <1>24, <1>25, <1>26, <1>27, <1>28, <1>29,
           <1>30, <1>31, Zenon DEF Statement

LEMMA RequestStep ==
  ASSUME OrdersInv, [Next]_vars
  PROVE  OrdersInv' /\ PromisesKept /\ SettledKept
<1>1. ASSUME UNCHANGED tables PROVE PromisesKept /\ SettledKept
  <2>1. \A l : WaitingOn(l)' = WaitingOn(l)
    BY <1>1, LinesStay DEF tables
  <2> QED BY <1>1, <2>1, QuantitiesNow DEF PromisesKept, SettledKept, tables
<1>2. ASSUME NEW s \in Sessions, BeginRequest(s)
      PROVE  OrdersInv' /\ PromisesKept /\ SettledKept
  <2>1. OrdersInv'
    BY <1>2, BeginPlanStep, BeginReadStep, BeginChangeStep, BeginShipmentStep, BeginIncreaseStep,
       BeginDecreaseStep, Zenon DEF BeginRequest
  <2>2. \A kind, x, want : Begin(s, kind, x, want) => UNCHANGED tables
    BY DEF Begin
  <2>3. UNCHANGED tables
    BY <1>2, <2>2, Zenon DEF BeginRequest, BeginPlan, BeginBaseLot, BeginCancel, BeginShortClose,
       BeginChange, BeginShipment, BeginIncrease, BeginDecrease
  <2> QED BY <1>1, <2>1, <2>3
<1>3. ASSUME NEW s \in Sessions, Work(s)
      PROVE  OrdersInv' /\ PromisesKept /\ SettledKept
  <2>1. CASE Statement(s)
    BY <2>1, StatementStep
  <2>2. CASE LockNext(s)
    <3>1. UNCHANGED tables
      BY <2>2 DEF LockNext
    <3> QED BY <1>1, <2>2, <3>1, LockStep
  <2>3. CASE LockTimeout(s)
    <3>1. Refuse(s) /\ UNCHANGED tables
      BY <2>3 DEF LockTimeout, Refuse
    <3> QED BY <1>1, <3>1, RefuseStep
  <2> QED BY <1>3, <2>1, <2>2, <2>3 DEF Work
<1>4. CASE UNCHANGED vars
  <2>1. UNCHANGED tables /\ UNCHANGED <<sess, locks, todo, left>>
    BY <1>4 DEF vars, tables
  <2>2. RowsTyped' /\ BooksAgree'
    BY <2>1, RowsKept DEF OrdersInv
  <2>3. ASSUME NEW s \in Sessions PROVE SessionOK(sess[s], locks[s], todo[s])'
    <3>1. SessionOK(sess[s], locks[s], todo[s])
      BY DEF OrdersInv, SessionsOK
    <3>2. sess'[s] = sess[s] /\ locks'[s] = locks[s] /\ todo'[s] = todo[s]
      BY <2>1
    <3> QED BY <2>1, <3>1, <3>2, SessionKept
  <2>4. SessionsOK'
    BY <2>1, <2>3 DEF OrdersInv, SessionsOK
  <2>5. LocksCompatible'
    BY <2>1 DEF OrdersInv, LocksCompatible
  <2> QED BY <1>1, <2>1, <2>2, <2>4, <2>5 DEF OrdersInv
<1> QED BY <1>2, <1>3, <1>4 DEF Next

\* No request runs at the start.
LEMMA NobodyAtWork ==
  ASSUME RowsTyped, BooksAgree, sess = [s \in Sessions |-> Idle], locks = [s \in Sessions |-> {}],
         todo = [s \in Sessions |-> <<>>], left = MaxRequests
  PROVE  OrdersInv
<1> DEFINE none == {}
           nothing == <<>>
<1>1. Idle \in Working /\ none \in SUBSET LockRows /\ nothing \in Seq(LockRows)
  BY IdleTyped DEF SessionTyped
<1>2. \A s \in Sessions : sess[s] = Idle /\ locks[s] = none /\ todo[s] = nothing
  OBVIOUS
<1>3. /\ sess \in [Sessions -> Working] /\ locks \in [Sessions -> SUBSET LockRows]
      /\ todo \in [Sessions -> Seq(LockRows)]
  <2>1. sess = [s \in Sessions |-> Idle] /\ locks = [s \in Sessions |-> none]
        /\ todo = [s \in Sessions |-> nothing]
    OBVIOUS
  <2> HIDE DEF none, nothing
  <2> QED BY <1>1, <2>1
<1>4. \A s \in Sessions : SessionOK(sess[s], locks[s], todo[s])
  BY <1>2, IdleOK
<1>5. LocksCompatible
  BY DEF LocksCompatible
<1>6. left \in 0..MaxRequests
  BY ConcurrentOrdersAssumption
<1> QED BY <1>3, <1>4, <1>5, <1>6 DEF OrdersInv, SessionsOK

LEMMA InitOK ==
  ASSUME Init
  PROVE  OrdersInv
<1>0. /\ lots = <<>> /\ lines = <<>> /\ lotQty = manual /\ inventory = SumFunction(manual)
      /\ DOMAIN lines = {}
  <2>1. lots = <<>> /\ lines = <<>> /\ lotQty = manual /\ inventory = SumFunction(manual)
    BY Zenon DEF Init
  <2> QED BY <2>1
<1>1. RowsTyped
  <2>1. \A q \in OrderQtys : /\ [NoRow EXCEPT !.status = "OPEN", !.qty = q] \in OrderRows
                             /\ [NoRow EXCEPT !.status = "OPEN", !.qty = q].qty > 0
    <3>1. \A q \in OrderQtys : q \in Nat /\ q > 0
      BY ConcurrentOrdersAssumption
    <3> QED BY <3>1 DEF NoRow, NoPlan, OrderRows
  <2>2. orders \in [OrderLines -> OrderRows] /\ \A o \in OrderLines : orders[o].qty > 0
    <3>1. \A o \in OrderLines : \E q \in OrderQtys :
             orders[o] = [NoRow EXCEPT !.status = "OPEN", !.qty = q]
      BY DEF Init
    <3>2. orders = [o \in OrderLines |-> orders[o]]
      BY DEF Init
    <3> QED BY <2>1, <3>1, <3>2
  <2>3. lots \in Seq(LotRows) /\ lines \in Seq(LineRows)
    BY <1>0
  <2>4. manual \in [StockLots -> Nat] /\ lotQty = manual
    BY ConcurrentOrdersAssumption DEF Init
  <2>5. manual \in [StockLots -> Int]
    BY <2>4
  <2>6. inventory \in Int
    <3>1. \A l \in StockLots : manual[l] \in Int
      BY <2>5
    <3>2. SumFunctionOnSet(manual, StockLots) \in Int
      BY <3>1, LotsFinite, SumType
    <3>3. DOMAIN manual = StockLots
      BY <2>5
    <3> QED BY <3>2, <3>3 DEF Init, SumFunction
  <2> QED BY <2>2, <2>3, <2>4, <2>5, <2>6 DEF RowsTyped
<1>2. BooksAgree
  <2>1. \A l : ShippedFrom(l) = 0
    <3>2. \A l : {i \in DOMAIN lines : lines[i].lot = l /\ lines[i].status = "DONE"} = {}
      BY <1>0
    <3> QED BY <3>2, SumOfNone DEF ShippedFrom
  <2>2. \A l \in StockLots : lotQty[l] = manual[l] /\ manual[l] \in Int
    BY <1>0, <1>1 DEF RowsTyped
  <2> QED BY <1>0, <2>1, <2>2 DEF BooksAgree
<1> QED BY <1>1, <1>2, NobodyAtWork DEF Init

LEMMA ReservedInitOK ==
  ASSUME ReservedInit
  PROVE  OrdersInv
<1> DEFINE os == Ascending(OrderLines)
           reserved == [type |-> "PARTIAL_STOCK_PLUS_PRODUCTION", stock |-> 1]
<1>1. OrderLines \in SUBSET Nat /\ IsFiniteSet(OrderLines)
  BY ConcurrentOrdersAssumption
<1>2. os \in Seq(OrderLines)
  BY <1>1, AscendingType
<1>3. /\ Len(LotsByAge) = Len(os)
      /\ lines = [i \in DOMAIN os |-> [order |-> os[i], lot |-> LotsByAge[i], qty |-> 1,
                                       status |-> "WAITING"]]
      /\ manual = [l \in StockLots |-> 1] /\ lotQty = manual /\ inventory = SumFunction(manual)
      /\ lots = <<>>
  BY DEF ReservedInit
<1> HIDE DEF os
<1>4. \A i \in DOMAIN os : os[i] \in OrderLines /\ LotsByAge[i] \in StockLots
  <2>1. LotsByAge \in Seq(StockLots)
    BY ConcurrentOrdersAssumption DEF StockLots
  <2>2. DOMAIN os = 1..Len(os) /\ DOMAIN LotsByAge = 1..Len(LotsByAge)
    BY <1>2, <2>1
  <2> QED BY <1>2, <1>3, <2>1, <2>2
<1>5. /\ lines \in Seq(LineRows) /\ \A i \in DOMAIN lines : lines[i].status = "WAITING"
  <2>1. \A i \in DOMAIN os : [order |-> os[i], lot |-> LotsByAge[i], qty |-> 1,
                              status |-> "WAITING"] \in LineRows
    BY <1>4 DEF LineRows
  <2>2. DOMAIN os = 1..Len(os) /\ Len(os) \in Nat
    BY <1>2
  <2>3. lines \in Seq(LineRows)
    BY <1>3, <2>1, <2>2
  <2> QED BY <1>3, <2>3
<1>6. RowsTyped
  <2>1. ASSUME NEW q \in OrderQtys, Target(q) > 1
        PROVE  LET row == [status |-> "OPEN", qty |-> q, decided |-> TRUE,
                           plan |-> [type |-> "PARTIAL_STOCK_PLUS_PRODUCTION",
                                     stock |-> 1, production |-> Target(q) - 1]]
               IN  row \in OrderRows /\ row.qty > 0
    <3>1. q \in Nat /\ q > 0
      BY ConcurrentOrdersAssumption
    <3> DEFINE p == Target(q) - 1
    <3>2. p \in Nat
      BY <2>1, <3>1 DEF Target, CalculateShipQty
    <3>3. "PARTIAL_STOCK_PLUS_PRODUCTION" \in PlanTypes
      BY DEF PlanTypes
    <3> HIDE DEF p
    <3>4. [type |-> "PARTIAL_STOCK_PLUS_PRODUCTION", stock |-> 1, production |-> p] \in Plans
      BY <3>2, <3>3 DEF Plans
    <3> QED BY <3>1, <3>4 DEF OrderRows, Plans, p
  <2>2. orders \in [OrderLines -> OrderRows] /\ \A o \in OrderLines : orders[o].qty > 0
    <3>1. \A o \in OrderLines : \E q \in OrderQtys :
             /\ Target(q) > 1
             /\ orders[o] = [status |-> "OPEN", qty |-> q, decided |-> TRUE,
                             plan |-> [type |-> "PARTIAL_STOCK_PLUS_PRODUCTION",
                                       stock |-> 1, production |-> Target(q) - 1]]
      BY DEF ReservedInit
    <3>2. orders = [o \in OrderLines |-> orders[o]]
      BY DEF ReservedInit
    <3>3. \A o \in OrderLines : orders[o] \in OrderRows /\ orders[o].qty > 0
      BY <2>1, <3>1
    <3> QED BY <3>2, <3>3
  <2>3. lots \in Seq(LotRows)
    BY <1>3
  <2>4. manual \in [StockLots -> Nat] /\ manual \in [StockLots -> Int]
    BY <1>3
  <2>5. inventory \in Int
    <3>1. \A l \in StockLots : manual[l] \in Int
      BY <2>4
    <3>2. SumFunctionOnSet(manual, StockLots) \in Int
      BY <3>1, LotsFinite, SumType
    <3>3. DOMAIN manual = StockLots
      BY <2>4
    <3> QED BY <1>3, <3>2, <3>3 DEF SumFunction
  <2> QED BY <1>3, <1>5, <2>2, <2>3, <2>4, <2>5 DEF RowsTyped
<1>7. BooksAgree
  <2>1. \A l : ShippedFrom(l) = 0
    <3>1. \A l : {i \in DOMAIN lines : lines[i].lot = l /\ lines[i].status = "DONE"} = {}
      BY <1>5
    <3> QED BY <3>1, SumOfNone DEF ShippedFrom
  <2>2. \A l \in StockLots : lotQty[l] = manual[l] /\ manual[l] \in Int
    BY <1>3, <1>6 DEF RowsTyped
  <2> QED BY <1>3, <2>1, <2>2 DEF BooksAgree
<1> QED BY <1>6, <1>7, NobodyAtWork DEF ReservedInit
-----------------------------------------------------------------------------
(* The theorems.                                                           *)

LEMMA OrdersInvAlways == (Spec => []OrdersInv) /\ (ReservedSpec => []OrdersInv)
<1>1. Init => OrdersInv
  BY InitOK
<1>2. ReservedInit => OrdersInv
  BY ReservedInitOK
<1>3. OrdersInv /\ [Next]_vars => OrdersInv'
  BY RequestStep
<1> QED BY <1>1, <1>2, <1>3, PTL DEF Spec, ReservedSpec

LEMMA RowsAreTyped ==
  ASSUME OrdersInv
  PROVE  TypeOK /\ BooksAgree
<1>1. RowsTyped /\ BooksAgree /\ left \in 0..MaxRequests
  BY DEF OrdersInv
<1>2. inventory \in Nat
  <2>1. \A l \in StockLots : lotQty[l] \in Nat
    BY <1>1 DEF RowsTyped
  <2>2. SumFunctionOnSet(lotQty, StockLots) \in Nat
    BY <2>1, LotsFinite, SumNat
  <2>3. DOMAIN lotQty = StockLots
    BY <1>1 DEF RowsTyped
  <2> QED BY <1>1, <2>2, <2>3 DEF BooksAgree, SumFunction
<1>3. ASSUME NEW s \in Sessions, sess[s] = Idle PROVE locks[s] = {} /\ todo[s] = <<>>
  <2>1. SessionTyped(sess[s], locks[s], todo[s])
    BY DEF OrdersInv, SessionsOK, SessionOK
  <2>2. sess[s].req = "none"
    BY <1>3 DEF Idle
  <2> QED BY <2>1, <2>2 DEF SessionTyped
<1>4. lots \in Seq([order: OrderLines, qty: Nat \ {0}])
  BY <1>1 DEF RowsTyped, LotRows
<1>5. lines \in Seq([order: OrderLines, lot: StockLots, qty: Nat \ {0},
                    status: {"WAITING", "DONE", "CANCELED"}])
  BY <1>1 DEF RowsTyped, LineRows
<1> QED BY <1>1, <1>2, <1>3, <1>4, <1>5 DEF TypeOK, RowsTyped

\* However requests overlap, every row holds what its columns allow: no stock is
\* ever negative, though it is written as what was read some statements before
\* less what is taken; and a session without a request holds no lock.
THEOREM OverlapTypeCorrect == Spec \/ ReservedSpec => []TypeOK
<1>1. OrdersInv => TypeOK
  BY RowsAreTyped
<1> QED BY <1>1, OrdersInvAlways, PTL

\* However requests overlap, no movement of stock is lost: each inventory lot
\* holds what its movements say, and the product what its lots hold.
THEOREM OverlapKeepsBooks == Spec \/ ReservedSpec => []BooksAgree
<1>1. OrdersInv => BooksAgree
  BY RowsAreTyped
<1> QED BY <1>1, OrdersInvAlways, PTL

\* A shipment line that one request has shipped or canceled is never written
\* by another one.
THEOREM SettledLinesStay == Spec \/ ReservedSpec => LinesSettleOnce
<1>1. OrdersInv /\ [Next]_vars
        => [\A i \in DOMAIN lines : lines[i].status # "WAITING" => lines'[i] = lines[i]]_vars
  BY RequestStep DEF SettledKept
<1> QED BY <1>1, OrdersInvAlways, PTL DEF LinesSettleOnce, Spec, ReservedSpec

\* Overlapping plan confirmations never reserve the same pieces: only a manual
\* decrease leaves a lot with less than its waiting lines need.
THEOREM PlansPromiseOnce == Spec \/ ReservedSpec => PromisedOnce
<1>1. OrdersInv /\ [Next]_vars
        => [\A l \in StockLots : WaitingOn(l) <= lotQty[l] /\ WaitingOn(l)' > lotQty'[l]
              => manual'[l] < manual[l]]_vars
  BY RequestStep DEF PromisesKept
<1> QED BY <1>1, OrdersInvAlways, PTL DEF PromisedOnce, Spec, ReservedSpec
-----------------------------------------------------------------------------
(* Deadlocks.                                                              *)

\* The lock that a session waits for.
Waits(t) == todo[t][1]

LEMMA WaitingRow ==
  ASSUME OrdersInv, NEW D \in SUBSET Sessions, Deadlocked(D), NEW s \in D
  PROVE  /\ Waits(s) = Head(todo[s]) /\ 1 \in DOMAIN todo[s] /\ todo[s] \in Seq(LockRows)
         /\ Waits(s) \in LockRows /\ Level(Waits(s).row) \in 1..5
         /\ Level(Waits(s).row) \in {2, 3} => Waits(s).row[2] \in Nat
         /\ Waits(s).mode \in {"keyshare", "nokey", "update"}
<1>1. todo[s] \in Seq(LockRows) /\ todo[s] # <<>>
  BY DEF OrdersInv, SessionsOK, Deadlocked
<1>2. Waits(s) = Head(todo[s]) /\ 1 \in DOMAIN todo[s] /\ Waits(s) \in LockRows
  BY <1>1 DEF Waits
<1>3. \A r \in Lockable : Level(r) \in 1..5 /\ (Level(r) \in {2, 3} => r[2] \in Nat)
  BY DEF Lockable, Level
<1>4. Waits(s).row \in Lockable /\ Waits(s).mode \in {"keyshare", "nokey", "update"}
  BY <1>2 DEF LockRows
<1> QED BY <1>1, <1>2, <1>3, <1>4

LEMMA Blocked ==
  ASSUME OrdersInv, NEW D \in SUBSET Sessions, Deadlocked(D), \A s \in D : sess[s].req # "plan",
         NEW s \in D
  PROVE  \E t \in D \ {s} : \E h \in locks[t] :
           /\ h.row = Waits(s).row /\ ~Compatible(h.mode, Waits(s).mode) /\ Before(h, Waits(t))
           /\ h.mode \in {"keyshare", "nokey", "update"}
<1>0. PICK t \in D \ {s} : \E h \in locks[t] :
        h.row = Head(todo[s]).row /\ ~Compatible(h.mode, Head(todo[s]).mode)
  BY DEF Deadlocked
<1>1. PICK h \in locks[t] :
        h.row = Head(todo[s]).row /\ ~Compatible(h.mode, Head(todo[s]).mode)
  BY <1>0
<1>2. InOrder(locks[t], todo[t]) /\ locks[t] \in SUBSET LockRows
  BY <1>1 DEF OrdersInv, SessionsOK, SessionOK, Orderly
<1>3. Before(h, Waits(t))
  BY <1>1, <1>2, WaitingRow DEF InOrder, Waits
<1>4. h.mode \in {"keyshare", "nokey", "update"}
  BY <1>1, <1>2 DEF LockRows
<1> QED BY <1>1, <1>3, <1>4, WaitingRow

\* A session that waits for an inventory lot holds the product.
LEMMA LotsAfterProduct ==
  ASSUME OrdersInv, NEW D \in SUBSET Sessions, Deadlocked(D), NEW s \in D, sess[s].req # "plan",
         Level(Waits(s).row) = 5
  PROVE  Update(Inventory) \in locks[s]
<1>1. InOrder(locks[s], todo[s])
  BY DEF OrdersInv, SessionsOK, SessionOK, Orderly
<1>2. 1 \in DOMAIN todo[s] /\ todo[s] \in Seq(LockRows)
  BY WaitingRow
<1>3. Update(Inventory) \in All(locks[s], todo[s])
  <2>1. Waits(s) \in All(locks[s], todo[s])
    BY <1>2 DEF All, Range, Waits
  <2> QED BY <1>1, <2>1 DEF InOrder
<1>4. ASSUME NEW i \in DOMAIN todo[s], todo[s][i] = Update(Inventory) PROVE FALSE
  <2>1. Level(todo[s][i].row) = 4
    BY <1>4, RowLevels DEF Update
  <2>2. i # 1
    BY <2>1 DEF Waits
  <2>3. i > 1
    BY <1>2, <2>2
  <2>4. Before(todo[s][1], todo[s][i])
    BY <1>1, <1>2, <2>3 DEF InOrder
  <2> QED BY <2>1, <2>4 DEF Before, Waits
<1> QED BY <1>3, <1>4 DEF All, Range

LEMMA NoCycle ==
  ASSUME OrdersInv, NEW D \in SUBSET Sessions, D # {}, Deadlocked(D)
  PROVE  \E s \in D : sess[s].req = "plan"
<1> SUFFICES ASSUME \A s \in D : sess[s].req # "plan" PROVE FALSE
  OBVIOUS
<1> DEFINE level(s) == Level(Waits(s).row)
           id(s) == Waits(s).row[2]
<1>1. IsFiniteSet(D)
  BY ConcurrentOrdersAssumption, FS_Subset
<1>2. PICK top \in D : \A s \in D : level(top) >= level(s)
  <2> DEFINE S == {level(s) : s \in D}
  <2>1. S \in SUBSET Nat /\ S # {}
    BY WaitingRow
  <2>2. IsFiniteSet(S)
    <3> DEFINE f == [s \in D |-> level(s)]
    <3>1. f \in Surjection(D, S)
      BY Fun_IsSurj
    <3> HIDE DEF f, S
    <3> QED BY <1>1, <3>1, FS_Surjection
  <2> HIDE DEF S
  <2>3. PICK n \in S : \A m \in S : n >= m
    BY <2>1, <2>2, GreatestNat
  <2> QED BY <2>3 DEF S
<1> DEFINE L == level(top)
           T == {s \in D : level(s) = L}
<1>3. L \in 1..5 /\ \A s \in D : level(s) \in 1..5 /\ level(s) <= L
  BY <1>2, WaitingRow
<1> HIDE DEF L
<1>4. ASSUME NEW s \in T
      PROVE  \E t \in T \ {s} : \E h \in locks[t] :
               /\ h.row = Waits(s).row /\ ~Compatible(h.mode, Waits(s).mode)
               /\ \/ L = 5
                  \/ L \in {2, 3} /\ id(s) < id(t)
                  \/ L = 2 /\ h.mode = "keyshare" /\ Waits(t).mode = "nokey" /\ Waits(s).row = Waits(t).row
  <2>0. PICK t \in D \ {s} : \E h \in locks[t] :
           /\ h.row = Waits(s).row /\ ~Compatible(h.mode, Waits(s).mode) /\ Before(h, Waits(t))
    BY Blocked
  <2>1. PICK h \in locks[t] :
           /\ h.row = Waits(s).row /\ ~Compatible(h.mode, Waits(s).mode) /\ Before(h, Waits(t))
    BY <2>0
  <2>2. level(s) = L /\ level(t) <= L /\ level(t) \in 1..5 /\ Level(h.row) = L
    BY <1>3, <2>1
  <2>3. level(t) = L
    BY <1>3, <2>1, <2>2 DEF Before
  <2> QED BY <2>1, <2>2, <2>3 DEF Before
<1>5. CASE L = 5
  <2>1. PICK s \in T : TRUE
    BY DEF L
  <2>2. PICK t \in T \ {s} : TRUE
    BY <1>4, <2>1
  <2>3. Update(Inventory) \in locks[s] /\ Update(Inventory) \in locks[t]
    BY <1>5, LotsAfterProduct
  <2> QED BY <2>2, <2>3, OneUpdate DEF OrdersInv
<1>6. CASE L \in {2, 3}
  <2>1. PICK last \in T : \A s \in T : id(last) >= id(s)
    <3> DEFINE S == {id(s) : s \in T}
    <3>1. S \in SUBSET Nat /\ S # {}
      <4>1. \A s \in T : id(s) \in Nat
        BY <1>6, WaitingRow
      <4>2. top \in T
        BY DEF L
      <4> QED BY <4>1, <4>2
    <3>2. IsFiniteSet(S)
      <4>1. IsFiniteSet(T)
        BY <1>1, FS_Subset
      <4> HIDE DEF T
      <4> DEFINE f == [s \in T |-> id(s)]
      <4>2. f \in Surjection(T, S)
        BY Fun_IsSurj
      <4> HIDE DEF f, S
      <4> QED BY <4>1, <4>2, FS_Surjection
    <3> HIDE DEF S
    <3>3. PICK n \in S : \A m \in S : n >= m
      BY <3>1, <3>2, GreatestNat
    <3> QED BY <3>3 DEF S
  <2>2. \A s \in T : id(s) \in Nat
    BY <1>6, WaitingRow
  <2>3. ASSUME NEW s \in T, id(s) = id(last)
        PROVE  \E t \in T \ {s} : \E h \in locks[t] :
                 /\ ~Compatible(h.mode, Waits(s).mode) /\ h.mode = "keyshare"
                 /\ Waits(t).mode = "nokey" /\ id(t) = id(last)
    <3>0. PICK t \in T \ {s} : \E h \in locks[t] :
             /\ h.row = Waits(s).row /\ ~Compatible(h.mode, Waits(s).mode)
             /\ \/ id(s) < id(t)
                \/ h.mode = "keyshare" /\ Waits(t).mode = "nokey" /\ Waits(s).row = Waits(t).row
      BY <1>4, <1>6
    <3>1. PICK h \in locks[t] :
             /\ h.row = Waits(s).row /\ ~Compatible(h.mode, Waits(s).mode)
             /\ \/ id(s) < id(t)
                \/ h.mode = "keyshare" /\ Waits(t).mode = "nokey" /\ Waits(s).row = Waits(t).row
      BY <3>0
    <3>2. ~(id(s) < id(t))
      BY <2>1, <2>2, <2>3, <3>1
    <3> QED BY <2>3, <3>1, <3>2
  <2>4. PICK t \in T : Waits(t).mode = "nokey" /\ id(t) = id(last)
    BY <2>1, <2>3
  <2>5. ~Compatible("keyshare", "nokey")
    BY <2>3, <2>4
  <2> QED BY <2>5 DEF Compatible
<1>7. CASE L \in {1, 4}
  <2>1. top \in T
    BY DEF L
  <2> QED BY <1>4, <1>7, <2>1
<1> QED BY <1>3, <1>5, <1>6, <1>7

\* Sessions that wait for each other's row locks include a plan confirmation:
\* the other requests lock LOT number, order lines, shipment lines, product and
\* inventory lots in one order, and never run into each other.
THEOREM OnlyPlansDeadlock == Spec \/ ReservedSpec => []DeadlockNeedsPlan
<1>1. OrdersInv => DeadlockNeedsPlan
  <2> SUFFICES ASSUME OrdersInv PROVE DeadlockNeedsPlan
    OBVIOUS
  <2>1. ASSUME NEW D \in (SUBSET Sessions) \ {{}}, Deadlocked(D)
        PROVE  \E s \in D : sess[s].req = "plan"
    <3>1. D \in SUBSET Sessions /\ D # {}
      BY <2>1
    <3> QED BY <2>1, <3>1, NoCycle
  <2> QED BY <2>1 DEF DeadlockNeedsPlan
<1> QED BY <1>1, OrdersInvAlways, PTL
-----------------------------------------------------------------------------
(* Requests come to their end.                                             *)

\* How many statements a request may still run: a LOT number that is taken
\* costs it two more.
StatementsLeft(x) ==
  CASE x.pc \in {"commit_plan", "commit_lot", "commit_status", "void", "resize",
                 "commit_shipment", "commit_adjust"}      -> 1
    [] x.pc \in {"remaining", "edit", "increase", "take"} -> 2
    [] x.pc = "decrease"                                  -> 3
    [] x.pc = "insert"                                    -> 2 * (MaxTries - x.tries)
    [] x.pc = "create"                                    -> 2 * (MaxTries - x.tries) + 1
    [] x.pc \in {"plan", "history"}                       -> 2 * MaxTries + 2
    [] x.pc \in {"lots", "read_stock"}                    -> 2 * MaxTries + 3
    [] x.pc \in {"confirm", "count"}                      -> 2 * MaxTries + 4
    [] x.pc \in {"allocate", "lines"}                     -> 2 * MaxTries + 5
    [] x.pc = "stock"                                     -> 2 * MaxTries + 6
    [] x.pc = "existing"                                  -> 2 * MaxTries + 7
    [] x.pc = "shipped"                                   -> 2 * MaxTries + 8
    [] x.pc = "reserved"                                  -> 2 * MaxTries + 9
    [] x.pc = "inventory"                                 -> 2 * MaxTries + 10
    [] OTHER                                              -> 0

\* The statement that follows another one within a request.
Follows ==
  {<<"inventory", "reserved">>, <<"reserved", "shipped">>, <<"reserved", "history">>,
   <<"shipped", "existing">>, <<"shipped", "history">>, <<"existing", "stock">>,
   <<"stock", "allocate">>, <<"allocate", "history">>, <<"allocate", "confirm">>,
   <<"confirm", "read_stock">>, <<"read_stock", "history">>,
   <<"read_stock", "commit_shipment">>, <<"history", "create">>, <<"history", "commit_plan">>,
   <<"lots", "plan">>, <<"lots", "commit_status">>, <<"plan", "create">>,
   <<"create", "insert">>, <<"insert", "commit_lot">>, <<"remaining", "commit_status">>,
   <<"edit", "void">>, <<"edit", "resize">>, <<"lines", "count">>, <<"count", "read_stock">>,
   <<"increase", "commit_adjust">>, <<"decrease", "take">>, <<"take", "commit_adjust">>}

\* What a step of a session does to it: it begins one of the requests that are
\* left, or it comes nearer to the end of the one it has.
MovesOn(s) ==
  \/ sess[s] = Idle /\ sess'[s] # Idle /\ left' < left
  \/ sess[s] # Idle /\ sess'[s] = Idle
  \/ sess'[s] = sess[s] /\ Len(todo'[s]) < Len(todo[s])
  \/ StatementsLeft(sess'[s]) < StatementsLeft(sess[s])

\* A LOT number is tried MaxTries times, and a shipment is of some lines.
EndInSight(x) ==
  /\ x.tries < MaxTries
  /\ x.req = "ship" => x.ids # {}

RequestsEnd == \A s \in Sessions : EndInSight(sess[s])

LEMMA StatementsCounted ==
  ASSUME NEW x \in Working, EndInSight(x)
  PROVE  StatementsLeft(x) \in 0..(2 * MaxTries + 10)
<1>1. x.tries \in 0..2
  BY DEF Working, EndInSight, MaxTries
<1> QED BY <1>1 DEF StatementsLeft, MaxTries

LEMMA FewerLeft ==
  ASSUME NEW x \in Working, NEW y, EndInSight(x), <<x.pc, y.pc>> \in Follows, y.tries = x.tries
  PROVE  StatementsLeft(y) < StatementsLeft(x) /\ x.pc # "idle" /\ y.pc # "idle"
<1>1. x.tries \in 0..2
  BY DEF Working, EndInSight, MaxTries
<1> QED BY <1>1 DEF Follows, StatementsLeft, MaxTries

\* A statement ends the request or is followed by another one of it.
GoesOn(s) ==
  \/ sess'[s] = Idle
  \/ /\ sess'[s].tries = sess[s].tries
     /\ sess'[s].req = sess[s].req
     /\ sess'[s].req = "ship" => sess'[s].ids = sess[s].ids
     /\ <<sess[s].pc, sess'[s].pc>> \in Follows

LEMMA ContinueGoesOn ==
  ASSUME OrdersInv, NEW s \in Sessions, NEW new, NEW want, Continue(s, new, want),
         new.tries = sess[s].tries, new.req = sess[s].req,
         new.req = "ship" => new.ids = sess[s].ids, <<sess[s].pc, new.pc>> \in Follows
  PROVE  GoesOn(s)
<1>1. sess'[s] = new
  BY DEF OrdersInv, SessionsOK, Continue
<1> QED BY <1>1 DEF GoesOn

LEMMA EndGoesOn ==
  ASSUME OrdersInv, NEW s \in Sessions, End(s)
  PROVE  GoesOn(s)
BY DEF OrdersInv, SessionsOK, End, GoesOn

LEMMA RefuseGoesOn ==
  ASSUME OrdersInv, NEW s \in Sessions, Refuse(s)
  PROVE  GoesOn(s)
BY EndGoesOn DEF Refuse

\* Each statement but a second try of a LOT number.
LEMMA StatementGoesOn ==
  ASSUME OrdersInv, NEW s \in Sessions, Statement(s), ~InsertLot(s)
  PROVE  GoesOn(s)
<1>1. sess[s] \in Working /\ sess[s].pc \in Path(sess[s].req)
  BY DEF OrdersInv, SessionsOK, SessionOK, SessionTyped
<1>2. \A new, want : /\ Continue(s, new, want)
                     /\ new.tries = sess[s].tries /\ new.req = sess[s].req
                     /\ new.req = "ship" => new.ids = sess[s].ids
                     /\ <<sess[s].pc, new.pc>> \in Follows
                     => GoesOn(s)
  BY ContinueGoesOn
<1> DEFINE x == sess[s]
<1>3. CASE ReadInventory(s)
  BY <1>1, <1>2, <1>3, RefuseGoesOn DEF ReadInventory, At, Follows, Working
<1>4. CASE ReadReserved(s)
  BY <1>1, <1>2, <1>4, RefuseGoesOn DEF ReadReserved, At, Follows, Working
<1>5. CASE ReadShipped(s)
  BY <1>1, <1>2, <1>5, RefuseGoesOn DEF ReadShipped, At, Follows, Working
<1>6. CASE CheckExistingLines(s)
  BY <1>1, <1>2, <1>6, RefuseGoesOn DEF CheckExistingLines, At, Follows, Working
<1>7. CASE LockLots(s)
  <2> DEFINE new == [x EXCEPT !.pc = "allocate", !.queue = ByAge({l \in StockLots : lotQty[l] > 0})]
  <2>1. (\E want : Continue(s, new, want))
    BY <1>7, Zenon DEF LockLots
  <2>2. x.pc = "stock"
    BY <1>7 DEF LockLots, At
  <2> QED BY <1>1, <1>2, <2>1, <2>2, RefuseGoesOn DEF Follows, Working
<1>8. CASE Allocate(s)
  <2>1. PICK take, want, pc :
          /\ pc \in {"history", "confirm"}
          /\ Continue(s, [x EXCEPT !.take = take, !.pc = pc], want) \/ Refuse(s)
    <3> DEFINE take == FifoTake(x.queue, [l \in StockLots |-> AtLeastZero(lotQty[l] - WaitingOn(l))],
                                x.plan.stock)
               pc == IF x.type = "PARTIAL_STOCK_PLUS_PRODUCTION" THEN "history" ELSE "confirm"
               want == Need(<<Order(x.order)>>, "keyshare")
    <3>1. Continue(s, [x EXCEPT !.take = take, !.pc = pc], want) \/ Refuse(s)
      BY <1>8, Zenon DEF Allocate
    <3>2. pc \in {"history", "confirm"}
      OBVIOUS
    <3> HIDE DEF take, pc, want
    <3> QED BY <3>1, <3>2
  <2>2. x.pc = "allocate"
    BY <1>8 DEF Allocate, At
  <2> QED BY <1>1, <1>2, <2>1, <2>2, RefuseGoesOn DEF Follows, Working
<1>9. CASE ConfirmOwnLines(s)
  BY <1>1, <1>2, <1>9, RefuseGoesOn DEF ConfirmOwnLines, At, Follows, Working
<1>10. CASE WriteHistory(s)
  <2>1. PICK pc, want : pc \in {"create", "commit_plan"} /\ Continue(s, [x EXCEPT !.pc = pc], want)
    <3> DEFINE pc == IF x.type = "STOCK_REPLENISHMENT" THEN "create" ELSE "commit_plan"
               want == Need(<<Order(x.order)>>, "nokey")
    <3>1. Continue(s, [x EXCEPT !.pc = pc], want)
      BY <1>10, Zenon DEF WriteHistory
    <3>2. pc \in {"create", "commit_plan"}
      OBVIOUS
    <3> HIDE DEF pc, want
    <3> QED BY <3>1, <3>2
  <2>2. x.pc = "history"
    BY <1>10 DEF WriteHistory, At
  <2> QED BY <1>1, <1>2, <2>1, <2>2 DEF Follows, Working
<1>11. CASE CheckNoLot(s)
  <2>1. \/ \E want : Continue(s, [x EXCEPT !.pc = "plan"], want)
        \/ \E want : Continue(s, [x EXCEPT !.pc = "commit_status"], want)
        \/ Refuse(s)
    BY <1>11, Zenon DEF CheckNoLot
  <2>2. x.pc = "lots"
    BY <1>11 DEF CheckNoLot, At
  <2> QED BY <1>1, <1>2, <2>1, <2>2, RefuseGoesOn DEF Follows, Working
<1>12. CASE ReadPlan(s)
  BY <1>1, <1>2, <1>12, RefuseGoesOn DEF ReadPlan, At, Follows, Working
<1>13. CASE NumberLot(s)
  <2> DEFINE new == [x EXCEPT !.pc = "insert", !.number = Len(lots) + 1]
  <2>1. (\E want : Continue(s, new, want)) \/ Refuse(s)
    BY <1>13, Zenon DEF NumberLot
  <2>2. x.pc = "create"
    BY <1>13 DEF NumberLot, At
  <2> QED BY <1>1, <1>2, <2>1, <2>2, RefuseGoesOn DEF Follows, Working
<1>14. CASE ReadRemaining(s)
  <2> DEFINE new == [x EXCEPT !.pc = "commit_status"]
  <2>1. (\E want : Continue(s, new, want)) \/ Refuse(s)
    BY <1>14, Zenon DEF ReadRemaining
  <2>2. x.pc = "remaining"
    BY <1>14 DEF ReadRemaining, At
  <2> QED BY <1>1, <1>2, <2>1, <2>2, RefuseGoesOn DEF Follows, Working
<1>15. CASE EditOrder(s)
  <2> DEFINE statuses == IF LotsOf(x.order) # {} THEN {"WAITING", "DONE"} ELSE {"WAITING"}
             pc == IF LotsOf(x.order) # {} THEN "resize" ELSE "void"
             new == [x EXCEPT !.pc = pc, !.row = orders[x.order], !.ids = LinesOf(x.order, statuses)]
  <2>1. (\E want : Continue(s, new, want)) \/ Refuse(s)
    BY <1>15, Zenon DEF EditOrder
  <2>2. x.pc = "edit" /\ x.req = "change"
    BY <1>15, <1>1, RequestAt DEF EditOrder, At
  <2>3. pc \in {"resize", "void"}
    OBVIOUS
  <2> HIDE DEF statuses, pc
  <2> QED BY <1>1, <1>2, <2>1, <2>2, <2>3, RefuseGoesOn DEF Follows, Working
<1>16. CASE LockLines(s)
  BY <1>1, <1>2, <1>16, RefuseGoesOn DEF LockLines, At, Follows, Working
<1>17. CASE CountLines(s)
  <2> DEFINE new == [x EXCEPT !.pc = "read_stock", !.take = TakenBy(x.ids)]
  <2>1. (\E want : Continue(s, new, want)) \/ Refuse(s)
    BY <1>17, Zenon DEF CountLines
  <2>2. x.pc = "count"
    BY <1>17 DEF CountLines, At
  <2> QED BY <1>1, <1>2, <2>1, <2>2, RefuseGoesOn DEF Follows, Working
<1>18. CASE ReadStock(s)
  BY <1>1, <1>2, <1>18, RefuseGoesOn DEF ReadStock, At, Follows, Working
<1>19. CASE ReadIncrease(s)
  BY <1>1, <1>2, <1>19, RefuseGoesOn DEF ReadIncrease, At, Follows, Working
<1>20. CASE LockDecrease(s)
  <2> DEFINE new == [x EXCEPT !.pc = "take", !.queue = ByAge({l \in StockLots : lotQty[l] > 0}), !.seen = inventory]
  <2>1. (\E want : Continue(s, new, want)) \/ Refuse(s)
    BY <1>20, Zenon DEF LockDecrease
  <2>2. x.pc = "decrease"
    BY <1>20 DEF LockDecrease, At
  <2> QED BY <1>1, <1>2, <2>1, <2>2, RefuseGoesOn DEF Follows, Working
<1>21. CASE TakeDecrease(s)
  BY <1>1, <1>2, <1>21, RefuseGoesOn DEF TakeDecrease, At, Follows, Working
<1>22. CASE CommitPlan(s)
  BY <1>22, EndGoesOn, RefuseGoesOn, Zenon DEF CommitPlan
<1>23. CASE CommitLot(s)
  BY <1>23, EndGoesOn, RefuseGoesOn, Zenon DEF CommitLot
<1>24. CASE CommitStatus(s)
  BY <1>24, EndGoesOn, RefuseGoesOn, Zenon DEF CommitStatus
<1>25. CASE CommitVoid(s)
  BY <1>25, EndGoesOn, RefuseGoesOn, Zenon DEF CommitVoid
<1>26. CASE CommitResize(s)
  BY <1>26, EndGoesOn, RefuseGoesOn, Zenon DEF CommitResize
<1>27. CASE CommitShipment(s)
  BY <1>27, EndGoesOn, RefuseGoesOn, Zenon DEF CommitShipment
<1>28. CASE CommitAdjust(s)
  BY <1>28, EndGoesOn, RefuseGoesOn, Zenon DEF CommitAdjust
<1> QED BY <1>3, <1>4, <1>5, <1>6, <1>7, <1>8, <1>9, <1>10, <1>11, <1>12, <1>13, <1>14, <1>15, <1>16, <1>17, <1>18, <1>19, <1>20, <1>21, <1>22, <1>23, <1>24, <1>25, <1>26, <1>27, <1>28, Zenon DEF Statement

\* A session that begins has all the statements of its request before it.
LEMMA RequestBegins ==
  ASSUME OrdersInv, NEW s \in Sessions, BeginRequest(s)
  PROVE  /\ sess[s] = Idle /\ left' = left - 1
         /\ \A t \in Sessions \ {s} : sess'[t] = sess[t] /\ todo'[t] = todo[t]
         /\ sess'[s].pc # "idle" /\ EndInSight(sess'[s])
<1>1. ASSUME NEW kind, NEW new, NEW want, Begin(s, kind, new, want),
             new.pc # "idle", new.tries = 0, new.req = "ship" => new.ids # {}
      PROVE  /\ sess[s] = Idle /\ left' = left - 1
             /\ \A t \in Sessions \ {s} : sess'[t] = sess[t] /\ todo'[t] = todo[t]
             /\ sess'[s].pc # "idle" /\ EndInSight(sess'[s])
  <2>1. sess' = [sess EXCEPT ![s] = new] /\ todo' = [todo EXCEPT ![s] = want]
    BY <1>1 DEF Begin
  <2>2. sess'[s] = new /\ \A t \in Sessions \ {s} : sess'[t] = sess[t] /\ todo'[t] = todo[t]
    BY <2>1 DEF OrdersInv, SessionsOK
  <2> QED BY <1>1, <2>2 DEF Begin, EndInSight, MaxTries
<1>2. CASE BeginPlan(s)
  <2>1. PICK o \in OrderLines, type \in PlanTypes :
          Begin(s, "plan", [Idle EXCEPT !.pc = "inventory", !.req = "plan", !.order = o,
                                        !.type = type, !.row = orders[o]], <<>>)
    BY <1>2, Zenon DEF BeginPlan
  <2> DEFINE new == [Idle EXCEPT !.pc = "inventory", !.req = "plan", !.order = o,
                                        !.type = type, !.row = orders[o]]
  <2>2. new.pc # "idle" /\ new.tries = 0 /\ (new.req = "ship" => new.ids # {})
    BY <2>1 DEF Idle
  <2> HIDE DEF new
  <2> QED BY <1>1, <2>1, <2>2 DEF new
<1>3. CASE BeginBaseLot(s)
  <2>1. PICK o \in OrderLines :
          Begin(s, "base_lot", [Idle EXCEPT !.pc = "lots", !.req = "base_lot", !.order = o, !.row = orders[o]], <<>>)
    BY <1>3, Zenon DEF BeginBaseLot
  <2> DEFINE new == [Idle EXCEPT !.pc = "lots", !.req = "base_lot", !.order = o, !.row = orders[o]]
  <2>2. new.pc # "idle" /\ new.tries = 0 /\ (new.req = "ship" => new.ids # {})
    BY <2>1 DEF Idle
  <2> HIDE DEF new
  <2> QED BY <1>1, <2>1, <2>2 DEF new
<1>4. CASE BeginCancel(s)
  <2>1. PICK o \in OrderLines :
          Begin(s, "cancel", [Idle EXCEPT !.pc = "lots", !.req = "cancel", !.order = o, !.row = orders[o]], <<>>)
    BY <1>4, Zenon DEF BeginCancel
  <2> DEFINE new == [Idle EXCEPT !.pc = "lots", !.req = "cancel", !.order = o, !.row = orders[o]]
  <2>2. new.pc # "idle" /\ new.tries = 0 /\ (new.req = "ship" => new.ids # {})
    BY <2>1 DEF Idle
  <2> HIDE DEF new
  <2> QED BY <1>1, <2>1, <2>2 DEF new
<1>5. CASE BeginShortClose(s)
  <2>1. PICK o \in OrderLines :
          Begin(s, "short_close", [Idle EXCEPT !.pc = "remaining", !.req = "short_close", !.order = o,
                                        !.row = orders[o]], <<>>)
    BY <1>5, Zenon DEF BeginShortClose
  <2> DEFINE new == [Idle EXCEPT !.pc = "remaining", !.req = "short_close", !.order = o,
                                        !.row = orders[o]]
  <2>2. new.pc # "idle" /\ new.tries = 0 /\ (new.req = "ship" => new.ids # {})
    BY <2>1 DEF Idle
  <2> HIDE DEF new
  <2> QED BY <1>1, <2>1, <2>2 DEF new
<1>6. CASE BeginChange(s)
  <2>1. PICK o \in OrderLines, q \in OrderQtys :
          Begin(s, "change", [Idle EXCEPT !.pc = "edit", !.req = "change", !.order = o, !.qty = q], ForUpdate(<<Order(o)>>))
    BY <1>6, Zenon DEF BeginChange
  <2> DEFINE new == [Idle EXCEPT !.pc = "edit", !.req = "change", !.order = o, !.qty = q]
  <2>2. new.pc # "idle" /\ new.tries = 0 /\ (new.req = "ship" => new.ids # {})
    BY <2>1 DEF Idle
  <2> HIDE DEF new
  <2> QED BY <1>1, <2>1, <2>2 DEF new
<1>7. CASE BeginShipment(s)
  <2>1. PICK ids, want : ids # {} /\ Begin(s, "ship", [Idle EXCEPT !.pc = "lines", !.req = "ship", !.ids = ids], want)
    BY <1>7, Zenon DEF BeginShipment
  <2> DEFINE new == [Idle EXCEPT !.pc = "lines", !.req = "ship", !.ids = ids]
  <2>2. new.pc # "idle" /\ new.tries = 0 /\ (new.req = "ship" => new.ids # {})
    BY <2>1 DEF Idle
  <2> HIDE DEF new
  <2> QED BY <1>1, <2>1, <2>2 DEF new
<1>8. CASE BeginIncrease(s)
  <2>1. PICK n \in AdjustQtys, l \in StockLots :
          Begin(s, "increase", [Idle EXCEPT !.pc = "increase", !.req = "increase",
                                            !.take = [Nothing EXCEPT ![l] = -n]], ForUpdate(<<Inventory, Stock(l)>>))
    BY <1>8, Zenon DEF BeginIncrease
  <2> DEFINE new == [Idle EXCEPT !.pc = "increase", !.req = "increase",
                                            !.take = [Nothing EXCEPT ![l] = -n]]
  <2>2. new.pc # "idle" /\ new.tries = 0 /\ (new.req = "ship" => new.ids # {})
    BY <2>1 DEF Idle
  <2> HIDE DEF new
  <2> QED BY <1>1, <2>1, <2>2 DEF new
<1>9. CASE BeginDecrease(s)
  <2>1. PICK n \in AdjustQtys :
          Begin(s, "decrease", [Idle EXCEPT !.pc = "decrease", !.req = "decrease", !.qty = n], ForUpdate(<<Inventory>>))
    BY <1>9, Zenon DEF BeginDecrease
  <2> DEFINE new == [Idle EXCEPT !.pc = "decrease", !.req = "decrease", !.qty = n]
  <2>2. new.pc # "idle" /\ new.tries = 0 /\ (new.req = "ship" => new.ids # {})
    BY <2>1 DEF Idle
  <2> HIDE DEF new
  <2> QED BY <1>1, <2>1, <2>2 DEF new
<1> QED BY <1>2, <1>3, <1>4, <1>5, <1>6, <1>7, <1>8, <1>9, Zenon DEF BeginRequest

\* The step of a session leaves the others where they are.
LEMMA OthersWait ==
  ASSUME OrdersInv, NEW s \in Sessions, Work(s)
  PROVE  left' = left /\ \A t \in Sessions \ {s} : sess'[t] = sess[t] /\ todo'[t] = todo[t]
<1> DEFINE Others == left' = left /\ \A t \in Sessions \ {s} : sess'[t] = sess[t] /\ todo'[t] = todo[t]
<1> SUFFICES Others
  OBVIOUS
<1>1. \A new, want : Continue(s, new, want) => Others
  BY DEF OrdersInv, SessionsOK, Continue
<1>2. End(s) => Others
  BY DEF OrdersInv, SessionsOK, End
<1>3. Refuse(s) => Others
  BY <1>2 DEF Refuse
<1>4. CASE Statement(s) /\ ~InsertLot(s)
  <2> HIDE DEF Others
  <2> QED BY <1>1, <1>2, <1>3, <1>4, Zenon
    DEF Statement, ReadInventory, ReadReserved, ReadShipped, CheckExistingLines, LockLots, Allocate,
        ConfirmOwnLines, WriteHistory, CommitPlan, CheckNoLot, ReadPlan, NumberLot, CommitLot,
        ReadRemaining, CommitStatus, EditOrder, CommitVoid, CommitResize, LockLines, CountLines,
        ReadStock, CommitShipment, ReadIncrease, LockDecrease, TakeDecrease, CommitAdjust
<1>5. CASE InsertLot(s)
  <2>1. CASE \E new, want : Continue(s, new, want)
    BY <1>1, <2>1
  <2>2. CASE Refuse(s)
    BY <1>3, <2>2
  <2>3. CASE /\ sess' = [sess EXCEPT ![s].pc = "create", ![s].tries = @ + 1]
             /\ UNCHANGED <<todo, left>>
    BY <2>3 DEF OrdersInv, SessionsOK
  <2> QED BY <1>5, <2>1, <2>2, <2>3, Zenon DEF InsertLot
<1>6. CASE LockNext(s)
  BY <1>6 DEF OrdersInv, SessionsOK, LockNext
<1>7. CASE LockTimeout(s)
  BY <1>3, <1>7 DEF LockTimeout
<1> QED BY <1>4, <1>5, <1>6, <1>7 DEF Work

LEMMA WorkMovesOn ==
  ASSUME OrdersInv, RequestsEnd, NEW s \in Sessions, Work(s)
  PROVE  MovesOn(s) /\ EndInSight(sess'[s])
<1> DEFINE x == sess[s]
<1>0. /\ x \in Working /\ x.pc \in Path(x.req) /\ EndInSight(x)
      /\ x.req = "none" => x = Idle /\ todo[s] = <<>>
      /\ todo[s] \in Seq(LockRows)
  BY DEF OrdersInv, SessionsOK, SessionOK, SessionTyped, RequestsEnd
<1>1. EndInSight(Idle) /\ Idle.pc = "idle"
  BY DEF EndInSight, Idle, MaxTries
<1>2. ASSUME GoesOn(s), x # Idle PROVE MovesOn(s) /\ EndInSight(sess'[s])
  <2>1. CASE sess'[s] = Idle
    BY <1>1, <1>2, <2>1 DEF MovesOn
  <2>2. CASE sess'[s] # Idle
    <3>1. /\ sess'[s].tries = x.tries /\ sess'[s].req = x.req
          /\ sess'[s].req = "ship" => sess'[s].ids = x.ids
          /\ <<x.pc, sess'[s].pc>> \in Follows
      BY <1>2, <2>2 DEF GoesOn
    <3> QED BY <1>0, <3>1, FewerLeft DEF MovesOn, EndInSight
  <2> QED BY <2>1, <2>2
<1>3. CASE Statement(s) /\ ~InsertLot(s)
  <2>1. GoesOn(s)
    BY <1>3, StatementGoesOn
  <2>2. x # Idle
    <3>1. \E pc : pc # "idle" /\ At(s, pc)
      BY <1>3, Zenon
      DEF Statement, ReadInventory, ReadReserved, ReadShipped, CheckExistingLines, LockLots, Allocate,
          ConfirmOwnLines, WriteHistory, CommitPlan, CheckNoLot, ReadPlan, NumberLot, CommitLot,
          ReadRemaining, CommitStatus, EditOrder, CommitVoid, CommitResize, LockLines, CountLines,
          ReadStock, CommitShipment, ReadIncrease, LockDecrease, TakeDecrease, CommitAdjust
    <3> QED BY <1>1, <3>1 DEF At
  <2> QED BY <1>2, <2>1, <2>2
<1>4. CASE InsertLot(s)
  <2>1. x.pc = "insert" /\ x # Idle /\ x.req \in {"plan", "base_lot"} /\ x.tries \in 0..2
    <3>1. x.pc = "insert" /\ x.tries \in 0..2
      BY <1>0, <1>4 DEF InsertLot, At, EndInSight, MaxTries, Working
    <3> QED BY <1>0, <1>1, <3>1, RequestAt
  <2>2. CASE \E want : Continue(s, [x EXCEPT !.pc = "commit_lot"], want)
    <3> DEFINE new == [x EXCEPT !.pc = "commit_lot"]
    <3>1. new.tries = x.tries /\ new.req = x.req /\ new.ids = x.ids /\ new.pc = "commit_lot"
      BY <1>0 DEF Working
    <3>2. <<x.pc, new.pc>> \in Follows
      BY <2>1, <3>1 DEF Follows
    <3> HIDE DEF new
    <3>3. GoesOn(s)
      BY <2>2, <3>1, <3>2, ContinueGoesOn DEF new
    <3> QED BY <1>2, <2>1, <3>3
  <2>3. CASE Refuse(s)
    BY <1>2, <2>1, <2>3, RefuseGoesOn
  <2>4. CASE /\ x.tries + 1 < MaxTries
             /\ sess' = [sess EXCEPT ![s].pc = "create", ![s].tries = @ + 1]
    <3>1. sess'[s] = [x EXCEPT !.pc = "create", !.tries = @ + 1]
      BY <2>4 DEF OrdersInv, SessionsOK
    <3>2. sess'[s].pc = "create" /\ sess'[s].tries = x.tries + 1 /\ sess'[s].req = x.req
      BY <1>0, <3>1 DEF Working
    <3>3. StatementsLeft(sess'[s]) = 2 * (MaxTries - (x.tries + 1)) + 1
      BY <3>2 DEF StatementsLeft
    <3>4. StatementsLeft(x) = 2 * (MaxTries - x.tries)
      BY <2>1 DEF StatementsLeft
    <3> QED BY <2>1, <2>4, <3>2, <3>3, <3>4 DEF MovesOn, EndInSight, MaxTries
  <2> QED BY <1>4, <2>2, <2>3, <2>4, Zenon DEF InsertLot
<1>5. CASE LockNext(s)
  <2>1. sess'[s] = x /\ todo'[s] = Tail(todo[s]) /\ todo[s] # <<>>
    BY <1>5 DEF OrdersInv, SessionsOK, LockNext
  <2>2. Len(todo'[s]) < Len(todo[s])
    BY <1>0, <2>1
  <2> QED BY <1>0, <2>1, <2>2 DEF MovesOn
<1>6. CASE LockTimeout(s)
  <2>1. x # Idle
    BY <1>0, <1>6 DEF LockTimeout, Idle
  <2>2. GoesOn(s)
    BY <1>6, RefuseGoesOn DEF LockTimeout
  <2> QED BY <1>2, <2>1, <2>2
<1> QED BY <1>3, <1>4, <1>5, <1>6 DEF Work

\* A step that changes anything moves one session on, and no other.
OneMovesOn ==
  /\ left' <= left
  /\ \E s \in Sessions :
       /\ MovesOn(s)
       /\ \A t \in Sessions \ {s} : sess'[t] = sess[t] /\ todo'[t] = todo[t]

LEMMA StepMovesOn ==
  ASSUME OrdersInv, RequestsEnd, [Next]_vars
  PROVE  RequestsEnd' /\ (OneMovesOn \/ UNCHANGED vars)
<1>1. CASE UNCHANGED vars
  BY <1>1 DEF vars, RequestsEnd
<1>2. ASSUME NEW s \in Sessions, BeginRequest(s) \/ Work(s)
      PROVE  RequestsEnd' /\ OneMovesOn
  <2>1. /\ left' <= left
        /\ \A t \in Sessions \ {s} : sess'[t] = sess[t] /\ todo'[t] = todo[t]
    <3>1. left \in Int
      BY DEF OrdersInv
    <3>2. CASE BeginRequest(s)
      BY <3>1, <3>2, RequestBegins
    <3>3. CASE Work(s)
      BY <3>1, <3>3, OthersWait
    <3> QED BY <1>2, <3>2, <3>3
  <2>2. MovesOn(s) /\ EndInSight(sess'[s])
    <3>1. CASE BeginRequest(s)
      <4>1. left \in Int /\ Idle.pc = "idle"
        BY DEF OrdersInv, Idle
      <4>2. sess[s] = Idle /\ left' = left - 1 /\ sess'[s].pc # "idle" /\ EndInSight(sess'[s])
        BY <3>1, RequestBegins
      <4> QED BY <4>1, <4>2 DEF MovesOn
    <3>2. CASE Work(s)
      BY <3>2, WorkMovesOn
    <3> QED BY <1>2, <3>1, <3>2
  <2>3. RequestsEnd'
    BY <2>1, <2>2 DEF RequestsEnd
  <2> QED BY <2>1, <2>2, <2>3 DEF OneMovesOn
<1> QED BY <1>1, <1>2, Zenon DEF Next

LEMMA RequestsEndAlways ==
  (Spec => [](OrdersInv /\ RequestsEnd)) /\ (ReservedSpec => [](OrdersInv /\ RequestsEnd))
<1>1. Init \/ ReservedInit => RequestsEnd
  <2>1. EndInSight(Idle)
    BY DEF EndInSight, Idle, MaxTries
  <2>2. Init \/ ReservedInit => \A s \in Sessions : sess[s] = Idle
    BY DEF Init, ReservedInit
  <2> QED BY <2>1, <2>2 DEF RequestsEnd
<1>2. OrdersInv /\ RequestsEnd /\ [Next]_vars => RequestsEnd'
  BY StepMovesOn
<1> QED BY <1>1, <1>2, OrdersInvAlways, PTL DEF Spec, ReservedSpec

\* The session can run its next statement.  The commit of a shipment looks at
\* one of its order lines first; the other statements ask nothing of the rows.
Runs(s) ==
  /\ sess[s] # Idle
  /\ todo[s] = <<>>
  /\ sess[s].pc = "commit_shipment" => sess[s].ids # {}

\* The lock that it waits for is free.
GetsLock(s) == todo[s] # <<>> /\ Granted(s, Head(todo[s]))

\* Sessions at work that wait for nobody else.
OnTheirOwn(D) ==
  \A s \in D :
    /\ sess[s] # Idle
    /\ todo[s] # <<>> => \A t \in Sessions \ {s} : \A held \in locks[t] :
         held.row = Head(todo[s]).row /\ ~Compatible(held.mode, Head(todo[s]).mode) => t \in D

\* Where requests wait, one of them can go on, or a plan confirmation is among
\* sessions that are in a deadlock.
NoStandstill ==
  \A D \in (SUBSET Sessions) \ {{}} :
    OnTheirOwn(D) => \/ \E s \in D : Runs(s) \/ GetsLock(s)
                     \/ Deadlocked(D) /\ \E s \in D : sess[s].req = "plan"

LEMMA SomeoneGoesOn ==
  ASSUME OrdersInv, RequestsEnd
  PROVE  NoStandstill
<1> SUFFICES ASSUME NEW D \in (SUBSET Sessions) \ {{}}, OnTheirOwn(D),
                    \A s \in D : ~Runs(s) /\ ~GetsLock(s)
             PROVE  Deadlocked(D) /\ \E s \in D : sess[s].req = "plan"
  BY DEF NoStandstill
<1>1. ASSUME NEW s \in D PROVE todo[s] # <<>>
  <2>1. /\ sess[s] \in Working /\ sess[s].pc \in Path(sess[s].req) /\ EndInSight(sess[s])
    BY DEF OrdersInv, SessionsOK, SessionOK, SessionTyped, RequestsEnd
  <2>2. sess[s].pc = "commit_shipment" => sess[s].ids # {}
    BY <2>1, RequestAt DEF EndInSight
  <2> QED BY <2>2 DEF Runs, OnTheirOwn
<1>2. ASSUME NEW s \in D
      PROVE  \E t \in D \ {s} : \E held \in locks[t] :
               held.row = Head(todo[s]).row /\ ~Compatible(held.mode, Head(todo[s]).mode)
  <2>1. ~Granted(s, Head(todo[s]))
    BY <1>1 DEF GetsLock
  <2>2. PICK t \in Sessions \ {s} : \E held \in locks[t] :
          held.row = Head(todo[s]).row /\ ~Compatible(held.mode, Head(todo[s]).mode)
    BY <2>1 DEF Granted
  <2> QED BY <1>1, <2>2 DEF OnTheirOwn
<1>3. Deadlocked(D)
  BY <1>1, <1>2 DEF Deadlocked
<1>4. D \in SUBSET Sessions /\ D # {}
  OBVIOUS
<1> QED BY <1>3, <1>4, NoCycle

\* A request is over after at most 2 * MaxTries + 10 statements, each of which
\* waits for finitely many locks, and no step sends it back: every step begins
\* one of the requests that are left, runs a statement, gets a lock, or ends a
\* request.  (With SomeoneLeadsOn this is what WaitsEnd needs besides fairness.)
THEOREM EveryStepLeadsOn ==
  Spec \/ ReservedSpec =>
    /\ [](\A s \in Sessions : StatementsLeft(sess[s]) \in 0..(2 * MaxTries + 10))
    /\ [][OneMovesOn]_vars
<1>1. OrdersInv /\ RequestsEnd
        => \A s \in Sessions : StatementsLeft(sess[s]) \in 0..(2 * MaxTries + 10)
  BY StatementsCounted DEF OrdersInv, SessionsOK, RequestsEnd
<1>2. OrdersInv /\ RequestsEnd /\ [Next]_vars => [OneMovesOn]_vars
  BY StepMovesOn
<1> QED BY <1>1, <1>2, RequestsEndAlways, PTL DEF Spec, ReservedSpec

\* Requests do not wait for each other forever: of any sessions that wait for
\* nobody else one can run its next statement or get the lock it waits for,
\* unless they are all in a deadlock, and then one confirms a plan.
THEOREM SomeoneLeadsOn == Spec \/ ReservedSpec => []NoStandstill
<1>1. OrdersInv /\ RequestsEnd => NoStandstill
  BY SomeoneGoesOn
<1> QED BY <1>1, RequestsEndAlways, PTL
=============================================================================
