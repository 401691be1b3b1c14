----------------------------- MODULE SumLemmas -----------------------------
EXTENDS Integers, FiniteSets, Functions, FiniteSetTheorems, WellFoundedInduction, TLAPS

\* Nat is ordered by a well-founded relation: a set of naturals has a least one.
LEMMA LeastNat ==
  ASSUME NEW T \in SUBSET Nat, T # {}
  PROVE  \E n \in T : \A m \in T : n <= m
<1> DEFINE less == OpToRel(<, Nat)
<1>1. IsWellFoundedOn(less, Nat)
  BY NatLessThanWellFounded
<1>2. \E n \in T : \A m \in T : <<m, n>> \notin less
  BY <1>1, WFMin
<1>3. \A m, n \in Nat : <<m, n>> \notin less => n <= m
  BY DEF OpToRel
<1> QED BY <1>2, <1>3

\* Induction: a set with zero, and with the successor of each member, is Nat.
LEMMA NatSet ==
  ASSUME NEW P \in SUBSET Nat, 0 \in P, \A n \in P : n + 1 \in P
  PROVE  P = Nat
<1>1. SUFFICES ASSUME Nat \ P # {} PROVE FALSE
  OBVIOUS
<1>2. PICK n \in Nat \ P : \A m \in Nat \ P : n <= m
  BY <1>1, LeastNat
<1>3. n # 0 /\ n - 1 \in Nat
  OBVIOUS
<1>4. n - 1 \in P
  BY <1>2, <1>3
<1> QED BY <1>3, <1>4, n - 1 + 1 = n

Pick(s) == CHOOSE x \in s : TRUE

\* A sum takes the terms of its set one by one, in the order CHOOSE picks them.
LEMMA SumUnfold ==
  ASSUME NEW f, NEW S, IsFiniteSet(S)
  PROVE  \E iter : /\ iter = [s \in SUBSET S |-> IF s = {} THEN 0
                                   ELSE f[Pick(s)] + iter[s \ {Pick(s)}]]
                   /\ SumFunctionOnSet(f, S) = iter[S]
<1> DEFINE Small(n) == {s \in SUBSET S : Cardinality(s) <= n}
           Sums(n, g) == g = [s \in Small(n) |-> IF s = {} THEN 0
                                   ELSE f[Pick(s)] + g[s \ {Pick(s)}]]
           P == {n \in Nat : \E g : Sums(n, g)}
<1>1. \A s \in SUBSET S : /\ IsFiniteSet(s) /\ Cardinality(s) \in Nat
                          /\ Cardinality(s) <= Cardinality(S)
                          /\ s # {} => Cardinality(s) > 0 
                          /\ s # {} => Cardinality(s \ {Pick(s)}) = Cardinality(s) - 1
                          /\ s # {} => Pick(s) \in s
  <2> TAKE s \in SUBSET S
  <2>1. IsFiniteSet(s) /\ Cardinality(s) \in Nat /\ Cardinality(s) <= Cardinality(S)
    BY FS_Subset, FS_CardinalityType
  <2>2. s # {} => Pick(s) \in s
    BY DEF Pick
  <2>3. s # {} => Cardinality(s) # 0
    BY <2>1, FS_EmptySet
  <2>4. s # {} => Cardinality(s \ {Pick(s)}) = Cardinality(s) - 1
    BY <2>1, <2>2, FS_RemoveElement
  <2> QED BY <2>1, <2>2, <2>3, <2>4
<1>2. 0 \in P
  <2>1. \A s \in Small(0) : s = {}
    <3> TAKE s \in Small(0)
    <3>1. s \in SUBSET S /\ Cardinality(s) <= 0
      OBVIOUS
    <3>2. s # {} => Cardinality(s) > 0
      BY <1>1, <3>1
    <3>3. Cardinality(s) \in Nat
      BY <1>1, <3>1
    <3> QED BY <3>1, <3>2, <3>3
  <2>2. Sums(0, [s \in Small(0) |-> 0])
    BY <2>1
  <2> QED BY <2>2
<1>3. ASSUME NEW n \in P PROVE n + 1 \in P
  <2>1. PICK g : Sums(n, g)
    OBVIOUS
  <2> DEFINE h == [s \in Small(n + 1) |-> IF s = {} THEN 0
                                   ELSE f[Pick(s)] + g[s \ {Pick(s)}]]
  <2>2. ASSUME NEW s \in Small(n+1), s # {} PROVE s \ {Pick(s)} \in Small(n)
    BY <1>1, <2>2
  <2>3. ASSUME NEW s \in Small(n) PROVE h[s] = g[s]
    <3>1. s \in Small(n + 1)
      <4>1. s \in SUBSET S /\ Cardinality(s) <= n
        BY <2>3
      <4>2. Cardinality(s) \in Nat /\ n \in Nat
        BY <1>1, <4>1
      <4> QED BY <4>1, <4>2
    <3>2. g[s] = IF s = {} THEN 0 ELSE f[Pick(s)] + g[s \ {Pick(s)}]
      BY <2>1
    <3> QED BY <3>1, <3>2
  <2>4. Sums(n + 1, h)
    BY <2>2, <2>3
  <2>5. n + 1 \in Nat
    OBVIOUS
  <2>6. \E x : Sums(n + 1, x)
    BY <2>4
  <2> HIDE DEF Sums
  <2> QED BY <2>5, <2>6
<1>4. P = Nat
  <2> HIDE DEF P
  <2> QED BY <1>2, <1>3, NatSet DEF P
<1>5. Small(Cardinality(S)) = SUBSET S
  BY <1>1
<1>6. PICK g : g = [s \in SUBSET S |-> IF s = {} THEN 0
                                   ELSE f[Pick(s)] + g[s \ {Pick(s)}]]
  <2>1. Cardinality(S) \in P
    BY <1>4, FS_CardinalityType
  <2>2. PICK g : Sums(Cardinality(S), g)
    BY <2>1
  <2> QED BY <2>2, <1>5
<1> DEFINE it == CHOOSE iter : iter = [s \in SUBSET S |-> IF s = {} THEN 0
                                   ELSE f[Pick(s)] + iter[s \ {Pick(s)}]]
<1>7. it = [s \in SUBSET S |-> IF s = {} THEN 0
                                   ELSE f[Pick(s)] + it[s \ {Pick(s)}]]
  BY <1>6
<1>8. SumFunctionOnSet(f, S) = it[S]
  BY DEF SumFunctionOnSet, FoldFunctionOnSet, MapThenFoldSet, Pick
<1> QED BY <1>7, <1>8

\* What holds of no term and is kept by one more picked term holds of a finite set.
LEMMA PickInduction ==
  ASSUME NEW S, IsFiniteSet(S), NEW P \in SUBSET (SUBSET S), {} \in P,
         \A s \in SUBSET S : s # {} /\ s \ {Pick(s)} \in P => s \in P
  PROVE  P = SUBSET S
<1>1. SUFFICES ASSUME (SUBSET S) \ P # {} PROVE FALSE
  OBVIOUS
<1> DEFINE sizes == {Cardinality(s) : s \in (SUBSET S) \ P}
<1>2. \A s \in SUBSET S : IsFiniteSet(s) /\ Cardinality(s) \in Nat
  BY FS_Subset, FS_CardinalityType
<1>3. sizes # {} /\ sizes \in SUBSET Nat
  BY <1>1, <1>2
<1>4. PICK n \in sizes : \A m \in sizes : n <= m
  <2> HIDE DEF sizes
  <2> QED BY <1>3, LeastNat
<1>5. PICK s \in (SUBSET S) \ P : \A t \in (SUBSET S) \ P : Cardinality(s) <= Cardinality(t)
  BY <1>4
<1>6. s # {} /\ Pick(s) \in s
  BY DEF Pick
<1>7. Cardinality(s \ {Pick(s)}) = Cardinality(s) - 1
  BY <1>2, <1>6, FS_RemoveElement
<1>8. s \ {Pick(s)} \in P
  <2>1. s \ {Pick(s)} \in SUBSET S
    OBVIOUS
  <2>2. ~ (Cardinality(s) <= Cardinality(s \ {Pick(s)}))
    BY <1>2, <1>7
  <2> QED BY <1>5, <2>1, <2>2
<1> QED BY <1>6, <1>8

\* The sum over no row is zero.
LEMMA SumOfNone ==
  ASSUME NEW f
  PROVE  SumFunctionOnSet(f, {}) = 0
<1>1. PICK g : /\ g = [s \in SUBSET {} |-> IF s = {} THEN 0 ELSE f[Pick(s)] + g[s \ {Pick(s)}]]
               /\ SumFunctionOnSet(f, {}) = g[{}]
  BY SumUnfold, FS_EmptySet
<1> QED BY <1>1

\* The sum over some rows is the picked row and the sum over the others.
LEMMA SumOfPick ==
  ASSUME NEW f, NEW S, IsFiniteSet(S), S # {}
  PROVE  /\ Pick(S) \in S
         /\ SumFunctionOnSet(f, S) = f[Pick(S)] + SumFunctionOnSet(f, S \ {Pick(S)})
<1> DEFINE T == S \ {Pick(S)}
<1>1. Pick(S) \in S
  BY DEF Pick
<1>2. PICK g : /\ g = [s \in SUBSET S |-> IF s = {} THEN 0 ELSE f[Pick(s)] + g[s \ {Pick(s)}]]
               /\ SumFunctionOnSet(f, S) = g[S]
  BY SumUnfold
<1>3. IsFiniteSet(T)
  BY FS_Subset
<1>4. PICK h : /\ h = [s \in SUBSET T |-> IF s = {} THEN 0 ELSE f[Pick(s)] + h[s \ {Pick(s)}]]
               /\ SumFunctionOnSet(f, T) = h[T]
  BY <1>3, SumUnfold
<1> DEFINE P == {s \in SUBSET T : g[s] = h[s]}
<1>5. {} \in P
  BY <1>2, <1>4
<1>6. ASSUME NEW s \in SUBSET T, s # {}, s \ {Pick(s)} \in P PROVE s \in P
  <2>1. g[s] = f[Pick(s)] + g[s \ {Pick(s)}]
    BY <1>2, <1>6
  <2>2. h[s] = f[Pick(s)] + h[s \ {Pick(s)}]
    BY <1>4, <1>6
  <2> QED BY <2>1, <2>2, <1>6
<1>7. P = SUBSET T
  <2> HIDE DEF P
  <2>1. P \in SUBSET (SUBSET T)
    BY DEF P
  <2> QED BY <1>3, <1>5, <1>6, <2>1, PickInduction
<1>8. g[T] = h[T]
  BY <1>7
<1>9. g[S] = f[Pick(S)] + g[T]
  BY <1>2
<1> QED BY <1>1, <1>2, <1>4, <1>8, <1>9

\* A sum of integers is an integer.
LEMMA SumType ==
  ASSUME NEW S, IsFiniteSet(S), NEW f, \A x \in S : f[x] \in Int
  PROVE  SumFunctionOnSet(f, S) \in Int
<1> DEFINE P == {s \in SUBSET S : SumFunctionOnSet(f, s) \in Int}
<1>1. {} \in P
  BY SumOfNone
<1>2. ASSUME NEW s \in SUBSET S, s # {}, s \ {Pick(s)} \in P PROVE s \in P
  BY <1>2, SumOfPick, FS_Subset
<1>3. P = SUBSET S
  <2> HIDE DEF P
  <2>1. P \in SUBSET (SUBSET S)
    BY DEF P
  <2> QED BY <1>1, <1>2, <2>1, PickInduction
<1> QED BY <1>3

\* A sum of quantities is a quantity.
LEMMA SumNat ==
  ASSUME NEW S, IsFiniteSet(S), NEW f, \A x \in S : f[x] \in Nat
  PROVE  SumFunctionOnSet(f, S) \in Nat
<1> DEFINE P == {s \in SUBSET S : SumFunctionOnSet(f, s) \in Nat}
<1>1. {} \in P
  BY SumOfNone
<1>2. ASSUME NEW s \in SUBSET S, s # {}, s \ {Pick(s)} \in P PROVE s \in P
  <2>1. IsFiniteSet(s)
    BY FS_Subset
  <2>2. /\ Pick(s) \in s
        /\ SumFunctionOnSet(f, s) = f[Pick(s)] + SumFunctionOnSet(f, s \ {Pick(s)})
    BY <1>2, <2>1, SumOfPick
  <2>3. SumFunctionOnSet(f, s \ {Pick(s)}) \in Nat /\ f[Pick(s)] \in Nat
    BY <1>2, <2>2
  <2> QED BY <2>2, <2>3
<1>3. P = SUBSET S
  <2> HIDE DEF P
  <2>1. P \in SUBSET (SUBSET S)
    BY DEF P
  <2> QED BY <1>1, <1>2, <2>1, PickInduction
<1> QED BY <1>3

\* A column that adds two others up, row by row, sums to what they sum to.
LEMMA SumLinear ==
  ASSUME NEW S, IsFiniteSet(S), NEW f, NEW g, NEW h,
         \A x \in S : f[x] \in Int /\ g[x] \in Int /\ h[x] = f[x] + g[x]
  PROVE  SumFunctionOnSet(h, S) = SumFunctionOnSet(f, S) + SumFunctionOnSet(g, S)
<1> DEFINE P == {s \in SUBSET S :
     SumFunctionOnSet(h, s) = SumFunctionOnSet(f, s) + SumFunctionOnSet(g, s)}
<1>1. {} \in P
  BY SumOfNone
<1>2. ASSUME NEW s \in SUBSET S, s # {}, s \ {Pick(s)} \in P PROVE s \in P
  <2> DEFINE x == Pick(s)
             t == s \ {x}
  <2>1. IsFiniteSet(s) /\ IsFiniteSet(t)
    BY FS_Subset
  <2>2. /\ x \in s
        /\ SumFunctionOnSet(f, s) = f[x] + SumFunctionOnSet(f, t)
        /\ SumFunctionOnSet(g, s) = g[x] + SumFunctionOnSet(g, t)
        /\ SumFunctionOnSet(h, s) = h[x] + SumFunctionOnSet(h, t)
    BY <1>2, <2>1, SumOfPick
  <2>3. SumFunctionOnSet(f, t) \in Int /\ SumFunctionOnSet(g, t) \in Int
    BY <2>1, SumType
  <2>4. SumFunctionOnSet(h, t) = SumFunctionOnSet(f, t) + SumFunctionOnSet(g, t)
    BY <1>2
  <2>5. f[x] \in Int /\ g[x] \in Int /\ h[x] = f[x] + g[x]
    BY <2>2
  <2> HIDE DEF x, t
  <2>6. SumFunctionOnSet(h, s) = SumFunctionOnSet(f, s) + SumFunctionOnSet(g, s)
    BY <2>2, <2>3, <2>4, <2>5
  <2> QED BY <2>6
<1>3. P = SUBSET S
  <2> HIDE DEF P
  <2>1. P \in SUBSET (SUBSET S)
    BY DEF P
  <2> QED BY <1>1, <1>2, <2>1, PickInduction
<1> QED BY <1>3

\* Columns that agree on the rows have the same sum.
LEMMA SumSame ==
  ASSUME NEW S, IsFiniteSet(S), NEW f, NEW g, \A x \in S : f[x] = g[x]
  PROVE  SumFunctionOnSet(f, S) = SumFunctionOnSet(g, S)
<1> DEFINE P == {s \in SUBSET S : SumFunctionOnSet(f, s) = SumFunctionOnSet(g, s)}
<1>1. {} \in P
  BY SumOfNone
<1>2. ASSUME NEW s \in SUBSET S, s # {}, s \ {Pick(s)} \in P PROVE s \in P
  <2>1. IsFiniteSet(s)
    BY FS_Subset
  <2>2. /\ Pick(s) \in s
        /\ SumFunctionOnSet(f, s) = f[Pick(s)] + SumFunctionOnSet(f, s \ {Pick(s)})
        /\ SumFunctionOnSet(g, s) = g[Pick(s)] + SumFunctionOnSet(g, s \ {Pick(s)})
    BY <1>2, <2>1, SumOfPick
  <2>3. SumFunctionOnSet(f, s \ {Pick(s)}) = SumFunctionOnSet(g, s \ {Pick(s)})
    BY <1>2
  <2> QED BY <2>2, <2>3
<1>3. P = SUBSET S
  <2> HIDE DEF P
  <2>1. P \in SUBSET (SUBSET S)
    BY DEF P
  <2> QED BY <1>1, <1>2, <2>1, PickInduction
<1> QED BY <1>3

\* A column of zeros sums to zero.
LEMMA SumZero ==
  ASSUME NEW S, IsFiniteSet(S), NEW f, \A x \in S : f[x] = 0
  PROVE  SumFunctionOnSet(f, S) = 0
<1> DEFINE P == {s \in SUBSET S : SumFunctionOnSet(f, s) = 0}
<1>1. {} \in P
  BY SumOfNone
<1>2. ASSUME NEW s \in SUBSET S, s # {}, s \ {Pick(s)} \in P PROVE s \in P
  BY <1>2, SumOfPick, FS_Subset
<1>3. P = SUBSET S
  <2> HIDE DEF P
  <2>1. P \in SUBSET (SUBSET S)
    BY DEF P
  <2> QED BY <1>1, <1>2, <2>1, PickInduction
<1> QED BY <1>3

\* A column that is zero but in one row sums to that row.
LEMMA SumOnly ==
  ASSUME NEW S, IsFiniteSet(S), NEW x \in S, NEW n \in Int, NEW f,
         \A y \in S : f[y] = IF y = x THEN n ELSE 0
  PROVE  SumFunctionOnSet(f, S) = n
<1> DEFINE P == {s \in SUBSET S : SumFunctionOnSet(f, s) = IF x \in s THEN n ELSE 0}
<1>1. {} \in P
  BY SumOfNone
<1>2. ASSUME NEW s \in SUBSET S, s # {}, s \ {Pick(s)} \in P PROVE s \in P
  <2>1. IsFiniteSet(s)
    BY FS_Subset
  <2>2. /\ Pick(s) \in s
        /\ SumFunctionOnSet(f, s) = f[Pick(s)] + SumFunctionOnSet(f, s \ {Pick(s)})
    BY <1>2, <2>1, SumOfPick
  <2>3. SumFunctionOnSet(f, s \ {Pick(s)}) = IF x \in s \ {Pick(s)} THEN n ELSE 0
    BY <1>2
  <2>4. CASE x = Pick(s)
    BY <2>2, <2>3, <2>4
  <2>5. CASE x # Pick(s)
    <3>1. f[Pick(s)] = 0
      BY <2>2, <2>5
    <3> QED BY <2>2, <2>3, <2>5, <3>1
  <2> QED BY <2>4, <2>5
<1>3. P = SUBSET S
  <2> HIDE DEF P
  <2>1. P \in SUBSET (SUBSET S)
    BY DEF P
  <2> QED BY <1>1, <1>2, <2>1, PickInduction
<1> QED BY <1>3

\* A sum follows the one term that changes.
LEMMA SumChange ==
  ASSUME NEW S, IsFiniteSet(S), NEW x \in S, NEW f, NEW g,
         \A y \in S : f[y] \in Int /\ g[y] \in Int /\ (y # x => g[y] = f[y])
  PROVE  SumFunctionOnSet(g, S) = SumFunctionOnSet(f, S) + g[x] - f[x]
<1> DEFINE d == [y \in S |-> IF y = x THEN g[x] - f[x] ELSE 0]
<1>1. SumFunctionOnSet(d, S) = g[x] - f[x]
  BY SumOnly
<1>2. \A y \in S : f[y] \in Int /\ d[y] \in Int /\ g[y] = f[y] + d[y]
  OBVIOUS
<1>3. SumFunctionOnSet(g, S) = SumFunctionOnSet(f, S) + SumFunctionOnSet(d, S)
  <2> HIDE DEF d
  <2> QED BY <1>2, SumLinear
<1>4. SumFunctionOnSet(f, S) \in Int /\ f[x] \in Int /\ g[x] \in Int
  BY SumType
<1> QED BY <1>1, <1>3, <1>4

\* A column that is the difference of two sums to the difference of their sums.
LEMMA SumDifference ==
  ASSUME NEW S, IsFiniteSet(S), NEW f, NEW g, NEW h,
         \A x \in S : f[x] \in Int /\ g[x] \in Int /\ h[x] = f[x] - g[x]
  PROVE  SumFunctionOnSet(h, S) = SumFunctionOnSet(f, S) - SumFunctionOnSet(g, S)
<1>1. \A x \in S : h[x] \in Int /\ g[x] \in Int /\ f[x] = h[x] + g[x]
  OBVIOUS
<1>2. SumFunctionOnSet(f, S) = SumFunctionOnSet(h, S) + SumFunctionOnSet(g, S)
  BY <1>1, SumLinear
<1>3. SumFunctionOnSet(h, S) \in Int /\ SumFunctionOnSet(g, S) \in Int
  BY <1>1, SumType
<1> QED BY <1>2, <1>3

\* Terms that are booked under keys, each under a key of its own, add up to the
\* same: over the terms, and over the keys.
LEMMA SumByKey ==
  ASSUME NEW S, IsFiniteSet(S), NEW T, IsFiniteSet(T), NEW key,
         \A x \in S : key[x] \in T,
         \A x, y \in S : key[x] = key[y] => x = y,
         NEW f, \A x \in S : f[x] \in Int,
         NEW d, \A x \in S : d[key[x]] = f[x],
         \A t \in T : (\A x \in S : key[x] # t) => d[t] = 0
  PROVE  SumFunctionOnSet(d, T) = SumFunctionOnSet(f, S)
<1> DEFINE part(s) == [t \in T |-> IF \E x \in s : key[x] = t THEN d[t] ELSE 0]
           P == {s \in SUBSET S : SumFunctionOnSet(part(s), T) = SumFunctionOnSet(f, s)}
<1>1. {} \in P
  <2>1. SumFunctionOnSet(part({}), T) = 0
    <3>1. \A t \in T : part({})[t] = 0
      OBVIOUS
    <3> HIDE DEF part
    <3> QED BY <3>1, SumZero
  <2> QED BY <2>1, SumOfNone
<1>2. ASSUME NEW s \in SUBSET S, s # {}, s \ {Pick(s)} \in P PROVE s \in P
  <2> DEFINE x == Pick(s)
             r == s \ {x}
  <2>1. IsFiniteSet(s)
    BY FS_Subset
  <2>2. x \in s /\ SumFunctionOnSet(f, s) = f[x] + SumFunctionOnSet(f, r)
    BY <1>2, <2>1, SumOfPick
  <2>3. SumFunctionOnSet(part(r), T) = SumFunctionOnSet(f, r)
    BY <1>2
  <2> HIDE DEF x
  <2>4. \A t \in T : /\ part(s)[t] \in Int /\ part(r)[t] \in Int
                     /\ t # key[x] => part(s)[t] = part(r)[t]
    <3> TAKE t \in T
    <3>1. ASSUME NEW y \in S, key[y] = t PROVE d[t] \in Int
      BY <3>1
    <3> QED BY <2>2, <3>1
  <2>5. key[x] \in T /\ part(s)[key[x]] = f[x] /\ part(r)[key[x]] = 0
    BY <2>2
  <2>6. SumFunctionOnSet(part(s), T) = SumFunctionOnSet(part(r), T) + f[x] - 0
    <3> DEFINE g == part(s)
               h == part(r)
               k == key[x]
    <3>1. /\ \A t \in T : h[t] \in Int /\ g[t] \in Int /\ (t # k => g[t] = h[t])
          /\ k \in T /\ g[k] = f[x] /\ h[k] = 0
      BY <2>4, <2>5
    <3> HIDE DEF g, h, k
    <3>2. SumFunctionOnSet(g, T) = SumFunctionOnSet(h, T) + g[k] - h[k]
      BY <3>1, SumChange
    <3>3. SumFunctionOnSet(g, T) = SumFunctionOnSet(h, T) + f[x] - 0
      BY <3>1, <3>2
    <3> QED BY <3>3 DEF g, h
  <2>7. SumFunctionOnSet(f, r) \in Int /\ f[x] \in Int
    BY <2>1, <2>2, SumType, FS_Subset
  <2> QED BY <2>2, <2>3, <2>6, <2>7
<1>3. P = SUBSET S
  <2> HIDE DEF P
  <2>1. P \in SUBSET (SUBSET S)
    BY DEF P
  <2> QED BY <1>1, <1>2, <2>1, PickInduction
<1>4. \A t \in T : part(S)[t] = d[t]
  OBVIOUS
<1>5. SumFunctionOnSet(part(S), T) = SumFunctionOnSet(d, T)
  <2> HIDE DEF part
  <2> QED BY <1>4, SumSame
<1> QED BY <1>3, <1>5

\* Terms that are all positive have a positive sum.
LEMMA SumPositive ==
  ASSUME NEW S, IsFiniteSet(S), S # {}, NEW f, \A x \in S : f[x] \in Nat /\ f[x] > 0
  PROVE  SumFunctionOnSet(f, S) \in Nat /\ SumFunctionOnSet(f, S) > 0
<1> DEFINE x == Pick(S)
           t == S \ {x}
<1>1. x \in S /\ SumFunctionOnSet(f, S) = f[x] + SumFunctionOnSet(f, t)
  BY SumOfPick
<1>2. IsFiniteSet(t)
  BY FS_Subset
<1>3. \A y \in t : f[y] \in Nat
  OBVIOUS
<1> HIDE DEF x, t
<1>4. SumFunctionOnSet(f, t) \in Nat
  BY <1>2, <1>3, SumNat
<1>5. f[x] \in Nat /\ f[x] > 0
  BY <1>1
<1> QED BY <1>1, <1>4, <1>5

\* The sum over two sets that have nothing in common.
LEMMA SumDisjoint ==
  ASSUME NEW A, NEW B, IsFiniteSet(A), IsFiniteSet(B), A \cap B = {},
         NEW f, \A x \in A \cup B : f[x] \in Int
  PROVE  SumFunctionOnSet(f, A \cup B) = SumFunctionOnSet(f, A) + SumFunctionOnSet(f, B)
<1> DEFINE U == A \cup B
           a == [x \in U |-> IF x \in A THEN f[x] ELSE 0]
           b == [x \in U |-> IF x \in B THEN f[x] ELSE 0]
           ka == [x \in A |-> x]
           kb == [x \in B |-> x]
<1>1. IsFiniteSet(U)
  BY FS_Union
<1>2. \A x \in U : a[x] \in Int /\ b[x] \in Int /\ f[x] = a[x] + b[x]
  OBVIOUS
<1>3. /\ \A x \in A : ka[x] \in U /\ ka[x] = x /\ f[x] \in Int /\ a[ka[x]] = f[x]
      /\ \A x \in U : (\A y \in A : ka[y] # x) => a[x] = 0
  OBVIOUS
<1>4. /\ \A x \in B : kb[x] \in U /\ kb[x] = x /\ f[x] \in Int /\ b[kb[x]] = f[x]
      /\ \A x \in U : (\A y \in B : kb[y] # x) => b[x] = 0
  OBVIOUS
<1> HIDE DEF U, a, b, ka, kb
<1>5. SumFunctionOnSet(a, U) = SumFunctionOnSet(f, A)
  <2>1. \A x, y \in A : ka[x] = ka[y] => x = y
    BY <1>3
  <2> QED BY <1>1, <1>3, <2>1, SumByKey
<1>6. SumFunctionOnSet(b, U) = SumFunctionOnSet(f, B)
  <2>1. \A x, y \in B : kb[x] = kb[y] => x = y
    BY <1>4
  <2> QED BY <1>1, <1>4, <2>1, SumByKey
<1>7. SumFunctionOnSet(f, U) = SumFunctionOnSet(a, U) + SumFunctionOnSet(b, U)
  BY <1>1, <1>2, SumLinear
<1> QED BY <1>5, <1>6, <1>7 DEF U

\* The sum over parts that have nothing in common is the sum of their sums.
LEMMA SumOfParts ==
  ASSUME NEW I, IsFiniteSet(I), NEW part,
         \A i \in I : IsFiniteSet(part[i]),
         \A i, j \in I : i # j => part[i] \cap part[j] = {},
         NEW f, \A i \in I : \A x \in part[i] : f[x] \in Int,
         NEW g, \A i \in I : g[i] = SumFunctionOnSet(f, part[i]),
         NEW U, \A i \in I : part[i] \subseteq U, \A x \in U : \E i \in I : x \in part[i]
  PROVE  IsFiniteSet(U) /\ SumFunctionOnSet(f, U) = SumFunctionOnSet(g, I)
<1> DEFINE all(s) == UNION {part[i] : i \in s}
           P == {s \in SUBSET I : IsFiniteSet(all(s)) /\ SumFunctionOnSet(f, all(s)) = SumFunctionOnSet(g, s)}
<1>1. {} \in P
  <2>1. all({}) = {}
    OBVIOUS
  <2> QED BY <2>1, SumOfNone, FS_EmptySet
<1>2. ASSUME NEW s \in SUBSET I, s # {}, s \ {Pick(s)} \in P PROVE s \in P
  <2> DEFINE i == Pick(s)
             r == s \ {i}
             A == part[i]
             B == all(r)
  <2>1. IsFiniteSet(s)
    BY FS_Subset
  <2>2. i \in s /\ SumFunctionOnSet(g, s) = g[i] + SumFunctionOnSet(g, r)
    BY <1>2, <2>1, SumOfPick
  <2>3. IsFiniteSet(B) /\ SumFunctionOnSet(f, B) = SumFunctionOnSet(g, r)
    BY <1>2
  <2>4. i \in I /\ r \subseteq I /\ i \notin r
    BY <2>2
  <2>5. all(s) = A \cup B
    BY <2>2
  <2>6. A \cap B = {}
    BY <2>4
  <2>7. \A x \in A \cup B : f[x] \in Int
    BY <2>4
  <2>8. IsFiniteSet(A) /\ g[i] = SumFunctionOnSet(f, A)
    BY <2>4
  <2> HIDE DEF i, r, A, B, all
  <2>9. IsFiniteSet(A \cup B) /\ SumFunctionOnSet(f, A \cup B) = SumFunctionOnSet(f, A) + SumFunctionOnSet(f, B)
    <3>1. IsFiniteSet(A \cup B)
      BY <2>3, <2>8, FS_Union
    <3>2. SumFunctionOnSet(f, A \cup B) = SumFunctionOnSet(f, A) + SumFunctionOnSet(f, B)
      BY <2>3, <2>6, <2>7, <2>8, SumDisjoint
    <3> QED BY <3>1, <3>2
  <2> QED BY <2>2, <2>3, <2>5, <2>8, <2>9
<1>3. P = SUBSET I
  <2> HIDE DEF P
  <2>1. P \in SUBSET (SUBSET I)
    BY DEF P
  <2> QED BY <1>1, <1>2, <2>1, PickInduction
<1>4. all(I) = U
  OBVIOUS
<1> QED BY <1>3, <1>4

\* A finite set of naturals has a greatest one.
LEMMA GreatestNat ==
  ASSUME NEW S \in SUBSET Nat, IsFiniteSet(S), S # {}
  PROVE  \E n \in S : \A m \in S : n >= m
<1> DEFINE P == {s \in SUBSET S : s = {} \/ \E n \in s : \A m \in s : n >= m}
<1>1. {} \in P
  OBVIOUS
<1>2. ASSUME NEW s \in SUBSET S, s # {}, s \ {Pick(s)} \in P PROVE s \in P
  <2> DEFINE x == Pick(s)
             r == s \ {x}
  <2>1. x \in s /\ x \in Nat /\ s = r \cup {x}
    <3>1. IsFiniteSet(s)
      BY FS_Subset
    <3>2. x \in s
      BY <1>2, <3>1, SumOfPick
    <3> QED BY <3>2
  <2>2. CASE r = {}
    <3>1. \A m \in s : x >= m
      BY <2>1, <2>2
    <3> QED BY <2>1, <3>1
  <2>3. CASE r # {}
    <3>1. PICK n \in r : \A m \in r : n >= m
      BY <1>2, <2>3
    <3> HIDE DEF x
    <3>2. n \in Nat /\ (\A m \in r : m \in Nat) /\ n \in s
      BY <2>1
    <3>3. CASE n >= x
      <4>1. \A m \in s : n >= m
        BY <2>1, <3>1, <3>3
      <4> QED BY <3>2, <4>1
    <3>4. CASE ~(n >= x)
      <4>1. \A m \in s : x >= m
        <5> TAKE m \in s
        <5>1. CASE m = x
          BY <2>1, <5>1
        <5>2. CASE m # x
          <6>1. m \in r /\ m \in Nat /\ n >= m
            BY <2>1, <3>1, <5>2
          <6> QED BY <2>1, <3>2, <3>4, <6>1
        <5> QED BY <5>1, <5>2
      <4> QED BY <2>1, <4>1
    <3> QED BY <3>3, <3>4
  <2> QED BY <2>2, <2>3
<1>3. P = SUBSET S
  <2> HIDE DEF P
  <2>1. P \in SUBSET (SUBSET S)
    BY DEF P
  <2> QED BY <1>1, <1>2, <2>1, PickInduction
<1> QED BY <1>3

\* A column that is nowhere above another one sums to no more.
LEMMA SumMonotone ==
  ASSUME NEW S, IsFiniteSet(S), NEW f, NEW g,
         \A x \in S : f[x] \in Int /\ g[x] \in Int /\ f[x] <= g[x]
  PROVE  SumFunctionOnSet(f, S) <= SumFunctionOnSet(g, S)
<1> DEFINE h == [x \in S |-> g[x] - f[x]]
<1>1. \A x \in S : h[x] \in Nat /\ h[x] = g[x] - f[x]
  OBVIOUS
<1> HIDE DEF h
<1>2. SumFunctionOnSet(h, S) = SumFunctionOnSet(g, S) - SumFunctionOnSet(f, S)
  BY <1>1, SumDifference
<1>3. SumFunctionOnSet(h, S) \in Nat
  BY <1>1, SumNat
<1>4. SumFunctionOnSet(f, S) \in Int /\ SumFunctionOnSet(g, S) \in Int
  BY SumType
<1> QED BY <1>2, <1>3, <1>4

\* A table of numbers, by its rows f and its columns g, with the sum of each.
IsTable(S, T, f, g, rows, columns) ==
  /\ \A x \in S, y \in T : f[x][y] \in Int /\ g[y][x] = f[x][y]
  /\ \A x \in S : rows[x] = SumFunctionOnSet(f[x], T)
  /\ \A y \in T : columns[y] = SumFunctionOnSet(g[y], S)

\* It adds up to the same by rows and by columns.
LEMMA SumOfTable ==
  ASSUME NEW S, IsFiniteSet(S), NEW T, IsFiniteSet(T),
         NEW f, NEW g, NEW rows, NEW columns, IsTable(S, T, f, g, rows, columns)
  PROVE  SumFunctionOnSet(rows, S) = SumFunctionOnSet(columns, T)
<1> USE DEF IsTable
<1> DEFINE part(s) == [y \in T |-> SumFunctionOnSet(g[y], s)]
           P == {s \in SUBSET S : SumFunctionOnSet(rows, s) = SumFunctionOnSet(part(s), T)}
<1>1. {} \in P
  <2>1. \A y \in T : part({})[y] = 0
    BY SumOfNone
  <2> HIDE DEF part
  <2>2. SumFunctionOnSet(part({}), T) = 0
    BY <2>1, SumZero
  <2> QED BY <2>2, SumOfNone
<1>2. ASSUME NEW s \in SUBSET S, s # {}, s \ {Pick(s)} \in P PROVE s \in P
  <2> DEFINE x == Pick(s)
             r == s \ {x}
  <2>1. IsFiniteSet(s) /\ IsFiniteSet(r)
    BY FS_Subset
  <2>2. x \in s /\ SumFunctionOnSet(rows, s) = rows[x] + SumFunctionOnSet(rows, r)
    BY <1>2, <2>1, SumOfPick
  <2>3. SumFunctionOnSet(rows, r) = SumFunctionOnSet(part(r), T)
    BY <1>2
  <2>4. ASSUME NEW y \in T
        PROVE  /\ part(s)[y] = f[x][y] + part(r)[y]
               /\ f[x][y] \in Int /\ part(r)[y] \in Int
    <3>1. g[y][x] = f[x][y] /\ \A z \in S : g[y][z] \in Int
      BY <2>2
    <3>2. SumFunctionOnSet(g[y], s) = g[y][x] + SumFunctionOnSet(g[y], r)
      BY <1>2, <2>1, SumOfPick
    <3>3. \A z \in r : g[y][z] \in Int
      BY <3>1
    <3>4. SumFunctionOnSet(g[y], r) \in Int
      <4> HIDE DEF r
      <4> QED BY <2>1, <3>3, SumType
    <3>5. f[x][y] \in Int
      BY <2>2
    <3> QED BY <3>1, <3>2, <3>4, <3>5
  <2>5. x \in S
    BY <2>2
  <2> HIDE DEF x, r, part
  <2>6. SumFunctionOnSet(part(s), T) = SumFunctionOnSet(f[x], T) + SumFunctionOnSet(part(r), T)
    BY <2>4, SumLinear
  <2>7. rows[x] = SumFunctionOnSet(f[x], T)
    BY <2>5
  <2> QED BY <2>2, <2>3, <2>6, <2>7
<1>3. P = SUBSET S
  <2> HIDE DEF P
  <2>1. P \in SUBSET (SUBSET S)
    BY DEF P
  <2> QED BY <1>1, <1>2, <2>1, PickInduction
<1>4. SumFunctionOnSet(rows, S) = SumFunctionOnSet(part(S), T)
  BY <1>3
<1>5. \A y \in T : part(S)[y] = columns[y]
  OBVIOUS
<1>6. SumFunctionOnSet(part(S), T) = SumFunctionOnSet(columns, T)
  <2> HIDE DEF part
  <2> QED BY <1>5, SumSame
<1> QED BY <1>4, <1>6
=============================================================================
