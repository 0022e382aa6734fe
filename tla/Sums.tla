-------------------------------- MODULE Sums --------------------------------
(* Facts about the sums the models take of functions with SumFunctionOnSet,  *)
(* which folds a function over a set in an order of its own, and about the   *)
(* sequences that Ranks makes of sets.                                       *)
EXTENDS Ranks, FiniteSetsExt, Sequences, Functions, TLAPS, FiniteSetTheorems, WellFoundedInduction

\* Induction over numbers, in the form of the least counterexample.
LEMMA NatMinimum ==
    ASSUME NEW T, T \subseteq Nat, T # {}
    PROVE  \E x \in T : \A y \in T : x <= y
<1>1. PICK x \in T : \A y \in T : ~ (<<y, x>> \in OpToRel(<, Nat))
  BY NatLessThanWellFounded, WFMin
<1>2. \A y \in T : ~ (y < x)
  BY <1>1 DEF OpToRel
<1> QED BY <1>2

LEMMA MinIsLeast ==
    ASSUME NEW S, S \subseteq Nat, S # {}
    PROVE  Min(S) \in S /\ \A y \in S : Min(S) <= y
<1>1. PICK x \in S : \A y \in S : x <= y
  BY NatMinimum
<1> QED
  BY <1>1 DEF Min

Picked(s) == CHOOSE x \in s : TRUE

\* What the fold adds up for a set when g has the sums of the smaller ones.
Sum1(g, fun, s) == IF s = {} THEN 0 ELSE fun[Picked(s)] + g[s \ {Picked(s)}]

IsTable(g, fun, S) == g = [s \in SUBSET S |-> Sum1(g, fun, s)]

Table(fun, S) == CHOOSE g : IsTable(g, fun, S)

LEMMA SumIsTable ==
    ASSUME NEW fun, NEW S
    PROVE  SumFunctionOnSet(fun, S) = Table(fun, S)[S]
  BY Zenon DEF SumFunctionOnSet, FoldFunctionOnSet, MapThenFoldSet, Table, IsTable, Sum1, Picked

LEMMA Picking ==
    ASSUME NEW s, s # {}
    PROVE  Picked(s) \in s
  BY DEF Picked

\* There is a table of sums up to every size, ...
LEMMA TableUpTo ==
    ASSUME NEW fun, NEW S, IsFiniteSet(S), NEW n \in Nat
    PROVE  \E g : \A s \in SUBSET S : Cardinality(s) <= n => g[s] = Sum1(g, fun, s)
<1> DEFINE Good(k) == \E g : \A s \in SUBSET S : Cardinality(s) <= k => g[s] = Sum1(g, fun, s)
           bad == {k \in Nat : ~Good(k)}
<1>1. \A s \in SUBSET S : IsFiniteSet(s) /\ Cardinality(s) \in Nat
  BY FS_Subset, FS_CardinalityType
<1>2. Good(0)
  <2> DEFINE g == [s \in SUBSET S |-> 0]
  <2>1. \A s \in SUBSET S : Cardinality(s) <= 0 => s = {}
    BY <1>1, FS_EmptySet
  <2>2. \A s \in SUBSET S : Cardinality(s) <= 0 => g[s] = Sum1(g, fun, s)
    BY <2>1 DEF Sum1
  <2> HIDE DEF g
  <2> QED BY <2>2
<1>3. ASSUME NEW k \in Nat, Good(k) PROVE Good(k + 1)
  <2>1. PICK g : \A s \in SUBSET S : Cardinality(s) <= k => g[s] = Sum1(g, fun, s)
    BY <1>3
  <2> DEFINE h == [s \in SUBSET S |-> IF Cardinality(s) <= k THEN g[s] ELSE Sum1(g, fun, s)]
  <2>2. ASSUME NEW s \in SUBSET S, Cardinality(s) <= k + 1 PROVE h[s] = Sum1(h, fun, s)
    <3>1. h[s] = Sum1(g, fun, s)
      BY <2>1
    <3>2. CASE s = {}
      BY <3>1, <3>2 DEF Sum1
    <3>3. CASE s # {}
      <4> DEFINE rest == s \ {Picked(s)}
      <4>1. Picked(s) \in s /\ rest \in SUBSET S
        BY <3>3, Picking
      <4>2. Cardinality(rest) = Cardinality(s) - 1
        BY <4>1, <1>1, FS_RemoveElement
      <4>3. Cardinality(rest) <= k
        BY <4>2, <2>2, <1>1, <1>3
      <4>4. h[rest] = g[rest]
        BY <4>1, <4>3
      <4> HIDE DEF h
      <4> QED BY <3>1, <3>3, <4>4 DEF Sum1
    <3> QED BY <3>2, <3>3
  <2> HIDE DEF h
  <2> QED BY <2>2
<1> HIDE DEF Good
<1>4. SUFFICES ASSUME bad # {} PROVE FALSE
  BY <1>4 DEF Good
<1>5. PICK least \in bad : \A k \in bad : least <= k
  BY <1>4, NatMinimum
<1>6. least # 0 /\ least \in Nat
  BY <1>2, <1>5
<1>7. Good(least - 1)
  BY <1>5, <1>6
<1> QED BY <1>3, <1>5, <1>6, <1>7

\* ... so the one that the fold chooses is a table.
LEMMA TableExists ==
    ASSUME NEW fun, NEW S, IsFiniteSet(S)
    PROVE  IsTable(Table(fun, S), fun, S)
<1>1. Cardinality(S) \in Nat /\ \A s \in SUBSET S : Cardinality(s) <= Cardinality(S)
  BY FS_Subset, FS_CardinalityType
<1>2. PICK g : \A s \in SUBSET S : Cardinality(s) <= Cardinality(S) => g[s] = Sum1(g, fun, s)
  <2> DEFINE n == Cardinality(S)
  <2>1. n \in Nat
    BY <1>1
  <2> HIDE DEF n
  <2>2. \E g : \A s \in SUBSET S : Cardinality(s) <= n => g[s] = Sum1(g, fun, s)
    BY <2>1, TableUpTo
  <2> QED BY <2>2, Zenon DEF n
<1> DEFINE h == [s \in SUBSET S |-> g[s]]
<1>3. ASSUME NEW s \in SUBSET S PROVE h[s] = Sum1(h, fun, s)
  <2>1. h[s] = Sum1(g, fun, s)
    BY <1>1, <1>2
  <2>2. s # {} => h[s \ {Picked(s)}] = g[s \ {Picked(s)}]
    OBVIOUS
  <2> HIDE DEF h
  <2> QED BY <2>1, <2>2 DEF Sum1
<1>4. h = [s \in SUBSET S |-> h[s]]
  OBVIOUS
<1> HIDE DEF h
<1>5. IsTable(h, fun, S)
  <2>1. [s \in SUBSET S |-> h[s]] = [s \in SUBSET S |-> Sum1(h, fun, s)]
    BY <1>3
  <2> QED BY <1>4, <2>1, Zenon DEF IsTable
<1> QED BY <1>5, Zenon DEF Table

LEMMA TableSums ==
    ASSUME NEW fun, NEW S, IsFiniteSet(S), NEW s \in SUBSET S
    PROVE  Table(fun, S)[s] = Sum1(Table(fun, S), fun, s)
<1> DEFINE g == Table(fun, S)
<1>1. g = [t \in SUBSET S |-> Sum1(g, fun, t)]
  <2>1. IsTable(Table(fun, S), fun, S)
    BY TableExists
  <2> QED BY <2>1, Zenon DEF IsTable
<1> HIDE DEF g
<1>2. g[s] = Sum1(g, fun, s)
  BY <1>1, Zenon
<1> QED BY <1>2 DEF g

\* Two tables have the same sums for a set that both of them know: the sum
\* over a set does not depend on what it is a part of.
LEMMA TablesAgree ==
    ASSUME NEW fun, NEW S, IsFiniteSet(S), NEW s \in SUBSET S
    PROVE  Table(fun, S)[s] = SumFunctionOnSet(fun, s)
<1> DEFINE Same(t) == Table(fun, S)[t] = Table(fun, s)[t]
           bad == {k \in Nat : \E t \in SUBSET s : Cardinality(t) = k /\ ~Same(t)}
<1>1. IsFiniteSet(s) /\ \A t \in SUBSET s : IsFiniteSet(t) /\ Cardinality(t) \in Nat
  BY FS_Subset, FS_CardinalityType
<1>2. SUFFICES ASSUME bad # {} PROVE FALSE
  <2>1. Cardinality(s) \in Nat /\ s \in SUBSET s
    BY <1>1
  <2>2. Same(s)
    BY <1>2, <2>1
  <2> QED BY <2>2, SumIsTable
<1>3. PICK least \in bad : \A k \in bad : least <= k
  BY <1>2, NatMinimum
<1>4. PICK t \in SUBSET s : Cardinality(t) = least /\ ~Same(t)
  BY <1>3
<1>5. /\ Table(fun, S)[t] = Sum1(Table(fun, S), fun, t)
      /\ Table(fun, s)[t] = Sum1(Table(fun, s), fun, t)
  BY <1>1, TableSums
<1>6. t # {}
  BY <1>4, <1>5 DEF Sum1
<1>7. Picked(t) \in t
  BY <1>6, Picking
<1>8. Cardinality(t \ {Picked(t)}) = least - 1 /\ Cardinality(t \ {Picked(t)}) \in Nat
  BY <1>1, <1>4, <1>7, FS_RemoveElement
<1>9. Same(t \ {Picked(t)})
  BY <1>3, <1>8
<1> QED BY <1>4, <1>5, <1>6, <1>9 DEF Sum1

-----------------------------------------------------------------------------

LEMMA SumEmpty ==
    ASSUME NEW fun
    PROVE  SumFunctionOnSet(fun, {}) = 0
  BY SumIsTable, TableSums, FS_EmptySet DEF Sum1

LEMMA SumPicked ==
    ASSUME NEW fun, NEW S, IsFiniteSet(S), S # {}
    PROVE  SumFunctionOnSet(fun, S) =
               fun[Picked(S)] + SumFunctionOnSet(fun, S \ {Picked(S)})
<1>1. Table(fun, S)[S] = Sum1(Table(fun, S), fun, S)
  BY TableSums
<1>2. Table(fun, S)[S \ {Picked(S)}] = SumFunctionOnSet(fun, S \ {Picked(S)})
  BY TablesAgree
<1> QED BY <1>1, <1>2, SumIsTable DEF Sum1

\* A sum of natural numbers is one.
LEMMA SumIsNat ==
    ASSUME NEW fun, NEW S, IsFiniteSet(S), \A x \in S : fun[x] \in Nat
    PROVE  SumFunctionOnSet(fun, S) \in Nat
<1> DEFINE Sum(t) == SumFunctionOnSet(fun, t)
           bad == {k \in Nat : \E t \in SUBSET S : Cardinality(t) = k /\ Sum(t) \notin Nat}
<1>1. \A t \in SUBSET S : IsFiniteSet(t) /\ Cardinality(t) \in Nat
  BY FS_Subset, FS_CardinalityType
<1>2. SUFFICES ASSUME bad # {} PROVE FALSE
  BY <1>1, <1>2
<1>3. PICK least \in bad : \A k \in bad : least <= k
  BY <1>2, NatMinimum
<1>4. PICK t \in SUBSET S : Cardinality(t) = least /\ Sum(t) \notin Nat
  BY <1>3
<1>5. t # {}
  BY <1>4, SumEmpty
<1>6. Sum(t) = fun[Picked(t)] + Sum(t \ {Picked(t)})
  BY <1>1, <1>5, SumPicked
<1>7. Picked(t) \in t /\ fun[Picked(t)] \in Nat
  BY <1>5, Picking
<1>8. Cardinality(t \ {Picked(t)}) = least - 1 /\ Cardinality(t \ {Picked(t)}) \in Nat
  BY <1>1, <1>4, <1>7, FS_RemoveElement
<1>9. Sum(t \ {Picked(t)}) \in Nat
  BY <1>3, <1>8
<1> HIDE DEF Sum
<1> QED BY <1>4, <1>6, <1>7, <1>9

\* The order does not matter: any element may be taken out first.
LEMMA SumTake ==
    ASSUME NEW fun, NEW S, IsFiniteSet(S), \A x \in S : fun[x] \in Nat, NEW x \in S
    PROVE  SumFunctionOnSet(fun, S) = fun[x] + SumFunctionOnSet(fun, S \ {x})
<1> DEFINE Sum(t) == SumFunctionOnSet(fun, t)
           Fine(t) == \A y \in t : Sum(t) = fun[y] + Sum(t \ {y})
           bad == {k \in Nat : \E t \in SUBSET S : Cardinality(t) = k /\ ~Fine(t)}
<1>1. \A t \in SUBSET S : IsFiniteSet(t) /\ Cardinality(t) \in Nat
  BY FS_Subset, FS_CardinalityType
<1>2. \A t \in SUBSET S : Sum(t) \in Nat
  BY <1>1, SumIsNat
<1>3. SUFFICES ASSUME bad # {} PROVE FALSE
  <2>1. Fine(S)
    BY <1>1, <1>3
  <2> QED BY <2>1
<1>4. PICK least \in bad : \A k \in bad : least <= k
  BY <1>3, NatMinimum
<1>5. PICK t \in SUBSET S : Cardinality(t) = least /\ ~Fine(t)
  BY <1>4
<1>6. PICK y \in t : Sum(t) # fun[y] + Sum(t \ {y})
  BY <1>5
<1> DEFINE c == Picked(t)
<1>7. c \in t /\ Sum(t) = fun[c] + Sum(t \ {c})
  BY <1>1, SumPicked, Picking
<1>8. c # y
  BY <1>6, <1>7
<1>9. ASSUME NEW z \in t PROVE Fine(t \ {z})
  <2>1. Cardinality(t \ {z}) = least - 1 /\ Cardinality(t \ {z}) \in Nat
    BY <1>1, <1>5, FS_RemoveElement
  <2> QED BY <2>1, <1>4, <1>5
<1> HIDE DEF c
<1>10. Sum(t \ {c}) = fun[y] + Sum((t \ {c}) \ {y})
  BY <1>7, <1>8, <1>9
<1>11. Sum(t \ {y}) = fun[c] + Sum((t \ {y}) \ {c})
  BY <1>7, <1>8, <1>9
<1>12. (t \ {c}) \ {y} = (t \ {y}) \ {c}
  OBVIOUS
<1>13. Sum(t) \in Nat /\ Sum((t \ {y}) \ {c}) \in Nat /\ fun[c] \in Nat /\ fun[y] \in Nat
  BY <1>2, <1>7
<1> DEFINE rest == Sum((t \ {y}) \ {c})
           all == Sum(t)
           noC == Sum(t \ {c})
           noY == Sum(t \ {y})
<1>14. noC = fun[y] + rest /\ noY = fun[c] + rest /\ all = fun[c] + noC
  BY <1>7, <1>10, <1>11, <1>12, Zenon
<1>15. all # fun[y] + noY
  BY <1>6
<1>16. rest \in Nat /\ fun[c] \in Nat /\ fun[y] \in Nat
  BY <1>13
<1> HIDE DEF rest, all, noC, noY
<1> QED BY <1>14, <1>15, <1>16

LEMMA SumOfOne ==
    ASSUME NEW fun, NEW x, fun[x] \in Nat
    PROVE  SumFunctionOnSet(fun, {x}) = fun[x]
<1>1. IsFiniteSet({x}) /\ {x} \ {x} = {}
  BY FS_Singleton
<1>2. SumFunctionOnSet(fun, {x}) = fun[x] + SumFunctionOnSet(fun, {})
  BY <1>1, SumTake
<1> QED BY <1>2, SumEmpty


\* Functions that agree on a set have the same sum over it.
LEMMA SumSame ==
    ASSUME NEW fun, NEW other, NEW S, IsFiniteSet(S), \A x \in S : fun[x] = other[x]
    PROVE  SumFunctionOnSet(fun, S) = SumFunctionOnSet(other, S)
<1> DEFINE Same(t) == SumFunctionOnSet(fun, t) = SumFunctionOnSet(other, t)
           bad == {k \in Nat : \E t \in SUBSET S : Cardinality(t) = k /\ ~Same(t)}
<1>1. \A t \in SUBSET S : IsFiniteSet(t) /\ Cardinality(t) \in Nat
  BY FS_Subset, FS_CardinalityType
<1>2. SUFFICES ASSUME bad # {} PROVE FALSE
  BY <1>1, <1>2
<1>3. PICK least \in bad : \A k \in bad : least <= k
  BY <1>2, NatMinimum
<1>4. PICK t \in SUBSET S : Cardinality(t) = least /\ ~Same(t)
  BY <1>3
<1>5. t # {}
  BY <1>4, SumEmpty
<1>6. Picked(t) \in t
  BY <1>5, Picking
<1>7. Cardinality(t \ {Picked(t)}) = least - 1 /\ Cardinality(t \ {Picked(t)}) \in Nat
  BY <1>1, <1>4, <1>6, FS_RemoveElement
<1>8. Same(t \ {Picked(t)})
  BY <1>3, <1>7
<1> QED BY <1>1, <1>4, <1>5, <1>6, <1>8, SumPicked

\* One value more raises the sum by as much.
LEMMA SumRaised ==
    ASSUME NEW fun, NEW other, NEW S, IsFiniteSet(S), NEW x \in S,
           \A y \in S : fun[y] \in Nat,
           \A y \in S \ {x} : other[y] = fun[y], other[x] = fun[x] + 1
    PROVE  SumFunctionOnSet(other, S) = SumFunctionOnSet(fun, S) + 1
<1> DEFINE rest == SumFunctionOnSet(fun, S \ {x})
<1>1. IsFiniteSet(S \ {x}) /\ \A y \in S : other[y] \in Nat
  BY FS_Subset
<1>2. SumFunctionOnSet(fun, S) = fun[x] + rest
  BY SumTake
<1>3. SumFunctionOnSet(other, S) = other[x] + SumFunctionOnSet(other, S \ {x})
  BY <1>1, SumTake
<1>4. SumFunctionOnSet(other, S \ {x}) = rest
  BY <1>1, SumSame
<1>5. rest \in Nat
  BY <1>1, SumIsNat
<1> HIDE DEF rest
<1> QED BY <1>2, <1>3, <1>4, <1>5

LEMMA SumOfZeros ==
    ASSUME NEW fun, NEW S, IsFiniteSet(S), \A x \in S : fun[x] = 0
    PROVE  SumFunctionOnSet(fun, S) = 0
<1> DEFINE Sum(t) == SumFunctionOnSet(fun, t)
           bad == {k \in Nat : \E t \in SUBSET S : Cardinality(t) = k /\ Sum(t) # 0}
<1>1. \A t \in SUBSET S : IsFiniteSet(t) /\ Cardinality(t) \in Nat
  BY FS_Subset, FS_CardinalityType
<1>2. SUFFICES ASSUME bad # {} PROVE FALSE
  BY <1>1, <1>2
<1>3. PICK least \in bad : \A k \in bad : least <= k
  BY <1>2, NatMinimum
<1>4. PICK t \in SUBSET S : Cardinality(t) = least /\ Sum(t) # 0
  BY <1>3
<1>5. t # {}
  BY <1>4, SumEmpty
<1>6. Picked(t) \in t /\ Sum(t) = fun[Picked(t)] + Sum(t \ {Picked(t)})
  BY <1>1, <1>5, SumPicked, Picking
<1>7. Cardinality(t \ {Picked(t)}) = least - 1 /\ Cardinality(t \ {Picked(t)}) \in Nat
  BY <1>1, <1>4, <1>6, FS_RemoveElement
<1>8. Sum(t \ {Picked(t)}) = 0 /\ fun[Picked(t)] = 0
  BY <1>3, <1>6, <1>7
<1> HIDE DEF Sum
<1> QED BY <1>4, <1>6, <1>8

-----------------------------------------------------------------------------
(* Sums over an initial segment of the numbers.                             *)

UpTo(fun, n) == SumFunctionOnSet(fun, 0 .. n)

LEMMA UpToNext ==
    ASSUME NEW fun, NEW n \in Nat, \A k \in 0 .. n + 1 : fun[k] \in Nat
    PROVE  /\ UpTo(fun, n + 1) = UpTo(fun, n) + fun[n + 1]
           /\ UpTo(fun, n) \in Nat
<1>1. IsFiniteSet(0 .. n + 1) /\ IsFiniteSet(0 .. n) /\ (0 .. n + 1) \ {n + 1} = 0 .. n
      /\ n + 1 \in 0 .. n + 1
  BY FS_Interval
<1>2. SumFunctionOnSet(fun, 0 .. n + 1) = fun[n + 1] + SumFunctionOnSet(fun, (0 .. n + 1) \ {n + 1})
  BY <1>1, SumTake
<1>3. SumFunctionOnSet(fun, 0 .. n) \in Nat
  BY <1>1, SumIsNat
<1>4. fun[n + 1] \in Nat
  BY <1>1
<1>5. UpTo(fun, n + 1) = fun[n + 1] + UpTo(fun, n) /\ UpTo(fun, n) \in Nat
  BY <1>1, <1>2, <1>3, Zenon DEF UpTo
<1> QED BY <1>4, <1>5

LEMMA UpToFirst ==
    ASSUME NEW fun, fun[0] \in Nat
    PROVE  UpTo(fun, 0) = fun[0]
<1>1. 0 .. 0 = {0}
  OBVIOUS
<1> QED BY <1>1, SumOfOne DEF UpTo

LEMMA UpToGrows ==
    ASSUME NEW fun, NEW n \in Nat, NEW m \in 0 .. n, \A k \in 0 .. n : fun[k] \in Nat
    PROVE  UpTo(fun, m) \in Nat /\ UpTo(fun, n) \in Nat /\ UpTo(fun, m) <= UpTo(fun, n)
<1> DEFINE bad == {k \in Nat : k \in m .. n /\ ~(UpTo(fun, m) <= UpTo(fun, k))}
<1>1. \A k \in 0 .. n : UpTo(fun, k) \in Nat
  <2> TAKE k \in 0 .. n
  <2>1. IsFiniteSet(0 .. k) /\ \A i \in 0 .. k : fun[i] \in Nat
    BY FS_Interval
  <2> QED BY <2>1, SumIsNat DEF UpTo
<1>2. SUFFICES ASSUME bad # {} PROVE FALSE
  BY <1>1, <1>2
<1>3. PICK least \in bad : \A k \in bad : least <= k
  BY <1>2, NatMinimum
<1>4. least # m
  BY <1>1, <1>3
<1> DEFINE k == least - 1
<1>5. k \in m .. n /\ k \in Nat /\ least = k + 1 /\ k \notin bad
  BY <1>3, <1>4
<1>6. UpTo(fun, m) <= UpTo(fun, k)
  BY <1>5
<1>7. UpTo(fun, k + 1) = UpTo(fun, k) + fun[k + 1] /\ fun[k + 1] \in Nat
  BY <1>3, <1>5, UpToNext
<1>8. UpTo(fun, m) \in Nat /\ UpTo(fun, k) \in Nat
  BY <1>1, <1>5
<1>9. ~(UpTo(fun, m) <= UpTo(fun, k + 1))
  BY <1>3, <1>5
<1> HIDE DEF k
<1> QED BY <1>6, <1>7, <1>8, <1>9

\* Moved by one place, and nothing put first, the values have the same sum.
LEMMA UpToShifted ==
    ASSUME NEW fun, NEW other, NEW n \in Nat, \A k \in 0 .. n : fun[k] \in Nat,
           other[0] = 0, \A k \in 0 .. n : other[k + 1] = fun[k]
    PROVE  UpTo(other, n + 1) = UpTo(fun, n)
<1> DEFINE Same(k) == UpTo(other, k + 1) = UpTo(fun, k)
           bad == {k \in Nat : k <= n /\ ~Same(k)}
<1>1. ASSUME NEW k \in 0 .. n + 1 PROVE other[k] \in Nat
  <2>1. CASE k = 0
    BY <2>1
  <2>2. CASE k # 0
    <3>1. k - 1 \in 0 .. n /\ k = (k - 1) + 1
      BY <2>2
    <3>2. other[(k - 1) + 1] = fun[k - 1]
      BY <3>1
    <3> QED BY <3>1, <3>2
  <2> QED BY <2>1, <2>2
<1>2. Same(0)
  <2>1. UpTo(other, 0 + 1) = UpTo(other, 0) + other[0 + 1]
    BY <1>1, UpToNext
  <2>2. UpTo(other, 0) = 0 /\ UpTo(fun, 0) = fun[0] /\ other[0 + 1] = fun[0] /\ fun[0] \in Nat
    BY UpToFirst
  <2> QED BY <2>1, <2>2
<1>3. ASSUME NEW k \in Nat, k + 1 <= n, Same(k) PROVE Same(k + 1)
  <2>1. /\ UpTo(other, (k + 1) + 1) = UpTo(other, k + 1) + other[(k + 1) + 1]
        /\ UpTo(fun, k + 1) = UpTo(fun, k) + fun[k + 1]
    BY <1>1, <1>3, UpToNext
  <2>2. other[(k + 1) + 1] = fun[k + 1]
    BY <1>3
  <2> QED BY <2>1, <2>2, <1>3
<1> HIDE DEF Same
<1>4. SUFFICES ASSUME bad # {} PROVE FALSE
  BY <1>4 DEF Same
<1>5. PICK least \in bad : \A k \in bad : least <= k
  BY <1>4, NatMinimum
<1>6. least # 0 /\ least - 1 \in Nat /\ least - 1 <= n /\ least = (least - 1) + 1
  BY <1>2, <1>5
<1>7. Same(least - 1)
  BY <1>5, <1>6
<1> QED BY <1>3, <1>5, <1>6, <1>7

-----------------------------------------------------------------------------
(* Sets in an order. *)

\* A strict total order on a set.
IsOrder(before, S) ==
    /\ \A x \in S : <<x, x>> \notin before
    /\ \A x, y \in S : x = y \/ <<x, y>> \in before \/ <<y, x>> \in before
    /\ \A x, y, z \in S : <<x, y>> \in before /\ <<y, z>> \in before => <<x, z>> \in before

\* An element has fewer before it than any that comes later.
LEMMA PrecedingGrows ==
    ASSUME NEW S, IsFiniteSet(S), NEW before, IsOrder(before, S),
           NEW x \in S, NEW y \in S, <<x, y>> \in before
    PROVE  Cardinality(Preceding(x, S, before)) < Cardinality(Preceding(y, S, before))
<1> DEFINE p == Preceding(x, S, before)
           q == Preceding(y, S, before)
<1>1. p \in SUBSET q /\ q \in SUBSET S /\ x \in q /\ x \notin p
  BY DEF IsOrder, Preceding
<1> HIDE DEF p, q
<1>2. IsFiniteSet(q)
  BY <1>1, FS_Subset
<1>3. Cardinality(p) <= Cardinality(q) /\ Cardinality(p) # Cardinality(q) /\ IsFiniteSet(p)
  BY <1>1, <1>2, FS_Subset
<1>4. Cardinality(p) \in Nat /\ Cardinality(q) \in Nat
  BY <1>2, <1>3, FS_CardinalityType
<1> QED
  BY <1>3, <1>4 DEF p, q

\* What InOrder returns: every element once, in the order.
LEMMA InOrderSorts ==
    ASSUME NEW S, IsFiniteSet(S), NEW before, IsOrder(before, S)
    PROVE  /\ Cardinality(S) \in Nat
           /\ InOrder(S, before) \in Seq(S)
           /\ Len(InOrder(S, before)) = Cardinality(S)
           /\ DOMAIN InOrder(S, before) = 1..Cardinality(S)
           /\ \A i, j \in 1..Cardinality(S) :
                <<InOrder(S, before)[i], InOrder(S, before)[j]>> \in before <=> i < j
           /\ \A x \in S : \E i \in 1..Cardinality(S) : InOrder(S, before)[i] = x
<1> DEFINE n == Cardinality(S)
           rank == [x \in S |-> Cardinality(Preceding(x, S, before))]
           s == InOrder(S, before)
<1>1. n \in Nat
  BY FS_CardinalityType
<1>2. ASSUME NEW x \in S
      PROVE  rank[x] \in 0..(n - 1)
  <2> DEFINE p == Preceding(x, S, before)
  <2>1. p \in SUBSET S /\ x \notin p
    BY DEF IsOrder, Preceding
  <2> HIDE DEF p
  <2>2. IsFiniteSet(p) /\ Cardinality(p) <= Cardinality(S) /\ Cardinality(p) # Cardinality(S)
    BY <2>1, FS_Subset
  <2>3. Cardinality(p) \in Nat
    BY <2>2, FS_CardinalityType
  <2>4. rank[x] = Cardinality(p)
    BY DEF p
  <2> QED
    BY <1>1, <2>2, <2>3, <2>4
<1>3. ASSUME NEW x \in S, NEW y \in S
      PROVE  <<x, y>> \in before <=> rank[x] < rank[y]
  <2>1. rank[x] \in Int /\ rank[y] \in Int
    BY <1>1, <1>2
  <2>2. <<x, y>> \in before => rank[x] < rank[y]
    BY PrecedingGrows
  <2>3. <<y, x>> \in before => rank[y] < rank[x]
    BY PrecedingGrows
  <2> HIDE DEF rank
  <2>4. x = y => rank[x] = rank[y]
    OBVIOUS
  <2>5. x = y \/ <<x, y>> \in before \/ <<y, x>> \in before
    BY DEF IsOrder
  <2> QED
    BY <2>1, <2>2, <2>3, <2>4, <2>5
<1>4. rank \in [S -> 0..(n - 1)]
  BY <1>2
<1>d. DOMAIN rank = S
  OBVIOUS
<1>s. s = [k \in 1..n |-> CHOOSE x \in S : rank[x] = k - 1]
  BY DEF InOrder
<1> HIDE DEF rank, n, s
<1>5. rank \in Injection(S, 0..(n - 1))
  <2>1. ASSUME NEW x \in S, NEW y \in S, rank[x] = rank[y]
        PROVE  x = y
    <3>1. x = y \/ <<x, y>> \in before \/ <<y, x>> \in before
      BY DEF IsOrder
    <3>2. rank[x] \in Int /\ rank[y] \in Int
      BY <1>1, <1>4
    <3> QED
      BY <1>3, <2>1, <3>1, <3>2
  <2> QED
    BY <1>4, <1>d, <2>1 DEF Injection, IsInjective
<1>6. IsFiniteSet(0..(n - 1)) /\ Cardinality(0..(n - 1)) = n
  <2>1. 0 \in Int /\ n - 1 \in Int
    BY <1>1
  <2>2. IsFiniteSet(0..(n - 1)) /\ Cardinality(0..(n - 1)) = IF 0 > n - 1 THEN 0 ELSE n - 1 - 0 + 1
    BY <2>1, FS_Interval
  <2> QED
    BY <1>1, <2>2
<1>7. rank \in Surjection(S, 0..(n - 1))
  BY <1>5, <1>6, FS_Injection DEF n
<1>8. \A k \in 0..(n - 1) : \E x \in S : rank[x] = k
  BY <1>7 DEF Surjection
<1>9. \A k \in 1..n : s[k] \in S /\ rank[s[k]] = k - 1
  <2> TAKE k \in 1..n
  <2>1. k - 1 \in 0..(n - 1)
    BY <1>1
  <2>2. \E x \in S : rank[x] = k - 1
    BY <1>8, <2>1
  <2>3. s[k] = CHOOSE x \in S : rank[x] = k - 1
    BY <1>s
  <2> QED
    BY <2>2, <2>3
<1>10. s \in Seq(S) /\ Len(s) = n /\ DOMAIN s = 1..n
  <2>1. s \in [1..n -> S] /\ DOMAIN s = 1..n
    BY <1>s, <1>9
  <2> QED
    BY <1>1, <2>1
<1>11. ASSUME NEW i \in 1..n, NEW j \in 1..n
       PROVE  <<s[i], s[j]>> \in before <=> i < j
  <2>1. s[i] \in S /\ s[j] \in S /\ rank[s[i]] = i - 1 /\ rank[s[j]] = j - 1
    BY <1>9
  <2>2. <<s[i], s[j]>> \in before <=> rank[s[i]] < rank[s[j]]
    BY <1>3, <2>1
  <2> QED
    BY <2>1, <2>2
<1>12. ASSUME NEW x \in S
       PROVE  \E i \in 1..n : s[i] = x
  <2>1. rank[x] \in 0..(n - 1)
    BY <1>4
  <2>2. PICK k \in 1..n : k - 1 = rank[x]
    BY <1>1, <2>1
  <2>3. s[k] \in S /\ rank[s[k]] = rank[x]
    BY <1>9, <2>2
  <2>4. s[k] = x
    BY <1>5, <1>d, <2>3 DEF Injection, IsInjective
  <2> QED
    BY <2>2, <2>4
<1> QED
  BY <1>1, <1>10, <1>11, <1>12 DEF n, s

\* Every element stands somewhere in it.
LEMMA InOrderFinds ==
    ASSUME NEW S, IsFiniteSet(S), NEW before, IsOrder(before, S), NEW x \in S
    PROVE  \E i \in 1..Cardinality(S) : InOrder(S, before)[i] = x
  BY InOrderSorts

\* No element stands twice in it.
LEMMA InOrderOnce ==
    ASSUME NEW S, IsFiniteSet(S), NEW before, IsOrder(before, S),
           NEW i \in 1..Cardinality(S), NEW j \in 1..Cardinality(S),
           InOrder(S, before)[i] = InOrder(S, before)[j]
    PROVE  i = j
<1> DEFINE s == InOrder(S, before)
<1>1. /\ Cardinality(S) \in Nat /\ s \in Seq(S) /\ Len(s) = Cardinality(S)
      /\ <<s[i], s[j]>> \in before <=> i < j
      /\ <<s[j], s[i]>> \in before <=> j < i
  BY InOrderSorts
<1> HIDE DEF s
<1>2. s[i] \in S /\ s[i] = s[j]
  BY <1>1 DEF s
<1>3. <<s[i], s[i]>> \notin before
  BY <1>2 DEF IsOrder
<1> QED
  BY <1>1, <1>2, <1>3

\* The numbers of a finite set, one after another.
LEMMA AscendingSorts ==
    ASSUME NEW S, S \subseteq Int, IsFiniteSet(S)
    PROVE  /\ Cardinality(S) \in Nat
           /\ Ascending(S) \in Seq(S)
           /\ Len(Ascending(S)) = Cardinality(S)
           /\ DOMAIN Ascending(S) = 1..Cardinality(S)
           /\ \A i, j \in 1..Cardinality(S) : Ascending(S)[i] < Ascending(S)[j] <=> i < j
           /\ \A i, j \in 1..Cardinality(S) : Ascending(S)[i] = Ascending(S)[j] => i = j
           /\ \A x \in S : \E i \in 1..Cardinality(S) : Ascending(S)[i] = x
<1> DEFINE before == {pair \in S \X S : pair[1] < pair[2]}
           s == InOrder(S, before)
           n == Cardinality(S)
<1>1. \A x, y \in S : <<x, y>> \in before <=> x < y
  OBVIOUS
<1>2. Ascending(S) = s
  BY DEF Ascending
<1> HIDE DEF before
<1>3. IsOrder(before, S)
  BY <1>1 DEF IsOrder
<1>4. /\ n \in Nat /\ s \in Seq(S) /\ Len(s) = n /\ DOMAIN s = 1..n
      /\ \A i, j \in 1..n : <<s[i], s[j]>> \in before <=> i < j
      /\ \A x \in S : \E i \in 1..n : s[i] = x
  BY <1>3, InOrderSorts
<1>5. \A i, j \in 1..n : s[i] = s[j] => i = j
  BY <1>3, InOrderOnce
<1> HIDE DEF s, n
<1>6. \A i, j \in 1..n : s[i] < s[j] <=> i < j
  <2>1. \A i \in 1..n : s[i] \in S
    BY <1>4
  <2> QED
    BY <1>1, <1>4, <2>1
<1> QED
  BY <1>2, <1>4, <1>5, <1>6 DEF n

-----------------------------------------------------------------------------
(* Sequences, and what Picks leaves of them. *)

LEMMA ListIs ==
    ASSUME NEW s, IsList(s)
    PROVE  /\ Len(s) \in Nat /\ DOMAIN s = 1..Len(s)
           /\ s = [i \in 1..Len(s) |-> s[i]]
           /\ ToSet(s) = {s[i] : i \in 1..Len(s)}
<1>1. s \in Seq(ToSet(s))
  BY DEF IsList
<1>2. Len(s) \in Nat /\ DOMAIN s = 1..Len(s) /\ s = [i \in 1..Len(s) |-> s[i]]
  BY <1>1
<1> QED
  BY <1>2 DEF ToSet

LEMMA ListMade ==
    ASSUME NEW n \in Nat, NEW s, s = [i \in 1..n |-> s[i]]
    PROVE  IsList(s) /\ Len(s) = n /\ DOMAIN s = 1..n
<1> DEFINE T == ToSet(s)
<1>1. DOMAIN s = 1..n /\ \A i \in 1..n : s[i] \in T
  BY DEF ToSet
<1> HIDE DEF T
<1>2. s \in [1..n -> T]
  BY <1>1
<1>3. s \in Seq(T)
  BY <1>2
<1>4. Len(s) = n
  BY <1>1, <1>3
<1> QED
  BY <1>1, <1>3, <1>4 DEF IsList, T

LEMMA ListTyped ==
    ASSUME NEW T, NEW s \in Seq(T)
    PROVE  IsList(s)
<1>1. Len(s) \in Nat /\ s = [i \in 1..Len(s) |-> s[i]]
  OBVIOUS
<1> QED
  BY <1>1, ListMade

LEMMA InSeq ==
    ASSUME NEW T, NEW s \in Seq(T)
    PROVE  Len(s) \in Nat /\ \A i \in 1..Len(s) : s[i] \in T
  OBVIOUS

\* Picks leaves those at the given positions, in their order.
PicksFrom(p, s, P, at) ==
    /\ IsList(p) /\ Len(p) = Len(at) /\ Len(at) \in Nat
    /\ \A k \in 1..Len(p) : \E i \in P : i = at[k] /\ p[k] = s[i]
    /\ \A k, l \in 1..Len(p) : at[k] < at[l] <=> k < l
    /\ \A i \in P : \E k \in 1..Len(p) : at[k] = i

LEMMA PicksAre ==
    ASSUME NEW s, IsList(s), NEW P, P \subseteq 1..Len(s)
    PROVE  PicksFrom(Picks(s, P), s, P, Ascending(P))
<1> DEFINE p == Picks(s, P)
           at == Ascending(P)
           n == Cardinality(P)
<1>1. Len(s) \in Nat
  BY ListIs
<1>2. P \subseteq Int /\ IsFiniteSet(P)
  <2>1. IsFiniteSet(1..Len(s))
    BY <1>1, FS_Interval
  <2>2. P \in SUBSET (1..Len(s)) /\ P \subseteq Int
    BY <1>1
  <2>3. IsFiniteSet(P)
    BY <2>1, <2>2, FS_Subset
  <2> QED
    BY <2>2, <2>3
<1>3. /\ n \in Nat /\ at \in Seq(P) /\ Len(at) = n /\ DOMAIN at = 1..n
      /\ \A i, j \in 1..n : at[i] < at[j] <=> i < j
      /\ \A i \in P : \E k \in 1..n : at[k] = i
  BY <1>2, AscendingSorts
<1>4. p = [k \in 1..n |-> s[at[k]]]
  BY <1>3 DEF Picks
<1> HIDE DEF p, at, n
<1>5. p = [k \in 1..n |-> p[k]]
  BY <1>4
<1>6. IsList(p) /\ Len(p) = n
  BY <1>3, <1>5, ListMade
<1>7. \A k \in 1..n : at[k] \in P
  BY <1>3
<1>8. \A k \in 1..n : p[k] = s[at[k]]
  BY <1>4
<1>9. \A k \in 1..n : \E i \in P : i = at[k] /\ p[k] = s[i]
  BY <1>7, <1>8
<1> QED
  BY <1>3, <1>6, <1>9 DEF PicksFrom, p, at
=============================================================================
