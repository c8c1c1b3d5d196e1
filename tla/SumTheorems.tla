------------------------------ MODULE SumTheorems ------------------------------
(***************************************************************************)
(* What the sum of a function over a finite set is, from the definition of *)
(* MapThenSumSet: it follows one element being changed, added or removed,  *)
(* in whatever order the elements are chosen.  MaxGuard sums the tokens of *)
(* reservations, QualityJudge the cost of evaluations.  The same of a fold *)
(* over a finite set in general, for StreamTranslation.                    *)
(***************************************************************************)
EXTENDS Integers, FiniteSetsExt, FiniteSetTheorems, WellFoundedInduction, TLAPS

SumOf(f, S) == MapThenSumSet(LAMBDA x : f[x], S)

Picked(s) == CHOOSE x \in s : TRUE

\* The sums of all subsets, each from a smaller one.
TallyOf(f, g, s) == IF s = {} THEN 0 ELSE f[Picked(s)] + g[s \ {Picked(s)}]
IsTally(f, S, g) == g = [s \in SUBSET S |-> TallyOf(f, g, s)]
Tally(f, S) == CHOOSE g : IsTally(f, S, g)

\* The definition of MapThenSumSet in these terms.
LEMMA SumIsTally == ASSUME NEW f, NEW S PROVE SumOf(f, S) = Tally(f, S)[S]
BY DEF SumOf, MapThenSumSet, MapThenFoldSet, Tally, TallyOf, IsTally, Picked

\* A nonempty set of natural numbers has a least one.
LEMMA LeastNatural ==
  ASSUME NEW N \in SUBSET Nat, N # {}
  PROVE  \E k \in N : \A l \in N : k <= l
<1>1. PICK k \in N : \A l \in N : ~ (<<l, k>> \in OpToRel(<, Nat))
  BY NatLessThanWellFounded, WFMin
<1>2. \A l \in N : ~ (l < k)
  BY <1>1 DEF OpToRel
<1> QED
  BY <1>2

\* A set of numbers that holds 0 and with every number the next one holds them all.
LEMMA Induction ==
  ASSUME NEW N \in SUBSET Nat, 0 \in N, \A n \in N : n + 1 \in N
  PROVE  N = Nat
<1> SUFFICES ASSUME Nat \ N # {} PROVE FALSE
  OBVIOUS
<1>1. PICK k \in Nat \ N : \A l \in Nat \ N : k <= l
  BY LeastNatural
<1>2. k # 0 /\ k - 1 \in Nat
  BY <1>1
<1>3. k - 1 \in N
  BY <1>1, <1>2
<1>4. (k - 1) + 1 = k
  BY <1>2
<1> QED BY <1>1, <1>3, <1>4

\* Among subsets of a finite set there is one of the least size.
LEMMA SmallestSubset ==
  ASSUME NEW S, IsFiniteSet(S), NEW B \in SUBSET SUBSET S, B # {}
  PROVE  \E s \in B : \A t \in B : Cardinality(s) <= Cardinality(t)
<1> DEFINE N == {Cardinality(s) : s \in B}
<1>1. \A s \in B : Cardinality(s) \in Nat
  BY FS_Subset, FS_CardinalityType
<1>2. N \in SUBSET Nat /\ N # {}
  BY <1>1
<1>3. PICK k \in N : \A l \in N : k <= l
  <2> HIDE DEF N
  <2> QED BY <1>2, LeastNatural
<1> QED BY <1>3

\* The element picked, and what is left, are smaller.
LEMMA PickedIn ==
  ASSUME NEW S, IsFiniteSet(S), NEW s \in SUBSET S, NEW x \in s
  PROVE  /\ Picked(s) \in s
         /\ s \ {x} \in SUBSET S
         /\ Cardinality(s) \in Nat
         /\ Cardinality(s \ {x}) = Cardinality(s) - 1
         /\ Cardinality(s \ {x}) \in Nat
<1>1. Picked(s) \in s
  BY DEF Picked
<1>2. IsFiniteSet(s)
  BY FS_Subset
<1> QED BY <1>1, <1>2, FS_RemoveElement, FS_CardinalityType

\* A finite set of natural numbers has a largest one.
THEOREM MaxIsLargest ==
  ASSUME NEW S \in SUBSET Nat, IsFiniteSet(S), S # {}
  PROVE  Max(S) \in S /\ \A y \in S : Max(S) >= y
<1> DEFINE Has(u) == \E m \in u : \A y \in u : m >= y
           B == {u \in SUBSET S : u # {} /\ ~Has(u)}
<1> SUFFICES Has(S)
  BY DEF Max
<1> SUFFICES ASSUME B # {} PROVE FALSE
  OBVIOUS
<1>1. PICK u \in B : \A t \in B : Cardinality(u) <= Cardinality(t)
  BY SmallestSubset
<1>2. PICK x : x \in u
  BY <1>1
<1> DEFINE v == u \ {x}
<1>3. v \in SUBSET S /\ Cardinality(v) = Cardinality(u) - 1 /\ Cardinality(u) \in Nat
  BY <1>2, PickedIn
<1>4. v \notin B
  <2> HIDE DEF v, B
  <2> QED BY <1>1, <1>3
<1>5. u \in SUBSET Nat /\ ~Has(u)
  BY <1>1
<1>6. CASE v = {}
  <2>1. u = {x} /\ x \in Nat
    BY <1>2, <1>5, <1>6
  <2>2. x \in u /\ \A y \in u : x >= y
    BY <2>1
  <2> QED BY <1>5, <2>2
<1>7. CASE v # {}
  <2>1. PICK m \in v : \A y \in v : m >= y
    BY <1>3, <1>4, <1>7
  <2>2. u = v \union {x} /\ x \in Nat /\ m \in Nat /\ v \subseteq Nat
    BY <1>2, <1>5
  <2>3. Has(u)
    <3> HIDE DEF v, B
    <3>1. CASE x >= m
      <4>1. \A y \in u : x >= y
        BY <2>1, <2>2, <3>1
      <4> QED BY <1>2, <4>1
    <3>2. CASE ~(x >= m)
      <4>1. \A y \in u : m >= y
        BY <2>1, <2>2, <3>2
      <4> QED BY <2>1, <2>2, <4>1
    <3> QED BY <3>1, <3>2
  <2> QED BY <1>5, <2>3
<1> QED BY <1>6, <1>7

\* A tally exists: it is built for larger and larger subsets.
LEMMA TallyExists ==
  ASSUME NEW f, NEW S, IsFiniteSet(S)
  PROVE  IsTally(f, S, Tally(f, S))
<1> DEFINE UpTo(n, g) == /\ DOMAIN g = SUBSET S /\ g = [s \in SUBSET S |-> g[s]]
                         /\ \A s \in SUBSET S : Cardinality(s) <= n => g[s] = TallyOf(f, g, s)
           N == {n \in Nat : \E g : UpTo(n, g)}
<1>1. \A s \in SUBSET S : /\ Cardinality(s) \in Nat
                          /\ s # {} => /\ Picked(s) \in s /\ s \ {Picked(s)} \in SUBSET S
                                       /\ Cardinality(s \ {Picked(s)}) = Cardinality(s) - 1
                          /\ Cardinality(s) = 0 => s = {}
  <2> TAKE s \in SUBSET S
  <2>1. IsFiniteSet(s) /\ Cardinality(s) \in Nat
    BY FS_Subset, FS_CardinalityType
  <2>2. Cardinality(s) = 0 => s = {}
    BY <2>1, FS_EmptySet
  <2>3. s # {} => Picked(s) \in s
    BY DEF Picked
  <2> QED BY <2>1, <2>2, <2>3, PickedIn
<1>2. 0 \in N
  <2> DEFINE g == [s \in SUBSET S |-> 0]
  <2>1. \A s \in SUBSET S : Cardinality(s) <= 0 => g[s] = TallyOf(f, g, s)
    <3>1. ASSUME NEW s \in SUBSET S, Cardinality(s) <= 0 PROVE s = {}
      <4>1. Cardinality(s) \in Nat /\ (Cardinality(s) = 0 => s = {})
        BY <1>1
      <4> HIDE DEF UpTo, N, g
      <4> QED BY <3>1, <4>1
    <3> QED BY <3>1 DEF TallyOf
  <2>2. UpTo(0, g)
    BY <2>1
  <2> QED BY <2>2
<1>3. ASSUME NEW n \in N PROVE n + 1 \in N
  <2>1. PICK g : UpTo(n, g)
    OBVIOUS
  <2> DEFINE h == [s \in SUBSET S |-> IF Cardinality(s) <= n THEN g[s] ELSE TallyOf(f, g, s)]
  <2>2. n \in Nat
    OBVIOUS
  <2>3. DOMAIN h = SUBSET S /\ h = [s \in SUBSET S |-> h[s]]
    OBVIOUS
  <2>4. ASSUME NEW s \in SUBSET S, Cardinality(s) <= n + 1
        PROVE  h[s] = TallyOf(f, h, s)
    <3>1. h[s] = TallyOf(f, g, s)
      BY <2>1
    <3>2. s # {} => h[s \ {Picked(s)}] = g[s \ {Picked(s)}]
      <4> SUFFICES ASSUME s # {} PROVE h[s \ {Picked(s)}] = g[s \ {Picked(s)}]
        OBVIOUS
      <4>1. s \ {Picked(s)} \in SUBSET S /\ Cardinality(s \ {Picked(s)}) = Cardinality(s) - 1
            /\ Cardinality(s) \in Nat
        BY <1>1
      <4>2. Cardinality(s \ {Picked(s)}) <= n
        BY <2>2, <2>4, <4>1
      <4> QED BY <4>1, <4>2
    <3> HIDE DEF h
    <3> QED BY <3>1, <3>2 DEF TallyOf
  <2>5. UpTo(n + 1, h)
    <3> HIDE DEF h
    <3> QED BY <2>3, <2>4
  <2> HIDE DEF h, UpTo
  <2> QED BY <2>2, <2>5
<1>4. N = Nat
  <2> HIDE DEF N
  <2>1. N \in SUBSET Nat
    BY DEF N
  <2> QED BY <1>2, <1>3, <2>1, Induction
<1>5. Cardinality(S) \in Nat /\ \A s \in SUBSET S : Cardinality(s) <= Cardinality(S)
  BY FS_CardinalityType, FS_Subset
<1>6. PICK g : UpTo(Cardinality(S), g)
  BY <1>4, <1>5
<1>7. IsTally(f, S, g)
  BY <1>5, <1>6 DEF IsTally
<1> QED BY <1>7 DEF Tally

\* Its values.
LEMMA TallyValues ==
  ASSUME NEW f, NEW S, IsFiniteSet(S), NEW s \in SUBSET S
  PROVE  Tally(f, S)[s] = TallyOf(f, Tally(f, S), s)
<1> DEFINE g == Tally(f, S)
<1>1. IsTally(f, S, g)
  BY TallyExists
<1> HIDE DEF g
<1>2. g = [u \in SUBSET S |-> TallyOf(f, g, u)]
  BY <1>1 DEF IsTally
<1>3. g[s] = TallyOf(f, g, s)
  BY <1>2
<1> QED BY <1>3 DEF g

\* They are numbers, and natural ones if the function's are.
LEMMA TallyIsNumber ==
  ASSUME NEW S, IsFiniteSet(S), NEW f, \A x \in S : f[x] \in Nat, NEW s \in SUBSET S
  PROVE  Tally(f, S)[s] \in Nat
<1> DEFINE g == Tally(f, S)
           B == {u \in SUBSET S : g[u] \notin Nat}
<1>1. \A u \in SUBSET S : g[u] = TallyOf(f, g, u)
  BY TallyValues
<1> HIDE DEF g
<1> SUFFICES ASSUME B # {} PROVE FALSE
  BY DEF g
<1>2. PICK u \in B : \A t \in B : Cardinality(u) <= Cardinality(t)
  BY SmallestSubset
<1>3. u # {}
  <2>1. TallyOf(f, g, {}) = 0 /\ {} \in SUBSET S
    BY DEF TallyOf
  <2>2. g[{}] \in Nat
    BY <1>1, <2>1
  <2> QED BY <1>2, <2>2
<1>4. Picked(u) \in u
  BY <1>3 DEF Picked
<1>5. /\ u \ {Picked(u)} \in SUBSET S
      /\ Cardinality(u) \in Nat
      /\ Cardinality(u \ {Picked(u)}) = Cardinality(u) - 1
  BY <1>4, PickedIn
<1>6. u \ {Picked(u)} \notin B
  BY <1>2, <1>5
<1>7. g[u] = f[Picked(u)] + g[u \ {Picked(u)}]
  BY <1>1, <1>3 DEF TallyOf
<1> QED BY <1>4, <1>5, <1>6, <1>7

\* A tally of a part of the set agrees with the whole one's.
LEMMA TallyOfPart ==
  ASSUME NEW f, NEW S, IsFiniteSet(S), NEW T \in SUBSET S, NEW s \in SUBSET T
  PROVE  Tally(f, T)[s] = Tally(f, S)[s]
<1> DEFINE g == Tally(f, S)
           h == Tally(f, T)
           B == {u \in SUBSET T : h[u] # g[u]}
<1>0. IsFiniteSet(T)
  BY FS_Subset
<1>1. \A u \in SUBSET T : g[u] = TallyOf(f, g, u) /\ h[u] = TallyOf(f, h, u)
  BY <1>0, TallyValues
<1> HIDE DEF g, h
<1> SUFFICES ASSUME B # {} PROVE FALSE
  BY DEF g, h
<1>2. PICK u \in B : \A t \in B : Cardinality(u) <= Cardinality(t)
  BY <1>0, SmallestSubset
<1>3. u # {}
  BY <1>1 DEF TallyOf
<1>4. Picked(u) \in u
  BY <1>3 DEF Picked
<1>5. /\ u \ {Picked(u)} \in SUBSET T
      /\ Cardinality(u) \in Nat
      /\ Cardinality(u \ {Picked(u)}) = Cardinality(u) - 1
  BY <1>0, <1>4, PickedIn
<1>6. u \ {Picked(u)} \notin B
  BY <1>2, <1>5
<1>7. h[u] = g[u]
  BY <1>1, <1>3, <1>5, <1>6 DEF TallyOf
<1> QED BY <1>7

\* The order of choice does not matter: any element may be taken out.
LEMMA TallyWithout ==
  ASSUME NEW S, IsFiniteSet(S), NEW f, \A x \in S : f[x] \in Nat,
         NEW s \in SUBSET S, NEW x \in s
  PROVE  Tally(f, S)[s] = f[x] + Tally(f, S)[s \ {x}]
<1> DEFINE g == Tally(f, S)
           B == {u \in SUBSET S : \E y \in u : g[u] # f[y] + g[u \ {y}]}
<1>1. \A u \in SUBSET S : g[u] = TallyOf(f, g, u) /\ g[u] \in Nat
  BY TallyValues, TallyIsNumber
<1> HIDE DEF g
<1> SUFFICES ASSUME B # {} PROVE FALSE
  BY DEF g
<1>2. PICK u \in B : \A t \in B : Cardinality(u) <= Cardinality(t)
  BY SmallestSubset
<1>3. PICK y \in u : g[u] # f[y] + g[u \ {y}]
  BY <1>2
<1> DEFINE z == Picked(u)
<1>4. z \in u
  BY DEF Picked
<1> HIDE DEF z
<1>5. /\ u \ {y} \in SUBSET S /\ u \ {z} \in SUBSET S
      /\ Cardinality(u) \in Nat
      /\ Cardinality(u \ {y}) = Cardinality(u) - 1
      /\ Cardinality(u \ {z}) = Cardinality(u) - 1
  BY <1>4, PickedIn
<1>6. g[u] = f[z] + g[u \ {z}]
  BY <1>1, <1>4 DEF TallyOf, z
<1>7. y # z
  BY <1>3, <1>6
<1>8. u \ {y} \notin B /\ u \ {z} \notin B
  <2> HIDE DEF B
  <2>1. ASSUME NEW t \in B, Cardinality(t) = Cardinality(u) - 1 PROVE FALSE
    <3>1. Cardinality(u) <= Cardinality(t)
      BY <1>2
    <3> QED BY <1>5, <2>1, <3>1
  <2> QED BY <1>5, <2>1
<1>9. g[u \ {z}] = f[y] + g[(u \ {z}) \ {y}]
  BY <1>5, <1>7, <1>8
<1>10. g[u \ {y}] = f[z] + g[(u \ {y}) \ {z}]
  BY <1>4, <1>5, <1>7, <1>8
<1>11. (u \ {z}) \ {y} = (u \ {y}) \ {z} /\ (u \ {z}) \ {y} \in SUBSET S
  BY <1>5
<1>12. f[y] \in Nat /\ f[z] \in Nat /\ g[(u \ {z}) \ {y}] \in Nat
  BY <1>1, <1>4, <1>11
<1> DEFINE rest == g[(u \ {z}) \ {y}]
<1>13. /\ g[u] = f[z] + (f[y] + rest) /\ g[u \ {y}] = f[z] + rest
       /\ rest \in Nat
  BY <1>6, <1>9, <1>10, <1>11, <1>12
<1> HIDE DEF rest, B
<1>14. g[u] = f[y] + g[u \ {y}]
  BY <1>12, <1>13
<1> QED BY <1>3, <1>14

-----------------------------------------------------------------------------

\* A sum of natural numbers is one; that of nothing is 0; it splits at any element.
THEOREM SumProperties ==
  ASSUME NEW S, IsFiniteSet(S), NEW f, \A x \in S : f[x] \in Nat
  PROVE  /\ SumOf(f, S) \in Nat
         /\ S = {} => SumOf(f, S) = 0
         /\ \A x \in S : SumOf(f, S) = f[x] + SumOf(f, S \ {x})
<1>1. SumOf(f, S) = Tally(f, S)[S] /\ Tally(f, S)[S] \in Nat
  BY SumIsTally, TallyIsNumber
<1>2. S = {} => Tally(f, S)[S] = 0
  BY TallyValues DEF TallyOf
<1>3. ASSUME NEW x \in S PROVE SumOf(f, S) = f[x] + SumOf(f, S \ {x})
  <2>1. Tally(f, S)[S] = f[x] + Tally(f, S)[S \ {x}]
    BY TallyWithout
  <2>2. Tally(f, S \ {x})[S \ {x}] = Tally(f, S)[S \ {x}]
    BY TallyOfPart
  <2> QED BY <1>1, <2>1, <2>2, SumIsTally
<1> QED BY <1>1, <1>2, <1>3

\* A sum depends on the function's values only, and is monotonic in them.
THEOREM SumMonotonic ==
  ASSUME NEW S, IsFiniteSet(S), NEW f, NEW g,
         \A x \in S : f[x] \in Nat /\ g[x] \in Nat /\ f[x] <= g[x]
  PROVE  SumOf(f, S) <= SumOf(g, S)
<1> DEFINE B == {u \in SUBSET S : ~(SumOf(f, u) <= SumOf(g, u))}
<1> SUFFICES ASSUME B # {} PROVE FALSE
  OBVIOUS
<1>1. PICK u \in B : \A t \in B : Cardinality(u) <= Cardinality(t)
  BY SmallestSubset
<1>2. IsFiniteSet(u)
  BY FS_Subset
<1>3. u # {}
  <2>1. u = {} => SumOf(f, u) = 0 /\ SumOf(g, u) = 0
    BY <1>2, SumProperties
  <2> QED BY <1>1, <2>1
<1>4. PICK x : x \in u
  BY <1>3
<1> DEFINE v == u \ {x}
<1>5. v \in SUBSET S /\ Cardinality(v) = Cardinality(u) - 1 /\ Cardinality(u) \in Nat
  BY <1>4, PickedIn
<1>6. v \notin B
  BY <1>1, <1>5
<1>7. SumOf(f, u) = f[x] + SumOf(f, v) /\ SumOf(g, u) = g[x] + SumOf(g, v)
  BY <1>2, <1>4, SumProperties
<1>8. IsFiniteSet(v) /\ SumOf(f, v) \in Nat /\ SumOf(g, v) \in Nat
  <2>1. IsFiniteSet(v)
    BY <1>5, FS_Subset
  <2> QED BY <1>5, <2>1, SumProperties
<1>9. f[x] \in Nat /\ g[x] \in Nat /\ f[x] <= g[x]
  BY <1>4
<1> HIDE DEF v
<1>10. SumOf(f, v) <= SumOf(g, v)
  BY <1>5, <1>6
<1>11. ~(SumOf(f, u) <= SumOf(g, u))
  BY <1>1
<1> HIDE DEF B
<1> QED BY <1>7, <1>8, <1>9, <1>10, <1>11

\* A sum of values that two others make up is no more than their sums.
THEOREM SumOfTwo ==
  ASSUME NEW S, IsFiniteSet(S), NEW f, NEW g, NEW h,
         \A x \in S : f[x] \in Nat /\ g[x] \in Nat /\ h[x] \in Nat /\ h[x] <= f[x] + g[x]
  PROVE  SumOf(h, S) <= SumOf(f, S) + SumOf(g, S)
<1> DEFINE B == {u \in SUBSET S : ~(SumOf(h, u) <= SumOf(f, u) + SumOf(g, u))}
<1> SUFFICES ASSUME B # {} PROVE FALSE
  OBVIOUS
<1>1. PICK u \in B : \A t \in B : Cardinality(u) <= Cardinality(t)
  BY SmallestSubset
<1>2. IsFiniteSet(u)
  BY FS_Subset
<1>3. u # {}
  <2>1. u = {} => SumOf(f, u) = 0 /\ SumOf(g, u) = 0 /\ SumOf(h, u) = 0
    BY <1>2, SumProperties
  <2> QED BY <1>1, <2>1
<1>4. PICK x : x \in u
  BY <1>3
<1> DEFINE v == u \ {x}
<1>5. v \in SUBSET S /\ Cardinality(v) = Cardinality(u) - 1 /\ Cardinality(u) \in Nat
  BY <1>4, PickedIn
<1>6. v \notin B
  BY <1>1, <1>5
<1>7. /\ SumOf(f, u) = f[x] + SumOf(f, v)
      /\ SumOf(g, u) = g[x] + SumOf(g, v)
      /\ SumOf(h, u) = h[x] + SumOf(h, v)
  BY <1>2, <1>4, SumProperties
<1>8. SumOf(f, v) \in Nat /\ SumOf(g, v) \in Nat /\ SumOf(h, v) \in Nat
  <2>1. IsFiniteSet(v)
    BY <1>5, FS_Subset
  <2> QED BY <1>5, <2>1, SumProperties
<1>9. f[x] \in Nat /\ g[x] \in Nat /\ h[x] \in Nat /\ h[x] <= f[x] + g[x]
  BY <1>4
<1> HIDE DEF v
<1>10. SumOf(h, v) <= SumOf(f, v) + SumOf(g, v)
  BY <1>5, <1>6
<1>11. ~(SumOf(h, u) <= SumOf(f, u) + SumOf(g, u))
  BY <1>1
<1> HIDE DEF B
<1> QED BY <1>7, <1>8, <1>9, <1>10, <1>11

\* A sum depends on nothing but the values in the set.
THEOREM SumAgrees ==
  ASSUME NEW S, IsFiniteSet(S), NEW f, NEW g, \A x \in S : f[x] \in Nat /\ g[x] = f[x]
  PROVE  SumOf(f, S) = SumOf(g, S)
<1>1. SumOf(f, S) <= SumOf(g, S) /\ SumOf(g, S) <= SumOf(f, S)
  BY SumMonotonic
<1>2. SumOf(f, S) \in Nat /\ SumOf(g, S) \in Nat
  BY SumProperties
<1> QED BY <1>1, <1>2

\* The sum of one number, as often as there are elements.
THEOREM SumOfConstant ==
  ASSUME NEW S, IsFiniteSet(S), NEW f, NEW k \in Nat, \A x \in S : f[x] = k
  PROVE  SumOf(f, S) = k * Cardinality(S)
<1> DEFINE B == {u \in SUBSET S : SumOf(f, u) # k * Cardinality(u)}
<1> SUFFICES ASSUME B # {} PROVE FALSE
  BY FS_Subset
<1>1. PICK u \in B : \A t \in B : Cardinality(u) <= Cardinality(t)
  BY SmallestSubset
<1>2. IsFiniteSet(u) /\ \A x \in u : f[x] \in Nat
  BY FS_Subset
<1>3. u # {}
  <2>1. u = {} => SumOf(f, u) = 0 /\ Cardinality(u) = 0
    BY <1>2, SumProperties, FS_EmptySet
  <2>2. k * 0 = 0
    OBVIOUS
  <2> QED BY <2>1, <2>2
<1>4. PICK x : x \in u
  BY <1>3
<1> DEFINE v == u \ {x}
<1>5. v \in SUBSET S /\ Cardinality(v) = Cardinality(u) - 1 /\ Cardinality(u) \in Nat
      /\ Cardinality(v) \in Nat
  BY <1>4, PickedIn
<1>6. v \notin B
  <2> HIDE DEF v, B
  <2> QED BY <1>1, <1>5
<1>7. SumOf(f, u) = f[x] + SumOf(f, v)
  BY <1>2, <1>4, SumProperties
<1>8. SumOf(f, v) = k * Cardinality(v) /\ f[x] = k
  BY <1>4, <1>5, <1>6
<1> HIDE DEF v
<1>9. SumOf(f, u) = k * Cardinality(u)
  <2> DEFINE m == Cardinality(v)
             n == Cardinality(u)
  <2>1. m \in Nat /\ n = m + 1 /\ SumOf(f, u) = k + k * m
    BY <1>5, <1>7, <1>8
  <2> HIDE DEF m, n
  <2>2. k * (m + 1) = k + k * m
    BY <2>1
  <2>3. SumOf(f, u) = k * n
    BY <2>1, <2>2
  <2> QED BY <2>3 DEF n
<1> QED BY <1>1, <1>9

\* It changes by what one value changes.
THEOREM SumChanges ==
  ASSUME NEW S, IsFiniteSet(S), NEW f, NEW g, NEW x \in S,
         \A y \in S : f[y] \in Nat /\ g[y] \in Nat /\ (y # x => g[y] = f[y])
  PROVE  SumOf(g, S) = SumOf(f, S) - f[x] + g[x]
<1> DEFINE rest == S \ {x}
<1>1. SumOf(f, S) = f[x] + SumOf(f, rest) /\ SumOf(g, S) = g[x] + SumOf(g, rest)
  BY SumProperties
<1>2. IsFiniteSet(rest)
  BY FS_RemoveElement
<1>3. SumOf(f, rest) = SumOf(g, rest) /\ SumOf(f, rest) \in Nat
  BY <1>2, SumAgrees, SumProperties
<1>4. f[x] \in Nat /\ g[x] \in Nat
  OBVIOUS
<1> HIDE DEF rest
<1> QED BY <1>1, <1>3, <1>4

\* The sum over a part is that of the function which is 0 elsewhere.
Only(f, S, T) == [x \in S |-> IF x \in T THEN f[x] ELSE 0]

THEOREM SumOfPart ==
  ASSUME NEW S, IsFiniteSet(S), NEW f, \A x \in S : f[x] \in Nat, NEW T \in SUBSET S
  PROVE  SumOf(f, T) = SumOf(Only(f, S, T), S)
<1> DEFINE w == Only(f, S, T)
           B == {u \in SUBSET S : SumOf(f, u \intersect T) # SumOf(w, u)}
<1>1. \A x \in S : w[x] = (IF x \in T THEN f[x] ELSE 0) /\ w[x] \in Nat
  BY DEF Only
<1> HIDE DEF w
<1>2. B = {}
  <2> SUFFICES ASSUME B # {} PROVE FALSE
    OBVIOUS
  <2>1. PICK u \in B : \A t \in B : Cardinality(u) <= Cardinality(t)
    BY SmallestSubset
  <2> DEFINE v == u \intersect T
  <2>2. IsFiniteSet(u) /\ IsFiniteSet(v) /\ u \in SUBSET S /\ v \in SUBSET S
    BY FS_Subset
  <2>3. u # {}
    <3>1. u = {} => SumOf(f, v) = 0 /\ SumOf(w, u) = 0
      BY <2>2, SumProperties
    <3> QED BY <2>1, <3>1
  <2>4. PICK x : x \in u
    BY <2>3
  <2> DEFINE less == u \ {x}
             part == less \intersect T
  <2>5. less \in SUBSET S /\ Cardinality(less) = Cardinality(u) - 1 /\ Cardinality(u) \in Nat
    BY <2>4, PickedIn
  <2>6. SumOf(f, part) = SumOf(w, less)
    BY <2>1, <2>5
  <2>7. IsFiniteSet(part) /\ IsFiniteSet(less) /\ part \in SUBSET S
    BY <2>5, FS_Subset
  <2>8. SumOf(w, u) = w[x] + SumOf(w, less) /\ SumOf(w, less) \in Nat
    BY <1>1, <2>2, <2>4, <2>5, <2>7, SumProperties
  <2>9. SumOf(f, v) = w[x] + SumOf(f, part)
    <3>1. CASE x \in T
      <4>1. x \in v /\ v \ {x} = part
        BY <2>4, <3>1
      <4>2. SumOf(f, v) = f[x] + SumOf(f, v \ {x})
        <5> HIDE DEF v
        <5> QED BY <2>2, <4>1, SumProperties
      <4> QED BY <1>1, <2>2, <2>4, <3>1, <4>1, <4>2
    <3>2. CASE x \notin T
      <4>1. v = part
        BY <3>2
      <4>2. w[x] = 0
        BY <1>1, <2>2, <2>4, <3>2
      <4>3. SumOf(f, part) \in Nat
        <5> HIDE DEF part
        <5> QED BY <2>7, SumProperties
      <4> HIDE DEF v, part
      <4> QED BY <4>1, <4>2, <4>3
    <3> QED BY <3>1, <3>2
  <2> HIDE DEF less, part
  <2>10. SumOf(f, v) = SumOf(w, u)
    BY <2>6, <2>8, <2>9
  <2> QED BY <2>1, <2>10
<1>3. SumOf(f, S \intersect T) = SumOf(w, S)
  BY <1>2
<1>4. S \intersect T = T
  OBVIOUS
<1> QED BY <1>3, <1>4 DEF w

-----------------------------------------------------------------------------
(* A fold over the subsets of a finite set.                                *)

\* pick takes an element of every subset of S that has one.
Picks(pick, S) == \A s \in SUBSET S : s # {} => pick[s] \in s
GrowsBy(pick, S, B) == {} \in B /\ \A s \in SUBSET S : s # {} /\ s \ {pick[s]} \in B => s \in B

\* What holds of the empty set, and of every set if it holds of what is left when one element is
\* picked from it, holds of all finite sets.
LEMMA SubsetInduction ==
  ASSUME NEW S, IsFiniteSet(S), NEW pick, Picks(pick, S),
         NEW B \in SUBSET SUBSET S, GrowsBy(pick, S, B)
  PROVE  B = SUBSET S
<1> DEFINE C == (SUBSET S) \ B
<1> SUFFICES ASSUME C # {} PROVE FALSE
  OBVIOUS
<1>1. PICK s \in C : \A t \in C : Cardinality(s) <= Cardinality(t)
  <2>1. C \in SUBSET SUBSET S
    OBVIOUS
  <2> HIDE DEF C
  <2> QED BY <2>1, SmallestSubset
<1>2. s \in SUBSET S /\ s # {} /\ pick[s] \in s
  BY DEF Picks, GrowsBy
<1> DEFINE t == s \ {pick[s]}
<1>3. /\ t \in SUBSET S /\ Cardinality(s) \in Nat /\ Cardinality(t) = Cardinality(s) - 1
      /\ Cardinality(t) \in Nat
  <2>1. IsFiniteSet(s) /\ Cardinality(s) \in Nat /\ Cardinality(t) \in Nat
    BY <1>2, FS_Subset, FS_CardinalityType
  <2>2. Cardinality(s \ {pick[s]}) = Cardinality(s) - 1
    BY <1>2, <2>1, FS_RemoveElement
  <2> QED BY <1>2, <2>1, <2>2
<1>4. t \notin C
  <2> HIDE DEF C, t
  <2> QED BY <1>1, <1>3
<1>5. s \in B
  BY <1>2, <1>3, <1>4 DEF GrowsBy
<1> QED BY <1>5

\* A fold over the subsets of a finite set: what st makes of the value for a smaller one.
FoldOf(st, base, pick, g, s) == IF s = {} THEN base ELSE st[pick[s]][g[s \ {pick[s]}]]

IsFold(st, base, pick, S, g) == g = [s \in SUBSET S |-> FoldOf(st, base, pick, g, s)]

\* There is such a function of the subsets.
LEMMA FoldExists ==
  ASSUME NEW st, NEW base, NEW S, IsFiniteSet(S),
         NEW pick, Picks(pick, S)
  PROVE  \E g : IsFold(st, base, pick, S, g)
<1> DEFINE Until(n, g) == /\ g = [s \in SUBSET S |-> g[s]]
                          /\ \A s \in SUBSET S : Cardinality(s) <= n => g[s] = FoldOf(st, base, pick, g, s)
           N == {n \in Nat : \E g : Until(n, g)}
<1>1. \A s \in SUBSET S : /\ Cardinality(s) \in Nat
                          /\ s # {} => /\ s \ {pick[s]} \in SUBSET S
                                       /\ Cardinality(s \ {pick[s]}) = Cardinality(s) - 1
                          /\ Cardinality(s) = 0 => s = {}
  <2> TAKE s \in SUBSET S
  <2>1. IsFiniteSet(s) /\ Cardinality(s) \in Nat
    BY FS_Subset, FS_CardinalityType
  <2>2. Cardinality(s) = 0 => s = {}
    BY <2>1, FS_EmptySet
  <2>3. s # {} => pick[s] \in s
    BY DEF Picks
  <2> QED BY <2>1, <2>2, <2>3, FS_RemoveElement
<1>2. 0 \in N
  <2> DEFINE g == [s \in SUBSET S |-> base]
  <2>1. \A s \in SUBSET S : Cardinality(s) <= 0 => g[s] = FoldOf(st, base, pick, g, s)
    <3>1. ASSUME NEW s \in SUBSET S, Cardinality(s) <= 0 PROVE s = {}
      <4>1. Cardinality(s) \in Nat /\ (Cardinality(s) = 0 => s = {})
        BY <1>1
      <4> HIDE DEF Until, N, g
      <4> QED BY <3>1, <4>1
    <3> QED BY <3>1 DEF FoldOf
  <2>2. Until(0, g)
    BY <2>1
  <2> QED BY <2>2
<1>3. ASSUME NEW n \in N PROVE n + 1 \in N
  <2>1. PICK g : Until(n, g)
    OBVIOUS
  <2> DEFINE h == [s \in SUBSET S |-> IF Cardinality(s) <= n THEN g[s] ELSE FoldOf(st, base, pick, g, s)]
  <2>2. n \in Nat
    OBVIOUS
  <2>3. h = [s \in SUBSET S |-> h[s]]
    OBVIOUS
  <2>4. ASSUME NEW s \in SUBSET S, Cardinality(s) <= n + 1
        PROVE  h[s] = FoldOf(st, base, pick, h, s)
    <3>1. h[s] = FoldOf(st, base, pick, g, s)
      BY <2>1
    <3>2. s # {} => h[s \ {pick[s]}] = g[s \ {pick[s]}]
      <4> SUFFICES ASSUME s # {} PROVE h[s \ {pick[s]}] = g[s \ {pick[s]}]
        OBVIOUS
      <4>1. s \ {pick[s]} \in SUBSET S /\ Cardinality(s \ {pick[s]}) = Cardinality(s) - 1
            /\ Cardinality(s) \in Nat
        BY <1>1
      <4>2. Cardinality(s \ {pick[s]}) <= n
        BY <2>2, <2>4, <4>1
      <4> QED BY <4>1, <4>2
    <3> HIDE DEF h
    <3> QED BY <3>1, <3>2 DEF FoldOf
  <2>5. Until(n + 1, h)
    <3> HIDE DEF h
    <3> QED BY <2>3, <2>4
  <2> HIDE DEF h, Until
  <2> QED BY <2>2, <2>5
<1>4. N = Nat
  <2> HIDE DEF N
  <2>1. N \in SUBSET Nat
    BY DEF N
  <2> QED BY <1>2, <1>3, <2>1, Induction
<1>5. Cardinality(S) \in Nat /\ \A s \in SUBSET S : Cardinality(s) <= Cardinality(S)
  BY FS_CardinalityType, FS_Subset
<1>6. PICK g : Until(Cardinality(S), g)
  BY <1>4, <1>5
<1>7. IsFold(st, base, pick, S, g)
  BY <1>5, <1>6 DEF IsFold
<1> QED BY <1>7

KeepsTo(st, S, V) == \A x \in S : \A v \in V : st[x][v] \in V

\* If st keeps to a set V of values, so does the fold.
LEMMA FoldIn ==
  ASSUME NEW st, NEW base, NEW S, IsFiniteSet(S),
         NEW pick, Picks(pick, S), NEW V, base \in V, KeepsTo(st, S, V)
  PROVE  \E g \in [SUBSET S -> V] : IsFold(st, base, pick, S, g)
<1>1. PICK g : IsFold(st, base, pick, S, g)
  BY FoldExists
<1>2. g = [s \in SUBSET S |-> FoldOf(st, base, pick, g, s)]
  BY <1>1 DEF IsFold
<1> DEFINE B == {s \in SUBSET S : g[s] \in V}
<1>3. \A s \in SUBSET S : g[s] = FoldOf(st, base, pick, g, s)
  BY <1>2
<1>4. {} \in B
  BY <1>3 DEF FoldOf
<1>5. ASSUME NEW s \in SUBSET S, s # {}, s \ {pick[s]} \in B PROVE s \in B
  BY <1>3, <1>5, ZenonT(30) DEF FoldOf, Picks, KeepsTo
<1>6. B = SUBSET S
  <2>1. B \in SUBSET SUBSET S
    OBVIOUS
  <2>2. GrowsBy(pick, S, B)
    BY <1>4, <1>5 DEF GrowsBy
  <2> HIDE DEF B
  <2> QED BY <2>1, <2>2, SubsetInduction
<1>7. g \in [SUBSET S -> V]
  BY <1>2, <1>6
<1> QED BY <1>1, <1>7

\* The largest element as what is picked.
LEMMA LargestPicked ==
  ASSUME NEW n \in Nat
  PROVE  /\ IsFiniteSet(1..n)
         /\ \A s \in SUBSET (1..n) : s # {} => Max(s) \in s
         /\ Max(1..(n + 1)) = n + 1 /\ (1..(n + 1)) \ {n + 1} = 1..n
<1>1. IsFiniteSet(1..n) /\ IsFiniteSet(1..(n + 1))
  <2>1. 1 \in Int /\ n \in Int /\ n + 1 \in Int
    OBVIOUS
  <2> QED BY <2>1, FS_Interval
<1>2. ASSUME NEW s \in SUBSET (1..n), s # {} PROVE Max(s) \in s
  <2>1. IsFiniteSet(s)
    BY <1>1, FS_Subset
  <2>2. s \in SUBSET Nat
    OBVIOUS
  <2> QED BY <1>2, <2>1, <2>2, MaxIsLargest
<1>3. Max(1..(n + 1)) = n + 1
  <2> DEFINE D == 1..(n + 1)
             x == Max(D)
  <2>0. n + 1 \in D
    OBVIOUS
  <2>1. n + 1 \in D /\ D \in SUBSET Nat /\ D # {}
    <3>1. \A y \in D : y \in Nat
      OBVIOUS
    <3> HIDE DEF D
    <3> QED BY <2>0, <3>1
  <2>2. \A y \in D : y <= n + 1 /\ y \in Nat
    OBVIOUS
  <2>3. x \in D /\ \A y \in D : x >= y
    <3> HIDE DEF D
    <3> QED BY <1>1, <2>1, MaxIsLargest DEF D
  <2> HIDE DEF D, x
  <2>4. x <= n + 1 /\ x >= n + 1 /\ x \in Nat
    BY <2>1, <2>2, <2>3
  <2> QED BY <2>4 DEF D, x
<1>4. (1..(n + 1)) \ {n + 1} = 1..n
  OBVIOUS
<1> QED BY <1>1, <1>2, <1>3, <1>4
================================================================================
