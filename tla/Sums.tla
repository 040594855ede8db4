-------------------------------- MODULE Sums --------------------------------
(***************************************************************************)
(* The greatest, the least and the sum of natural numbers, as the          *)
(* community modules define them: what the proofs about money rest on.     *)
(***************************************************************************)
EXTENDS Integers, FiniteSets, FiniteSetsExt, Functions, FiniteSetTheorems, FunctionTheorems,
        WellFoundedInduction, TLAPS

(* The greatest of some numbers that are bounded is one of them.           *)
LEMMA MaxIsIn ==
    ASSUME NEW n \in Nat, NEW S, S \subseteq 0..n, S # {}
    PROVE  Max(S) \in S /\ \A x \in S : Max(S) >= x
<1> DEFINE T == {n - x : x \in S}
<1>1. T \subseteq Nat /\ T # {}
    <2>1. \A x \in S : n - x \in Nat
        OBVIOUS
    <2> QED BY <2>1
<1>2. PICK t \in T : \A u \in T : ~ (<<u, t>> \in OpToRel(<, Nat))
    BY <1>1, WFMin, NatLessThanWellFounded
<1>3. \A u \in T : ~ (u < t)
    BY <1>1, <1>2 DEF OpToRel
<1>4. PICK x \in S : t = n - x
    OBVIOUS
<1>5. \A y \in S : x >= y
    BY <1>3, <1>4
<1> QED BY <1>5 DEF Max

(* The least of some natural numbers is one of them.                       *)
LEMMA MinIsIn ==
    ASSUME NEW S, S \subseteq Nat, S # {}
    PROVE  Min(S) \in S /\ \A x \in S : Min(S) <= x
<1>1. PICK t \in S : \A u \in S : ~ (<<u, t>> \in OpToRel(<, Nat))
    BY WFMin, NatLessThanWellFounded
<1>2. \A u \in S : ~ (u < t)
    BY <1>1 DEF OpToRel
<1>3. t \in Nat /\ \A u \in S : t <= u
    BY <1>2
<1> QED BY <1>3 DEF Min

-----------------------------------------------------------------------------
(* A sum of natural numbers counts the pairs below them.                   *)
Units(f, S) == {p \in S \X Nat : p[2] \in 1..f[p[1]]}

(* What the sum of the community module is: the chosen element of a set    *)
(* and the sum of the rest.                                                *)
Adds(it, f, S) ==
    \A s \in SUBSET S : it[s] = IF s = {} THEN 0
                                ELSE f[CHOOSE x \in s : TRUE] + it[s \ {CHOOSE x \in s : TRUE}]

(* An element adds its own units.                                          *)
LEMMA UnitsOfElement ==
    ASSUME NEW f, NEW S, NEW x \in S, f[x] \in Nat, IsFiniteSet(Units(f, S \ {x}))
    PROVE  /\ IsFiniteSet(Units(f, S))
           /\ Cardinality(Units(f, S)) = f[x] + Cardinality(Units(f, S \ {x}))
<1> DEFINE new == {p \in {x} \X Nat : p[2] \in 1..f[x]}
           b == [i \in 1..f[x] |-> <<x, i>>]
<1>1. IsFiniteSet(1..f[x]) /\ Cardinality(1..f[x]) = f[x]
    BY FS_Interval
<1>2. b \in Bijection(1..f[x], new)
    <2>1. b \in [1..f[x] -> new] /\ \A i \in 1..f[x] : b[i] = <<x, i>>
        OBVIOUS
    <2>2. \A i, j \in 1..f[x] : b[i] = b[j] => i = j
        BY <2>1
    <2>3. \A p \in new : \E i \in 1..f[x] : b[i] = p
        <3> SUFFICES ASSUME NEW p \in new PROVE \E i \in 1..f[x] : b[i] = p
            OBVIOUS
        <3>1. p[2] \in 1..f[x] /\ p = <<x, p[2]>>
            OBVIOUS
        <3> QED BY <2>1, <3>1
    <2> HIDE DEF b, new
    <2> QED BY <2>1, <2>2, <2>3, Fun_IsBij
<1>3. ExistsBijection(1..f[x], new)
    BY <1>2 DEF ExistsBijection
<1> HIDE DEF b
<1>4. IsFiniteSet(new) /\ Cardinality(new) = f[x]
    BY <1>1, <1>3, FS_Bijection
<1>5. Units(f, S) = new \cup Units(f, S \ {x}) /\ new \cap Units(f, S \ {x}) = {}
    BY DEF Units
<1> HIDE DEF new
<1> DEFINE rest == Units(f, S \ {x})
<1>6. Cardinality({}) = 0 /\ Cardinality(rest) \in Nat /\ IsFiniteSet(rest)
    BY FS_EmptySet, FS_CardinalityType
<1>8. Units(f, S) = new \cup rest /\ new \cap rest = {}
    BY <1>5
<1> HIDE DEF rest
<1>7. /\ IsFiniteSet(new \cup rest)
      /\ Cardinality(new \cup rest) = Cardinality(new) + Cardinality(rest) - Cardinality(new \cap rest)
    BY <1>4, <1>6, FS_Union
<1>9. Cardinality(Units(f, S)) = f[x] + Cardinality(rest) /\ IsFiniteSet(Units(f, S))
    <2>1. Cardinality(new \cap rest) = 0
        BY <1>6, <1>8
    <2>2. Cardinality(new \cup rest) = f[x] + Cardinality(rest)
        BY <1>4, <1>6, <1>7, <2>1
    <2> QED BY <1>7, <1>8, <2>2
<1> QED BY <1>9 DEF rest

(* There are finitely many; a smallest set with infinitely many is none.   *)
LEMMA UnitsFinite ==
    ASSUME NEW f, NEW S, IsFiniteSet(S), \A x \in S : f[x] \in Nat
    PROVE  IsFiniteSet(Units(f, S)) /\ Cardinality(Units(f, S)) \in Nat
<1> DEFINE Bad == {s \in SUBSET S : ~ IsFiniteSet(Units(f, s))}
<1>1. ASSUME Bad # {} PROVE FALSE
    <2>1. IsWellFoundedOn(StrictSubsetOrdering(S), SUBSET S)
        BY FS_StrictSubsetOrderingWellFounded, FS_FiniteSubsetsOfFinite
    <2>2. PICK s \in Bad : \A u \in Bad : <<u, s>> \notin StrictSubsetOrdering(S)
        <3> Bad \subseteq SUBSET S
            OBVIOUS
        <3> HIDE DEF Bad
        <3> QED BY <1>1, <2>1, WFMin
    <2>3. CASE s = {}
        <3>1. Units(f, s) = {}
            BY <2>3 DEF Units
        <3> QED BY <2>2, <3>1, FS_EmptySet
    <2>4. ASSUME NEW x \in s PROVE FALSE
        <3>1. <<s \ {x}, s>> \in StrictSubsetOrdering(S) /\ s \ {x} \in SUBSET S
            BY <2>2, <2>4 DEF StrictSubsetOrdering
        <3>2. IsFiniteSet(Units(f, s \ {x}))
            BY <2>2, <3>1
        <3> QED BY <2>2, <2>4, <3>2, UnitsOfElement
    <2> QED BY <2>3, <2>4
<1>2. IsFiniteSet(Units(f, S))
    BY <1>1
<1> QED BY <1>2, FS_CardinalityType

(* Whatever adds up in this way counts the units: a smallest set where it  *)
(* does not is none.                                                       *)
LEMMA OneSum ==
    ASSUME NEW f, NEW S, IsFiniteSet(S), \A x \in S : f[x] \in Nat, NEW it, Adds(it, f, S)
    PROVE  it[S] = Cardinality(Units(f, S))
<1> DEFINE Bad == {s \in SUBSET S : it[s] # Cardinality(Units(f, s))}
<1>1. ASSUME Bad # {} PROVE FALSE
    <2>1. IsWellFoundedOn(StrictSubsetOrdering(S), SUBSET S)
        BY FS_StrictSubsetOrderingWellFounded, FS_FiniteSubsetsOfFinite
    <2>2. PICK s \in Bad : \A u \in Bad : <<u, s>> \notin StrictSubsetOrdering(S)
        <3> Bad \subseteq SUBSET S
            OBVIOUS
        <3> HIDE DEF Bad
        <3> QED BY <1>1, <2>1, WFMin
    <2>3. CASE s = {}
        <3>1. Units(f, s) = {}
            BY <2>3 DEF Units
        <3> QED BY <2>2, <2>3, <3>1, FS_EmptySet DEF Adds
    <2>4. CASE s # {}
        <3> DEFINE x == CHOOSE y \in s : TRUE
        <3>1. x \in s /\ it[s] = f[x] + it[s \ {x}]
            BY <2>2, <2>4 DEF Adds
        <3> HIDE DEF x
        <3>2. <<s \ {x}, s>> \in StrictSubsetOrdering(S) /\ s \ {x} \in SUBSET S
            BY <2>2, <3>1 DEF StrictSubsetOrdering
        <3>3. it[s \ {x}] = Cardinality(Units(f, s \ {x}))
            BY <2>2, <3>2
        <3>4. IsFiniteSet(s \ {x}) /\ \A y \in s \ {x} : f[y] \in Nat
            BY <3>2, FS_Subset
        <3>5. IsFiniteSet(Units(f, s \ {x}))
            BY <3>4, UnitsFinite
        <3> QED BY <2>2, <3>1, <3>3, <3>5, UnitsOfElement
    <2> QED BY <2>3, <2>4
<1> QED BY <1>1

(* Counting the units adds up, so the sum, chosen among what does, is their *)
(* number.                                                                 *)
LEMMA SumCounts ==
    ASSUME NEW f, NEW S, IsFiniteSet(S), \A x \in S : f[x] \in Nat
    PROVE  SumFunctionOnSet(f, S) = Cardinality(Units(f, S))
<1> DEFINE Step(it) == [s \in SUBSET S |->
                           IF s = {} THEN 0
                           ELSE f[CHOOSE x \in s : TRUE] + it[s \ {CHOOSE x \in s : TRUE}]]
           iter == CHOOSE it : it = Step(it)
           count == [s \in SUBSET S |-> Cardinality(Units(f, s))]
<1>1. SumFunctionOnSet(f, S) = iter[S]
    BY DEF SumFunctionOnSet, FoldFunctionOnSet, MapThenFoldSet
<1>2. Adds(count, f, S)
    <2> SUFFICES ASSUME NEW s \in SUBSET S
                 PROVE  Cardinality(Units(f, s)) =
                           IF s = {} THEN 0
                           ELSE f[CHOOSE x \in s : TRUE] + Cardinality(Units(f, s \ {CHOOSE x \in s : TRUE}))
        BY DEF Adds
    <2>1. CASE s = {}
        <3>1. Units(f, s) = {}
            BY <2>1 DEF Units
        <3> QED BY <2>1, <3>1, FS_EmptySet
    <2>2. CASE s # {}
        <3> DEFINE x == CHOOSE y \in s : TRUE
        <3>1. x \in s
            BY <2>2
        <3> HIDE DEF x
        <3>2. s \ {x} \in SUBSET S /\ f[x] \in Nat
            BY <3>1
        <3>3. IsFiniteSet(s \ {x}) /\ \A y \in s \ {x} : f[y] \in Nat
            BY <3>2, FS_Subset
        <3>4. IsFiniteSet(Units(f, s \ {x}))
            BY <3>3, UnitsFinite
        <3>5. Cardinality(Units(f, s)) = f[x] + Cardinality(Units(f, s \ {x}))
            BY <3>1, <3>2, <3>4, UnitsOfElement
        <3> QED BY <2>2, <3>5 DEF x
    <2> QED BY <2>1, <2>2
<1>3. count = Step(count)
    BY <1>2 DEF Adds
<1>4. iter = Step(iter)
    BY <1>3
<1> HIDE DEF iter
<1>5. Adds(iter, f, S)
    BY <1>4 DEF Adds
<1> QED BY <1>1, <1>5, OneSum

LEMMA SumIsNat ==
    ASSUME NEW f, NEW S, IsFiniteSet(S), \A x \in S : f[x] \in Nat
    PROVE  SumFunctionOnSet(f, S) \in Nat
BY SumCounts, UnitsFinite

(* A sum is what any one element adds to the rest.                         *)
LEMMA SumSplits ==
    ASSUME NEW f, NEW S, IsFiniteSet(S), \A x \in S : f[x] \in Nat, NEW x \in S
    PROVE  SumFunctionOnSet(f, S) = f[x] + SumFunctionOnSet(f, S \ {x})
<1>1. S \ {x} \in SUBSET S
    OBVIOUS
<1>2. IsFiniteSet(S \ {x}) /\ \A y \in S \ {x} : f[y] \in Nat
    BY <1>1, FS_Subset
<1>3. /\ SumFunctionOnSet(f, S) = Cardinality(Units(f, S))
      /\ SumFunctionOnSet(f, S \ {x}) = Cardinality(Units(f, S \ {x}))
    BY <1>2, SumCounts
<1>4. IsFiniteSet(Units(f, S \ {x}))
    BY <1>2, UnitsFinite
<1> QED BY <1>3, <1>4, UnitsOfElement

(* A sum is at most another into whose elements its own go one by one,     *)
(* each to one that is no less.                                            *)
LEMMA SumGrows ==
    ASSUME NEW S, NEW f, IsFiniteSet(S), \A x \in S : f[x] \in Nat,
           NEW T, NEW g, IsFiniteSet(T), \A y \in T : g[y] \in Nat,
           NEW h \in [S -> T], \A x, z \in S : h[x] = h[z] => x = z,
           \A x \in S : f[x] <= g[h[x]]
    PROVE  SumFunctionOnSet(f, S) <= SumFunctionOnSet(g, T)
<1> DEFINE b == [p \in Units(f, S) |-> <<h[p[1]], p[2]>>]
<1>1. /\ SumFunctionOnSet(f, S) = Cardinality(Units(f, S))
      /\ SumFunctionOnSet(g, T) = Cardinality(Units(g, T))
      /\ IsFiniteSet(Units(g, T))
    BY SumCounts, UnitsFinite
<1>2. b \in Injection(Units(f, S), Units(g, T))
    <2>1. \A p \in Units(f, S) : /\ p[1] \in S /\ p[2] \in Nat /\ p[2] \in 1..f[p[1]]
                                 /\ p = <<p[1], p[2]>> /\ b[p] = <<h[p[1]], p[2]>>
        BY DEF Units
    <2>2. \A p \in Units(f, S) : b[p] \in Units(g, T)
        <3> SUFFICES ASSUME NEW p \in Units(f, S) PROVE b[p] \in Units(g, T)
            OBVIOUS
        <3> DEFINE x == p[1]
                   i == p[2]
        <3>3. x \in S /\ i \in Nat /\ i \in 1..f[x] /\ b[p] = <<h[x], i>>
            BY <2>1
        <3> HIDE DEF x, i, b
        <3>4. h[x] \in T /\ f[x] \in Nat /\ g[h[x]] \in Nat /\ f[x] <= g[h[x]]
            BY <3>3
        <3>1. i \in 1..g[h[x]]
            BY <3>3, <3>4
        <3> QED BY <3>1, <3>3, <3>4 DEF Units
    <2>3. \A p, q \in Units(f, S) : b[p] = b[q] => p = q
        <3> SUFFICES ASSUME NEW p \in Units(f, S), NEW q \in Units(f, S), b[p] = b[q] PROVE p = q
            OBVIOUS
        <3>1. h[p[1]] = h[q[1]] /\ p[2] = q[2]
            BY <2>1
        <3>2. p[1] = q[1]
            BY <2>1, <3>1
        <3> QED BY <2>1, <3>1, <3>2
    <2>4. b \in [Units(f, S) -> Units(g, T)]
        BY <2>2
    <2> HIDE DEF b
    <2> QED BY <2>3, <2>4, Fun_IsInj
<1> QED BY <1>1, <1>2, FS_Injection

LEMMA SumIsLess ==
    ASSUME NEW S, NEW f, NEW T, NEW g, IsFiniteSet(T), S \subseteq T, \A y \in T : g[y] \in Nat,
           \A x \in S : f[x] \in Nat /\ f[x] <= g[x]
    PROVE  SumFunctionOnSet(f, S) <= SumFunctionOnSet(g, T)
<1>1. IsFiniteSet(S)
    BY FS_Subset
<1> DEFINE h == [x \in S |-> x]
<1>2. h \in [S -> T] /\ \A x \in S : h[x] = x
    OBVIOUS
<1> HIDE DEF h
<1> QED BY <1>1, <1>2, SumGrows
(* A sum depends on the values at its elements only.                       *)
LEMMA SumSame ==
    ASSUME NEW f, NEW g, NEW S, IsFiniteSet(S), \A x \in S : f[x] \in Nat /\ f[x] = g[x]
    PROVE  SumFunctionOnSet(f, S) = SumFunctionOnSet(g, S)
<1>1. Units(f, S) = Units(g, S)
    BY DEF Units
<1>2. \A x \in S : f[x] \in Nat /\ g[x] \in Nat
    OBVIOUS
<1> QED BY <1>1, <1>2, SumCounts

(* The sum over two disjoint sets is the sum of their sums.                *)
LEMMA SumAdds ==
    ASSUME NEW f, NEW S, NEW T, IsFiniteSet(S), IsFiniteSet(T), S \cap T = {},
           \A x \in S \cup T : f[x] \in Nat
    PROVE  SumFunctionOnSet(f, S \cup T) = SumFunctionOnSet(f, S) + SumFunctionOnSet(f, T)
<1>1. Units(f, S \cup T) = Units(f, S) \cup Units(f, T) /\ Units(f, S) \cap Units(f, T) = {}
    BY DEF Units
<1>2. IsFiniteSet(S \cup T)
    BY FS_Union
<1>3. /\ SumFunctionOnSet(f, S) = Cardinality(Units(f, S)) /\ IsFiniteSet(Units(f, S))
      /\ Cardinality(Units(f, S)) \in Nat
    BY SumCounts, UnitsFinite
<1>4. /\ SumFunctionOnSet(f, T) = Cardinality(Units(f, T)) /\ IsFiniteSet(Units(f, T))
      /\ Cardinality(Units(f, T)) \in Nat
    BY SumCounts, UnitsFinite
<1>5. SumFunctionOnSet(f, S \cup T) = Cardinality(Units(f, S \cup T))
    BY <1>2, SumCounts
<1>6. Cardinality({}) = 0
    BY FS_EmptySet
<1>7. Cardinality(Units(f, S) \cup Units(f, T))
         = Cardinality(Units(f, S)) + Cardinality(Units(f, T)) - Cardinality(Units(f, S) \cap Units(f, T))
    BY <1>3, <1>4, FS_Union
<1>8. Cardinality(Units(f, S) \cap Units(f, T)) = 0
    BY <1>1, <1>6
<1>9. Cardinality(Units(f, S \cup T)) = Cardinality(Units(f, S)) + Cardinality(Units(f, T))
    <2>1. \A n, m \in Nat : n + m - 0 = n + m
        OBVIOUS
    <2>2. Cardinality(Units(f, S \cup T)) = Cardinality(Units(f, S) \cup Units(f, T))
        BY <1>1, Zenon
    <2> QED BY <1>3, <1>4, <1>7, <1>8, <2>1, <2>2
<1> QED BY <1>3, <1>4, <1>5, <1>9

(* A sum over an empty set is zero.                                        *)
LEMMA SumOfNone == ASSUME NEW f PROVE SumFunctionOnSet(f, {}) = 0
<1>1. Units(f, {}) = {}
    BY DEF Units
<1> QED BY <1>1, SumCounts, FS_EmptySet

(* Sums whose elements correspond one to one are the same.                 *)
LEMMA SumMatches ==
    ASSUME NEW S, NEW f, IsFiniteSet(S), \A x \in S : f[x] \in Nat,
           NEW T, NEW g, IsFiniteSet(T), \A y \in T : g[y] \in Nat,
           NEW h \in [S -> T], \A x, z \in S : h[x] = h[z] => x = z,
           \A y \in T : \E x \in S : h[x] = y,
           \A x \in S : f[x] = g[h[x]]
    PROVE  SumFunctionOnSet(f, S) = SumFunctionOnSet(g, T)
<1>1. \A x \in S : f[x] <= g[h[x]]
    OBVIOUS
<1>2. SumFunctionOnSet(f, S) <= SumFunctionOnSet(g, T)
    BY <1>1, SumGrows
<1> DEFINE back == [y \in T |-> CHOOSE x \in S : h[x] = y]
<1>3. \A y \in T : back[y] \in S /\ h[back[y]] = y
    OBVIOUS
<1>4. /\ back \in [T -> S] /\ \A y, z \in T : back[y] = back[z] => y = z
      /\ \A y \in T : g[y] <= f[back[y]]
    BY <1>3
<1> HIDE DEF back
<1>5. SumFunctionOnSet(g, T) <= SumFunctionOnSet(f, S)
    BY <1>4, SumGrows
<1>6. SumFunctionOnSet(f, S) \in Nat /\ SumFunctionOnSet(g, T) \in Nat
    BY SumIsNat
<1>7. \A n, m \in Nat : n <= m /\ m <= n => n = m
    OBVIOUS
<1> QED BY ONLY <1>2, <1>5, <1>6, <1>7

(* An element is at most the sum.                                          *)
LEMMA SumBounds ==
    ASSUME NEW f, NEW S, IsFiniteSet(S), \A x \in S : f[x] \in Nat, NEW x \in S
    PROVE  f[x] <= SumFunctionOnSet(f, S)
<1>1. SumFunctionOnSet(f, S) = f[x] + SumFunctionOnSet(f, S \ {x})
    BY SumSplits
<1>2. SumFunctionOnSet(f, S \ {x}) \in Nat
    BY FS_RemoveElement, SumIsNat
<1>3. \A m, k \in Nat : m <= m + k
    OBVIOUS
<1> QED BY <1>1, <1>2, <1>3

(* The greatest of finitely many natural numbers is one of them: each is   *)
(* at most their sum.                                                      *)
LEMMA FiniteMax ==
    ASSUME NEW S, S \subseteq Nat, IsFiniteSet(S), S # {}
    PROVE  Max(S) \in S /\ \A x \in S : Max(S) >= x
<1> DEFINE id == [x \in S |-> x]
           n == SumFunctionOnSet(id, S)
<1>1. \A x \in S : id[x] = x /\ id[x] \in Nat
    OBVIOUS
<1> HIDE DEF id
<1>2. n \in Nat
    BY <1>1, SumIsNat DEF n
<1> HIDE DEF n
<1>3. ASSUME NEW x \in S PROVE x <= n
    <2>1. id[x] <= n
        BY ONLY <1>1, IsFiniteSet(S), x \in S, SumBounds DEF n
    <2> QED BY <1>1, <2>1
<1>4. S \subseteq 0..n
    BY <1>2, <1>3
<1> QED BY <1>2, <1>4, MaxIsIn

(* What finitely many elements are mapped to is finite.                    *)
LEMMA FiniteImage ==
    ASSUME NEW S, IsFiniteSet(S), NEW f
    PROVE  IsFiniteSet({f[x] : x \in S})
<1> DEFINE T == {f[x] : x \in S}
           g == [x \in S |-> f[x]]
<1>1. g \in [S -> T] /\ \A t \in T : \E x \in S : g[x] = t
    OBVIOUS
<1> HIDE DEF g, T
<1>2. g \in Surjection(S, T)
    BY <1>1 DEF Surjection
<1>3. IsFiniteSet(T)
    BY <1>2, FS_Surjection
<1> QED BY <1>3 DEF T
=============================================================================
