------------------------------ MODULE Induction ------------------------------
(***************************************************************************)
(* Induction over the natural numbers, said of a set and not of a          *)
(* predicate, and what it shows of functions defined by recursion and of   *)
(* the sums of the community modules: lemmas of the other proofs, about no *)
(* code.                                                                   *)
(***************************************************************************)
EXTENDS Naturals, FiniteSets, FiniteSetsExt, FiniteSetTheorems, TLAPS

LEMMA LeastNat ==
  ASSUME NEW T, T \subseteq Nat, T # {}
  PROVE  \E n \in T : \A m \in T : n <= m
<1> DEFINE R == {ss \in Nat \X Nat : ss[1] < ss[2]}
<1>1. IsWellFoundedOn(R, Nat)
  BY NatLessThanWellFounded DEF OpToRel
<1>2. \E n \in T : \A m \in T : <<m, n>> \notin R
  <2> HIDE DEF R
  <2> QED BY <1>1, WFMin
<1>3. PICK n \in T : \A m \in T : <<m, n>> \notin R
  BY <1>2
<1>4. ASSUME NEW m \in T, ~(n <= m) PROVE FALSE
  <2>1. <<m, n>> \in R
    BY <1>4
  <2> QED BY <2>1, <1>3
<1> QED BY <1>3, <1>4

\* Induction over the natural numbers, on a set and not on a predicate.
LEMMA SetInduction ==
  ASSUME NEW T, 0 \in T, \A n \in Nat : n \in T => n + 1 \in T
  PROVE  Nat \subseteq T
<1> DEFINE U == Nat \ T
<1>1. SUFFICES ASSUME U # {} PROVE FALSE
  OBVIOUS
<1>2. PICK n \in U : \A m \in U : n <= m
  BY <1>1, LeastNat
<1>3. n # 0 /\ n - 1 \in Nat
  BY <1>2
<1>4. n - 1 \in T
  BY <1>2, <1>3
<1> QED BY <1>2, <1>3, <1>4

-----------------------------------------------------------------------------
(* Recursion *)

\* A row of values in V, each made of the one before it.
IsRow(n, V, first, step, h) ==
  h \in [0..n -> V] /\ h[0] = first /\ \A k \in 1..n : h[k] = step[k][h[k - 1]]

\* There is such a row.
LEMMA Iteration ==
  ASSUME NEW n \in Nat, NEW V, NEW first \in V, NEW step \in [1..n -> [V -> V]]
  PROVE  \E h : IsRow(n, V, first, step, h)
<1> DEFINE Upto(m, h) == \A k \in 0..m : h[k] = IF k = 0 THEN first ELSE step[k][h[k - 1]]
           T == {m \in Nat : m <= n => \E h \in [0..n -> V] : Upto(m, h)}
<1>1. 0 \in T
  <2> DEFINE h == [k \in 0..n |-> first]
  <2>1. h \in [0..n -> V] /\ Upto(0, h)
    OBVIOUS
  <2> HIDE DEF h, Upto
  <2> QED BY <2>1
<1>2. ASSUME NEW m \in Nat, m \in T PROVE m + 1 \in T
  <2> SUFFICES ASSUME m + 1 <= n PROVE \E h \in [0..n -> V] : Upto(m + 1, h)
    OBVIOUS
  <2>1. PICK g \in [0..n -> V] : Upto(m, g)
    BY <1>2
  <2>2. g[m] \in V /\ step[m + 1] \in [V -> V]
    OBVIOUS
  <2>3. step[m + 1][g[m]] \in V
    BY <2>2
  <2> DEFINE h == [k \in 0..n |-> IF k = m + 1 THEN step[m + 1][g[m]] ELSE g[k]]
  <2>4. h \in [0..n -> V]
    BY <2>3
  <2>5. ASSUME NEW k \in 0..m + 1 PROVE h[k] = IF k = 0 THEN first ELSE step[k][h[k - 1]]
    <3>1. CASE k = m + 1
      BY <3>1
    <3>2. CASE k # m + 1
      <4>1. k \in 0..m /\ h[k] = g[k] /\ (k # 0 => h[k - 1] = g[k - 1])
        BY <3>2
      <4> HIDE DEF h
      <4> QED BY <4>1, <2>1
    <3> QED BY <3>1, <3>2
  <2>6. Upto(m + 1, h)
    BY <2>5
  <2> HIDE DEF h, Upto
  <2> QED BY <2>4, <2>6
<1>3. n \in T
  <2> HIDE DEF T
  <2> QED BY <1>1, <1>2, SetInduction
<1>4. PICK h \in [0..n -> V] : Upto(n, h)
  BY <1>3
<1>5. IsRow(n, V, first, step, h)
  BY <1>4 DEF IsRow
<1> QED BY <1>5

-----------------------------------------------------------------------------
(* Sums *)

SumOn(f, S) == MapThenSumSet(LAMBDA n : f[n], S)

Pick(s) == CHOOSE x \in s : TRUE

\* g is the sum of f over every subset of S, by the recursion of MapThenFoldSet.
IsSum(f, S, g) == g = [s \in SUBSET S |-> IF s = {} THEN 0 ELSE f[Pick(s)] + g[s \ {Pick(s)}]]

LEMMA SumIsChosen ==
  ASSUME NEW f, NEW S
  PROVE  SumOn(f, S) = (CHOOSE g : IsSum(f, S, g))[S]
BY Zenon DEF SumOn, MapThenSumSet, MapThenFoldSet, IsSum, Pick

LEMMA PickIn ==
  ASSUME NEW s, s # {}
  PROVE  Pick(s) \in s
BY DEF Pick

LEMMA PickLess ==
  ASSUME NEW s, IsFiniteSet(s), s # {}
  PROVE  /\ IsFiniteSet(s \ {Pick(s)}) /\ Cardinality(s) \in Nat \ {0}
         /\ Cardinality(s \ {Pick(s)}) = Cardinality(s) - 1
<1>1. Pick(s) \in s
  BY PickIn
<1>2. Cardinality(s) \in Nat /\ Cardinality(s) # 0
  BY FS_CardinalityType, FS_EmptySet
<1> QED BY <1>1, <1>2, FS_RemoveElement

\* There is such a sum.
LEMMA SumExists ==
  ASSUME NEW S, IsFiniteSet(S), NEW f \in [S -> Nat]
  PROVE  \E g \in [SUBSET S -> Nat] : IsSum(f, S, g)
<1> DEFINE Upto(n, g) == \A s \in SUBSET S : Cardinality(s) <= n =>
             g[s] = IF s = {} THEN 0 ELSE f[Pick(s)] + g[s \ {Pick(s)}]
           T == {n \in Nat : \E g \in [SUBSET S -> Nat] : Upto(n, g)}
<1>0. \A s \in SUBSET S : IsFiniteSet(s) /\ Cardinality(s) \in Nat
  BY FS_Subset, FS_CardinalityType
<1>1. 0 \in T
  <2> DEFINE g == [s \in SUBSET S |-> 0]
  <2>1. g \in [SUBSET S -> Nat]
    OBVIOUS
  <2>2. \A s \in SUBSET S : Cardinality(s) <= 0 => s = {}
    BY <1>0, FS_EmptySet
  <2>3. Upto(0, g)
    BY <2>2
  <2> QED BY <2>1, <2>3
<1>2. ASSUME NEW n \in Nat, n \in T PROVE n + 1 \in T
  <2>1. PICK g \in [SUBSET S -> Nat] : Upto(n, g)
    BY <1>2
  <2> DEFINE next(s) == IF s = {} THEN 0 ELSE f[Pick(s)] + g[s \ {Pick(s)}]
             h == [s \in SUBSET S |-> next(s)]
  <2>2. \A s \in SUBSET S : next(s) \in Nat
    BY PickIn
  <2>3. h \in [SUBSET S -> Nat]
    BY <2>2
  <2>4. \A s \in SUBSET S : Cardinality(s) <= n => h[s] = g[s]
    BY <2>1
  <2>5. ASSUME NEW s \in SUBSET S, Cardinality(s) <= n + 1, s # {}
        PROVE  h[s \ {Pick(s)}] = g[s \ {Pick(s)}]
    <3>1. s \ {Pick(s)} \in SUBSET S /\ Cardinality(s \ {Pick(s)}) <= n
      BY <1>0, <2>5, PickLess
    <3> HIDE DEF h
    <3> QED BY <2>4, <3>1
  <2>6. Upto(n + 1, h)
    BY <2>5
  <2>7. \E k \in [SUBSET S -> Nat] : Upto(n + 1, k)
    <3> HIDE DEF h, Upto
    <3> QED BY <2>3, <2>6
  <2> HIDE DEF h, Upto
  <2> QED BY <2>7
<1>3. Cardinality(S) \in T
  <2> HIDE DEF T
  <2>1. Nat \subseteq T
    BY <1>1, <1>2, SetInduction
  <2> QED BY <1>0, <2>1
<1>4. PICK g \in [SUBSET S -> Nat] : Upto(Cardinality(S), g)
  BY <1>3
<1>5. \A s \in SUBSET S : Cardinality(s) <= Cardinality(S)
  BY FS_Subset
<1>6. IsSum(f, S, g)
  BY <1>4, <1>5 DEF IsSum
<1> QED BY <1>6

\* A sum over a set and one over a set that holds it are the same on what they share.
LEMMA SumUnique ==
  ASSUME NEW S, IsFiniteSet(S), NEW f, NEW g, IsSum(f, S, g),
         NEW U \in SUBSET S, NEW k, IsSum(f, U, k)
  PROVE  k[U] = g[U]
<1> DEFINE T == {n \in Nat : \A s \in SUBSET U : Cardinality(s) <= n => k[s] = g[s]}
<1>0. \A s \in SUBSET U : IsFiniteSet(s) /\ Cardinality(s) \in Nat /\ s \in SUBSET S
  BY FS_Subset, FS_CardinalityType
<1>1. /\ \A s \in SUBSET U : k[s] = IF s = {} THEN 0 ELSE f[Pick(s)] + k[s \ {Pick(s)}]
      /\ \A s \in SUBSET S : g[s] = IF s = {} THEN 0 ELSE f[Pick(s)] + g[s \ {Pick(s)}]
  BY DEF IsSum
<1>2. 0 \in T
  <2>1. \A s \in SUBSET U : Cardinality(s) <= 0 => s = {}
    BY <1>0, FS_EmptySet
  <2> QED BY <1>0, <1>1, <2>1
<1>3. ASSUME NEW n \in Nat, n \in T PROVE n + 1 \in T
  <2>1. ASSUME NEW s \in SUBSET U, Cardinality(s) <= n + 1 PROVE k[s] = g[s]
    <3>1. CASE s = {}
      BY <1>0, <1>1, <3>1
    <3>2. CASE s # {}
      <4>1. s \ {Pick(s)} \in SUBSET U /\ Cardinality(s \ {Pick(s)}) <= n
        BY <1>0, <2>1, <3>2, PickLess
      <4>2. k[s \ {Pick(s)}] = g[s \ {Pick(s)}]
        BY <1>3, <4>1
      <4> QED BY <1>0, <1>1, <3>2, <4>2
    <3> QED BY <3>1, <3>2
  <2> QED BY <2>1
<1>4. Cardinality(U) \in T
  <2> HIDE DEF T
  <2>1. Nat \subseteq T
    BY <1>2, <1>3, SetInduction
  <2> QED BY <1>0, <2>1
<1> QED BY <1>0, <1>4

\* Any element may be the one that is added last.
LEMMA SumOrder ==
  ASSUME NEW S, IsFiniteSet(S), NEW f \in [S -> Nat], NEW g \in [SUBSET S -> Nat],
         IsSum(f, S, g), NEW u \in SUBSET S, NEW y \in u
  PROVE  g[u] = f[y] + g[u \ {y}]
<1> DEFINE T == {n \in Nat : \A s \in SUBSET S : \A x \in s :
                            Cardinality(s) <= n => g[s] = f[x] + g[s \ {x}]}
<1>0. \A s \in SUBSET S : IsFiniteSet(s) /\ Cardinality(s) \in Nat
  BY FS_Subset, FS_CardinalityType
<1>1. \A s \in SUBSET S : s # {} => g[s] = f[Pick(s)] + g[s \ {Pick(s)}]
  BY DEF IsSum
<1>2. 0 \in T
  <2>1. \A s \in SUBSET S : Cardinality(s) <= 0 => s = {}
    BY <1>0, FS_EmptySet
  <2> QED BY <2>1
<1>3. ASSUME NEW n \in Nat, n \in T PROVE n + 1 \in T
  <2>1. ASSUME NEW s \in SUBSET S, NEW x \in s, Cardinality(s) <= n + 1
        PROVE  g[s] = f[x] + g[s \ {x}]
    <3> DEFINE p == Pick(s)
    <3>1. p \in s /\ g[s] = f[p] + g[s \ {p}]
      BY <1>1, PickIn
    <3> HIDE DEF p
    <3>2. CASE x = p
      BY <3>1, <3>2
    <3>3. CASE x # p
      <4>1. /\ s \ {p} \in SUBSET S /\ Cardinality(s \ {p}) <= n
            /\ s \ {x} \in SUBSET S /\ Cardinality(s \ {x}) <= n
        <5>1. Cardinality(s \ {p}) = Cardinality(s) - 1
          BY <1>0, <3>1, FS_RemoveElement
        <5>2. Cardinality(s \ {x}) = Cardinality(s) - 1
          BY <1>0, FS_RemoveElement
        <5> QED BY <1>0, <2>1, <5>1, <5>2
      <4>2. g[s \ {p}] = f[x] + g[(s \ {p}) \ {x}]
        BY <1>3, <4>1, <3>3
      <4>3. g[s \ {x}] = f[p] + g[(s \ {x}) \ {p}]
        BY <1>3, <4>1, <3>1, <3>3
      <4>4. (s \ {p}) \ {x} = (s \ {x}) \ {p}
        OBVIOUS
      <4>5. f[p] \in Nat /\ f[x] \in Nat /\ g[(s \ {x}) \ {p}] \in Nat
        BY <3>1
      <4>6. g[s] = f[p] + (f[x] + g[(s \ {x}) \ {p}])
        BY <3>1, <4>2, <4>4
      <4>7. g[s] = f[x] + (f[p] + g[(s \ {x}) \ {p}])
        BY <4>5, <4>6
      <4> QED BY <4>3, <4>7
    <3> QED BY <3>2, <3>3
  <2> QED BY <2>1
<1>4. Cardinality(u) \in T
  <2> HIDE DEF T
  <2>1. Nat \subseteq T
    BY <1>2, <1>3, SetInduction
  <2> QED BY <1>0, <2>1
<1> QED BY <1>0, <1>4

\* What the sum of a finite set of numbers is, one element at a time.
LEMMA SumEmpty ==
  ASSUME NEW f
  PROVE  SumOn(f, {}) = 0
<1> DEFINE h == [s \in SUBSET {} |-> 0]
<1>1. IsSum(f, {}, h)
  BY DEF IsSum
<1>2. IsSum(f, {}, CHOOSE g : IsSum(f, {}, g))
  BY <1>1
<1> QED BY <1>2, SumIsChosen DEF IsSum

LEMMA SumAdds ==
  ASSUME NEW S, IsFiniteSet(S), NEW f \in [S -> Nat]
  PROVE  \A U \in SUBSET S : /\ SumOn(f, U) \in Nat
                             /\ \A x \in U : SumOn(f, U) = f[x] + SumOn(f, U \ {x})
<1>1. PICK g \in [SUBSET S -> Nat] : IsSum(f, S, g)
  BY SumExists
<1>2. ASSUME NEW U \in SUBSET S PROVE SumOn(f, U) = g[U]
  <2>1. IsFiniteSet(U)
    BY FS_Subset
  <2> DEFINE e == [n \in U |-> f[n]]
             k == CHOOSE c : IsSum(f, U, c)
             r == [s \in SUBSET U |-> g[s]]
  <2>2. \A s \in SUBSET U : s # {} => s \ {Pick(s)} \in SUBSET U
    OBVIOUS
  <2>3. IsSum(f, U, r)
    BY <1>1, <2>2 DEF IsSum
  <2>4. IsSum(f, U, k)
    <3> HIDE DEF r
    <3> QED BY <2>3
  <2>5. SumOn(f, U) = k[U]
    BY SumIsChosen
  <2> HIDE DEF k
  <2> QED BY <1>1, <2>4, <2>5, SumUnique
<1>3. ASSUME NEW U \in SUBSET S, NEW x \in U PROVE SumOn(f, U) = f[x] + SumOn(f, U \ {x})
  <2>1. g[U] = f[x] + g[U \ {x}]
    BY <1>1, SumOrder
  <2>2. SumOn(f, U) = g[U] /\ SumOn(f, U \ {x}) = g[U \ {x}]
    BY <1>2
  <2> QED BY <2>1, <2>2
<1> QED BY <1>1, <1>2, <1>3

\* A sum depends on nothing but the numbers summed.
LEMMA SumSame ==
  ASSUME NEW S, IsFiniteSet(S), NEW f \in [S -> Nat], NEW g \in [S -> Nat],
         NEW U \in SUBSET S, \A x \in U : f[x] = g[x]
  PROVE  SumOn(f, U) = SumOn(g, U)
<1> DEFINE T == {n \in Nat : \A V \in SUBSET U : Cardinality(V) <= n => SumOn(f, V) = SumOn(g, V)}
<1>0. \A V \in SUBSET U : IsFiniteSet(V) /\ Cardinality(V) \in Nat
  BY FS_Subset, FS_CardinalityType
<1>1. 0 \in T
  <2>1. \A V \in SUBSET U : Cardinality(V) <= 0 => V = {}
    BY <1>0, FS_EmptySet
  <2> QED BY <2>1, SumEmpty
<1>2. ASSUME NEW n \in Nat, n \in T PROVE n + 1 \in T
  <2>1. ASSUME NEW V \in SUBSET U, Cardinality(V) <= n + 1 PROVE SumOn(f, V) = SumOn(g, V)
    <3>1. CASE V = {}
      BY <3>1, SumEmpty
    <3>2. CASE V # {}
      <4>1. PICK x : x \in V
        BY <3>2
      <4>2. V \ {x} \in SUBSET U /\ Cardinality(V \ {x}) <= n
        <5>1. Cardinality(V \ {x}) = Cardinality(V) - 1
          BY <1>0, <4>1, FS_RemoveElement
        <5> QED BY <1>0, <2>1, <5>1
      <4>3. SumOn(f, V \ {x}) = SumOn(g, V \ {x})
        BY <1>2, <4>2
      <4>4. SumOn(f, V) = f[x] + SumOn(f, V \ {x}) /\ SumOn(g, V) = g[x] + SumOn(g, V \ {x})
        BY <4>1, SumAdds
      <4> QED BY <4>1, <4>3, <4>4
    <3> QED BY <3>1, <3>2
  <2> QED BY <2>1
<1>3. Nat \subseteq T
  <2> HIDE DEF T
  <2> QED BY <1>1, <1>2, SetInduction
<1> QED BY <1>0, <1>3

\* When one of the numbers changes, the sum changes by as much.
LEMMA SumChanges ==
  ASSUME NEW S, IsFiniteSet(S), NEW f \in [S -> Nat], NEW g \in [S -> Nat],
         NEW x \in S, \A y \in S : y # x => g[y] = f[y]
  PROVE  /\ SumOn(f, S) \in Nat /\ SumOn(g, S) \in Nat
         /\ SumOn(g, S) + f[x] = SumOn(f, S) + g[x]
<1>1. SumOn(f, S \ {x}) = SumOn(g, S \ {x})
  BY SumSame
<1>2. /\ SumOn(f, S) = f[x] + SumOn(f, S \ {x}) /\ SumOn(g, S) = g[x] + SumOn(g, S \ {x})
      /\ SumOn(f, S \ {x}) \in Nat
  BY SumAdds
<1> QED BY <1>1, <1>2

\* A sum falls when one of its numbers falls.
LEMMA SumFalls ==
  ASSUME NEW S, IsFiniteSet(S), NEW f \in [S -> Nat], NEW g \in [S -> Nat],
         NEW x \in S, g[x] < f[x], \A y \in S : y # x => g[y] = f[y]
  PROVE  SumOn(g, S) < SumOn(f, S)
<1>1. f[x] \in Nat /\ g[x] \in Nat
  OBVIOUS
<1> QED BY <1>1, SumChanges

\* A sum of numbers each at most c.
LEMMA SumAtMost ==
  ASSUME NEW S, IsFiniteSet(S), NEW f \in [S -> Nat], NEW c \in Nat, \A x \in S : f[x] <= c
  PROVE  SumOn(f, S) <= Cardinality(S) * c
<1> DEFINE T == {n \in Nat : \A U \in SUBSET S : Cardinality(U) = n => SumOn(f, U) <= n * c}
<1>0. \A U \in SUBSET S : IsFiniteSet(U) /\ Cardinality(U) \in Nat
  BY FS_Subset, FS_CardinalityType
<1>1. 0 \in T
  <2>1. \A U \in SUBSET S : Cardinality(U) = 0 => U = {}
    BY <1>0, FS_EmptySet
  <2>2. 0 * c = 0
    OBVIOUS
  <2>3. \A U \in SUBSET S : Cardinality(U) = 0 => SumOn(f, U) <= 0
    BY <2>1, SumEmpty
  <2> QED BY <2>2, <2>3
<1>2. ASSUME NEW n \in Nat, n \in T PROVE n + 1 \in T
  <2>1. ASSUME NEW U \in SUBSET S, Cardinality(U) = n + 1 PROVE SumOn(f, U) <= (n + 1) * c
    <3>1. PICK x : x \in U
      BY <2>1, FS_EmptySet
    <3>2. U \ {x} \in SUBSET S /\ Cardinality(U \ {x}) = n
      <4>1. Cardinality(U \ {x}) = Cardinality(U) - 1
        BY <1>0, <3>1, FS_RemoveElement
      <4> QED BY <2>1, <4>1
    <3>3. SumOn(f, U \ {x}) <= n * c
      BY <1>2, <3>2
    <3>4. /\ SumOn(f, U) = f[x] + SumOn(f, U \ {x}) /\ f[x] \in Nat /\ f[x] <= c
          /\ SumOn(f, U \ {x}) \in Nat
      BY <3>1, <3>2, SumAdds
    <3>5. (n + 1) * c = n * c + c /\ n * c \in Nat
      OBVIOUS
    <3> QED BY <3>3, <3>4, <3>5
  <2> QED BY <2>1
<1>3. Nat \subseteq T
  <2> HIDE DEF T
  <2> QED BY <1>1, <1>2, SetInduction
<1> QED BY <1>0, <1>3
=============================================================================
