------------------------------ MODULE Induction ------------------------------
(***************************************************************************)
(* Induction over the naturals and over finite sets, with the set of those *)
(* for which a statement holds in the place of the statement: what the     *)
(* proof modules need to reason about definitions that are recursive.      *)
(***************************************************************************)
EXTENDS Integers, FiniteSets, FiniteSetsExt, FiniteSetTheorems, WellFoundedInduction, TLAPS

\* A set that has 0 and, with every number, the next one, has all of them.
THEOREM NaturalInduction ==
  ASSUME NEW G, 0 \in G, \A n \in Nat : n \in G => n + 1 \in G
  PROVE  \A n \in Nat : n \in G
<1> DEFINE Less == {p \in Nat \X Nat : p[1] < p[2]}
           Bad == {n \in Nat : n \notin G}
<1>1. IsWellFoundedOn(Less, Nat)
  BY NatLessThanWellFounded DEF OpToRel
<1>2. \A m, n \in Nat : m < n => <<m, n>> \in Less
  OBVIOUS
<1> HIDE DEF Less
<1>3. ASSUME Bad # {} PROVE FALSE
  <2>1. Bad \subseteq Nat
    OBVIOUS
  <2>2. \E n \in Bad : \A m \in Bad : <<m, n>> \notin Less
    <3> HIDE DEF Bad
    <3>. QED
      BY <1>1, <1>3, <2>1, WFMin
  <2>3. PICK n \in Bad : \A m \in Bad : <<m, n>> \notin Less
    BY <2>2
  <2>4. n \in Nat /\ n - 1 \in Nat /\ n - 1 < n /\ (n - 1) + 1 = n
    BY <2>3
  <2>5. n - 1 \in G
    BY <1>2, <2>3, <2>4
  <2>. QED
    BY <2>3, <2>4, <2>5
<1>. QED
  BY <1>3

\* A set of sets that has the empty set and, with every proper part of a finite
\* set S, that part and one more element of S, has S.
THEOREM FiniteSetInduction ==
  ASSUME NEW S, IsFiniteSet(S), NEW G, {} \in G,
         \A T \in SUBSET S : \A x \in S \ T : T \in G => T \union {x} \in G
  PROVE  S \in G
<1> DEFINE Bad == {T \in SUBSET S : T \notin G}
<1>1. IsWellFoundedOn(StrictSubsetOrdering(S), SUBSET S)
  BY FS_StrictSubsetOrderingWellFounded, FS_FiniteSubsetsOfFinite
<1>2. Bad \subseteq SUBSET S
  OBVIOUS
<1>3. ASSUME Bad # {} PROVE FALSE
  <2>1. \E T \in Bad : \A U \in Bad : <<U, T>> \notin StrictSubsetOrdering(S)
    <3> HIDE DEF Bad
    <3>. QED
      BY <1>1, <1>2, <1>3, WFMin
  <2>2. PICK T \in Bad : \A U \in Bad : <<U, T>> \notin StrictSubsetOrdering(S)
    BY <2>1
  <2>3. PICK x \in T : TRUE
    BY <2>2
  <2>4. T \ {x} \in SUBSET S /\ T \ {x} # T
    BY <2>2, <2>3
  <2>5. <<T \ {x}, T>> \in StrictSubsetOrdering(S)
    BY <2>2, <2>4 DEF StrictSubsetOrdering
  <2>6. T \ {x} \in G
    BY <2>2, <2>4, <2>5
  <2>7. (T \ {x}) \union {x} = T
    BY <2>3
  <2>. QED
    BY <2>2, <2>3, <2>4, <2>6, <2>7
<1>. QED
  BY <1>3

\* F makes, of any function, the one that a recursive equation gives, whose value
\* at x depends on nothing but the values of the function where the rank is lower.
IsRecursion(D, V, N, rank, F) ==
    /\ V # {} /\ N \in Nat
    /\ \A x \in D : rank[x] \in 0 .. N
    /\ \A f \in [D -> V] : F[f] \in [D -> V]
    /\ \A f, g \in [D -> V] : \A x \in D :
          (\A y \in D : rank[y] < rank[x] => f[y] = g[y]) => F[f][x] = F[g][x]

\* The equation has a solution, a fixed point of F.
THEOREM BoundedRecursion ==
  ASSUME NEW D, NEW V, NEW N, NEW rank, NEW F, IsRecursion(D, V, N, rank, F)
  PROVE  \E f \in [D -> V] : f = F[f]
<1> USE DEF IsRecursion
<1> DEFINE G == {k \in Nat : \E f \in [D -> V] : \A x \in D : rank[x] < k => f[x] = F[f][x]}
<1>1. 0 \in G
  <2>1. PICK v \in V : TRUE
    OBVIOUS
  <2>2. [x \in D |-> v] \in [D -> V]
    OBVIOUS
  <2>3. \A x \in D : ~(rank[x] < 0)
    OBVIOUS
  <2>. QED
    BY <2>2, <2>3
<1>2. ASSUME NEW k \in Nat, k \in G PROVE k + 1 \in G
  <2>1. PICK f \in [D -> V] : \A x \in D : rank[x] < k => f[x] = F[f][x]
    BY <1>2
  <2>2. F[f] \in [D -> V]
    OBVIOUS
  <2>3. ASSUME NEW x \in D, rank[x] < k + 1 PROVE F[f][x] = F[F[f]][x]
    <3>1. \A y \in D : rank[y] < rank[x] => rank[y] < k
      BY <2>3
    <3>2. \A y \in D : rank[y] < rank[x] => f[y] = F[f][y]
      BY <2>1, <3>1
    <3>. QED
      BY <2>2, <3>2
  <2>. QED
    BY <2>2, <2>3
<1> HIDE DEF G
<1>3. N + 1 \in G
  BY <1>1, <1>2, NaturalInduction
<1>4. PICK f \in [D -> V] : \A x \in D : rank[x] < N + 1 => f[x] = F[f][x]
  BY <1>3 DEF G
<1>5. \A x \in D : rank[x] < N + 1
  OBVIOUS
<1>6. \A x \in D : f[x] = F[f][x]
  BY <1>4, <1>5
<1>7. F[f] \in [D -> V]
  OBVIOUS
<1>. QED
  BY <1>6, <1>7

\* The largest of a set of positions is one of them.
THEOREM MaxIsLast ==
  ASSUME NEW n \in Nat, NEW S \in SUBSET (1 .. n), S # {}
  PROVE  /\ Max(S) \in S
         /\ \A y \in S : y <= Max(S)
<1>1. \E x \in S : \A y \in S : x >= y
  <2> DEFINE G == {k \in Nat : \A R \in SUBSET (1 .. k) :
                      R # {} => \E x \in R : \A y \in R : x >= y}
  <2>1. 0 \in G
    <3>1. 1 .. 0 = {}
      OBVIOUS
    <3>. QED
      BY <3>1
  <2>2. ASSUME NEW k \in Nat, k \in G PROVE k + 1 \in G
    <3> SUFFICES ASSUME NEW R \in SUBSET (1 .. k + 1), R # {}
                 PROVE  \E x \in R : \A y \in R : x >= y
      OBVIOUS
    <3>1. CASE k + 1 \in R
      BY <3>1
    <3>2. CASE k + 1 \notin R
      <4>1. R \in SUBSET (1 .. k)
        BY <3>2
      <4>. QED
        BY <2>2, <4>1
    <3>. QED
      BY <3>1, <3>2
  <2> HIDE DEF G
  <2>3. n \in G
    BY <2>1, <2>2, NaturalInduction
  <2>. QED
    BY <2>3 DEF G
<1>2. /\ Max(S) \in S
      /\ \A y \in S : Max(S) >= y
  BY <1>1 DEF Max
<1>. QED
  BY <1>2

\* f is the fold over sets of the positions of a sequence, which takes the last one
\* first; step is what it does with what it has so far and a position.
IsFold(base, n, step, f) ==
    \A S \in SUBSET (1 .. n) :
        f[S] = IF S = {} THEN base ELSE step[<<f[S \ {Max(S)}], Max(S)>>]

\* There is such a function.
THEOREM FoldHasSolution ==
  ASSUME NEW V, NEW base \in V, NEW n \in Nat, NEW step \in [V \X (1 .. n) -> V]
  PROVE  \E f \in [SUBSET (1 .. n) -> V] : IsFold(base, n, step, f)
<1>1. ASSUME NEW S \in SUBSET (1 .. n) PROVE IsFiniteSet(S) /\ Cardinality(S) \in 0 .. n
  <2> DEFINE I == 1 .. n
  <2>1. IsFiniteSet(I) /\ Cardinality(I) = n
    BY FS_Interval
  <2>2. S \in SUBSET I
    OBVIOUS
  <2> HIDE DEF I
  <2>3. IsFiniteSet(S) /\ Cardinality(S) <= n
    BY <2>1, <2>2, FS_Subset
  <2>. QED
    BY <2>3, FS_CardinalityType
<1> DEFINE D == SUBSET (1 .. n)
           rank == [S \in D |-> Cardinality(S)]
           F == [f \in [D -> V] |-> [S \in D |->
                   IF S = {} THEN base ELSE step[<<f[S \ {Max(S)}], Max(S)>>]]]
<1>2. \A S \in D : rank[S] \in 0 .. n
  BY <1>1
<1>3. ASSUME NEW S \in D, S # {}
      PROVE  Max(S) \in 1 .. n /\ S \ {Max(S)} \in D /\ rank[S \ {Max(S)}] < rank[S]
  <2>1. Max(S) \in S
    BY <1>3, MaxIsLast
  <2>2. Cardinality(S \ {Max(S)}) = Cardinality(S) - 1
    BY <1>1, <2>1, FS_RemoveElement
  <2>3. Max(S) \in 1 .. n /\ S \ {Max(S)} \in D
    BY <2>1
  <2>4. Cardinality(S) \in Nat
    BY <1>1
  <2> HIDE DEF D
  <2>. QED
    BY <2>2, <2>3, <2>4
<1>4. \A f \in [D -> V] : F[f] \in [D -> V]
  <2>1. ASSUME NEW f \in [D -> V], NEW S \in D
        PROVE  (IF S = {} THEN base ELSE step[<<f[S \ {Max(S)}], Max(S)>>]) \in V
    <3> HIDE DEF D
    <3>. QED
      BY <1>3
  <2> HIDE DEF D
  <2>. QED
    BY <2>1
<1>5. ASSUME NEW f \in [D -> V], NEW g \in [D -> V], NEW S \in D,
             \A T \in D : rank[T] < rank[S] => f[T] = g[T]
      PROVE  F[f][S] = F[g][S]
  <2>1. S # {} => f[S \ {Max(S)}] = g[S \ {Max(S)}]
    BY <1>3, <1>5
  <2> HIDE DEF D
  <2>. QED
    BY <2>1
<1> HIDE DEF F, rank, D
<1>6. IsRecursion(D, V, n, rank, F)
  BY <1>2, <1>4, <1>5 DEF IsRecursion
<1>7. \E f \in [D -> V] : f = F[f]
  BY <1>6, BoundedRecursion
<1>8. PICK f \in [D -> V] : f = F[f]
  BY <1>7
<1>. QED
  BY <1>8 DEF F, D, IsFold

\* What such a fold makes of the first positions, one after the other.
THEOREM PrefixOfFold ==
  ASSUME NEW n \in Nat, NEW j \in 1 .. n
  PROVE  /\ 1 .. j \in SUBSET (1 .. n) /\ 1 .. j # {}
         /\ Max(1 .. j) = j /\ (1 .. j) \ {j} = 1 .. j - 1
<1>1. 1 .. j \in SUBSET (1 .. n) /\ 1 .. j # {} /\ j \in Nat /\ j \in 1 .. j
  OBVIOUS
<1>2. Max(1 .. j) \in 1 .. j /\ j <= Max(1 .. j)
  BY <1>1, MaxIsLast
<1>. QED
  BY <1>1, <1>2

\* A function of the numbers up to n whose value at each is made by step of the value
\* at the one before and the number.
IsChain(base, n, step, f) ==
    f = [i \in 0 .. n |-> IF i = 0 THEN base ELSE step[<<f[i - 1], i>>]]

\* There is such a function.
THEOREM ChainHasSolution ==
  ASSUME NEW V, NEW base \in V, NEW n \in Nat, NEW step \in [V \X (1 .. n) -> V]
  PROVE  \E f \in [0 .. n -> V] : IsChain(base, n, step, f)
<1> DEFINE D == 0 .. n
           rank == [i \in D |-> i]
           F == [f \in [D -> V] |-> [i \in D |-> IF i = 0 THEN base ELSE step[<<f[i - 1], i>>]]]
<1>1. ASSUME NEW i \in D, i # 0 PROVE i - 1 \in D /\ i \in 1 .. n /\ rank[i - 1] < rank[i]
  BY <1>1
<1>2. \A i \in D : rank[i] \in 0 .. n
  OBVIOUS
<1>3. \A f \in [D -> V] : F[f] \in [D -> V]
  <2>1. ASSUME NEW f \in [D -> V], NEW i \in D
        PROVE  (IF i = 0 THEN base ELSE step[<<f[i - 1], i>>]) \in V
    <3> HIDE DEF D
    <3>. QED
      BY <1>1
  <2> HIDE DEF D
  <2>. QED
    BY <2>1
<1>4. ASSUME NEW f \in [D -> V], NEW g \in [D -> V], NEW i \in D,
             \A j \in D : rank[j] < rank[i] => f[j] = g[j]
      PROVE  F[f][i] = F[g][i]
  <2>1. i # 0 => f[i - 1] = g[i - 1]
    BY <1>1, <1>4
  <2> HIDE DEF D
  <2>. QED
    BY <2>1
<1> HIDE DEF F, rank, D
<1>5. IsRecursion(D, V, n, rank, F)
  BY <1>2, <1>3, <1>4 DEF IsRecursion
<1>6. PICK f \in [D -> V] : f = F[f]
  BY <1>5, BoundedRecursion
<1>. QED
  BY <1>6 DEF F, D, IsChain
=============================================================================
