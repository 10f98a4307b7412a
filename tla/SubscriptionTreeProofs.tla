------------------------ MODULE SubscriptionTreeProofs ------------------------
(***************************************************************************)
(* What is proved of SubscriptionTree for any clients, filters, topics and *)
(* number of subscriptions: the trie stays well placed, counts what is     *)
(* subscribed and finds exactly the subscriptions that match.              *)
(***************************************************************************)
EXTENDS SubscriptionTree, Induction, SequenceTheorems

-----------------------------------------------------------------------------
(* Sequences and the sets of their elements *)

\* The elements of a sequence with one more.
LEMMA RangeOfAppend ==
  ASSUME NEW S, NEW v \in Seq(S), NEW x \in S
  PROVE  /\ Append(v, x) \in Seq(S)
         /\ Range(Append(v, x)) = Range(v) \union {x}
<1>1. /\ Append(v, x) \in Seq(S) /\ Len(v) \in Nat
      /\ DOMAIN v = 1 .. Len(v) /\ DOMAIN Append(v, x) = 1 .. Len(v) + 1
      /\ \A i \in 1 .. Len(v) : Append(v, x)[i] = v[i]
      /\ Append(v, x)[Len(v) + 1] = x
  BY AppendProperties, LenProperties
<1>2. ASSUME NEW y \in Range(Append(v, x)) PROVE y \in Range(v) \union {x}
  BY <1>1 DEF Range
<1>3. ASSUME NEW y \in Range(v) \union {x} PROVE y \in Range(Append(v, x))
  <2>1. CASE y = x
    BY <1>1, <2>1 DEF Range
  <2>2. CASE y \in Range(v)
    BY <1>1, <2>2 DEF Range
  <2>. QED
    BY <1>3, <2>1, <2>2
<1>. QED
  BY <1>1, <1>2, <1>3

\* The elements of two sequences in a row.
LEMMA RangeOfConcat ==
  ASSUME NEW S, NEW v \in Seq(S), NEW w \in Seq(S)
  PROVE  v \o w \in Seq(S) /\ Range(v \o w) = Range(v) \union Range(w)
<1>1. /\ v \o w \in Seq(S) /\ Len(v) \in Nat /\ Len(w) \in Nat
      /\ DOMAIN v = 1 .. Len(v) /\ DOMAIN w = 1 .. Len(w)
      /\ DOMAIN (v \o w) = 1 .. Len(v) + Len(w)
      /\ \A i \in 1 .. Len(v) + Len(w) :
            (v \o w)[i] = IF i <= Len(v) THEN v[i] ELSE w[i - Len(v)]
  BY ConcatProperties, LenProperties
<1>2. ASSUME NEW y \in Range(v \o w) PROVE y \in Range(v) \union Range(w)
  <2>1. PICK i \in 1 .. Len(v) + Len(w) : y = (v \o w)[i]
    BY <1>1 DEF Range
  <2>2. i <= Len(v) => i \in 1 .. Len(v)
    BY <1>1
  <2>3. ~(i <= Len(v)) => i - Len(v) \in 1 .. Len(w)
    BY <1>1
  <2>. QED
    BY <1>1, <2>1, <2>2, <2>3 DEF Range
<1>3. ASSUME NEW y \in Range(v) PROVE y \in Range(v \o w)
  <2>1. PICK i \in 1 .. Len(v) : y = v[i]
    BY <1>1, <1>3 DEF Range
  <2>2. i \in 1 .. Len(v) + Len(w) /\ (v \o w)[i] = v[i]
    BY <1>1
  <2>. QED
    BY <1>1, <2>1, <2>2 DEF Range
<1>4. ASSUME NEW y \in Range(w) PROVE y \in Range(v \o w)
  <2>1. PICK i \in 1 .. Len(w) : y = w[i]
    BY <1>1, <1>4 DEF Range
  <2>2. Len(v) + i \in 1 .. Len(v) + Len(w) /\ ~(Len(v) + i <= Len(v)) /\ Len(v) + i - Len(v) = i
    BY <1>1
  <2>3. (v \o w)[Len(v) + i] = w[i]
    BY <1>1, <2>2
  <2>. QED
    BY <1>1, <2>1, <2>2, <2>3 DEF Range
<1>. QED
  BY <1>1, <1>2, <1>3, <1>4

\* The empty sequence has no elements.
LEMMA RangeOfEmpty == ASSUME NEW S PROVE <<>> \in Seq(S) /\ Range(<<>>) = {} /\ Len(<<>>) = 0
BY EmptySeq DEF Range

\* A sequence whose elements have different clients has each of them once.
OncePerClient(v) == \A i, j \in DOMAIN v : v[i].client = v[j].client => i = j

\* It stays so when an element of another client is added.
LEMMA OnceGrows ==
  ASSUME NEW S, NEW v \in Seq(S), NEW x \in S, OncePerClient(v),
         \A y \in Range(v) : y.client # x.client
  PROVE  OncePerClient(Append(v, x))
<1>1. /\ Append(v, x) \in Seq(S) /\ Len(v) \in Nat
      /\ DOMAIN v = 1 .. Len(v) /\ DOMAIN Append(v, x) = 1 .. Len(v) + 1
      /\ \A i \in 1 .. Len(v) : Append(v, x)[i] = v[i]
      /\ Append(v, x)[Len(v) + 1] = x
  BY AppendProperties, LenProperties
<1>2. \A i \in 1 .. Len(v) : v[i].client # x.client
  BY <1>1 DEF Range
<1>3. \A i \in 1 .. Len(v) + 1 : i \in 1 .. Len(v) \/ i = Len(v) + 1
  BY <1>1
<1>. QED
  BY <1>1, <1>2, <1>3 DEF OncePerClient

-----------------------------------------------------------------------------
(* Removing a client from a node *)

\* What the fold over the entries of a node has kept after each of them.
Keeping(v, c, h) ==
    /\ h[0] = <<>>
    /\ \A i \in 1 .. Len(v) :
          h[i] = IF v[i].client = c THEN h[i - 1] ELSE Append(h[i - 1], v[i])

\* WithoutClient goes through the entries one after the other.
LEMMA WithoutClientKeeps ==
  ASSUME NEW S, NEW v \in Seq(S), NEW c
  PROVE  \E h : Keeping(v, c, h) /\ WithoutClient(v, c) = h[Len(v)]
<1> DEFINE n == Len(v)
           step == [x \in Seq(S) \X (1 .. n) |->
                      IF v[x[2]].client = c THEN x[1] ELSE Append(x[1], v[x[2]])]
           Fold(f) == f = [T \in SUBSET (1 .. n) |->
                             IF T = {} THEN <<>>
                             ELSE IF v[Max(T)].client = c THEN f[T \ {Max(T)}]
                                  ELSE Append(f[T \ {Max(T)}], v[Max(T)])]
           f == CHOOSE f : Fold(f)
           h == [j \in 0 .. n |-> f[1 .. j]]
<1>1. n \in Nat /\ DOMAIN v = 1 .. n /\ \A i \in 1 .. n : v[i] \in S
  BY LenProperties, ElementOfSeq
<1> HIDE DEF n
<1>2. \E g : Fold(g)
  <2>1. step \in [Seq(S) \X (1 .. n) -> Seq(S)]
    <3>1. ASSUME NEW u \in Seq(S), NEW i \in 1 .. n PROVE Append(u, v[i]) \in Seq(S)
      BY <1>1, AppendProperties
    <3>. QED
      BY <3>1
  <2>2. <<>> \in Seq(S)
    BY EmptySeq
  <2> HIDE DEF step
  <2>3. PICK g \in [SUBSET (1 .. n) -> Seq(S)] : IsFold(<<>>, n, step, g)
    BY <1>1, <2>1, <2>2, FoldHasSolution
  <2>4. \A T \in SUBSET (1 .. n) :
           g[T] = IF T = {} THEN <<>> ELSE step[<<g[T \ {Max(T)}], Max(T)>>]
    BY <2>3 DEF IsFold
  <2>5. ASSUME NEW T \in SUBSET (1 .. n), T # {}
        PROVE  g[T] = IF v[Max(T)].client = c THEN g[T \ {Max(T)}]
                      ELSE Append(g[T \ {Max(T)}], v[Max(T)])
    <3>1. Max(T) \in 1 .. n
      BY <1>1, <2>5, MaxIsLast
    <3>2. g[T \ {Max(T)}] \in Seq(S)
      OBVIOUS
    <3> DEFINE u == g[T \ {Max(T)}]
    <3>3. g[T] = step[<<u, Max(T)>>]
      BY <2>4, <2>5
    <3> HIDE DEF u
    <3>4. <<u, Max(T)>> \in Seq(S) \X (1 .. n)
      BY <3>1, <3>2 DEF u
    <3>5. step[<<u, Max(T)>>] = IF v[Max(T)].client = c THEN u ELSE Append(u, v[Max(T)])
      BY <3>4 DEF step
    <3>. QED
      BY <3>3, <3>5 DEF u
  <2>6. \A T \in SUBSET (1 .. n) :
           g[T] = IF T = {} THEN <<>>
                  ELSE IF v[Max(T)].client = c THEN g[T \ {Max(T)}]
                       ELSE Append(g[T \ {Max(T)}], v[Max(T)])
    BY <2>4, <2>5
  <2>7. g = [T \in SUBSET (1 .. n) |-> g[T]]
    OBVIOUS
  <2>8. Fold(g)
    BY <2>6, <2>7
  <2>. QED
    BY <2>8
<1>3. Fold(f)
  BY <1>2
<1>4. WithoutClient(v, c) = f[1 .. n]
  <2>1. WithoutClient(v, c) = (CHOOSE iter : iter = [T \in SUBSET DOMAIN v |->
           IF T = {} THEN <<>>
           ELSE IF v[Max(T)].client = c THEN iter[T \ {Max(T)}]
                ELSE Append(iter[T \ {Max(T)}], v[Max(T)])])[DOMAIN v]
    BY DEF WithoutClient, FoldLeft, MapThenFoldSet
  <2>. QED
    BY <1>1, <2>1
<1> HIDE DEF f
<1>5. ASSUME NEW i \in 1 .. n
      PROVE  h[i] = IF v[i].client = c THEN h[i - 1] ELSE Append(h[i - 1], v[i])
  <2>1. /\ 1 .. i \in SUBSET (1 .. n) /\ 1 .. i # {}
        /\ Max(1 .. i) = i /\ (1 .. i) \ {i} = 1 .. i - 1
    BY <1>1, PrefixOfFold
  <2>2. f[1 .. i] = IF v[i].client = c THEN f[1 .. i - 1] ELSE Append(f[1 .. i - 1], v[i])
    BY <1>3, <2>1
  <2>. QED
    BY <1>1, <2>2
<1>6. h[0] = <<>>
  <2>1. 1 .. 0 = {} /\ 1 .. 0 \in SUBSET (1 .. n)
    OBVIOUS
  <2>2. f[1 .. 0] = <<>>
    BY <1>3, <2>1
  <2>. QED
    BY <1>1, <2>2
<1>7. h[n] = f[1 .. n]
  BY <1>1
<1> HIDE DEF h
<1>8. Keeping(v, c, h) /\ WithoutClient(v, c) = h[Len(v)]
  BY <1>4, <1>5, <1>6, <1>7 DEF Keeping, n
<1>. QED
  BY <1>8

\* What is left of a node are the entries of the other clients.
LEMMA WithoutClientCorrect ==
  ASSUME NEW S, NEW v \in Seq(S), NEW c
  PROVE  /\ WithoutClient(v, c) \in Seq(S)
         /\ Range(WithoutClient(v, c)) = {x \in Range(v) : x.client # c}
         /\ OncePerClient(v) => OncePerClient(WithoutClient(v, c))
<1>1. Len(v) \in Nat /\ DOMAIN v = 1 .. Len(v) /\ \A i \in 1 .. Len(v) : v[i] \in S
  BY LenProperties, ElementOfSeq
<1>2. PICK h : Keeping(v, c, h) /\ WithoutClient(v, c) = h[Len(v)]
  BY WithoutClientKeeps
<1> DEFINE Seen(i) == {v[j] : j \in 1 .. i}
           G == {i \in Nat : i <= Len(v) =>
                   /\ h[i] \in Seq(S)
                   /\ Range(h[i]) = {x \in Seen(i) : x.client # c}
                   /\ OncePerClient(v) => OncePerClient(h[i])}
<1>3. 0 \in G
  <2>1. h[0] = <<>> /\ Seen(0) = {}
    BY <1>2 DEF Keeping
  <2>2. OncePerClient(<<>>)
    BY DEF OncePerClient
  <2>. QED
    BY <2>1, <2>2, RangeOfEmpty
<1>4. ASSUME NEW i \in Nat, i \in G PROVE i + 1 \in G
  <2> SUFFICES ASSUME i + 1 <= Len(v)
               PROVE  /\ h[i + 1] \in Seq(S)
                      /\ Range(h[i + 1]) = {x \in Seen(i + 1) : x.client # c}
                      /\ OncePerClient(v) => OncePerClient(h[i + 1])
    OBVIOUS
  <2>1. /\ h[i] \in Seq(S) /\ Range(h[i]) = {x \in Seen(i) : x.client # c}
        /\ OncePerClient(v) => OncePerClient(h[i])
    BY <1>1, <1>4
  <2>2. i + 1 \in 1 .. Len(v) /\ (i + 1) - 1 = i
    BY <1>1
  <2>3. h[i + 1] = IF v[i + 1].client = c THEN h[i] ELSE Append(h[i], v[i + 1])
    BY <1>2, <2>2 DEF Keeping
  <2>4. Seen(i + 1) = Seen(i) \union {v[i + 1]}
    <3>1. \A j \in 1 .. i + 1 : j \in 1 .. i \/ j = i + 1
      OBVIOUS
    <3>2. \A j \in 1 .. i : j \in 1 .. i + 1
      OBVIOUS
    <3>. QED
      BY <3>1, <3>2
  <2>5. ASSUME OncePerClient(v), NEW y \in Seen(i) PROVE y.client # v[i + 1].client
    <3>1. PICK j \in 1 .. i : y = v[j]
      BY <2>5
    <3>2. j \in DOMAIN v /\ i + 1 \in DOMAIN v /\ j # i + 1
      BY <1>1, <2>2
    <3>. QED
      BY <2>5, <3>1, <3>2 DEF OncePerClient
  <2> HIDE DEF Seen
  <2>6. CASE v[i + 1].client = c
    BY <2>1, <2>3, <2>4, <2>6
  <2>7. CASE v[i + 1].client # c
    <3>1. v[i + 1] \in S /\ h[i + 1] = Append(h[i], v[i + 1])
      BY <1>1, <2>2, <2>3, <2>7
    <3>2. h[i + 1] \in Seq(S) /\ Range(h[i + 1]) = Range(h[i]) \union {v[i + 1]}
      BY <2>1, <3>1, RangeOfAppend
    <3>3. Range(h[i + 1]) = {x \in Seen(i + 1) : x.client # c}
      BY <2>1, <2>4, <2>7, <3>2
    <3>4. OncePerClient(v) => \A y \in Range(h[i]) : y.client # v[i + 1].client
      BY <2>1, <2>5
    <3>5. OncePerClient(v) => OncePerClient(h[i + 1])
      BY <2>1, <3>1, <3>4, OnceGrows
    <3>. QED
      BY <3>2, <3>3, <3>5
  <2>. QED
    BY <2>6, <2>7
<1>5. Seen(Len(v)) = Range(v)
  BY <1>1 DEF Range
<1> HIDE DEF G
<1>6. Len(v) \in G
  BY <1>1, <1>3, <1>4, NaturalInduction
<1>. QED
  BY <1>1, <1>2, <1>5, <1>6 DEF G

-----------------------------------------------------------------------------
(* Every subscription found once *)

\* A subscription of the same client to the same filter has been found before.
FoundBefore(u, x) ==
    \E j \in DOMAIN u : u[j].client = x.client /\ u[j].filter = x.filter

\* What the fold over the subscriptions found has seen after each of them.
Seeing(v, h) ==
    /\ h[0] = <<>>
    /\ \A i \in 1 .. Len(v) :
          h[i] = IF FoundBefore(h[i - 1], v[i]) THEN h[i - 1] ELSE Append(h[i - 1], v[i])

\* Dedup goes through what was found one after the other.
LEMMA DedupSees ==
  ASSUME NEW S, NEW v \in Seq(S)
  PROVE  \E h : Seeing(v, h) /\ Dedup(v) = h[Len(v)]
<1> DEFINE n == Len(v)
           step == [x \in Seq(S) \X (1 .. n) |->
                      IF FoundBefore(x[1], v[x[2]]) THEN x[1] ELSE Append(x[1], v[x[2]])]
           Fold(f) == f = [T \in SUBSET (1 .. n) |->
                             IF T = {} THEN <<>>
                             ELSE IF FoundBefore(f[T \ {Max(T)}], v[Max(T)])
                                  THEN f[T \ {Max(T)}]
                                  ELSE Append(f[T \ {Max(T)}], v[Max(T)])]
           f == CHOOSE f : Fold(f)
           h == [j \in 0 .. n |-> f[1 .. j]]
<1>1. n \in Nat /\ DOMAIN v = 1 .. n /\ \A i \in 1 .. n : v[i] \in S
  BY LenProperties, ElementOfSeq
<1> HIDE DEF n
<1>2. \E g : Fold(g)
  <2>1. step \in [Seq(S) \X (1 .. n) -> Seq(S)]
    <3>1. ASSUME NEW u \in Seq(S), NEW i \in 1 .. n PROVE Append(u, v[i]) \in Seq(S)
      BY <1>1, AppendProperties
    <3>. QED
      BY <3>1
  <2>2. <<>> \in Seq(S)
    BY EmptySeq
  <2> HIDE DEF step
  <2>3. PICK g \in [SUBSET (1 .. n) -> Seq(S)] : IsFold(<<>>, n, step, g)
    BY <1>1, <2>1, <2>2, FoldHasSolution
  <2>4. \A T \in SUBSET (1 .. n) :
           g[T] = IF T = {} THEN <<>> ELSE step[<<g[T \ {Max(T)}], Max(T)>>]
    BY <2>3 DEF IsFold
  <2>5. ASSUME NEW T \in SUBSET (1 .. n), T # {}
        PROVE  g[T] = IF FoundBefore(g[T \ {Max(T)}], v[Max(T)]) THEN g[T \ {Max(T)}]
                      ELSE Append(g[T \ {Max(T)}], v[Max(T)])
    <3>1. Max(T) \in 1 .. n
      BY <1>1, <2>5, MaxIsLast
    <3>2. g[T \ {Max(T)}] \in Seq(S)
      OBVIOUS
    <3> DEFINE u == g[T \ {Max(T)}]
    <3>3. g[T] = step[<<u, Max(T)>>]
      BY <2>4, <2>5
    <3> HIDE DEF u
    <3>4. <<u, Max(T)>> \in Seq(S) \X (1 .. n)
      BY <3>1, <3>2 DEF u
    <3>5. step[<<u, Max(T)>>] = IF FoundBefore(u, v[Max(T)]) THEN u ELSE Append(u, v[Max(T)])
      BY <3>4 DEF step
    <3>. QED
      BY <3>3, <3>5 DEF u
  <2>6. \A T \in SUBSET (1 .. n) :
           g[T] = IF T = {} THEN <<>>
                  ELSE IF FoundBefore(g[T \ {Max(T)}], v[Max(T)]) THEN g[T \ {Max(T)}]
                       ELSE Append(g[T \ {Max(T)}], v[Max(T)])
    BY <2>4, <2>5
  <2>7. g = [T \in SUBSET (1 .. n) |-> g[T]]
    OBVIOUS
  <2>8. Fold(g)
    BY <2>6, <2>7
  <2>. QED
    BY <2>8
<1>3. Fold(f)
  BY <1>2
<1>4. Dedup(v) = f[1 .. n]
  <2>1. Dedup(v) = (CHOOSE iter : iter = [T \in SUBSET DOMAIN v |->
           IF T = {} THEN <<>>
           ELSE IF FoundBefore(iter[T \ {Max(T)}], v[Max(T)]) THEN iter[T \ {Max(T)}]
                ELSE Append(iter[T \ {Max(T)}], v[Max(T)])])[DOMAIN v]
    BY DEF Dedup, FoundBefore, FoldLeft, MapThenFoldSet
  <2>. QED
    BY <1>1, <2>1
<1> HIDE DEF f
<1>5. ASSUME NEW i \in 1 .. n
      PROVE  h[i] = IF FoundBefore(h[i - 1], v[i]) THEN h[i - 1] ELSE Append(h[i - 1], v[i])
  <2>1. /\ 1 .. i \in SUBSET (1 .. n) /\ 1 .. i # {}
        /\ Max(1 .. i) = i /\ (1 .. i) \ {i} = 1 .. i - 1
    BY <1>1, PrefixOfFold
  <2>2. f[1 .. i] = IF FoundBefore(f[1 .. i - 1], v[i]) THEN f[1 .. i - 1]
                    ELSE Append(f[1 .. i - 1], v[i])
    BY <1>3, <2>1
  <2>. QED
    BY <1>1, <2>2
<1>6. h[0] = <<>>
  <2>1. 1 .. 0 = {} /\ 1 .. 0 \in SUBSET (1 .. n)
    OBVIOUS
  <2>2. f[1 .. 0] = <<>>
    BY <1>3, <2>1
  <2>. QED
    BY <1>1, <2>2
<1>7. h[n] = f[1 .. n]
  BY <1>1
<1> HIDE DEF h
<1>8. Seeing(v, h) /\ Dedup(v) = h[Len(v)]
  BY <1>4, <1>5, <1>6, <1>7 DEF Seeing, n
<1>. QED
  BY <1>8

\* Same elements, each of them once, unless two of them differ in their quality of
\* service alone.
LEMMA DedupCorrect ==
  ASSUME NEW S, NEW v \in Seq(S),
         \A x, y \in Range(v) : x.client = y.client /\ x.filter = y.filter => x = y
  PROVE  Range(Dedup(v)) = Range(v) /\ IsInjective(Dedup(v))
<1>1. Len(v) \in Nat /\ DOMAIN v = 1 .. Len(v) /\ \A i \in 1 .. Len(v) : v[i] \in S
  BY LenProperties, ElementOfSeq
<1>2. PICK h : Seeing(v, h) /\ Dedup(v) = h[Len(v)]
  BY DedupSees
<1> DEFINE Seen(i) == {v[j] : j \in 1 .. i}
           G == {i \in Nat : i <= Len(v) =>
                   h[i] \in Seq(S) /\ Range(h[i]) = Seen(i) /\ IsInjective(h[i])}
<1>3. 0 \in G
  <2>1. h[0] = <<>> /\ Seen(0) = {}
    BY <1>2 DEF Seeing
  <2>2. IsInjective(<<>>)
    BY DEF IsInjective
  <2>. QED
    BY <2>1, <2>2, RangeOfEmpty
<1>4. ASSUME NEW i \in Nat, i \in G PROVE i + 1 \in G
  <2> SUFFICES ASSUME i + 1 <= Len(v)
               PROVE  /\ h[i + 1] \in Seq(S) /\ Range(h[i + 1]) = Seen(i + 1)
                      /\ IsInjective(h[i + 1])
    OBVIOUS
  <2>1. h[i] \in Seq(S) /\ Range(h[i]) = Seen(i) /\ IsInjective(h[i])
    BY <1>1, <1>4
  <2>2. i + 1 \in 1 .. Len(v) /\ (i + 1) - 1 = i
    BY <1>1
  <2> DEFINE x == v[i + 1]
  <2>3. h[i + 1] = IF FoundBefore(h[i], x) THEN h[i] ELSE Append(h[i], x)
    BY <1>2, <2>2 DEF Seeing
  <2>4. Seen(i + 1) = Seen(i) \union {x}
    <3>1. \A j \in 1 .. i + 1 : j \in 1 .. i \/ j = i + 1
      OBVIOUS
    <3>2. \A j \in 1 .. i : j \in 1 .. i + 1
      OBVIOUS
    <3>. QED
      BY <3>1, <3>2
  <2>5. Seen(i) \subseteq Range(v) /\ x \in Range(v) /\ x \in S
    <3>1. \A j \in 1 .. i : j \in 1 .. Len(v)
      BY <1>1
    <3>. QED
      BY <1>1, <2>2, <3>1 DEF Range
  <2> HIDE DEF Seen, x
  <2>6. CASE FoundBefore(h[i], x)
    <3>1. PICK y \in Range(h[i]) : y.client = x.client /\ y.filter = x.filter
      BY <2>6 DEF FoundBefore, Range
    <3>2. y = x
      BY <2>1, <2>5, <3>1
    <3>. QED
      BY <2>1, <2>3, <2>4, <2>6, <3>1, <3>2
  <2>7. CASE ~FoundBefore(h[i], x)
    <3> DEFINE u == h[i]
    <3>1. h[i + 1] = Append(u, x) /\ u \in Seq(S) /\ IsInjective(u) /\ ~FoundBefore(u, x)
      BY <2>1, <2>3, <2>7
    <3>2. h[i + 1] \in Seq(S) /\ Range(h[i + 1]) = Range(h[i]) \union {x}
      BY <2>1, <2>5, <3>1, RangeOfAppend
    <3> HIDE DEF u
    <3>3. /\ Len(u) \in Nat
          /\ DOMAIN u = 1 .. Len(u) /\ DOMAIN Append(u, x) = 1 .. Len(u) + 1
          /\ \A j \in 1 .. Len(u) : Append(u, x)[j] = u[j]
          /\ Append(u, x)[Len(u) + 1] = x
      BY <2>5, <3>1, AppendProperties, LenProperties
    <3>4. \A j \in 1 .. Len(u) : u[j] # x
      BY <3>1, <3>3 DEF FoundBefore
    <3>5. \A j \in 1 .. Len(u) + 1 : j \in 1 .. Len(u) \/ j = Len(u) + 1
      BY <3>3
    <3>6. IsInjective(Append(u, x))
      BY <3>1, <3>3, <3>4, <3>5 DEF IsInjective
    <3>. QED
      BY <2>1, <2>4, <3>1, <3>2, <3>6
  <2>. QED
    BY <2>6, <2>7
<1>5. Seen(Len(v)) = Range(v)
  BY <1>1 DEF Range
<1> HIDE DEF G, Seen
<1>6. Len(v) \in G
  BY <1>1, <1>3, <1>4, NaturalInduction
<1>7. Range(h[Len(v)]) = Seen(Len(v)) /\ IsInjective(h[Len(v)])
  BY <1>1, <1>6 DEF G
<1>. QED
  BY <1>2, <1>5, <1>7

-----------------------------------------------------------------------------
(* The tree is well placed *)

\* The entries of a node are of its own filter, one for each client.
NodeFits(p, v) ==
    /\ v \in Seq(Subscription)
    /\ \A x \in Range(v) : x.filter = p
    /\ OncePerClient(v)

\* The entries of a node after s is inserted: s in the place of what its client had.
LEMMA PutInCorrect ==
  ASSUME NEW v, NEW s \in Subscription, NodeFits(s.filter, v)
  PROVE  /\ NodeFits(s.filter, PutIn(v, s))
         /\ Range(PutIn(v, s)) = {x \in Range(v) : x.client # s.client} \union {s}
<1> DEFINE same == {i \in DOMAIN v : v[i].client = s.client /\ v[i].filter = s.filter}
<1>1. /\ v \in Seq(Subscription) /\ Len(v) \in Nat /\ DOMAIN v = 1 .. Len(v)
      /\ \A i \in 1 .. Len(v) : v[i] \in Subscription /\ v[i] \in Range(v)
  BY LenProperties, ElementOfSeq DEF NodeFits, Range
<1>2. \A i \in 1 .. Len(v) : v[i].filter = s.filter
  BY <1>1 DEF NodeFits
<1>3. PutIn(v, s) = IF same = {} THEN Append(v, s) ELSE [v EXCEPT ![Min(same)].qos = s.qos]
  BY DEF PutIn
<1>4. CASE same = {}
  <2>1. \A x \in Range(v) : x.client # s.client
    BY <1>1, <1>2, <1>4 DEF Range
  <2>2. /\ Append(v, s) \in Seq(Subscription)
        /\ Range(Append(v, s)) = Range(v) \union {s}
    BY <1>1, RangeOfAppend
  <2>3. OncePerClient(Append(v, s))
    BY <1>1, <2>1, OnceGrows DEF NodeFits
  <2> HIDE DEF same
  <2>4. PutIn(v, s) = Append(v, s)
    BY <1>3, <1>4
  <2>. QED
    BY <2>1, <2>2, <2>3, <2>4 DEF NodeFits
<1>5. CASE same # {}
  <2>1. PICK k \in same : TRUE
    BY <1>5
  <2>2. k \in 1 .. Len(v) /\ v[k].client = s.client /\ v[k].filter = s.filter
    BY <1>1, <2>1
  <2>3. same = {k}
    BY <1>1, <2>2 DEF NodeFits, OncePerClient
  <2>4. Min(same) = k
    BY <1>1, <2>2, <2>3 DEF Min
  <2> DEFINE w == [v EXCEPT ![k].qos = s.qos]
  <2>5. PutIn(v, s) = w
    BY <1>3, <1>5, <2>4
  <2>6. v[k] \in Subscription
    BY <1>1, <2>2
  <2>7. [v[k] EXCEPT !.qos = s.qos] = s
    BY <2>2, <2>6 DEF Subscription
  <2>8. w = [i \in 1 .. Len(v) |-> IF i = k THEN s ELSE v[i]]
    <3>1. v = [i \in 1 .. Len(v) |-> v[i]]
      BY <1>1, LenProperties
    <3>. QED
      BY <2>2, <2>7, <3>1
  <2> HIDE DEF w
  <2>9. w \in Seq(Subscription) /\ DOMAIN w = 1 .. Len(v)
    BY <1>1, <2>8, SeqDef
  <2>10. \A i \in 1 .. Len(v) : i # k => v[i].client # s.client
    BY <1>1, <2>2 DEF NodeFits, OncePerClient
  <2>11. Range(w) = {x \in Range(v) : x.client # s.client} \union {s}
    BY <1>1, <2>2, <2>8, <2>9, <2>10 DEF Range
  <2>12. \A i \in 1 .. Len(v) : w[i].client = v[i].client
    BY <2>2, <2>8
  <2>13. OncePerClient(w)
    BY <1>1, <2>9, <2>12 DEF NodeFits, OncePerClient
  <2>. QED
    BY <2>5, <2>9, <2>11, <2>13 DEF NodeFits
<1>. QED
  BY <1>4, <1>5

\* The inductive invariant: every entry is of the filter of its node, which can be
\* reached from the root, and the entries are the subscriptions in force.
TreeInv ==
    /\ node \in [Nodes -> Seq(Subscription)]
    /\ Root \in Nodes /\ IsFiniteSet(Nodes) /\ Nodes \subseteq Seq(Segment)
    /\ \A p \in Nodes : NodeFits(p, node[p]) /\ \A n \in 0 .. Len(p) : SubSeq(p, 1, n) \in Nodes
    /\ subs \subseteq Subscription
    /\ \A x \in Subscription : x \in subs <=> x.filter \in Nodes /\ x \in Range(node[x.filter])

\* The invariant has what TypeOK says.
LEMMA TreeInvTyped == TreeInv => TypeOK
<1> SUFFICES ASSUME TreeInv PROVE TypeOK
  OBVIOUS
<1>1. ASSUME NEW p \in Nodes PROVE node[p] \in Seq(Subscription) /\ p \in Seq(Segment)
  BY DEF TreeInv, NodeFits
<1>2. ASSUME NEW p \in Nodes, NEW i \in DOMAIN node[p], NEW j \in DOMAIN node[p]
      PROVE  /\ node[p][i].filter = p
             /\ node[p][i].client = node[p][j].client => i = j
  <2>1. NodeFits(p, node[p])
    BY DEF TreeInv
  <2>2. node[p][i] \in Range(node[p])
    BY DEF Range
  <2>. QED
    BY <2>1, <2>2 DEF NodeFits, OncePerClient
<1>. QED
  BY <1>1, <1>2 DEF TypeOK, TreeInv

\* At the start there is only the root.
LEMMA TreeInvInit == Init => TreeInv
<1> SUFFICES ASSUME Init PROVE TreeInv
  OBVIOUS
<1>1. Nodes = {Root} /\ node[Root] = <<>> /\ subs = {}
  BY DEF Init, Nodes, Root
<1>2. Root \in Seq(Segment) /\ Len(Root) = 0 /\ SubSeq(Root, 1, 0) = Root
  BY EmptySeq, SubSeqProperties DEF Root
<1>3. NodeFits(Root, <<>>)
  BY RangeOfEmpty DEF NodeFits, OncePerClient
<1>4. IsFiniteSet({Root})
  BY FS_Singleton
<1>5. \A n \in 0 .. Len(Root) : n = 0
  BY <1>2
<1>7. node \in [Nodes -> Seq(Subscription)]
  <2>1. node = [p \in {Root} |-> <<>>] /\ <<>> \in Seq(Subscription)
    BY EmptySeq DEF Init
  <2>. QED
    BY <1>1, <2>1
<1>6. \A x \in Subscription : ~(x.filter \in Nodes /\ x \in Range(node[x.filter]))
  BY <1>1, RangeOfEmpty
<1>. QED
  BY <1>1, <1>2, <1>3, <1>4, <1>5, <1>6, <1>7 DEF TreeInv

\* The paths from the root to a filter, those that Insert creates.
PathsTo(f) == {SubSeq(f, 1, n) : n \in 0 .. Len(f)}

\* They are finitely many, lead to the filter, and hold the paths to each of them.
LEMMA PathsToCorrect ==
  ASSUME NEW f \in Seq(Segment)
  PROVE  /\ IsFiniteSet(PathsTo(f)) /\ PathsTo(f) \subseteq Seq(Segment)
         /\ f \in PathsTo(f)
         /\ \A p \in PathsTo(f) : \A n \in 0 .. Len(p) : SubSeq(p, 1, n) \in PathsTo(f)
<1>1. Len(f) \in Nat /\ DOMAIN f = 1 .. Len(f) /\ \A i \in 1 .. Len(f) : f[i] \in Segment
  BY LenProperties, ElementOfSeq
<1>2. ASSUME NEW n \in 0 .. Len(f)
      PROVE  /\ SubSeq(f, 1, n) \in Seq(Segment) /\ Len(SubSeq(f, 1, n)) = n
             /\ \A i \in 1 .. n : SubSeq(f, 1, n)[i] = f[i]
  <2>1. n \in Int /\ 1 \in Int /\ \A i \in 1 .. n : f[i] \in Segment
    BY <1>1
  <2>2. /\ SubSeq(f, 1, n) \in Seq(Segment)
        /\ Len(SubSeq(f, 1, n)) = IF 1 <= n THEN n - 1 + 1 ELSE 0
        /\ \A i \in 1 .. n - 1 + 1 : SubSeq(f, 1, n)[i] = f[1 + i - 1]
    BY <2>1, SubSeqProperties
  <2>. QED
    BY <1>1, <2>2
<1>3. IsFiniteSet(PathsTo(f))
  <2> DEFINE D == 0 .. Len(f)
             g == [n \in D |-> SubSeq(f, 1, n)]
  <2>1. IsFiniteSet(D)
    BY <1>1, FS_Interval
  <2>2. g \in Surjection(D, PathsTo(f))
    BY DEF Surjection, PathsTo
  <2> HIDE DEF D, g
  <2>. QED
    BY <2>1, <2>2, FS_Surjection
<1>4. SubSeq(f, 1, Len(f)) = f
  BY <1>1, <1>2, SeqEqual
<1>5. f \in PathsTo(f)
  <2>1. SubSeq(f, 1, Len(f)) \in PathsTo(f)
    <3>1. Len(f) \in 0 .. Len(f)
      BY <1>1
    <3>. QED
      BY <3>1 DEF PathsTo
  <2>. QED
    BY <1>4, <2>1
<1>6. ASSUME NEW m \in 0 .. Len(f), NEW n \in 0 .. m
      PROVE  SubSeq(SubSeq(f, 1, m), 1, n) = SubSeq(f, 1, n)
  <2> DEFINE p == SubSeq(f, 1, m)
  <2>1. n \in 0 .. Len(f) /\ Len(p) = m /\ \A i \in 1 .. m : p[i] = f[i]
    BY <1>1, <1>2
  <2>2. n \in Int /\ 1 \in Int /\ \A i \in 1 .. n : p[i] \in Segment
    BY <1>1, <2>1
  <2> HIDE DEF p
  <2>3. /\ SubSeq(p, 1, n) \in Seq(Segment)
        /\ Len(SubSeq(p, 1, n)) = IF 1 <= n THEN n - 1 + 1 ELSE 0
        /\ \A i \in 1 .. n - 1 + 1 : SubSeq(p, 1, n)[i] = p[1 + i - 1]
    BY <2>2, SubSeqProperties
  <2>4. Len(SubSeq(p, 1, n)) = n /\ \A i \in 1 .. n : SubSeq(p, 1, n)[i] = f[i]
    BY <1>1, <2>1, <2>3
  <2>5. SubSeq(p, 1, n) = SubSeq(f, 1, n)
    BY <1>2, <2>1, <2>3, <2>4, SeqEqual
  <2>. QED
    BY <2>5 DEF p
<1>7. ASSUME NEW p \in PathsTo(f), NEW n \in 0 .. Len(p) PROVE SubSeq(p, 1, n) \in PathsTo(f)
  <2>1. PICK m \in 0 .. Len(f) : p = SubSeq(f, 1, m)
    BY DEF PathsTo
  <2>2. n \in 0 .. m /\ n \in 0 .. Len(f)
    BY <1>1, <1>2, <2>1
  <2>. QED
    BY <1>6, <2>1, <2>2 DEF PathsTo
<1>. QED
  BY <1>2, <1>3, <1>5, <1>7 DEF PathsTo

\* A new subscription keeps the invariant.
LEMMA TreeInvSubscribe ==
  ASSUME TreeInv, NEW c \in Client, NEW f \in Filter, NEW q \in QoS, Subscribe(c, f, q)
  PROVE  TreeInv'
<1> DEFINE s == [client |-> c, filter |-> f, qos |-> q]
           paths == Nodes \union PathsTo(f)
           before == [p \in paths |-> IF p \in Nodes THEN node[p] ELSE <<>>]
<1>1. s \in Subscription /\ s.client = c /\ s.filter = f /\ f \in Seq(Segment)
  BY FilterAssumption DEF Subscription
<1>2. /\ IsFiniteSet(PathsTo(f)) /\ PathsTo(f) \subseteq Seq(Segment) /\ f \in PathsTo(f)
      /\ \A p \in PathsTo(f) : \A n \in 0 .. Len(p) : SubSeq(p, 1, n) \in PathsTo(f)
  BY <1>1, PathsToCorrect
<1>3. node' = [before EXCEPT ![f] = PutIn(@, s)]
  BY DEF Subscribe, Insert, PathsTo
<1>4. subs' = {x \in subs : ~(x.client = c /\ x.filter = f)} \union {s}
  BY DEF Subscribe
<1>5. Nodes' = paths /\ f \in paths
  BY <1>2, <1>3 DEF Nodes
<1>6. \A p \in paths : node'[p] = IF p = f THEN PutIn(before[f], s) ELSE before[p]
  BY <1>3, <1>5
<1>7. ASSUME NEW p \in paths PROVE NodeFits(p, before[p])
  <2>1. p \in Nodes => NodeFits(p, node[p])
    BY DEF TreeInv
  <2>2. NodeFits(p, <<>>)
    BY RangeOfEmpty DEF NodeFits, OncePerClient
  <2>. QED
    BY <2>1, <2>2
<1>8. \A p \in paths : Range(before[p]) = IF p \in Nodes THEN Range(node[p]) ELSE {}
  BY RangeOfEmpty
<1> HIDE DEF before, s
<1>9. /\ NodeFits(f, PutIn(before[f], s))
      /\ Range(PutIn(before[f], s)) = {x \in Range(before[f]) : x.client # c} \union {s}
  BY <1>1, <1>5, <1>7, PutInCorrect
<1>10. Root' \in Nodes' /\ Nodes' \subseteq Seq(Segment)
  BY <1>2, <1>5 DEF TreeInv, Root
<1>11. IsFiniteSet(Nodes')
  BY <1>2, <1>5, FS_Union DEF TreeInv
<1>12. ASSUME NEW p \in Nodes'
       PROVE  NodeFits(p, node'[p]) /\ \A n \in 0 .. Len(p) : SubSeq(p, 1, n) \in Nodes'
  <2>1. NodeFits(p, node'[p])
    BY <1>5, <1>6, <1>7, <1>9
  <2>2. \A n \in 0 .. Len(p) : SubSeq(p, 1, n) \in Nodes'
    BY <1>2, <1>5 DEF TreeInv
  <2>. QED
    BY <2>1, <2>2
<1>13. subs' \subseteq Subscription
  BY <1>1, <1>4 DEF TreeInv
<1>15. node' \in [Nodes' -> Seq(Subscription)]
  <2>1. node' = [p \in Nodes' |-> node'[p]]
    <3> USE DEF before
    <3>. QED
      BY <1>3, <1>5
  <2>2. \A p \in Nodes' : node'[p] \in Seq(Subscription)
    BY <1>12 DEF NodeFits
  <2>. QED
    BY <2>1, <2>2
<1>14. ASSUME NEW x \in Subscription
       PROVE  x \in subs' <=> x.filter \in Nodes' /\ x \in Range(node'[x.filter])
  <2>1. x \in subs <=> x.filter \in Nodes /\ x \in Range(node[x.filter])
    BY DEF TreeInv
  <2>2. CASE x.filter = f
    <3>1. x \in subs' <=> (x \in subs /\ x.client # c) \/ x = s
      BY <1>1, <1>4, <2>2
    <3>2. x.filter \in Nodes' /\ node'[x.filter] = PutIn(before[f], s)
      BY <1>5, <1>6, <2>2
    <3>3. x \in Range(node'[x.filter]) <=> (x \in Range(before[f]) /\ x.client # c) \/ x = s
      BY <1>9, <3>2
    <3>4. x \in Range(before[f]) <=> x \in subs
      BY <1>5, <1>8, <2>1, <2>2
    <3>. QED
      BY <3>1, <3>2, <3>3, <3>4
  <2>3. CASE x.filter # f
    <3>1. x \in subs' <=> x \in subs
      BY <1>1, <1>4, <2>3
    <3>2. x.filter \in Nodes' => Range(node'[x.filter]) = Range(before[x.filter])
      BY <1>5, <1>6, <2>3
    <3>. QED
      BY <1>5, <1>8, <2>1, <3>1, <3>2
  <2>. QED
    BY <2>2, <2>3
<1>. QED
  BY <1>10, <1>11, <1>12, <1>13, <1>14, <1>15 DEF TreeInv

\* Removing a client from some of the nodes keeps the invariant.
LEMMA TreeInvWithout ==
  ASSUME TreeInv, NEW c, NEW Some \in SUBSET Nodes,
         node' = [p \in Nodes |-> IF p \in Some THEN WithoutClient(node[p], c) ELSE node[p]],
         subs' = {x \in subs : ~(x.client = c /\ x.filter \in Some)}
  PROVE  TreeInv'
<1>1. Nodes' = Nodes
  BY DEF Nodes
<1>2. ASSUME NEW p \in Some
      PROVE  /\ NodeFits(p, WithoutClient(node[p], c))
             /\ Range(WithoutClient(node[p], c)) = {x \in Range(node[p]) : x.client # c}
  BY WithoutClientCorrect DEF TreeInv, NodeFits
<1>3. \A p \in Nodes : node'[p] = IF p \in Some THEN WithoutClient(node[p], c) ELSE node[p]
  OBVIOUS
<1>4. \A p \in Nodes' : NodeFits(p, node'[p])
  BY <1>1, <1>2, <1>3 DEF TreeInv
<1>5. ASSUME NEW x \in Subscription
      PROVE  x \in subs' <=> x.filter \in Nodes' /\ x \in Range(node'[x.filter])
  BY <1>1, <1>2, <1>3 DEF TreeInv
<1>6. Root' = Root /\ subs' \subseteq Subscription
  BY DEF TreeInv, Root
<1>7. node' \in [Nodes' -> Seq(Subscription)]
  BY <1>1, <1>4 DEF NodeFits
<1>. QED
  BY <1>1, <1>4, <1>5, <1>6, <1>7 DEF TreeInv

\* An unsubscription keeps it, whether its filter has a node or not.
LEMMA TreeInvUnsubscribe ==
  ASSUME TreeInv, NEW c \in Client, NEW f \in Filter, Unsubscribe(c, f)
  PROVE  TreeInv'
<1> DEFINE Some == {p \in Nodes : p = f}
<1>1. node = [p \in Nodes |-> node[p]]
  BY DEF TreeInv
<1>2. node' = [p \in Nodes |-> IF p \in Some THEN WithoutClient(node[p], c) ELSE node[p]]
  BY <1>1 DEF Unsubscribe
<1>3. subs' = {x \in subs : ~(x.client = c /\ x.filter \in Some)}
  BY DEF Unsubscribe, TreeInv
<1>4. Some \in SUBSET Nodes
  OBVIOUS
<1> HIDE DEF Some
<1>. QED
  BY <1>2, <1>3, <1>4, TreeInvWithout

\* So does the end of a client's session.
LEMMA TreeInvUnsubscribeAll ==
  ASSUME TreeInv, NEW c \in Client, UnsubscribeAll(c)
  PROVE  TreeInv'
<1>1. node' = [p \in Nodes |-> IF p \in Nodes THEN WithoutClient(node[p], c) ELSE node[p]]
  BY DEF UnsubscribeAll
<1>2. subs' = {x \in subs : ~(x.client = c /\ x.filter \in Nodes)}
  BY DEF UnsubscribeAll, TreeInv
<1>. QED
  BY <1>1, <1>2, TreeInvWithout

\* Every step keeps the invariant.
LEMMA TreeInvStep == TreeInv /\ [Next]_vars => TreeInv'
<1> SUFFICES ASSUME TreeInv, [Next]_vars PROVE TreeInv'
  OBVIOUS
<1>1. ASSUME NEW c \in Client, NEW f \in Filter, NEW q \in QoS, Subscribe(c, f, q)
      PROVE  TreeInv'
  BY <1>1, TreeInvSubscribe
<1>2. ASSUME NEW c \in Client, NEW f \in Filter, Unsubscribe(c, f) PROVE TreeInv'
  BY <1>2, TreeInvUnsubscribe
<1>3. ASSUME NEW c \in Client, UnsubscribeAll(c) PROVE TreeInv'
  BY <1>3, TreeInvUnsubscribeAll
<1>4. CASE UNCHANGED vars
  BY <1>4 DEF TreeInv, vars, Nodes
<1>. QED
  BY <1>1, <1>2, <1>3, <1>4 DEF Next

\* The invariant holds always.
LEMMA TreeInvAlways == Spec => []TreeInv
<1>1. Init => TreeInv
  BY TreeInvInit
<1>2. TreeInv /\ [Next]_vars => TreeInv'
  BY TreeInvStep
<1>. QED
  BY <1>1, <1>2, PTL DEF Spec

\* TypeOK: after any subscribe, unsubscribe and unsubscribe_all each subscription is
\* in the node of its filter, once for each client, and the node can be reached.
THEOREM TypeCorrect == Spec => []TypeOK
<1>1. TreeInv => TypeOK
  BY TreeInvTyped
<1>. QED
  BY <1>1, TreeInvAlways, PTL

-----------------------------------------------------------------------------
(* What is counted and listed *)

\* The entries of a node are the subscriptions to its filter, one for each.
LEMMA NodeCounts ==
  ASSUME TreeInv, NEW p \in Nodes
  PROVE  /\ Range(node[p]) = {s \in subs : s.filter = p}
         /\ IsFiniteSet(Range(node[p]))
         /\ Len(node[p]) = Cardinality(Range(node[p]))
<1> DEFINE v == node[p]
<1>1. NodeFits(p, v) /\ v \in Seq(Subscription)
  BY DEF TreeInv, NodeFits
<1>2. Range(v) = {s \in subs : s.filter = p}
  <2>1. \A s \in Range(v) : s \in Subscription /\ s.filter = p
    BY <1>1, LenProperties, ElementOfSeq DEF NodeFits, Range
  <2>. QED
    BY <2>1 DEF TreeInv
<1> HIDE DEF v
<1>3. Len(v) \in Nat /\ v \in [1 .. Len(v) -> Subscription] /\ DOMAIN v = 1 .. Len(v)
  BY <1>1, LenProperties
<1> DEFINE D == 1 .. Len(v)
<1>4. IsFiniteSet(D) /\ Cardinality(D) = Len(v)
  BY <1>3, FS_Interval
<1>5. v \in [D -> Range(v)]
  BY <1>3 DEF Range
<1>6. v \in Surjection(D, Range(v))
  BY <1>3, <1>5 DEF Surjection, Range
<1>7. v \in Injection(D, Range(v))
  <2>1. IsInjective(v)
    BY <1>1 DEF NodeFits, OncePerClient, IsInjective
  <2>. QED
    BY <1>5, <2>1 DEF Injection
<1> HIDE DEF D
<1>8. IsFiniteSet(Range(v)) /\ Cardinality(Range(v)) = Cardinality(D)
  BY <1>4, <1>6, <1>7, FS_Surjection
<1>. QED
  BY <1>2, <1>4, <1>8 DEF v

\* Finitely many subscriptions are in force, all of them in some node.
LEMMA SubsListed == TreeInv => AllSubscriptions = subs /\ IsFiniteSet(subs)
<1> SUFFICES ASSUME TreeInv PROVE AllSubscriptions = subs /\ IsFiniteSet(subs)
  OBVIOUS
<1>1. AllSubscriptions = subs
  <2>1. \A p \in Nodes : Range(node[p]) \subseteq subs
    BY NodeCounts
  <2>2. \A s \in subs : s.filter \in Nodes /\ s \in Range(node[s.filter])
    BY DEF TreeInv
  <2>. QED
    BY <2>1, <2>2 DEF AllSubscriptions
<1>2. IsFiniteSet(AllSubscriptions)
  <2> DEFINE parts == {Range(node[p]) : p \in Nodes}
             g == [p \in Nodes |-> Range(node[p])]
  <2>1. g \in Surjection(Nodes, parts)
    BY DEF Surjection
  <2>2. \A T \in parts : IsFiniteSet(T)
    BY NodeCounts
  <2>3. IsFiniteSet(Nodes)
    BY DEF TreeInv
  <2>4. AllSubscriptions = UNION parts
    BY DEF AllSubscriptions
  <2> HIDE DEF g, parts
  <2>5. IsFiniteSet(parts)
    BY <2>1, <2>3, FS_Surjection
  <2>. QED
    BY <2>2, <2>4, <2>5, FS_UNION
<1>. QED
  BY <1>1, <1>2

\* The subscriptions whose filters lead to some nodes.
SubsAt(T) == {s \in subs : s.filter \in T}

\* The number of them is the sum that Count adds up.
LEMMA CountIsSum == TreeInv => Count = Cardinality(SubsAt(Nodes))
<1> SUFFICES ASSUME TreeInv PROVE Count = Cardinality(SubsAt(Nodes))
  OBVIOUS
<1> DEFINE D == SUBSET Nodes
           Sum(f) == f = [T \in SUBSET Nodes |->
                            IF T = {} THEN 0
                            ELSE Len(node[CHOOSE x \in T : TRUE]) + f[T \ {CHOOSE x \in T : TRUE}]]
           f == CHOOSE f : Sum(f)
           g == [T \in SUBSET Nodes |-> Cardinality(SubsAt(T))]
<1>1. IsFiniteSet(Nodes) /\ IsFiniteSet(subs)
  BY SubsListed DEF TreeInv
<1>2. \A T \in SUBSET Nodes : IsFiniteSet(T) /\ Cardinality(T) \in Nat
  BY <1>1, FS_Subset, FS_CardinalityType
<1>3. \A T \in SUBSET Nodes : IsFiniteSet(SubsAt(T)) /\ Cardinality(SubsAt(T)) \in Nat
  <2>1. \A T \in SUBSET Nodes : SubsAt(T) \subseteq subs
    BY DEF SubsAt
  <2>. QED
    BY <1>1, <2>1, FS_Subset, FS_CardinalityType
<1>4. ASSUME NEW T \in SUBSET Nodes, NEW x \in T
      PROVE  Cardinality(SubsAt(T)) = Len(node[x]) + Cardinality(SubsAt(T \ {x}))
  <2>1. SubsAt(T) = Range(node[x]) \union SubsAt(T \ {x})
    BY NodeCounts DEF SubsAt
  <2>2. Range(node[x]) \cap SubsAt(T \ {x}) = {}
    BY NodeCounts DEF SubsAt
  <2>3. /\ IsFiniteSet(Range(node[x])) /\ Len(node[x]) = Cardinality(Range(node[x]))
        /\ IsFiniteSet(SubsAt(T \ {x}))
    BY <1>3, NodeCounts
  <2> DEFINE A == Range(node[x])
             B == SubsAt(T \ {x})
  <2>4. IsFiniteSet(A) /\ IsFiniteSet(B) /\ A \cap B = {} /\ Cardinality(B) \in Nat
    BY <1>3, <2>2, <2>3
  <2> HIDE DEF A, B
  <2>5. Cardinality(A \union B) = Cardinality(A) + Cardinality(B) - Cardinality(A \cap B)
    BY <2>4, FS_Union
  <2>6. Cardinality(A \cap B) = 0 /\ Cardinality(A) \in Nat
    BY <2>4, FS_EmptySet, FS_CardinalityType
  <2>7. Cardinality(A \union B) = Cardinality(A) + Cardinality(B)
    BY <2>4, <2>5, <2>6
  <2>. QED
    BY <2>1, <2>3, <2>7 DEF A, B
<1>5. Cardinality(SubsAt({})) = 0
  <2>1. SubsAt({}) = {}
    BY DEF SubsAt
  <2>. QED
    BY <2>1, FS_EmptySet
<1>6. \A T \in SUBSET Nodes : T # {} => (CHOOSE x \in T : TRUE) \in T
  OBVIOUS
<1>7. ASSUME NEW T \in SUBSET Nodes
      PROVE  g[T] = IF T = {} THEN 0
                    ELSE Len(node[CHOOSE x \in T : TRUE]) + g[T \ {CHOOSE x \in T : TRUE}]
  <2>1. CASE T = {}
    BY <1>5, <2>1
  <2>2. CASE T # {}
    <3> DEFINE c == CHOOSE x \in T : TRUE
    <3>1. c \in T /\ T \ {c} \in SUBSET Nodes
      BY <1>6, <2>2
    <3> HIDE DEF c
    <3>2. Cardinality(SubsAt(T)) = Len(node[c]) + Cardinality(SubsAt(T \ {c}))
      BY <1>4, <3>1
    <3>3. g[T] = Len(node[c]) + g[T \ {c}]
      BY <3>1, <3>2
    <3>. QED
      BY <2>2, <3>3 DEF c
  <2>. QED
    BY <2>1, <2>2
<1>8. Sum(g)
  <2>1. g = [T \in SUBSET Nodes |-> g[T]]
    OBVIOUS
  <2> HIDE DEF g
  <2>. QED
    BY <1>7, <2>1
<1>9. Sum(f)
  <2> HIDE DEF g, Sum
  <2>. QED
    BY <1>8
<1>10. Count = f[Nodes]
  BY DEF Count, MapThenSumSet, MapThenFoldSet
<1> HIDE DEF f, g
<1> DEFINE G == {n \in Nat : \A T \in SUBSET Nodes : Cardinality(T) = n => f[T] = g[T]}
<1>11. 0 \in G
  <2>1. ASSUME NEW T \in SUBSET Nodes, Cardinality(T) = 0 PROVE f[T] = g[T]
    <3>1. T = {}
      BY <1>2, <2>1, FS_EmptySet
    <3>. QED
      BY <1>8, <1>9, <3>1
  <2>. QED
    BY <2>1
<1>12. ASSUME NEW n \in Nat, n \in G PROVE n + 1 \in G
  <2>1. ASSUME NEW T \in SUBSET Nodes, Cardinality(T) = n + 1 PROVE f[T] = g[T]
    <3> DEFINE c == CHOOSE x \in T : TRUE
    <3>1. T # {}
      BY <2>1, FS_EmptySet
    <3>2. c \in T /\ T \ {c} \in SUBSET Nodes
      BY <1>6, <3>1
    <3>3. f[T] = Len(node[c]) + f[T \ {c}] /\ g[T] = Len(node[c]) + g[T \ {c}]
      BY <1>8, <1>9, <3>1
    <3> HIDE DEF c
    <3>4. Cardinality(T \ {c}) = n
      <4>1. IsFiniteSet(T)
        BY <1>2
      <4>2. Cardinality(T \ {c}) = Cardinality(T) - 1
        BY <3>2, <4>1, FS_RemoveElement
      <4>. QED
        BY <2>1, <4>2
    <3>5. f[T \ {c}] = g[T \ {c}]
      BY <1>12, <3>2, <3>4
    <3>. QED
      BY <3>3, <3>5
  <2>. QED
    BY <2>1
<1> HIDE DEF G
<1>13. Cardinality(Nodes) \in G
  BY <1>2, <1>11, <1>12, NaturalInduction
<1>14. f[Nodes] = g[Nodes]
  BY <1>13 DEF G
<1>. QED
  BY <1>10, <1>14 DEF g

\* CountExact: the metric and the list of the web interface are of the subscriptions
\* in force, however many empty nodes the tree has kept.
THEOREM CountExactAlways == Spec => []CountExact
<1>1. TreeInv => CountExact
  <2> SUFFICES ASSUME TreeInv PROVE CountExact
    OBVIOUS
  <2>1. SubsAt(Nodes) = subs
    BY DEF TreeInv, SubsAt
  <2>. QED
    BY <2>1, CountIsSum, SubsListed DEF CountExact
<1>. QED
  BY <1>1, TreeInvAlways, PTL

-----------------------------------------------------------------------------
(* What a lookup finds *)

\* Filter f begins with path p, and what follows matches what follows in topic t:
\* segment by segment to the end, or to a # in the place of the rest.
FitsBelow(f, t, p) ==
    /\ Len(p) <= Len(f) /\ \A i \in 1 .. Len(p) : f[i] = p[i]
    /\ \/ Len(f) = Len(t) /\ \A i \in Len(p) + 1 .. Len(t) : f[i] \in {Plus, t[i]}
       \/ /\ Len(p) < Len(f) /\ f[Len(f)] = Hash /\ Len(f) - 1 <= Len(t)
          /\ \A i \in Len(p) + 1 .. Len(f) - 1 : f[i] \in {Plus, t[i]}

\* At the root this is what a match is.
LEMMA FitsBelowRoot ==
  ASSUME NEW f \in Seq(Segment), NEW t \in Seq(Segment), f # <<>>
  PROVE  FitsBelow(f, t, Root) <=> Matches(f, t)
<1>1. Len(f) \in Nat \ {0} /\ Len(t) \in Nat /\ Len(Root) = 0
  BY LenProperties, EmptySeq DEF Root
<1>2. CASE Last(f) = Hash
  <2>1. Matches(f, t) <=> Len(f) - 1 <= Len(t) /\ \A i \in 1 .. Len(f) - 1 : f[i] \in {Plus, t[i]}
    BY <1>2 DEF Matches
  <2>2. FitsBelow(f, t, Root) <=>
           \/ Len(f) = Len(t) /\ \A i \in 1 .. Len(t) : f[i] \in {Plus, t[i]}
           \/ Len(f) - 1 <= Len(t) /\ \A i \in 1 .. Len(f) - 1 : f[i] \in {Plus, t[i]}
    BY <1>1, <1>2 DEF FitsBelow, Last
  <2>. QED
    BY <1>1, <2>1, <2>2
<1>3. CASE Last(f) # Hash
  <2>1. Matches(f, t) <=> Len(f) = Len(t) /\ \A i \in 1 .. Len(f) : f[i] \in {Plus, t[i]}
    BY <1>3 DEF Matches
  <2>2. FitsBelow(f, t, Root) <=> Len(f) = Len(t) /\ \A i \in 1 .. Len(t) : f[i] \in {Plus, t[i]}
    BY <1>1, <1>3 DEF FitsBelow, Last
  <2>. QED
    BY <2>1, <2>2
<1>. QED
  BY <1>2, <1>3

\* A path with one more segment.
LEMMA LongerPath ==
  ASSUME NEW p \in Seq(Segment), NEW x \in Segment
  PROVE  /\ Append(p, x) \in Seq(Segment) /\ Len(p) \in Nat
         /\ Len(Append(p, x)) = Len(p) + 1
         /\ \A i \in 1 .. Len(p) : Append(p, x)[i] = p[i]
         /\ Append(p, x)[Len(p) + 1] = x
<1>1. Len(p) \in Nat
  BY LenProperties
<1>2. Append(p, x) \in Seq(Segment) /\ Len(Append(p, x)) = Len(p) + 1
  BY AppendProperties
<1>3. \A i \in 1 .. Len(p) : Append(p, x)[i] = p[i]
  BY AppendProperties
<1>4. Append(p, x)[Len(p) + 1] = x
  BY AppendProperties
<1>. QED
  BY <1>1, <1>2, <1>3, <1>4

\* The wildcards are segments.
LEMMA WildcardsTyped == Plus \in Segment /\ Hash \in Segment
BY SegmentAssumption

\* Where the topic ends, what fits is the path itself and a # after it.
LEMMA FitsAtEnd ==
  ASSUME NEW f \in Seq(Segment), NEW t \in Seq(Segment), NEW p \in Seq(Segment), Len(p) = Len(t)
  PROVE  FitsBelow(f, t, p) <=> f = p \/ f = Append(p, Hash)
<1>1. /\ Append(p, Hash) \in Seq(Segment) /\ Len(p) \in Nat /\ Len(f) \in Nat
      /\ Len(Append(p, Hash)) = Len(p) + 1
      /\ \A i \in 1 .. Len(p) : Append(p, Hash)[i] = p[i]
      /\ Append(p, Hash)[Len(p) + 1] = Hash
  BY LongerPath, LenProperties, WildcardsTyped
<1>2. ASSUME FitsBelow(f, t, p) PROVE f = p \/ f = Append(p, Hash)
  <2>1. Len(p) <= Len(f) /\ \A i \in 1 .. Len(p) : f[i] = p[i]
    BY <1>2 DEF FitsBelow
  <2>2. Len(f) = Len(p) \/ (Len(f) = Len(p) + 1 /\ f[Len(p) + 1] = Hash)
    BY <1>1, <1>2 DEF FitsBelow
  <2>3. CASE Len(f) = Len(p)
    BY <2>1, <2>3, SeqEqual
  <2>4. CASE Len(f) = Len(p) + 1 /\ f[Len(p) + 1] = Hash
    <3>1. \A i \in 1 .. Len(f) : i \in 1 .. Len(p) \/ i = Len(p) + 1
      BY <1>1, <2>4
    <3>2. \A i \in 1 .. Len(f) : f[i] = Append(p, Hash)[i]
      BY <1>1, <2>1, <2>4, <3>1
    <3>3. Len(f) = Len(Append(p, Hash))
      BY <1>1, <2>4
    <3>. QED
      BY <1>1, <3>2, <3>3, SeqEqual
  <2>. QED
    BY <2>2, <2>3, <2>4
<1>3. ASSUME f = p PROVE FitsBelow(f, t, p)
  BY <1>1, <1>3 DEF FitsBelow
<1>4. ASSUME f = Append(p, Hash) PROVE FitsBelow(f, t, p)
  <2>1. /\ Len(f) = Len(p) + 1 /\ f[Len(f)] = Hash
        /\ \A i \in 1 .. Len(p) : f[i] = p[i]
    BY <1>1, <1>4
  <2> HIDE <1>4
  <2>. QED
    BY <1>1, <2>1 DEF FitsBelow
<1>. QED
  BY <1>2, <1>3, <1>4

\* Before that it is a # after the path, and what fits below the next segment of the
\* topic and below a +.
LEMMA FitsInside ==
  ASSUME NEW f \in Seq(Segment), NEW t \in Seq(Segment), NEW p \in Seq(Segment), Len(p) < Len(t)
  PROVE  FitsBelow(f, t, p) <=>
            \/ f = Append(p, Hash)
            \/ FitsBelow(f, t, Append(p, t[Len(p) + 1]))
            \/ FitsBelow(f, t, Append(p, Plus))
<1> DEFINE k == Len(p)
<1>1. k \in Nat /\ Len(f) \in Nat /\ Len(t) \in Nat /\ k + 1 \in 1 .. Len(t)
  BY LenProperties
<1>2. t[k + 1] \in Segment /\ Plus \in Segment /\ Hash \in Segment
  BY <1>1, ElementOfSeq, WildcardsTyped DEF k
<1>3. \A x \in Segment :
         /\ Append(p, x) \in Seq(Segment) /\ Len(Append(p, x)) = k + 1
         /\ \A i \in 1 .. k : Append(p, x)[i] = p[i]
         /\ Append(p, x)[k + 1] = x
  BY LongerPath
<1> HIDE DEF k
<1>4. ASSUME NEW x \in Segment
      PROVE  FitsBelow(f, t, Append(p, x)) <=>
                /\ k + 1 <= Len(f) /\ (\A i \in 1 .. k : f[i] = p[i]) /\ f[k + 1] = x
                /\ \/ Len(f) = Len(t) /\ \A i \in k + 2 .. Len(t) : f[i] \in {Plus, t[i]}
                   \/ /\ k + 1 < Len(f) /\ f[Len(f)] = Hash /\ Len(f) - 1 <= Len(t)
                      /\ \A i \in k + 2 .. Len(f) - 1 : f[i] \in {Plus, t[i]}
  <2> DEFINE q == Append(p, x)
  <2>1. Len(q) = k + 1 /\ (\A i \in 1 .. k : q[i] = p[i]) /\ q[k + 1] = x
    BY <1>3
  <2> HIDE DEF q
  <2>2. (\A i \in 1 .. Len(q) : f[i] = q[i]) <=> (\A i \in 1 .. k : f[i] = p[i]) /\ f[k + 1] = x
    <3>1. \A i \in 1 .. k + 1 : i \in 1 .. k \/ i = k + 1
      BY <1>1
    <3>2. k + 1 \in 1 .. k + 1 /\ \A i \in 1 .. k : i \in 1 .. k + 1
      BY <1>1
    <3>. QED
      BY <2>1, <3>1, <3>2
  <2>3. Len(q) + 1 = k + 2
    BY <1>1, <2>1
  <2>4. FitsBelow(f, t, q) <=>
           /\ k + 1 <= Len(f) /\ \A i \in 1 .. Len(q) : f[i] = q[i]
           /\ \/ Len(f) = Len(t) /\ \A i \in k + 2 .. Len(t) : f[i] \in {Plus, t[i]}
              \/ /\ k + 1 < Len(f) /\ f[Len(f)] = Hash /\ Len(f) - 1 <= Len(t)
                 /\ \A i \in k + 2 .. Len(f) - 1 : f[i] \in {Plus, t[i]}
    BY <2>1, <2>3 DEF FitsBelow
  <2>. QED
    BY <2>2, <2>4 DEF q
<1>5. f = Append(p, Hash) <=>
         Len(f) = k + 1 /\ (\A i \in 1 .. k : f[i] = p[i]) /\ f[k + 1] = Hash
  <2>1. ASSUME Len(f) = k + 1, \A i \in 1 .. k : f[i] = p[i], f[k + 1] = Hash
        PROVE  f = Append(p, Hash)
    <3>1. \A i \in 1 .. Len(f) : i \in 1 .. k \/ i = k + 1
      BY <1>1, <2>1
    <3>2. /\ Append(p, Hash) \in Seq(Segment) /\ Len(f) = Len(Append(p, Hash))
          /\ \A i \in 1 .. Len(f) : f[i] = Append(p, Hash)[i]
      BY <1>2, <1>3, <2>1, <3>1
    <3>. QED
      BY <3>2, SeqEqual
  <2>2. /\ Len(Append(p, Hash)) = k + 1 /\ Append(p, Hash)[k + 1] = Hash
        /\ \A i \in 1 .. k : Append(p, Hash)[i] = p[i]
    BY <1>2, <1>3
  <2>3. ASSUME f = Append(p, Hash)
        PROVE  Len(f) = k + 1 /\ (\A i \in 1 .. k : f[i] = p[i]) /\ f[k + 1] = Hash
    BY <2>2, <2>3
  <2>. QED
    BY <2>1, <2>3
<1>6. FitsBelow(f, t, p) <=>
         /\ k <= Len(f) /\ \A i \in 1 .. k : f[i] = p[i]
         /\ \/ Len(f) = Len(t) /\ \A i \in k + 1 .. Len(t) : f[i] \in {Plus, t[i]}
            \/ /\ k < Len(f) /\ f[Len(f)] = Hash /\ Len(f) - 1 <= Len(t)
               /\ \A i \in k + 1 .. Len(f) - 1 : f[i] \in {Plus, t[i]}
  BY DEF FitsBelow, k
<1>7. \A n \in Nat : n >= k + 1 =>
         ((\A i \in k + 1 .. n : f[i] \in {Plus, t[i]}) <=>
             f[k + 1] \in {Plus, t[k + 1]} /\ \A i \in k + 2 .. n : f[i] \in {Plus, t[i]})
  <2> TAKE n \in Nat
  <2> HAVE n >= k + 1
  <2>1. \A i \in k + 1 .. n : i = k + 1 \/ i \in k + 2 .. n
    BY <1>1
  <2>2. k + 1 \in k + 1 .. n /\ \A i \in k + 2 .. n : i \in k + 1 .. n
    BY <1>1
  <2>. QED
    BY <2>1, <2>2
<1>8. Len(f) = Len(t) =>
         (/\ k <= Len(f) /\ \A i \in k + 1 .. Len(t) : f[i] \in {Plus, t[i]}) <=>
          /\ k + 1 <= Len(f) /\ f[k + 1] \in {Plus, t[k + 1]}
          /\ \A i \in k + 2 .. Len(t) : f[i] \in {Plus, t[i]}
  BY <1>1, <1>7
<1>9. k + 1 < Len(f) =>
         ((\A i \in k + 1 .. Len(f) - 1 : f[i] \in {Plus, t[i]}) <=>
             f[k + 1] \in {Plus, t[k + 1]} /\ \A i \in k + 2 .. Len(f) - 1 : f[i] \in {Plus, t[i]})
  <2>1. k + 1 < Len(f) => Len(f) - 1 \in Nat /\ Len(f) - 1 >= k + 1
    BY <1>1
  <2>. QED
    BY <1>7, <2>1
<1>10. Len(f) = k + 1 => k + 1 .. Len(f) - 1 = {} /\ Len(f) - 1 <= Len(t)
  BY <1>1
<1>11. k < Len(f) <=> Len(f) = k + 1 \/ k + 1 < Len(f)
  BY <1>1
<1> DEFINE After == /\ \A i \in 1 .. k : f[i] = p[i]
                    /\ k + 1 <= Len(f) /\ f[k + 1] \in {Plus, t[k + 1]}
                    /\ \/ Len(f) = Len(t) /\ \A i \in k + 2 .. Len(t) : f[i] \in {Plus, t[i]}
                       \/ /\ k + 1 < Len(f) /\ f[Len(f)] = Hash /\ Len(f) - 1 <= Len(t)
                          /\ \A i \in k + 2 .. Len(f) - 1 : f[i] \in {Plus, t[i]}
<1>12. After <=> FitsBelow(f, t, Append(p, t[k + 1])) \/ FitsBelow(f, t, Append(p, Plus))
  BY <1>2, <1>4
<1>13. FitsBelow(f, t, p) <=> f = Append(p, Hash) \/ After
  <2>1. ASSUME FitsBelow(f, t, p) PROVE f = Append(p, Hash) \/ After
    <3>1. CASE Len(f) = Len(t) /\ \A i \in k + 1 .. Len(t) : f[i] \in {Plus, t[i]}
      BY <1>1, <1>6, <1>8, <2>1, <3>1
    <3>2. CASE /\ k < Len(f) /\ f[Len(f)] = Hash /\ Len(f) - 1 <= Len(t)
               /\ \A i \in k + 1 .. Len(f) - 1 : f[i] \in {Plus, t[i]}
      <4>1. CASE Len(f) = k + 1
        BY <1>5, <1>6, <2>1, <3>2, <4>1
      <4>2. CASE k + 1 < Len(f)
        BY <1>1, <1>6, <1>9, <2>1, <3>2, <4>2
      <4>. QED
        BY <1>11, <3>2, <4>1, <4>2
    <3>. QED
      BY <1>6, <2>1, <3>1, <3>2
  <2>2. ASSUME f = Append(p, Hash) PROVE FitsBelow(f, t, p)
    <3>1. Len(f) = k + 1 /\ (\A i \in 1 .. k : f[i] = p[i]) /\ f[k + 1] = Hash
      BY <1>5, <2>2
    <3> HIDE <2>2
    <3>. QED
      BY <1>1, <1>6, <1>10, <3>1
  <2>3. ASSUME After PROVE FitsBelow(f, t, p)
    BY <1>1, <1>6, <1>8, <1>9, <2>3
  <2>. QED
    BY <2>1, <2>2, <2>3
<1>. QED
  BY <1>12, <1>13 DEF k

\* A path that a filter begins with is what is cut off the filter at its length.
LEMMA PathIsPrefix ==
  ASSUME NEW f \in Seq(Segment), NEW q \in Seq(Segment), Len(q) <= Len(f),
         \A i \in 1 .. Len(q) : f[i] = q[i]
  PROVE  SubSeq(f, 1, Len(q)) = q
<1>1. Len(q) \in Nat /\ Len(f) \in Nat /\ 1 \in Int /\ Len(q) \in Int
  BY LenProperties
<1>2. \A i \in 1 .. Len(q) : f[i] \in Segment
  BY <1>1, ElementOfSeq
<1>3. /\ SubSeq(f, 1, Len(q)) \in Seq(Segment)
      /\ Len(SubSeq(f, 1, Len(q))) = IF 1 <= Len(q) THEN Len(q) - 1 + 1 ELSE 0
      /\ \A i \in 1 .. Len(q) - 1 + 1 : SubSeq(f, 1, Len(q))[i] = f[1 + i - 1]
  BY <1>1, <1>2, SubSeqProperties
<1>4. Len(SubSeq(f, 1, Len(q))) = Len(q) /\ \A i \in 1 .. Len(q) : SubSeq(f, 1, Len(q))[i] = q[i]
  BY <1>1, <1>3
<1>. QED
  BY <1>3, <1>4, SeqEqual

\* The entries at a path are the subscriptions to it, whether it has a node or not.
LEMMA AtCorrect ==
  ASSUME TreeInv, NEW p
  PROVE  At(p) \in Seq(Subscription) /\ Range(At(p)) = {s \in subs : s.filter = p}
<1>1. CASE p \in Nodes
  BY <1>1, NodeCounts DEF TreeInv, At
<1>2. CASE p \notin Nodes
  <2>1. At(p) = <<>>
    BY <1>2 DEF At
  <2>2. {s \in subs : s.filter = p} = {}
    BY <1>2 DEF TreeInv
  <2>. QED
    BY <2>1, <2>2, RangeOfEmpty
<1>. QED
  BY <1>1, <1>2

\* The paths that a lookup of topic t can reach.
PathsFor(t) == {q \in Seq(Segment) : Len(q) <= Len(t)}

\* What a lookup takes from below one path, g being what it takes from below each.
TakenAt(t, g, p) ==
    At(Append(p, Hash)) \o
    (IF Len(p) = Len(t) THEN At(p)
     ELSE (IF Append(p, t[Len(p) + 1]) \in Nodes THEN g[Append(p, t[Len(p) + 1])] ELSE <<>>) \o
          (IF Append(p, Plus) \in Nodes THEN g[Append(p, Plus)] ELSE <<>>))

\* The function of paths that Collect defines by recursion.
IsTaken(t, g) == g = [p \in PathsFor(t) |-> TakenAt(t, g, p)]

\* One level down is still a path that a lookup can reach.
LEMMA DeeperPath ==
  ASSUME NEW t \in Seq(Segment), NEW p \in PathsFor(t), Len(p) # Len(t)
  PROVE  /\ Len(p) \in Nat /\ Len(t) \in Nat /\ Len(p) < Len(t) /\ t[Len(p) + 1] \in Segment
         /\ \A x \in Segment : Append(p, x) \in PathsFor(t) /\ Len(Append(p, x)) = Len(p) + 1
<1>1. p \in Seq(Segment) /\ Len(p) <= Len(t)
  BY DEF PathsFor
<1>2. Len(p) \in Nat /\ Len(t) \in Nat
  BY <1>1, LenProperties
<1>3. Len(p) < Len(t) /\ Len(p) + 1 \in 1 .. Len(t)
  BY <1>1, <1>2
<1>4. t[Len(p) + 1] \in Segment
  BY <1>3, ElementOfSeq
<1>5. ASSUME NEW x \in Segment PROVE Append(p, x) \in PathsFor(t) /\ Len(Append(p, x)) = Len(p) + 1
  <2>1. Append(p, x) \in Seq(Segment) /\ Len(Append(p, x)) = Len(p) + 1
    BY <1>1, LongerPath
  <2>2. Len(Append(p, x)) <= Len(t)
    BY <1>2, <1>3, <2>1
  <2>. QED
    BY <2>1, <2>2 DEF PathsFor
<1>. QED
  BY <1>2, <1>3, <1>4, <1>5

\* What is taken is a sequence of subscriptions.
LEMMA TakenTyped ==
  ASSUME TreeInv, NEW t \in Seq(Segment), NEW g \in [PathsFor(t) -> Seq(Subscription)],
         NEW p \in PathsFor(t)
  PROVE  TakenAt(t, g, p) \in Seq(Subscription)
<1>1. At(p) \in Seq(Subscription) /\ At(Append(p, Hash)) \in Seq(Subscription)
  BY AtCorrect
<1>2. <<>> \in Seq(Subscription)
  BY EmptySeq
<1>3. \A v, w \in Seq(Subscription) : v \o w \in Seq(Subscription)
  BY ConcatProperties
<1>4. Len(p) # Len(t) => /\ g[Append(p, t[Len(p) + 1])] \in Seq(Subscription)
                         /\ g[Append(p, Plus)] \in Seq(Subscription)
  BY DeeperPath, WildcardsTyped
<1>. QED
  BY <1>1, <1>2, <1>3, <1>4 DEF TakenAt

\* The recursion ends: every step goes one level down, and the topic is finite.
LEMMA CollectTakes ==
  ASSUME TreeInv, NEW t \in Seq(Segment)
  PROVE  \E g : IsTaken(t, g) /\ Collect(t) = g[Root]
<1> DEFINE D == PathsFor(t)
           V == Seq(Subscription)
           rank == [p \in D |-> Len(t) - Len(p)]
           F == [g \in [D -> V] |-> [p \in D |-> TakenAt(t, g, p)]]
           b == CHOOSE g : IsTaken(t, g)
<1>1. Len(t) \in Nat /\ V # {}
  BY LenProperties, EmptySeq
<1>2. \A p \in D : rank[p] \in 0 .. Len(t)
  <2>1. \A p \in D : p \in Seq(Segment) /\ Len(p) <= Len(t)
    BY DEF PathsFor
  <2> HIDE DEF D
  <2>2. \A p \in D : Len(p) \in Nat
    BY <2>1, LenProperties
  <2>. QED
    BY <1>1, <2>1, <2>2
<1>3. \A g \in [D -> V] : F[g] \in [D -> V]
  <2>1. \A g \in [D -> V], p \in D : TakenAt(t, g, p) \in V
    BY TakenTyped
  <2> HIDE DEF D, V
  <2>. QED
    BY <2>1
<1>4. ASSUME NEW f \in [D -> V], NEW g \in [D -> V], NEW p \in D,
             \A q \in D : rank[q] < rank[p] => f[q] = g[q]
      PROVE  F[f][p] = F[g][p]
  <2>1. Len(p) # Len(t) => \A x \in Segment : f[Append(p, x)] = g[Append(p, x)]
    <3> SUFFICES ASSUME Len(p) # Len(t), NEW x \in Segment
                 PROVE  f[Append(p, x)] = g[Append(p, x)]
      OBVIOUS
    <3>1. /\ Len(p) \in Nat /\ Append(p, x) \in D /\ Len(Append(p, x)) = Len(p) + 1
      BY DeeperPath
    <3>2. rank[Append(p, x)] < rank[p]
      BY <1>1, <3>1
    <3>. QED
      BY <1>4, <3>1, <3>2
  <2>2. TakenAt(t, f, p) = TakenAt(t, g, p)
    BY <2>1, DeeperPath, WildcardsTyped DEF TakenAt
  <2>. QED
    BY <2>2
<1> HIDE DEF F, rank, D, V
<1>5. IsRecursion(D, V, Len(t), rank, F)
  BY <1>1, <1>2, <1>3, <1>4 DEF IsRecursion
<1>6. \E g \in [D -> V] : g = F[g]
  BY <1>5, BoundedRecursion
<1>7. \E g \in [D -> V] : IsTaken(t, g)
  BY <1>6 DEF F, D, IsTaken
<1>8. IsTaken(t, b)
  BY <1>7
<1>9. Collect(t) = b[Root]
  BY DEF Collect, IsTaken, TakenAt, PathsFor
<1> HIDE DEF b
<1>. QED
  BY <1>8, <1>9

\* What is taken from below a path are the subscriptions that fit below it.
LEMMA TakenCorrect ==
  ASSUME TreeInv, NEW t \in Seq(Segment), NEW g, IsTaken(t, g)
  PROVE  \A p \in PathsFor(t) :
            /\ g[p] \in Seq(Subscription)
            /\ Range(g[p]) = {s \in subs : FitsBelow(s.filter, t, p)}
<1> DEFINE Right(p) == /\ g[p] \in Seq(Subscription)
                       /\ Range(g[p]) = {s \in subs : FitsBelow(s.filter, t, p)}
           G == {n \in Nat : \A p \in PathsFor(t) : Len(t) - Len(p) = n => Right(p)}
<1>1. Len(t) \in Nat
  BY LenProperties
<1>2. \A p \in PathsFor(t) : p \in Seq(Segment) /\ Len(p) \in Nat /\ Len(p) <= Len(t)
  <2>1. \A p \in PathsFor(t) : p \in Seq(Segment) /\ Len(p) <= Len(t)
    BY DEF PathsFor
  <2>. QED
    BY <2>1, LenProperties
<1>3. \A p \in PathsFor(t) : g[p] = TakenAt(t, g, p)
  BY DEF IsTaken
<1>4. \A s \in subs : s.filter \in Seq(Segment)
  BY FilterAssumption DEF TreeInv, Subscription
<1>5. \A p : At(p) \in Seq(Subscription) /\ Range(At(p)) = {s \in subs : s.filter = p}
  BY AtCorrect
<1>6. 0 \in G
  <2> SUFFICES ASSUME NEW p \in PathsFor(t), Len(t) - Len(p) = 0 PROVE Right(p)
    OBVIOUS
  <2>1. Len(p) = Len(t) /\ p \in Seq(Segment)
    BY <1>1, <1>2
  <2>2. g[p] = At(Append(p, Hash)) \o At(p)
    BY <1>3, <2>1 DEF TakenAt
  <2>3. g[p] \in Seq(Subscription) /\ Range(g[p]) = Range(At(Append(p, Hash))) \union Range(At(p))
    BY <1>5, <2>2, RangeOfConcat
  <2>4. \A s \in subs : FitsBelow(s.filter, t, p) <=> s.filter = p \/ s.filter = Append(p, Hash)
    BY <1>4, <2>1, FitsAtEnd
  <2>. QED
    BY <1>5, <2>3, <2>4
<1>7. ASSUME NEW n \in Nat, n \in G PROVE n + 1 \in G
  <2> SUFFICES ASSUME NEW p \in PathsFor(t), Len(t) - Len(p) = n + 1 PROVE Right(p)
    OBVIOUS
  <2>1. p \in Seq(Segment) /\ Len(p) # Len(t) /\ Len(p) < Len(t)
    BY <1>1, <1>2
  <2> DEFINE Below(x) == IF Append(p, x) \in Nodes THEN g[Append(p, x)] ELSE <<>>
             y == t[Len(p) + 1]
  <2>2. y \in Segment /\ Plus \in Segment
    BY <2>1, DeeperPath, WildcardsTyped
  <2>3. ASSUME NEW x \in Segment
        PROVE  /\ Below(x) \in Seq(Subscription)
               /\ Range(Below(x)) = {s \in subs : FitsBelow(s.filter, t, Append(p, x))}
    <3>1. Append(p, x) \in PathsFor(t) /\ Len(Append(p, x)) = Len(p) + 1
      BY <2>1, DeeperPath
    <3>2. CASE Append(p, x) \in Nodes
      <4>1. Len(t) - Len(Append(p, x)) = n
        BY <1>1, <1>2, <3>1
      <4>2. Right(Append(p, x))
        BY <1>7, <3>1, <4>1
      <4>. QED
        BY <3>2, <4>2
    <3>3. CASE Append(p, x) \notin Nodes
      <4>1. ASSUME NEW s \in subs, FitsBelow(s.filter, t, Append(p, x)) PROVE FALSE
        <5> DEFINE f == s.filter
                   q == Append(p, x)
        <5>1. f \in Nodes /\ \A i \in 0 .. Len(f) : SubSeq(f, 1, i) \in Nodes
          BY DEF TreeInv
        <5>2. f \in Seq(Segment) /\ q \in Seq(Segment) /\ FitsBelow(f, t, q)
          BY <1>2, <1>4, <3>1, <4>1
        <5> HIDE DEF f, q
        <5>3. Len(q) <= Len(f) /\ \A i \in 1 .. Len(q) : f[i] = q[i]
          BY <5>2 DEF FitsBelow
        <5>4. SubSeq(f, 1, Len(q)) = q
          BY <5>2, <5>3, PathIsPrefix
        <5>5. Len(q) \in 0 .. Len(f)
          BY <5>2, <5>3, LenProperties
        <5>6. q \in Nodes
          BY <5>1, <5>4, <5>5
        <5>. QED
          BY <3>3, <5>6 DEF q
      <4>2. {s \in subs : FitsBelow(s.filter, t, Append(p, x))} = {}
        BY <4>1
      <4>3. Below(x) = <<>>
        BY <3>3
      <4>. QED
        BY <4>2, <4>3, RangeOfEmpty
    <3>. QED
      BY <3>2, <3>3
  <2>4. g[p] = At(Append(p, Hash)) \o (Below(y) \o Below(Plus))
    BY <1>3, <2>1 DEF TakenAt
  <2> HIDE DEF Below, y
  <2>5. /\ Below(y) \o Below(Plus) \in Seq(Subscription)
        /\ Range(Below(y) \o Below(Plus)) = Range(Below(y)) \union Range(Below(Plus))
    BY <2>2, <2>3, RangeOfConcat
  <2>6. /\ g[p] \in Seq(Subscription)
        /\ Range(g[p]) = Range(At(Append(p, Hash))) \union (Range(Below(y)) \union Range(Below(Plus)))
    <3> DEFINE v == At(Append(p, Hash))
               w == Below(y) \o Below(Plus)
    <3>1. v \in Seq(Subscription) /\ w \in Seq(Subscription)
      BY <1>5, <2>5
    <3> HIDE DEF v, w
    <3>2. v \o w \in Seq(Subscription) /\ Range(v \o w) = Range(v) \union Range(w)
      BY <3>1, RangeOfConcat
    <3>. QED
      BY <2>4, <2>5, <3>2 DEF v, w
  <2>7. \A s \in subs : FitsBelow(s.filter, t, p) <=>
           \/ s.filter = Append(p, Hash)
           \/ FitsBelow(s.filter, t, Append(p, y))
           \/ FitsBelow(s.filter, t, Append(p, Plus))
    BY <1>4, <2>1, FitsInside DEF y
  <2>8. Range(g[p]) = {s \in subs : FitsBelow(s.filter, t, p)}
    BY <1>5, <2>2, <2>3, <2>6, <2>7
  <2>. QED
    BY <2>6, <2>8
<1> HIDE DEF G
<1>8. \A n \in Nat : n \in G
  BY <1>6, <1>7, NaturalInduction
<1>9. ASSUME NEW p \in PathsFor(t) PROVE Right(p)
  <2>1. Len(t) - Len(p) \in Nat
    BY <1>1, <1>2
  <2>. QED
    BY <1>8, <2>1 DEF G
<1>. QED
  BY <1>9

\* What Collect takes from below the root, each subscription once.
LEMMA LookupFinds ==
  ASSUME TreeInv, NEW t \in Seq(Segment)
  PROVE  /\ Range(Lookup(t)) = {s \in subs : Matches(s.filter, t)}
         /\ IsInjective(Lookup(t))
<1>1. PICK g : IsTaken(t, g) /\ Collect(t) = g[Root]
  BY CollectTakes
<1>2. Root \in PathsFor(t)
  BY EmptySeq, LenProperties DEF PathsFor, Root
<1>3. /\ Collect(t) \in Seq(Subscription)
      /\ Range(Collect(t)) = {s \in subs : FitsBelow(s.filter, t, Root)}
  BY <1>1, <1>2, TakenCorrect
<1>4. \A s \in subs : s.filter \in Seq(Segment) /\ s.filter # <<>>
  BY FilterAssumption DEF TreeInv, Subscription
<1>5. Range(Collect(t)) = {s \in subs : Matches(s.filter, t)}
  BY <1>3, <1>4, FitsBelowRoot
<1>6. ASSUME NEW x \in subs, NEW y \in subs, x.client = y.client, x.filter = y.filter
      PROVE  x = y
  <2>1. /\ x.filter \in Nodes /\ OncePerClient(node[x.filter])
        /\ x \in Range(node[x.filter]) /\ y \in Range(node[x.filter])
    BY <1>6 DEF TreeInv, NodeFits
  <2>. QED
    BY <1>6, <2>1 DEF OncePerClient, Range
<1>7. \A x, y \in Range(Collect(t)) : x.client = y.client /\ x.filter = y.filter => x = y
  BY <1>5, <1>6
<1>8. Range(Dedup(Collect(t))) = Range(Collect(t)) /\ IsInjective(Dedup(Collect(t)))
  BY <1>3, <1>7, DedupCorrect
<1>. QED
  BY <1>5, <1>8 DEF Lookup

\* LookupExact: after any sequence of changes a lookup returns the subscriptions in force
\* whose filters match the topic, each of them once, and no others.
THEOREM LookupExactAlways == Spec => []LookupExact
<1>1. TreeInv => LookupExact
  BY LookupFinds, TopicAssumption DEF LookupExact
<1>. QED
  BY <1>1, TreeInvAlways, PTL

-----------------------------------------------------------------------------
(* The three matchers of the program *)

\* In no filter does a segment follow a #.  The MQTT standard asks for it, but nothing in
\* the server refuses another filter: what is concluded from it is said so.
HashOnlyLast == \A f \in Filter : \A i \in 1 .. Len(f) : f[i] = Hash => i = Len(f)

\* The segments of f from i on match those of t.
RestMatches(f, t, i) ==
    \/ /\ i <= Len(f) /\ f[Len(f)] = Hash
       /\ \A m \in i .. Len(f) - 1 : m <= Len(t) /\ f[m] \in {Plus, t[m]}
    \/ Len(t) = Len(f) /\ \A m \in i .. Len(f) : f[m] \in {Plus, t[m]}

\* That is so of all segments when the filter matches the topic.
LEMMA AllMatch ==
  ASSUME NEW f \in Seq(Segment), NEW t \in Seq(Segment), f # <<>>
  PROVE  RestMatches(f, t, 1) <=> Matches(f, t)
<1>1. Len(f) \in Nat \ {0} /\ Len(t) \in Nat
  BY LenProperties, EmptySeq
<1>2. CASE Last(f) = Hash
  <2>1. Matches(f, t) <=> Len(f) - 1 <= Len(t) /\ \A m \in 1 .. Len(f) - 1 : f[m] \in {Plus, t[m]}
    BY <1>2 DEF Matches
  <2>2. (\A m \in 1 .. Len(f) - 1 : m <= Len(t)) <=> Len(f) - 1 <= Len(t)
    <3> DEFINE n == Len(f) - 1
    <3>1. n \in Nat
      BY <1>1
    <3> HIDE DEF n
    <3>2. (\A m \in 1 .. n : m <= Len(t)) <=> n <= Len(t)
      BY <1>1, <3>1
    <3>. QED
      BY <3>2 DEF n
  <2>3. f[Len(f)] = Hash
    BY <1>2 DEF Last
  <2>4. ASSUME Len(t) = Len(f), \A m \in 1 .. Len(f) : f[m] \in {Plus, t[m]} PROVE Matches(f, t)
    BY <1>1, <2>1, <2>4
  <2>5. RestMatches(f, t, 1) => Matches(f, t)
    BY <2>1, <2>2, <2>4 DEF RestMatches
  <2>6. Matches(f, t) => RestMatches(f, t, 1)
    BY <1>1, <2>1, <2>2, <2>3 DEF RestMatches
  <2>. QED
    BY <2>5, <2>6
<1>3. CASE Last(f) # Hash
  <2>1. Matches(f, t) <=> Len(f) = Len(t) /\ \A m \in 1 .. Len(f) : f[m] \in {Plus, t[m]}
    BY <1>3 DEF Matches
  <2>2. f[Len(f)] # Hash
    BY <1>3 DEF Last
  <2>. QED
    BY <2>1, <2>2 DEF RestMatches
<1>. QED
  BY <1>2, <1>3

\* One segment more of a match.
LEMMA OneSegmentMore ==
  ASSUME NEW f \in Seq(Segment), NEW t \in Seq(Segment), NEW i \in 1 .. Len(f),
         f[i] = Hash => i = Len(f)
  PROVE  RestMatches(f, t, i) <=>
            \/ f[i] = Hash
            \/ i <= Len(t) /\ f[i] \in {Plus, t[i]} /\ RestMatches(f, t, i + 1)
<1>1. Len(f) \in Nat /\ Len(t) \in Nat /\ i \in Nat /\ i <= Len(f)
  BY LenProperties
<1>2. \A n \in Nat : \A m \in i .. n : m = i \/ m \in i + 1 .. n
  BY <1>1
<1>3. ASSUME f[i] = Hash PROVE RestMatches(f, t, i)
  <2>1. i = Len(f) /\ i .. Len(f) - 1 = {}
    BY <1>1, <1>3
  <2>. QED
    BY <1>1, <1>3, <2>1 DEF RestMatches
<1>4. ASSUME i <= Len(t), f[i] \in {Plus, t[i]}, RestMatches(f, t, i + 1)
      PROVE  RestMatches(f, t, i)
  <2>1. CASE /\ i + 1 <= Len(f) /\ f[Len(f)] = Hash
             /\ \A m \in i + 1 .. Len(f) - 1 : m <= Len(t) /\ f[m] \in {Plus, t[m]}
    <3>1. \A m \in i .. Len(f) - 1 : m <= Len(t) /\ f[m] \in {Plus, t[m]}
      BY <1>1, <1>2, <1>4, <2>1
    <3>. QED
      BY <1>1, <2>1, <3>1 DEF RestMatches
  <2>2. CASE Len(t) = Len(f) /\ \A m \in i + 1 .. Len(f) : f[m] \in {Plus, t[m]}
    <3>1. \A m \in i .. Len(f) : f[m] \in {Plus, t[m]}
      BY <1>1, <1>2, <1>4, <2>2
    <3>. QED
      BY <2>2, <3>1 DEF RestMatches
  <2>. QED
    BY <1>4, <2>1, <2>2 DEF RestMatches
<1>5. ASSUME f[i] # Hash, RestMatches(f, t, i)
      PROVE  i <= Len(t) /\ f[i] \in {Plus, t[i]} /\ RestMatches(f, t, i + 1)
  <2>1. CASE /\ f[Len(f)] = Hash
             /\ \A m \in i .. Len(f) - 1 : m <= Len(t) /\ f[m] \in {Plus, t[m]}
    <3>1. i \in i .. Len(f) - 1 /\ i + 1 <= Len(f)
      BY <1>1, <1>5, <2>1
    <3>2. \A m \in i + 1 .. Len(f) - 1 : m \in i .. Len(f) - 1
      BY <1>1
    <3>. QED
      BY <2>1, <3>1, <3>2 DEF RestMatches
  <2>2. CASE Len(t) = Len(f) /\ \A m \in i .. Len(f) : f[m] \in {Plus, t[m]}
    <3>1. i \in i .. Len(f) /\ i <= Len(t) /\ \A m \in i + 1 .. Len(f) : m \in i .. Len(f)
      BY <1>1, <2>2
    <3>. QED
      BY <2>2, <3>1 DEF RestMatches
  <2>. QED
    BY <1>5, <2>1, <2>2 DEF RestMatches
<1>. QED
  BY <1>3, <1>4, <1>5

\* The function that both matchers define by recursion.
IsMatcher(f, t, h) ==
    h = [i \in 1 .. Len(f) + 1 |->
           IF i > Len(f) THEN Len(t) = Len(f)
           ELSE \/ f[i] = Hash
                \/ i <= Len(t) /\ f[i] \in {Plus, t[i]} /\ h[i + 1]]

\* There is one.
LEMMA MatcherExists ==
  ASSUME NEW f \in Seq(Segment), NEW t \in Seq(Segment),
         \A i \in 1 .. Len(f) : f[i] = Hash => i = Len(f)
  PROVE  \E h : IsMatcher(f, t, h)
<1> DEFINE h == [i \in 1 .. Len(f) + 1 |-> RestMatches(f, t, i)]
<1>1. Len(f) \in Nat
  BY LenProperties
<1>2. ASSUME NEW i \in 1 .. Len(f) + 1
      PROVE  RestMatches(f, t, i) =
                IF i > Len(f) THEN Len(t) = Len(f)
                ELSE \/ f[i] = Hash
                     \/ i <= Len(t) /\ f[i] \in {Plus, t[i]} /\ RestMatches(f, t, i + 1)
  <2>1. CASE i > Len(f)
    <3>1. ~(i <= Len(f)) /\ i .. Len(f) = {}
      BY <1>1, <2>1
    <3>2. RestMatches(f, t, i) <=> Len(t) = Len(f)
      BY <3>1 DEF RestMatches
    <3>. QED
      BY <2>1, <3>2 DEF RestMatches
  <2>2. CASE ~(i > Len(f))
    <3>1. i \in 1 .. Len(f)
      BY <1>1, <2>2
    <3>2. RestMatches(f, t, i) <=>
             \/ f[i] = Hash
             \/ i <= Len(t) /\ f[i] \in {Plus, t[i]} /\ RestMatches(f, t, i + 1)
      BY <3>1, OneSegmentMore
    <3>. QED
      BY <2>2, <3>2 DEF RestMatches
  <2>. QED
    BY <2>1, <2>2
<1>3. ASSUME NEW i \in 1 .. Len(f) + 1, ~(i > Len(f)) PROVE h[i + 1] = RestMatches(f, t, i + 1)
  <2>1. i + 1 \in 1 .. Len(f) + 1
    BY <1>1, <1>3
  <2>. QED
    BY <2>1
<1>4. \A i \in 1 .. Len(f) + 1 : h[i] =
         IF i > Len(f) THEN Len(t) = Len(f)
         ELSE \/ f[i] = Hash
              \/ i <= Len(t) /\ f[i] \in {Plus, t[i]} /\ h[i + 1]
  BY <1>2, <1>3
<1>5. h = [i \in 1 .. Len(f) + 1 |-> h[i]]
  OBVIOUS
<1> HIDE DEF h
<1>6. IsMatcher(f, t, h)
  BY <1>4, <1>5 DEF IsMatcher
<1>. QED
  BY <1>6

\* It says what the segments from the first on do.
LEMMA MatcherCorrect ==
  ASSUME NEW f \in Seq(Segment), NEW t \in Seq(Segment),
         \A i \in 1 .. Len(f) : f[i] = Hash => i = Len(f),
         NEW h, IsMatcher(f, t, h)
  PROVE  h[1] <=> RestMatches(f, t, 1)
<1> DEFINE G == {n \in Nat : \A i \in 1 .. Len(f) + 1 :
                    Len(f) + 1 - i = n => (h[i] <=> RestMatches(f, t, i))}
<1>1. Len(f) \in Nat
  BY LenProperties
<1>2. \A i \in 1 .. Len(f) + 1 : h[i] =
         IF i > Len(f) THEN Len(t) = Len(f)
         ELSE \/ f[i] = Hash
              \/ i <= Len(t) /\ f[i] \in {Plus, t[i]} /\ h[i + 1]
  BY DEF IsMatcher
<1>3. 0 \in G
  <2>1. ASSUME NEW i \in 1 .. Len(f) + 1, Len(f) + 1 - i = 0
        PROVE  h[i] <=> RestMatches(f, t, i)
    <3>1. i > Len(f) /\ ~(i <= Len(f)) /\ i .. Len(f) = {}
      BY <1>1, <2>1
    <3>2. h[i] = (Len(t) = Len(f))
      BY <1>2, <3>1
    <3>3. RestMatches(f, t, i) <=> Len(t) = Len(f)
      BY <3>1 DEF RestMatches
    <3>. QED
      BY <3>2, <3>3
  <2>. QED
    BY <2>1
<1>4. ASSUME NEW n \in Nat, n \in G PROVE n + 1 \in G
  <2>1. ASSUME NEW i \in 1 .. Len(f) + 1, Len(f) + 1 - i = n + 1
        PROVE  h[i] <=> RestMatches(f, t, i)
    <3>1. /\ i \in 1 .. Len(f) /\ ~(i > Len(f)) /\ i + 1 \in 1 .. Len(f) + 1
          /\ Len(f) + 1 - (i + 1) = n
      BY <1>1, <2>1
    <3>2. h[i + 1] <=> RestMatches(f, t, i + 1)
      BY <1>4, <3>1
    <3>3. h[i] = (\/ f[i] = Hash
                  \/ i <= Len(t) /\ f[i] \in {Plus, t[i]} /\ h[i + 1])
      BY <1>2, <3>1
    <3>4. RestMatches(f, t, i) <=>
             \/ f[i] = Hash
             \/ i <= Len(t) /\ f[i] \in {Plus, t[i]} /\ RestMatches(f, t, i + 1)
      BY <3>1, OneSegmentMore
    <3>. QED
      BY <3>2, <3>3, <3>4
  <2>. QED
    BY <2>1
<1> HIDE DEF G
<1>5. Len(f) \in G
  BY <1>1, <1>3, <1>4, NaturalInduction
<1>6. 1 \in 1 .. Len(f) + 1 /\ Len(f) + 1 - 1 = Len(f)
  BY <1>1
<1>. QED
  BY <1>5, <1>6 DEF G

\* The matcher of the retained messages is right about filters with # at the end only.
LEMMA TopicFilterMatchesCorrect ==
  ASSUME NEW f \in Seq(Segment), NEW t \in Seq(Segment), f # <<>>,
         \A i \in 1 .. Len(f) : f[i] = Hash => i = Len(f)
  PROVE  TopicFilterMatches(f, t) <=> Matches(f, t)
<1> DEFINE h == CHOOSE h : IsMatcher(f, t, h)
<1>1. IsMatcher(f, t, h)
  BY MatcherExists
<1>2. TopicFilterMatches(f, t) = h[1]
  BY DEF TopicFilterMatches, IsMatcher
<1> HIDE DEF h
<1>3. h[1] <=> RestMatches(f, t, 1)
  BY <1>1, MatcherCorrect
<1>. QED
  BY <1>2, <1>3, AllMatch

\* So is the matcher of the ACL.
LEMMA AclMatchesCorrect ==
  ASSUME NEW f \in Seq(Segment), NEW t \in Seq(Segment), f # <<>>,
         \A i \in 1 .. Len(f) : f[i] = Hash => i = Len(f)
  PROVE  AclMatches(t, f) <=> Matches(f, t)
<1> DEFINE Acl(h) == h = [i \in 1 .. Len(f) + 1 |->
                        IF i > Len(f) THEN Len(t) = Len(f)
                        ELSE \/ f[i] = Hash
                             \/ i <= Len(t) /\ (f[i] = Plus \/ f[i] = t[i]) /\ h[i + 1]]
           h == CHOOSE h : Acl(h)
<1>1. \A g : Acl(g) <=> IsMatcher(f, t, g)
  BY DEF IsMatcher
<1>2. \E g : IsMatcher(f, t, g)
  BY MatcherExists
<1>3. Acl(h)
  <2> HIDE DEF Acl
  <2>. QED
    BY <1>1, <1>2
<1>4. AclMatches(t, f) <=> f = <<Hash>> \/ h[1]
  BY DEF AclMatches
<1> HIDE DEF h
<1>5. h[1] <=> RestMatches(f, t, 1)
  <2> HIDE DEF Acl
  <2>. QED
    BY <1>1, <1>3, MatcherCorrect
<1>6. ASSUME f = <<Hash>> PROVE RestMatches(f, t, 1)
  <2>1. Len(f) = 1 /\ f[1] = Hash /\ 1 .. Len(f) - 1 = {}
    BY <1>6
  <2> HIDE <1>6
  <2>. QED
    BY <2>1 DEF RestMatches
<1>. QED
  BY <1>4, <1>5, <1>6, AllMatch

\* MatchersAgree: live delivery, delivery of retained messages and the ACL agree on
\* what a filter matches, as long as no filter in use has anything after a #.
THEOREM MatchersAgreeAlways == HashOnlyLast => (Spec => []MatchersAgree)
<1> SUFFICES ASSUME HashOnlyLast PROVE Spec => []MatchersAgree
  OBVIOUS
<1>1. TreeInv => MatchersAgree
  <2> SUFFICES ASSUME TreeInv, NEW s \in subs, NEW t \in Topic
               PROVE  /\ s \in Range(Lookup(t)) <=> TopicFilterMatches(s.filter, t)
                      /\ s \in Range(Lookup(t)) <=> AclMatches(t, s.filter)
    BY DEF MatchersAgree
  <2> DEFINE f == s.filter
  <2>1. f \in Filter /\ f \in Seq(Segment) /\ f # <<>> /\ t \in Seq(Segment)
    BY FilterAssumption, TopicAssumption DEF TreeInv, Subscription
  <2>2. \A i \in 1 .. Len(f) : f[i] = Hash => i = Len(f)
    BY <2>1 DEF HashOnlyLast
  <2>3. s \in Range(Lookup(t)) <=> Matches(f, t)
    BY <2>1, LookupFinds
  <2> HIDE DEF f
  <2>4. TopicFilterMatches(f, t) <=> Matches(f, t)
    BY <2>1, <2>2, TopicFilterMatchesCorrect
  <2>5. AclMatches(t, f) <=> Matches(f, t)
    BY <2>1, <2>2, AclMatchesCorrect
  <2>. QED
    BY <2>3, <2>4, <2>5 DEF f
<1>. QED
  BY <1>1, TreeInvAlways, PTL
=============================================================================
