-------------------------- MODULE PersistenceProofs --------------------------
(***************************************************************************)
(* Theorems about Persistence, for every set of clients, filters, topics   *)
(* and payloads, every size of a batch, and any number of events, runs and *)
(* faults.                                                                 *)
(***************************************************************************)
EXTENDS Persistence, Induction, FiniteSetTheorems, SequenceTheorems, TLAPS

-----------------------------------------------------------------------------
(* The inductive invariant *)

\* The part of TypeOK that the order of events depends on.
EventTypes ==
    /\ queue \in Seq(Event) /\ batch \in Seq(Event)
    /\ sent \in Seq(Event) /\ log \in Seq(Event)
    /\ stopAt \in Nat \union {NoStop} /\ closedAt \in Nat \union {NoStop}
    /\ wpc \in {"wait", "collect", "full", "flush", "drain", "last", "stopped"}
    /\ phase \in {"open", "closing", "down"}
    /\ failed \in Nat

\* As long as the channel has not been dropped, what was sent is on disk, in
\* the batch or in the channel, in this order; after that the rest is lost.
InFlight ==
    IF wpc \in {"last", "stopped"} THEN IsPrefix(log \o batch, sent)
    ELSE sent = log \o batch \o queue

\* How far Shutdown is from the writer, or what the writer has still to write
\* when it has met it.
StopDistance ==
    /\ phase = "open" =>
         stopAt = NoStop /\ closedAt = NoStop /\ wpc \notin {"drain", "last", "stopped"}
    /\ phase = "closing" => closedAt \in Nat
    /\ phase = "closing" /\ stopAt # NoStop =>
         /\ wpc \notin {"drain", "last", "stopped"}
         /\ stopAt <= Len(queue)
         /\ closedAt = Len(log) + Len(batch) + stopAt
    /\ phase = "closing" /\ stopAt = NoStop =>
         /\ wpc \in {"drain", "last", "stopped"}
         /\ wpc = "drain" => closedAt <= Len(log) + Len(batch) + Len(queue)
         /\ wpc # "drain" => closedAt <= Len(log) + Len(batch)
    /\ wpc = "stopped" => batch = <<>>
    /\ phase = "down" => wpc = "stopped"

IInv == EventTypes /\ (failed = 0 => InFlight /\ StopDistance)

-----------------------------------------------------------------------------
(* Events sent at startup *)

\* The sequence of the elements of a finite set.
LEMMA SetToSeqIsSeq ==
  ASSUME NEW S, IsFiniteSet(S)
  PROVE  SetToSeq(S) \in Seq(S)
<1> DEFINE n == Cardinality(S)
<1>1. n \in Nat /\ ExistsBijection(1 .. n, S)
  BY FS_CardinalityType
<1>2. PICK b \in [1 .. n -> S] : IsInjective(b)
  BY <1>1 DEF ExistsBijection, Bijection, Injection, IsInjective
<1>3. SetToSeq(S) \in [1 .. n -> S]
  BY <1>2 DEF SetToSeq
<1>. QED
  BY <1>1, <1>3

\* SetToSeq has each element of the set somewhere.
LEMMA SetToSeqHasAll ==
  ASSUME NEW S, IsFiniteSet(S)
  PROVE  /\ Len(SetToSeq(S)) \in Nat
         /\ {SetToSeq(S)[i] : i \in 1 .. Len(SetToSeq(S))} = S
<1> DEFINE n == Cardinality(S)
<1>1. n \in Nat /\ ExistsBijection(1 .. n, S)
  BY FS_CardinalityType
<1>2. PICK b \in [1 .. n -> S] : IsInjective(b)
  BY <1>1 DEF ExistsBijection, Bijection, Injection, IsInjective
<1> DEFINE q == SetToSeq(S)
<1>3. q \in [1 .. n -> S] /\ IsInjective(q)
  BY <1>2 DEF SetToSeq
<1>4. q \in Seq(S) /\ Len(q) = n
  BY <1>1, <1>3
<1> HIDE DEF q
<1>5. q \in Injection(1 .. n, S)
  BY <1>3 DEF Injection, IsInjective
<1>6. IsFiniteSet(1 .. n) /\ Cardinality(1 .. n) = n
  BY <1>1, FS_Interval
<1>7. q \in Surjection(1 .. n, S)
  BY <1>5, <1>6, FS_Injection
<1>. QED
  BY <1>1, <1>3, <1>4, <1>7 DEF Surjection, q
\* The events of the clean-up are two for each stale client, and then one for
\* each orphan.
CleanupParts(tables, stale, orphans, first, second) ==
    /\ {stale[i] : i \in 1 .. Len(stale)} = StaleClients(tables)
    /\ {orphans[i] : i \in 1 .. Len(orphans)} = OrphanClients(RemoveStale(tables))
    /\ CleanupEvents(tables) = first \o second
    /\ Len(first) = 2 * Len(stale)
    /\ \A k \in 1 .. Len(stale) :
          /\ first[2 * k - 1] = [op |-> "RemoveClientSubscriptions", client |-> stale[k]]
          /\ first[2 * k] = [op |-> "RemoveSession", client |-> stale[k]]
    /\ Len(second) = Len(orphans)
    /\ \A k \in 1 .. Len(orphans) :
          second[k] = [op |-> "RemoveClientSubscriptions", client |-> orphans[k]]

\* Whatever the order in which the clients are visited.
LEMMA CleanupHasParts ==
  ASSUME NEW tables
  PROVE  \E stale \in Seq(Client), orphans \in Seq(Client), first \in Seq(Event),
            second \in Seq(Event) : CleanupParts(tables, stale, orphans, first, second)
<1> DEFINE S == StaleClients(tables)
           O == OrphanClients(RemoveStale(tables))
           stale == SetToSeq(S)
           orphans == SetToSeq(O)
           subsOf(c) == [op |-> "RemoveClientSubscriptions", client |-> c]
           session(c) == [op |-> "RemoveSession", client |-> c]
           first == [i \in 1 .. 2 * Len(stale) |->
                      IF i % 2 = 1 THEN subsOf(stale[(i + 1) \div 2])
                      ELSE session(stale[i \div 2])]
           second == [i \in 1 .. Len(orphans) |-> subsOf(orphans[i])]
<1>1. S \subseteq Client /\ O \subseteq Client
  BY DEF StaleClients, OrphanClients
<1>2. IsFiniteSet(S) /\ IsFiniteSet(O)
  BY <1>1, ClientAssumption, FS_Subset
<1>a. /\ {stale[i] : i \in 1 .. Len(stale)} = S
      /\ {orphans[i] : i \in 1 .. Len(orphans)} = O
  BY <1>2, SetToSeqHasAll
<1>3. stale \in Seq(Client) /\ orphans \in Seq(Client)
  <2>1. stale \in Seq(S) /\ orphans \in Seq(O)
    BY <1>2, SetToSeqIsSeq
  <2>. QED
    BY <1>1, <2>1, SeqMonotonic
<1>4. \A c \in Client : subsOf(c) \in Event /\ session(c) \in Event
  BY DEF Event
<1> HIDE DEF stale, orphans
<1>5. first \in Seq(Event)
  <2>1. \A i \in 1 .. 2 * Len(stale) : first[i] \in Event
    <3> SUFFICES ASSUME NEW i \in 1 .. 2 * Len(stale) PROVE first[i] \in Event
      OBVIOUS
    <3>1. Len(stale) \in Nat
      BY <1>3, LenProperties
    <3>2. CASE i % 2 = 1
      <4>1. (i + 1) \div 2 \in 1 .. Len(stale)
        BY <3>1, <3>2
      <4>. QED
        BY <1>3, <1>4, <3>2, <4>1, ElementOfSeq
    <3>3. CASE i % 2 # 1
      <4>1. i \div 2 \in 1 .. Len(stale)
        BY <3>1, <3>3
      <4>. QED
        BY <1>3, <1>4, <3>3, <4>1, ElementOfSeq
    <3>. QED
      BY <3>2, <3>3
  <2>2. 2 * Len(stale) \in Nat
    BY <1>3, LenProperties
  <2> HIDE DEF subsOf, session
  <2>3. first \in [1 .. 2 * Len(stale) -> Event]
    BY <2>1
  <2>. QED
    BY <2>2, <2>3, SeqDef
<1>6. second \in Seq(Event)
  <2>1. Len(orphans) \in Nat
    BY <1>3, LenProperties
  <2>2. \A i \in 1 .. Len(orphans) : second[i] \in Event
    BY <1>3, <1>4, ElementOfSeq
  <2> HIDE DEF subsOf
  <2>3. second \in [1 .. Len(orphans) -> Event]
    BY <2>2
  <2>. QED
    BY <2>1, <2>3, SeqDef
<1>7. CleanupEvents(tables) = first \o second
  BY DEF CleanupEvents, stale, orphans
<1>8. Len(stale) \in Nat /\ Len(orphans) \in Nat
  BY <1>3, LenProperties
<1>9. Len(first) = 2 * Len(stale) /\ Len(second) = Len(orphans)
  <2>1. 2 * Len(stale) \in Nat
    BY <1>8
  <2> HIDE DEF subsOf, session
  <2>. QED
    BY <1>8, <2>1
<1>10. ASSUME NEW k \in 1 .. Len(stale)
       PROVE  first[2 * k - 1] = subsOf(stale[k]) /\ first[2 * k] = session(stale[k])
  <2>1. /\ 2 * k - 1 \in 1 .. 2 * Len(stale) /\ (2 * k - 1) % 2 = 1
        /\ ((2 * k - 1) + 1) \div 2 = k
        /\ 2 * k \in 1 .. 2 * Len(stale) /\ (2 * k) % 2 # 1 /\ (2 * k) \div 2 = k
    BY <1>8
  <2> HIDE DEF subsOf, session
  <2>. QED
    BY <2>1
<1>11. ASSUME NEW k \in 1 .. Len(orphans) PROVE second[k] = subsOf(orphans[k])
  OBVIOUS
<1> HIDE DEF first, second, S, O
<1>12. /\ \A k \in 1 .. Len(stale) :
            first[2 * k - 1] = subsOf(stale[k]) /\ first[2 * k] = session(stale[k])
       /\ \A k \in 1 .. Len(orphans) : second[k] = subsOf(orphans[k])
  BY <1>10, <1>11
<1>. QED
  BY <1>a, <1>3, <1>5, <1>6, <1>7, <1>9, <1>12 DEF S, O, subsOf, session, CleanupParts

\* The clean-up sends events.
LEMMA CleanupIsEvents ==
  ASSUME NEW tables
  PROVE  CleanupEvents(tables) \in Seq(Event)
<1>1. PICK stale \in Seq(Client), orphans \in Seq(Client), first \in Seq(Event),
           second \in Seq(Event) : CleanupParts(tables, stale, orphans, first, second)
  BY CleanupHasParts
<1>. QED
  BY <1>1, ConcatProperties DEF CleanupParts

-----------------------------------------------------------------------------
(* Applying events, one after the other *)

\* f holds what FoldLeft computes for the events at each set of positions.
Fold(t, s, n, f) ==
    f = [S \in SUBSET (1 .. n) |->
           IF S = {} THEN t ELSE Apply(f[S \ {Max(S)}], s[Max(S)])]

\* There is such a function, for any number of events.
LEMMA FoldExists ==
  ASSUME NEW t, NEW s, NEW n \in Nat
  PROVE  \E f : Fold(t, s, n, f)
<1> DEFINE G == {k \in Nat : \E f : Fold(t, s, k, f)}
<1>1. 0 \in G
  <2> DEFINE f == [S \in SUBSET (1 .. 0) |-> t]
  <2>1. 1 .. 0 = {}
    OBVIOUS
  <2>2. f = [S \in SUBSET (1 .. 0) |->
           IF S = {} THEN t ELSE Apply(f[S \ {Max(S)}], s[Max(S)])]
    BY <2>1
  <2>. QED
    BY <2>2 DEF Fold
<1>2. ASSUME NEW k \in Nat, k \in G PROVE k + 1 \in G
  <2>1. PICK f : Fold(t, s, k, f)
    BY <1>2
  <2> DEFINE g == [S \in SUBSET (1 .. k + 1) |->
                     IF k + 1 \in S THEN Apply(f[S \ {k + 1}], s[k + 1]) ELSE f[S]]
  <2>2. ASSUME NEW S \in SUBSET (1 .. k + 1)
        PROVE  g[S] = IF S = {} THEN t ELSE Apply(g[S \ {Max(S)}], s[Max(S)])
    <3>1. CASE k + 1 \in S
      <4>1. Max(S) = k + 1
        <5>1. k + 1 \in Nat /\ S # {}
          BY <3>1
        <5>2. Max(S) \in S /\ \A y \in S : y <= Max(S)
          BY <5>1, MaxIsLast
        <5>3. Max(S) \in 1 .. k + 1 /\ k + 1 <= Max(S)
          BY <3>1, <5>2
        <5>. QED
          BY <5>3
      <4>2. S \ {k + 1} \in SUBSET (1 .. k + 1) /\ k + 1 \notin S \ {k + 1}
        OBVIOUS
      <4>3. g[S \ {k + 1}] = f[S \ {k + 1}]
        BY <4>2
      <4>. QED
        BY <3>1, <4>1, <4>3
    <3>2. CASE k + 1 \notin S
      <4>1. S \in SUBSET (1 .. k)
        BY <3>2
      <4>2. f[S] = IF S = {} THEN t ELSE Apply(f[S \ {Max(S)}], s[Max(S)])
        BY <2>1, <4>1 DEF Fold
      <4>3. S \ {Max(S)} \in SUBSET (1 .. k + 1) /\ k + 1 \notin S \ {Max(S)}
        BY <3>2
      <4>4. g[S \ {Max(S)}] = f[S \ {Max(S)}] /\ g[S] = f[S]
        BY <3>2, <4>3
      <4> HIDE DEF g
      <4>. QED
        BY <4>2, <4>4
    <3>. QED
      BY <3>1, <3>2
  <2>3. Fold(t, s, k + 1, g)
    <3>1. g = [S \in SUBSET (1 .. k + 1) |-> g[S]]
      OBVIOUS
    <3> HIDE DEF g
    <3>. QED
      BY <2>2, <3>1 DEF Fold
  <2>. QED
    BY <2>3
<1> HIDE DEF G
<1>3. n \in G
  BY <1>1, <1>2, NaturalInduction
<1>. QED
  BY <1>3 DEF G

\* The tables after each of the events of s, from t on.
Chain(t, s, h) ==
    /\ h[0] = t
    /\ \A j \in 0 .. Len(s) - 1 : h[j + 1] = Apply(h[j], s[j + 1])

\* ApplyAll applies the events one after the other.
LEMMA ApplyAllIsChain ==
  ASSUME NEW E, NEW t, NEW s \in Seq(E)
  PROVE  \E h : Chain(t, s, h) /\ ApplyAll(t, s) = h[Len(s)]
<1> DEFINE n == Len(s)
           f == CHOOSE f : Fold(t, s, n, f)
           h == [j \in 0 .. n |-> f[1 .. j]]
<1>1. n \in Nat /\ DOMAIN s = 1 .. n
  BY LenProperties
<1>2. Fold(t, s, n, f)
  <2> HIDE DEF n
  <2>. QED
    BY <1>1, FoldExists
<1>3. ApplyAll(t, s) = f[1 .. n]
  <2>1. ApplyAll(t, s) = (CHOOSE iter : iter = [S \in SUBSET DOMAIN s |->
           IF S = {} THEN t ELSE Apply(iter[S \ {Max(S)}], s[Max(S)])])[DOMAIN s]
    BY DEF ApplyAll, FoldLeft, MapThenFoldSet
  <2>2. ApplyAll(t, s) = (CHOOSE iter : iter = [S \in SUBSET (1 .. n) |->
           IF S = {} THEN t ELSE Apply(iter[S \ {Max(S)}], s[Max(S)])])[1 .. n]
    BY <1>1, <2>1
  <2>. QED
    BY <2>2 DEF Fold
<1> HIDE DEF f, n
<1>4. ASSUME NEW j \in 0 .. n - 1 PROVE h[j + 1] = Apply(h[j], s[j + 1])
  <2>1. 1 .. j + 1 \in SUBSET (1 .. n) /\ 1 .. j + 1 # {}
    BY <1>1
  <2>2. Max(1 .. j + 1) = j + 1
    <3>1. Max(1 .. j + 1) \in 1 .. j + 1 /\ j + 1 <= Max(1 .. j + 1)
      <4>1. 1 .. j + 1 \in SUBSET (1 .. j + 1) /\ j + 1 \in Nat /\ j + 1 \in 1 .. j + 1
        BY <1>1
      <4>. QED
        BY <2>1, <4>1, MaxIsLast
    <3>. QED
      BY <3>1
  <2>3. (1 .. j + 1) \ {j + 1} = 1 .. j
    OBVIOUS
  <2>4. f[1 .. j + 1] = Apply(f[1 .. j], s[j + 1])
    BY <1>2, <2>1, <2>2, <2>3 DEF Fold
  <2>. QED
    BY <1>1, <2>4
<1>5. h[0] = t
  <2>1. 1 .. 0 = {} /\ 1 .. 0 \in SUBSET (1 .. n)
    OBVIOUS
  <2>2. f[1 .. 0] = t
    BY <1>2, <2>1 DEF Fold
  <2>. QED
    BY <1>1, <2>2
<1>6. h[n] = f[1 .. n]
  BY <1>1
<1> HIDE DEF h
<1>7. Chain(t, s, h) /\ ApplyAll(t, s) = h[Len(s)]
  BY <1>3, <1>4, <1>5, <1>6 DEF Chain, n
<1>. QED
  BY <1>7

\* The tables after the first n events depend on nothing but them.
LEMMA ChainsAgree ==
  ASSUME NEW E, NEW t, NEW s \in Seq(E), NEW r \in Seq(E), NEW h, NEW g,
         Chain(t, s, h), Chain(t, r, g), NEW n \in Nat, n <= Len(s), n <= Len(r),
         \A i \in 1 .. n : s[i] = r[i]
  PROVE  h[n] = g[n]
<1> DEFINE G == {k \in Nat : k <= n => h[k] = g[k]}
<1>1. 0 \in G
  BY DEF Chain
<1>2. ASSUME NEW k \in Nat, k \in G PROVE k + 1 \in G
  <2> SUFFICES ASSUME k + 1 <= n PROVE h[k + 1] = g[k + 1]
    OBVIOUS
  <2>1. k \in 0 .. Len(s) - 1 /\ k \in 0 .. Len(r) - 1 /\ k + 1 \in 1 .. n
    BY LenProperties
  <2>2. h[k] = g[k] /\ s[k + 1] = r[k + 1]
    BY <1>2, <2>1
  <2>. QED
    BY <2>1, <2>2 DEF Chain
<1> HIDE DEF G
<1>3. n \in G
  BY <1>1, <1>2, NaturalInduction
<1>. QED
  BY <1>3 DEF G

\* No event changes nothing.
LEMMA ApplyNone == ASSUME NEW t PROVE ApplyAll(t, <<>>) = t
<1>1. <<>> \in Seq(Event) /\ Len(<<>>) = 0
  BY EmptySeq
<1>2. PICK h : Chain(t, <<>>, h) /\ ApplyAll(t, <<>>) = h[Len(<<>>)]
  BY <1>1, ApplyAllIsChain
<1>. QED
  BY <1>1, <1>2 DEF Chain

\* The last event is applied to what those before it have made.
LEMMA ApplyLast ==
  ASSUME NEW E, NEW t, NEW s \in Seq(E), NEW e \in E
  PROVE  ApplyAll(t, Append(s, e)) = Apply(ApplyAll(t, s), e)
<1> DEFINE n == Len(s)
<1>1. /\ n \in Nat /\ Append(s, e) \in Seq(E) /\ Len(Append(s, e)) = n + 1
      /\ \A i \in 1 .. n : Append(s, e)[i] = s[i]
      /\ Append(s, e)[n + 1] = e
  BY AppendProperties, LenProperties
<1>2. PICK h : Chain(t, s, h) /\ ApplyAll(t, s) = h[n]
  BY ApplyAllIsChain
<1>3. PICK g : Chain(t, Append(s, e), g) /\ ApplyAll(t, Append(s, e)) = g[n + 1]
  BY <1>1, ApplyAllIsChain
<1>4. h[n] = g[n]
  <2>1. n <= Len(s) /\ n <= Len(Append(s, e)) /\ \A i \in 1 .. n : s[i] = Append(s, e)[i]
    BY <1>1
  <2> DEFINE r == Append(s, e)
  <2>2. r \in Seq(E) /\ Chain(t, r, g) /\ Chain(t, s, h) /\ n \in Nat
    BY <1>1, <1>2, <1>3
  <2>3. n <= Len(s) /\ n <= Len(r) /\ \A i \in 1 .. n : s[i] = r[i]
    BY <2>1
  <2> HIDE DEF n, r
  <2>. QED
    BY <2>2, <2>3, ChainsAgree
<1>5. g[n + 1] = Apply(g[n], Append(s, e)[n + 1])
  BY <1>1, <1>3 DEF Chain
<1>. QED
  BY <1>1, <1>2, <1>3, <1>4, <1>5

\* Events that follow others are applied to what those have made.
LEMMA ApplyConcat ==
  ASSUME NEW E, NEW t, NEW a \in Seq(E), NEW b \in Seq(E)
  PROVE  ApplyAll(t, a \o b) = ApplyAll(ApplyAll(t, a), b)
<1> DEFINE G == {n \in Nat : \A c \in Seq(E) :
                   Len(c) = n => ApplyAll(t, a \o c) = ApplyAll(ApplyAll(t, a), c)}
<1>1. 0 \in G
  <2> SUFFICES ASSUME NEW c \in Seq(E), Len(c) = 0
               PROVE  ApplyAll(t, a \o c) = ApplyAll(ApplyAll(t, a), c)
    OBVIOUS
  <2>1. c = <<>> /\ a \o <<>> = a
    BY EmptySeq, ConcatEmptySeq
  <2>. QED
    BY <2>1, ApplyNone
<1>2. ASSUME NEW n \in Nat, n \in G PROVE n + 1 \in G
  <2> SUFFICES ASSUME NEW c \in Seq(E), Len(c) = n + 1
               PROVE  ApplyAll(t, a \o c) = ApplyAll(ApplyAll(t, a), c)
    OBVIOUS
  <2> DEFINE d == SubSeq(c, 1, n)
             e == c[n + 1]
  <2>1. d \in Seq(E) /\ Len(d) = n /\ e \in E /\ c = Append(d, e)
    <3>1. \A i \in 1 .. n : c[i] \in E
      BY ElementOfSeq
    <3>2. e \in E
      BY ElementOfSeq
    <3>3. d \in Seq(E) /\ Len(d) = n /\ \A i \in 1 .. n : d[i] = c[i]
      BY <3>1, SubSeqProperties
    <3> HIDE DEF d, e
    <3>4. /\ Append(d, e) \in Seq(E) /\ Len(Append(d, e)) = n + 1
          /\ \A i \in 1 .. n : Append(d, e)[i] = d[i]
          /\ Append(d, e)[n + 1] = e
      BY <3>2, <3>3, AppendProperties
    <3>5. \A i \in 1 .. n + 1 : Append(d, e)[i] = c[i]
      BY <3>3, <3>4 DEF e
    <3>. QED
      BY <3>2, <3>3, <3>4, <3>5, SeqEqual
  <2> HIDE DEF d, e
  <2>2. a \o c = Append(a \o d, e) /\ a \o d \in Seq(E)
    <3>1. <<e>> \in Seq(E) /\ c = d \o <<e>> /\ a \o d \in Seq(E)
      BY <2>1, AppendIsConcat, ConcatProperties
    <3>2. a \o c = (a \o d) \o <<e>>
      BY <2>1, <3>1, ConcatAssociative
    <3>. QED
      BY <2>1, <3>1, <3>2, AppendIsConcat
  <2>3. ApplyAll(t, a \o d) = ApplyAll(ApplyAll(t, a), d)
    BY <1>2, <2>1
  <2>4. ApplyAll(t, Append(a \o d, e)) = Apply(ApplyAll(t, a \o d), e)
    <3> DEFINE u == a \o d
    <3>1. u \in Seq(E) /\ e \in E
      BY <2>1, <2>2
    <3> HIDE DEF u
    <3>2. ApplyAll(t, Append(u, e)) = Apply(ApplyAll(t, u), e)
      BY <3>1, ApplyLast
    <3>. QED
      BY <3>2 DEF u
  <2>5. ApplyAll(ApplyAll(t, a), Append(d, e)) = Apply(ApplyAll(ApplyAll(t, a), d), e)
    BY <2>1, ApplyLast
  <2>. QED
    BY <2>1, <2>2, <2>3, <2>4, <2>5
<1>3. Len(b) \in Nat
  BY LenProperties
<1> HIDE DEF G
<1>4. Len(b) \in G
  BY <1>1, <1>2, <1>3, NaturalInduction
<1>. QED
  BY <1>4 DEF G

-----------------------------------------------------------------------------
(* Tables *)

\* One statement turns tables into tables.
LEMMA ApplyTypes ==
  ASSUME NEW t \in Tables, NEW e \in Event
  PROVE  Apply(t, e) \in Tables
<1> DEFINE Ids == [op : {"RemoveSession", "RemoveClientSubscriptions", "SaveWill", "RemoveWill"},
                   client : Client]
           Pairs == [op : {"SaveSubscription", "RemoveSubscription"}, client : Client,
                     filter : Filter]
<1>t. /\ t = [sessions |-> t.sessions, subs |-> t.subs, wills |-> t.wills,
              retained |-> t.retained]
      /\ t.sessions \in [Client -> Session] /\ t.subs \in SUBSET (Client \X Filter)
      /\ t.wills \in SUBSET Client /\ t.retained \in [Topic -> Payload \union {NoPayload}]
  BY DEF Tables
<1>1. CASE e \in [op : {"SaveSession"}, client : Client, clean : BOOLEAN]
  <2>1. e.op = "SaveSession" /\ e.client \in Client
    BY <1>1
  <2>2. Apply(t, e) = [t EXCEPT !.sessions[e.client] = IF e.clean THEN "clean" ELSE "kept"]
    BY <2>1 DEF Apply
  <2>3. (IF e.clean THEN "clean" ELSE "kept") \in Session
    BY DEF Session
  <2>. QED
    BY <1>t, <2>1, <2>2, <2>3 DEF Tables
<1>2. CASE e \in Ids
  <2>1. e.client \in Client
    BY <1>2
  <2>2. CASE e.op = "RemoveSession"
    <3>1. Apply(t, e) = [t EXCEPT !.sessions[e.client] = "none"]
      BY <2>2 DEF Apply
    <3>. QED
      BY <1>t, <2>1, <3>1 DEF Tables, Session
  <2>3. CASE e.op = "RemoveClientSubscriptions"
    <3>1. Apply(t, e) = [t EXCEPT !.subs = {s \in @ : s[1] # e.client}]
      BY <2>3 DEF Apply
    <3>. QED
      BY <1>t, <3>1 DEF Tables
  <2>4. CASE e.op = "SaveWill"
    <3>1. Apply(t, e) = [t EXCEPT !.wills = @ \union {e.client}]
      BY <2>4 DEF Apply
    <3>. QED
      BY <1>t, <2>1, <3>1 DEF Tables
  <2>5. CASE e.op = "RemoveWill"
    <3>1. Apply(t, e) = [t EXCEPT !.wills = @ \ {e.client}]
      BY <2>5 DEF Apply
    <3>. QED
      BY <1>t, <3>1 DEF Tables
  <2>. QED
    BY <1>2, <2>2, <2>3, <2>4, <2>5
<1>3. CASE e \in Pairs
  <2>1. <<e.client, e.filter>> \in Client \X Filter
    BY <1>3
  <2>2. CASE e.op = "SaveSubscription"
    <3>1. Apply(t, e) = [t EXCEPT !.subs = @ \union {<<e.client, e.filter>>}]
      BY <2>2 DEF Apply
    <3>. QED
      BY <1>t, <2>1, <3>1 DEF Tables
  <2>3. CASE e.op = "RemoveSubscription"
    <3>1. Apply(t, e) = [t EXCEPT !.subs = @ \ {<<e.client, e.filter>>}]
      BY <2>3 DEF Apply
    <3>. QED
      BY <1>t, <3>1 DEF Tables
  <2>. QED
    BY <1>3, <2>2, <2>3
<1>4. CASE e \in [op : {"SaveRetained"}, topic : Topic, payload : Payload]
  <2>1. e.op = "SaveRetained" /\ e.topic \in Topic /\ e.payload \in Payload
    BY <1>4
  <2>2. Apply(t, e) = [t EXCEPT !.retained[e.topic] = e.payload]
    BY <2>1 DEF Apply
  <2>. QED
    BY <1>t, <2>1, <2>2 DEF Tables
<1>5. CASE e \in [op : {"RemoveRetained"}, topic : Topic]
  <2>1. e.op = "RemoveRetained" /\ e.topic \in Topic
    BY <1>5
  <2>2. Apply(t, e) = [t EXCEPT !.retained[e.topic] = NoPayload]
    BY <2>1 DEF Apply
  <2>. QED
    BY <1>t, <2>1, <2>2 DEF Tables
<1>. QED
  BY <1>1, <1>2, <1>3, <1>4, <1>5 DEF Event

\* And so does a batch of them.
LEMMA ApplyAllTypes ==
  ASSUME NEW t \in Tables, NEW s \in Seq(Event)
  PROVE  ApplyAll(t, s) \in Tables
<1>1. PICK h : Chain(t, s, h) /\ ApplyAll(t, s) = h[Len(s)]
  BY ApplyAllIsChain
<1>2. Len(s) \in Nat
  BY LenProperties
<1> DEFINE G == {k \in Nat : k <= Len(s) => h[k] \in Tables}
<1>3. 0 \in G
  BY <1>1 DEF Chain
<1>4. ASSUME NEW k \in Nat, k \in G PROVE k + 1 \in G
  <2> SUFFICES ASSUME k + 1 <= Len(s) PROVE h[k + 1] \in Tables
    OBVIOUS
  <2>1. k \in 0 .. Len(s) - 1 /\ k + 1 \in 1 .. Len(s)
    BY <1>2
  <2>2. s[k + 1] \in Event /\ h[k] \in Tables
    BY <1>2, <1>4, <2>1, ElementOfSeq
  <2>3. h[k + 1] = Apply(h[k], s[k + 1])
    BY <1>1, <2>1 DEF Chain
  <2>. QED
    BY <2>2, <2>3, ApplyTypes
<1> HIDE DEF G
<1>5. Len(s) \in G
  BY <1>2, <1>3, <1>4, NaturalInduction
<1>. QED
  BY <1>1, <1>2, <1>5 DEF G

\* No tables is a state of the tables.
LEMMA EmptyTypes == Empty \in Tables
<1>1. [c \in Client |-> "none"] \in [Client -> Session]
  BY DEF Session
<1>. QED
  BY <1>1 DEF Empty, Tables

\* The clean-up turns tables into tables.
LEMMA CleanupTypes ==
  ASSUME NEW t \in Tables
  PROVE  RemoveStale(t) \in Tables /\ RemoveOrphans(RemoveStale(t)) \in Tables
<1>1. ASSUME NEW u \in Tables PROVE RemoveOrphans(u) \in Tables
  <2>1. u.subs \in SUBSET (Client \X Filter)
    BY DEF Tables
  <2>2. {s \in u.subs : s[1] \notin OrphanClients(u)} \in SUBSET (Client \X Filter)
    BY <2>1
  <2>. QED
    BY <2>2 DEF RemoveOrphans, Tables
<1>2. RemoveStale(t) \in Tables
  <2> DEFINE left == [c \in Client |-> IF t.sessions[c] = "clean" THEN "none" ELSE t.sessions[c]]
             kept == {s \in t.subs : s[1] \notin StaleClients(t)}
  <2>1. left \in [Client -> Session]
    BY DEF Tables, Session
  <2>2. kept \in SUBSET (Client \X Filter)
    BY DEF Tables
  <2>3. RemoveStale(t) = [t EXCEPT !.sessions = left, !.subs = kept]
    BY DEF RemoveStale
  <2> HIDE DEF left, kept
  <2>. QED
    BY <2>1, <2>2, <2>3 DEF Tables
<1>. QED
  BY <1>1, <1>2

-----------------------------------------------------------------------------
(* What the events of the clean-up make of the tables *)

\* The tables with the sessions and subscriptions of some clients removed.
Without(t, R) ==
    [t EXCEPT !.sessions = [c \in Client |-> IF c \in R THEN "none" ELSE t.sessions[c]],
              !.subs = {s \in t.subs : s[1] \notin R}]

\* Only their subscriptions removed.
WithoutSubs(t, R) == [t EXCEPT !.subs = {s \in t.subs : s[1] \notin R}]

\* The two events of one stale client remove one more.
LEMMA RemoveOne ==
  ASSUME NEW t \in Tables, NEW R, NEW c \in Client
  PROVE  Apply(Apply(Without(t, R), [op |-> "RemoveClientSubscriptions", client |-> c]),
               [op |-> "RemoveSession", client |-> c]) = Without(t, R \union {c})
<1> DEFINE e == [op |-> "RemoveClientSubscriptions", client |-> c]
           f == [op |-> "RemoveSession", client |-> c]
           w == Without(t, R)
           left == [d \in Client |-> IF d \in R THEN "none" ELSE t.sessions[d]]
           kept == {s \in t.subs : s[1] \notin R}
           fewer == {s \in kept : s[1] # c}
<1>1. /\ e.op = "RemoveClientSubscriptions" /\ e.client = c
      /\ f.op = "RemoveSession" /\ f.client = c
  OBVIOUS
<1>2. \A u : Apply(u, e) = [u EXCEPT !.subs = {s \in u.subs : s[1] # c}]
  <2> HIDE DEF e, f
  <2>. QED
    BY <1>1 DEF Apply
<1>3. \A u : Apply(u, f) = [u EXCEPT !.sessions[c] = "none"]
  <2> HIDE DEF e, f
  <2>. QED
    BY <1>1 DEF Apply
<1>4. t = [sessions |-> t.sessions, subs |-> t.subs, wills |-> t.wills, retained |-> t.retained]
  BY DEF Tables
<1>5. w = [sessions |-> left, subs |-> kept, wills |-> t.wills, retained |-> t.retained]
  <2>1. w = [t EXCEPT !.sessions = left, !.subs = kept]
    BY DEF Without
  <2> HIDE DEF w, left, kept
  <2>. QED
    BY <1>4, <2>1
<1> HIDE DEF e, f, w
<1>6. Apply(w, e) = [sessions |-> left, subs |-> fewer, wills |-> t.wills, retained |-> t.retained]
  <2>1. Apply(w, e) = [w EXCEPT !.subs = {s \in w.subs : s[1] # c}]
    BY <1>2
  <2>2. w.subs = kept
    BY <1>5
  <2>3. Apply(w, e) = [w EXCEPT !.subs = fewer]
    BY <2>1, <2>2
  <2> HIDE DEF left, kept, fewer
  <2>. QED
    BY <1>5, <2>3
<1>7. Apply(Apply(w, e), f) =
        [sessions |-> [left EXCEPT ![c] = "none"], subs |-> fewer, wills |-> t.wills,
         retained |-> t.retained]
  <2> DEFINE v == Apply(w, e)
  <2>1. v = [sessions |-> left, subs |-> fewer, wills |-> t.wills, retained |-> t.retained]
    BY <1>6
  <2> HIDE DEF left, kept, fewer, v
  <2>2. Apply(v, f) = [v EXCEPT !.sessions[c] = "none"]
    BY <1>3
  <2>3. Apply(v, f) = [sessions |-> [left EXCEPT ![c] = "none"], subs |-> fewer,
                       wills |-> t.wills, retained |-> t.retained]
    BY <2>1, <2>2
  <2>. QED
    BY <2>3 DEF v
<1>8. [left EXCEPT ![c] = "none"] =
        [d \in Client |-> IF d \in R \union {c} THEN "none" ELSE t.sessions[d]]
  OBVIOUS
<1>9. fewer = {s \in t.subs : s[1] \notin R \union {c}}
  OBVIOUS
<1>10. Without(t, R \union {c}) =
         [sessions |-> [left EXCEPT ![c] = "none"], subs |-> fewer, wills |-> t.wills,
          retained |-> t.retained]
  <2>1. Without(t, R \union {c}) =
          [t EXCEPT !.sessions = [left EXCEPT ![c] = "none"], !.subs = fewer]
    BY <1>8, <1>9 DEF Without
  <2> HIDE DEF left, kept, fewer
  <2>. QED
    BY <1>4, <2>1
<1>. QED
  BY <1>7, <1>10 DEF e, f, w

\* The events of the stale clients remove what startup removes in memory.
LEMMA StaleEvents ==
  ASSUME NEW t \in Tables, NEW stale \in Seq(Client),
         {stale[i] : i \in 1 .. Len(stale)} = StaleClients(t),
         NEW q \in Seq(Event), Len(q) = 2 * Len(stale),
         \A k \in 1 .. Len(stale) :
            /\ q[2 * k - 1] = [op |-> "RemoveClientSubscriptions", client |-> stale[k]]
            /\ q[2 * k] = [op |-> "RemoveSession", client |-> stale[k]]
  PROVE  ApplyAll(t, q) = RemoveStale(t)
<1> DEFINE n == Len(stale)
           First(k) == {stale[i] : i \in 1 .. k}
<1>1. n \in Nat /\ Len(q) = 2 * n
  BY LenProperties
<1>2. PICK h : Chain(t, q, h) /\ ApplyAll(t, q) = h[2 * n]
  BY ApplyAllIsChain
<1> DEFINE G == {k \in Nat : k <= n => h[2 * k] = Without(t, First(k))}
<1>t. t = [sessions |-> t.sessions, subs |-> t.subs, wills |-> t.wills, retained |-> t.retained]
      /\ t.sessions \in [Client -> Session]
  BY DEF Tables
<1>3. 0 \in G
  <2>1. h[2 * 0] = t
    BY <1>2 DEF Chain
  <2>2. First(0) = {}
    OBVIOUS
  <2>3. Without(t, {}) = t
    <3>1. [c \in Client |-> IF c \in {} THEN "none" ELSE t.sessions[c]] = t.sessions
      BY <1>t
    <3>2. {s \in t.subs : s[1] \notin {}} = t.subs
      OBVIOUS
    <3>. QED
      BY <1>t, <3>1, <3>2 DEF Without
  <2>. QED
    BY <2>1, <2>2, <2>3
<1>4. ASSUME NEW k \in Nat, k \in G PROVE k + 1 \in G
  <2> SUFFICES ASSUME k + 1 <= n PROVE h[2 * (k + 1)] = Without(t, First(k + 1))
    OBVIOUS
  <2> DEFINE c == stale[k + 1]
  <2>1. k + 1 \in 1 .. n /\ c \in Client
    BY <1>1, ElementOfSeq
  <2>2. h[2 * k] = Without(t, First(k))
    BY <1>1, <1>4
  <2>3. /\ q[2 * k + 1] = [op |-> "RemoveClientSubscriptions", client |-> c]
        /\ q[2 * k + 2] = [op |-> "RemoveSession", client |-> c]
    <3>1. 2 * (k + 1) - 1 = 2 * k + 1 /\ 2 * (k + 1) = 2 * k + 2
      OBVIOUS
    <3>. QED
      BY <2>1, <3>1
  <2>4. h[2 * k + 1] = Apply(h[2 * k], q[2 * k + 1])
    <3>1. 2 * k \in 0 .. Len(q) - 1
      BY <1>1
    <3>. QED
      BY <1>2, <3>1 DEF Chain
  <2>5. h[2 * k + 2] = Apply(h[2 * k + 1], q[2 * k + 2])
    <3>1. 2 * k + 1 \in 0 .. Len(q) - 1 /\ (2 * k + 1) + 1 = 2 * k + 2
      BY <1>1
    <3>. QED
      BY <1>2, <3>1 DEF Chain
  <2>6. First(k + 1) = First(k) \union {c}
    BY <2>1
  <2> HIDE DEF First, c
  <2>7. h[2 * k + 2] = Without(t, First(k) \union {c})
    BY <2>1, <2>2, <2>3, <2>4, <2>5, RemoveOne
  <2>8. 2 * (k + 1) = 2 * k + 2
    OBVIOUS
  <2>. QED
    BY <2>6, <2>7, <2>8
<1> HIDE DEF G
<1>5. n \in G
  BY <1>1, <1>3, <1>4, NaturalInduction
<1>6. h[2 * n] = Without(t, StaleClients(t))
  <2>1. First(n) = StaleClients(t)
    OBVIOUS
  <2> HIDE DEF First
  <2>2. h[2 * n] = Without(t, First(n))
    BY <1>1, <1>5 DEF G
  <2>. QED
    BY <2>1, <2>2
<1>7. Without(t, StaleClients(t)) = RemoveStale(t)
  <2>1. \A c \in Client : c \in StaleClients(t) <=> t.sessions[c] = "clean"
    BY DEF StaleClients
  <2>2. [c \in Client |-> IF c \in StaleClients(t) THEN "none" ELSE t.sessions[c]] =
        [c \in Client |-> IF t.sessions[c] = "clean" THEN "none" ELSE t.sessions[c]]
    BY <2>1
  <2>. QED
    BY <2>2 DEF Without, RemoveStale
<1>. QED
  BY <1>2, <1>6, <1>7

\* The events of the orphans remove what startup removes in memory.
LEMMA OrphanEvents ==
  ASSUME NEW t \in Tables, NEW orphans \in Seq(Client),
         {orphans[i] : i \in 1 .. Len(orphans)} = OrphanClients(t),
         NEW q \in Seq(Event), Len(q) = Len(orphans),
         \A k \in 1 .. Len(orphans) :
            q[k] = [op |-> "RemoveClientSubscriptions", client |-> orphans[k]]
  PROVE  ApplyAll(t, q) = RemoveOrphans(t)
<1> DEFINE n == Len(orphans)
           First(k) == {orphans[i] : i \in 1 .. k}
<1>1. n \in Nat /\ Len(q) = n
  BY LenProperties
<1>2. PICK h : Chain(t, q, h) /\ ApplyAll(t, q) = h[n]
  BY ApplyAllIsChain
<1> DEFINE G == {k \in Nat : k <= n => h[k] = WithoutSubs(t, First(k))}
<1>t. t = [sessions |-> t.sessions, subs |-> t.subs, wills |-> t.wills, retained |-> t.retained]
  BY DEF Tables
<1>3. 0 \in G
  <2>1. h[0] = t
    BY <1>2 DEF Chain
  <2>2. First(0) = {}
    OBVIOUS
  <2>3. WithoutSubs(t, {}) = t
    <3>1. {s \in t.subs : s[1] \notin {}} = t.subs
      OBVIOUS
    <3>. QED
      BY <1>t, <3>1 DEF WithoutSubs
  <2>. QED
    BY <2>1, <2>2, <2>3
<1>4. ASSUME NEW k \in Nat, k \in G PROVE k + 1 \in G
  <2> SUFFICES ASSUME k + 1 <= n PROVE h[k + 1] = WithoutSubs(t, First(k + 1))
    OBVIOUS
  <2> DEFINE c == orphans[k + 1]
             w == WithoutSubs(t, First(k))
             e == [op |-> "RemoveClientSubscriptions", client |-> c]
  <2>1. k + 1 \in 1 .. n /\ k \in 0 .. Len(q) - 1
    BY <1>1
  <2>2. h[k] = w /\ q[k + 1] = e /\ h[k + 1] = Apply(h[k], q[k + 1])
    BY <1>1, <1>2, <1>4, <2>1 DEF Chain
  <2>3. e.op = "RemoveClientSubscriptions" /\ e.client = c
    OBVIOUS
  <2>4. First(k + 1) = First(k) \union {c}
    BY <2>1
  <2>5. w = [t EXCEPT !.subs = {s \in t.subs : s[1] \notin First(k)}]
    BY DEF WithoutSubs
  <2> HIDE DEF First, c, w, e
  <2>6. Apply(w, e) = [w EXCEPT !.subs = {s \in w.subs : s[1] # c}]
    BY <2>3 DEF Apply
  <2>7. {s \in w.subs : s[1] # c} = {s \in t.subs : s[1] \notin First(k) \union {c}}
    BY <1>t, <2>5
  <2>8. Apply(w, e) = [t EXCEPT !.subs = {s \in t.subs : s[1] \notin First(k) \union {c}}]
    <3> DEFINE fewer == {s \in t.subs : s[1] \notin First(k) \union {c}}
    <3>1. Apply(w, e) = [w EXCEPT !.subs = fewer]
      BY <2>6, <2>7
    <3> HIDE DEF fewer
    <3>2. Apply(w, e) = [t EXCEPT !.subs = fewer]
      BY <1>t, <2>5, <3>1
    <3>. QED
      BY <3>2 DEF fewer
  <2>. QED
    BY <2>2, <2>4, <2>8 DEF WithoutSubs
<1> HIDE DEF G
<1>5. n \in G
  BY <1>1, <1>3, <1>4, NaturalInduction
<1>6. h[n] = WithoutSubs(t, OrphanClients(t))
  <2>1. First(n) = OrphanClients(t)
    OBVIOUS
  <2> HIDE DEF First
  <2>2. h[n] = WithoutSubs(t, First(n))
    BY <1>1, <1>5 DEF G
  <2>. QED
    BY <2>1, <2>2
<1>. QED
  BY <1>2, <1>6 DEF WithoutSubs, RemoveOrphans

\* The events of the clean-up make of the tables on disk what startup makes of
\* them in memory.
LEMMA CleanupApplied ==
  ASSUME NEW t \in Tables
  PROVE  ApplyAll(t, CleanupEvents(t)) = RemoveOrphans(RemoveStale(t))
<1>1. PICK stale \in Seq(Client), orphans \in Seq(Client), first \in Seq(Event),
           second \in Seq(Event) : CleanupParts(t, stale, orphans, first, second)
  BY CleanupHasParts
<1> DEFINE u == RemoveStale(t)
<1>2. u \in Tables
  BY CleanupTypes
<1>3. ApplyAll(t, first) = u
  BY <1>1, StaleEvents DEF CleanupParts
<1>4. ApplyAll(u, second) = RemoveOrphans(u)
  <2> HIDE DEF u
  <2>1. {orphans[i] : i \in 1 .. Len(orphans)} = OrphanClients(u)
    BY <1>1 DEF CleanupParts, u
  <2>. QED
    BY <1>1, <1>2, <2>1, OrphanEvents DEF CleanupParts
<1>5. ApplyAll(t, first \o second) = ApplyAll(ApplyAll(t, first), second)
  BY ApplyConcat
<1>. QED
  BY <1>1, <1>3, <1>4, <1>5 DEF CleanupParts

-----------------------------------------------------------------------------
(* Sequences *)

\* Moving the first element of the channel to the end of the batch changes
\* nothing of what they hold together.
LEMMA TakeKeeps ==
  ASSUME NEW S, NEW b \in Seq(S), NEW q \in Seq(S), q # <<>>
  PROVE  /\ Append(b, Head(q)) \in Seq(S) /\ Tail(q) \in Seq(S)
         /\ Len(Append(b, Head(q))) = Len(b) + 1 /\ Len(Tail(q)) = Len(q) - 1
         /\ Append(b, Head(q)) \o Tail(q) = b \o q
<1>1. Head(q) \in S /\ Tail(q) \in Seq(S) /\ Len(Tail(q)) = Len(q) - 1
  BY HeadTailProperties
<1>2. Append(b, Head(q)) \in Seq(S) /\ Len(Append(b, Head(q))) = Len(b) + 1
  BY <1>1
<1>3. Append(b, Head(q)) \o Tail(q) \in Seq(S) /\ b \o q \in Seq(S)
  BY <1>1, <1>2, ConcatProperties
<1>4. Len(Append(b, Head(q)) \o Tail(q)) = Len(b \o q)
  BY <1>1, <1>2, ConcatProperties, LenProperties
<1>5. ASSUME NEW i \in 1 .. Len(b \o q)
      PROVE  (Append(b, Head(q)) \o Tail(q))[i] = (b \o q)[i]
  <2>1. Len(b) \in Nat /\ Len(q) \in Nat /\ Len(q) > 0
    BY EmptySeq, LenProperties
  <2>2. Len(b \o q) = Len(b) + Len(q)
    BY ConcatProperties
  <2>3. (b \o q)[i] = IF i <= Len(b) THEN b[i] ELSE q[i - Len(b)]
    BY <2>2, ConcatProperties
  <2>4. (Append(b, Head(q)) \o Tail(q))[i] =
           IF i <= Len(b) + 1 THEN Append(b, Head(q))[i] ELSE Tail(q)[i - (Len(b) + 1)]
    BY <1>1, <1>2, <2>1, <2>2, ConcatProperties
  <2>5. CASE i <= Len(b)
    BY <2>1, <2>3, <2>4, <2>5
  <2>6. CASE i = Len(b) + 1
    BY <1>1, <2>1, <2>3, <2>4, <2>6
  <2>7. CASE i > Len(b) + 1
    <3>1. i - (Len(b) + 1) \in 1 .. Len(Tail(q))
      BY <1>1, <2>1, <2>2, <2>7
    <3>2. Tail(q)[i - (Len(b) + 1)] = q[i - (Len(b) + 1) + 1]
      BY <3>1, HeadTailProperties
    <3>. QED
      BY <2>1, <2>3, <2>4, <2>7, <3>2
  <2>. QED
    BY <2>1, <2>5, <2>6, <2>7
<1>. QED
  BY <1>1, <1>2, <1>3, <1>4, <1>5, SeqEqual

\* A sequence is a prefix of one that goes on.
LEMMA PrefixOfConcat ==
  ASSUME NEW S, NEW s \in Seq(S), NEW t \in Seq(S)
  PROVE  IsPrefix(s, s \o t)
<1>1. s \o t \in Seq(S) /\ Len(s) <= Len(s \o t)
  BY ConcatProperties, LenProperties
<1>2. SubSeq(s, 1, Len(s)) = s
  BY SubSeqFull
<1>3. SubSeq(s \o t, 1, Len(s)) = s
  <2>1. CASE s = <<>>
    BY <2>1, SubSeqEmpty, EmptySeq
  <2>2. CASE s # <<>>
    <3>1. Len(s) \in 1 .. Len(s)
      BY <2>2, EmptySeq, LenProperties
    <3>2. 1 \in 1 .. Len(s)
      BY <3>1
    <3>. QED
      BY <1>2, <3>1, <3>2, SubSeqOfConcat1
  <2>. QED
    BY <2>1, <2>2
<1>. QED
  BY <1>1, <1>2, <1>3 DEF IsPrefix

\* A prefix stays one when the longer sequence grows.
LEMMA PrefixGrows ==
  ASSUME NEW S, NEW s \in Seq(S), NEW t \in Seq(S), NEW u \in Seq(S), IsPrefix(s, t)
  PROVE  IsPrefix(s, t \o u)
<1>1. Len(s) \in Nat /\ Len(t) \in Nat /\ Len(u) \in Nat /\ Len(s) <= Len(t)
  BY LenProperties DEF IsPrefix
<1>2. Len(t \o u) = Len(t) + Len(u)
  BY ConcatProperties
<1>3. SubSeq(t \o u, 1, Len(s)) = SubSeq(t, 1, Len(s))
  <2>1. CASE Len(s) = 0
    BY <2>1, SubSeqEmpty
  <2>2. CASE Len(s) # 0
    <3>1. Len(s) \in 1 .. Len(t) /\ 1 \in 1 .. Len(t)
      BY <1>1, <2>2
    <3>. QED
      BY <3>1, SubSeqOfConcat1
  <2>. QED
    BY <2>1, <2>2
<1>. QED
  BY <1>1, <1>2, <1>3 DEF IsPrefix

\* A prefix of a prefix is one.
LEMMA PrefixOfPart ==
  ASSUME NEW S, NEW s \in Seq(S), NEW u \in Seq(S), NEW t \in Seq(S), IsPrefix(s \o u, t)
  PROVE  IsPrefix(s, t)
<1>1. Len(s) \in Nat /\ Len(t) \in Nat /\ Len(u) \in Nat
  BY LenProperties
<1>2. Len(s \o u) = Len(s) + Len(u) /\ s \o u \in Seq(S)
  BY ConcatProperties
<1>3. SubSeq(s \o u, 1, Len(s \o u)) = SubSeq(t, 1, Len(s \o u)) /\ Len(s \o u) <= Len(t)
  BY DEF IsPrefix
<1>4. SubSeq(s \o u, 1, Len(s \o u)) = s \o u
  BY <1>2, SubSeqFull
<1>5. ASSUME NEW i \in 1 .. Len(s) PROVE s[i] = t[i]
  <2>1. i \in 1 .. Len(s \o u) - 1 + 1
    BY <1>1, <1>2
  <2>2. \A j \in 1 .. Len(s \o u) : t[j] \in S
    BY <1>1, <1>2, <1>3, ElementOfSeq
  <2>3. SubSeq(t, 1, Len(s \o u))[i] = t[1 + i - 1]
    BY <1>1, <1>2, <2>1, <2>2, SubSeqProperties
  <2>4. (s \o u)[i] = s[i]
    BY <1>1, <1>2, ConcatProperties
  <2>. QED
    BY <1>3, <1>4, <2>3, <2>4
<1>6. SubSeq(t, 1, Len(s)) = s
  <2>1. \A j \in 1 .. Len(s) : t[j] \in S
    BY <1>1, <1>2, <1>3, ElementOfSeq
  <2>2. /\ SubSeq(t, 1, Len(s)) \in Seq(S)
        /\ Len(SubSeq(t, 1, Len(s))) = Len(s)
        /\ \A i \in 1 .. Len(s) : SubSeq(t, 1, Len(s))[i] = t[i]
    <3>1. /\ SubSeq(t, 1, Len(s)) \in Seq(S)
          /\ Len(SubSeq(t, 1, Len(s))) = IF 1 <= Len(s) THEN Len(s) - 1 + 1 ELSE 0
          /\ \A i \in 1 .. Len(s) - 1 + 1 : SubSeq(t, 1, Len(s))[i] = t[1 + i - 1]
      BY <1>1, <2>1, SubSeqProperties
    <3>. QED
      BY <1>1, <3>1
  <2>. QED
    BY <1>5, <2>2, SeqEqual
<1>. QED
  BY <1>1, <1>2, <1>3, <1>6, SubSeqFull DEF IsPrefix

-----------------------------------------------------------------------------
(* Initial states *)

\* The invariant holds when the process starts for the first time.
LEMMA InitIInv == Init => IInv
<1> SUFFICES ASSUME Init PROVE IInv
  OBVIOUS
<1>1. EventTypes
  BY DEF Init, EventTypes, NoStop
<1>2. sent = log \o batch \o queue
  BY ConcatProperties, ConcatEmptySeq, EmptySeq DEF Init
<1>3. StopDistance
  BY DEF Init, StopDistance, NoStop
<1>. QED
  BY <1>1, <1>2, <1>3 DEF IInv, InFlight, Init

-----------------------------------------------------------------------------
(* Types *)

\* Removing an event leaves events.
LEMMA RemoveAtIsSeq ==
  ASSUME NEW s \in Seq(Event), NEW i \in DOMAIN s
  PROVE  RemoveAt(s, i) \in Seq(Event)
<1>1. /\ i \in 1 .. Len(s)
      /\ Len(s) \in Nat
      /\ \A j \in 1 .. Len(s) : s[j] \in Event
  BY LenProperties, ElementOfSeq
<1>2. SubSeq(s, 1, i - 1) \in Seq(Event) /\ SubSeq(s, i + 1, Len(s)) \in Seq(Event)
  BY <1>1, SubSeqProperties
<1>. QED
  BY <1>2, ConcatProperties DEF RemoveAt

\* A flush ends in one of three places.
LEMMA AfterFlushMoves ==
  AfterFlush => wpc \in {"full", "flush", "last"}
                /\ wpc' = CASE wpc = "full" -> "collect"
                            [] wpc = "flush" -> "wait"
                            [] OTHER -> "stopped"
  BY DEF AfterFlush, Move

\* Every step keeps the types.
LEMMA StepTypes == EventTypes /\ [Next]_vars => EventTypes'
<1> SUFFICES ASSUME EventTypes, [Next]_vars PROVE EventTypes'
  OBVIOUS
<1> USE DEF EventTypes
<1>1. ASSUME NEW e \in Event, SendEvent(e) PROVE EventTypes'
  <2>1. Append(queue, e) \in Seq(Event) /\ Append(sent, e) \in Seq(Event)
    OBVIOUS
  <2> HIDE DEF EventTypes
  <2>2. /\ UNCHANGED <<batch, stopAt, wpc, phase, log, closedAt, failed>>
        /\ queue' \in {queue, Append(queue, e)} /\ sent' \in {sent, Append(sent, e)}
    BY <1>1 DEF SendEvent, writerVars, processVars
  <2>. QED
    BY <2>1, <2>2 DEF EventTypes
<1>2. CASE Shutdown
  <2>1. Len(queue) \in Nat /\ Len(sent) \in Nat
    BY LenProperties
  <2>. QED
    BY <1>2, <2>1 DEF Shutdown, writerVars, processVars
<1>3. CASE Die
  BY <1>3, EmptySeq DEF Die, processVars
<1>4. CASE Start
  BY <1>4, CleanupIsEvents, EmptySeq DEF Start, Started
<1>5. CASE Take /\ UNCHANGED <<db, mem, phase, histVars, processVars>>
           /\ More /\ wpc' \in {"wait", "collect", "full", "flush", "drain", "last", "stopped"}
  <2>1. queue' \in Seq(Event) /\ batch' \in Seq(Event)
    BY <1>5, TakeKeeps DEF Take, More
  <2>2. stopAt' \in Nat \union {NoStop}
    BY <1>5 DEF Take, NoStop
  <2>. QED
    BY <1>5, <2>1, <2>2 DEF histVars, processVars
<1>6. CASE Receive \/ Collect
  BY <1>5, <1>6 DEF Receive, Collect, Move
<1>7. CASE Drain
  <2>1. queue' \in Seq(Event) /\ batch' \in Seq(Event)
    BY <1>7, TakeKeeps DEF Take, Drain
  <2>2. stopAt' \in Nat \union {NoStop}
    BY <1>7 DEF Take, NoStop, Drain
  <2>. QED
    BY <1>7, <2>1, <2>2 DEF Drain, histVars, processVars
<1>8. CASE ReceiveStop \/ CollectNothing \/ CollectStop \/ DrainEnd
  BY <1>8, EmptySeq
  DEF ReceiveStop, CollectNothing, CollectStop, DrainEnd, Move, histVars, processVars, channelVars
<1>9. CASE FlushAll
  BY <1>9, AfterFlushMoves, ConcatProperties, EmptySeq DEF FlushAll, channelVars, processVars
<1>10. CASE FlushFails
  BY <1>10, AfterFlushMoves, EmptySeq DEF FlushFails, Fault, channelVars, histVars
<1>11. CASE StatementFails
  <2>1. PICK i \in DOMAIN batch : log' = log \o RemoveAt(batch, i)
    BY <1>11 DEF StatementFails
  <2>2. RemoveAt(batch, i) \in Seq(Event)
    BY RemoveAtIsSeq
  <2>3. log' \in Seq(Event)
    BY <2>1, <2>2, ConcatProperties
  <2>. QED
    BY <1>11, <2>3, AfterFlushMoves, EmptySeq DEF StatementFails, Fault, channelVars
<1>12. CASE UNCHANGED vars
  BY <1>12 DEF vars
<1>. QED
  BY <1>1, <1>2, <1>3, <1>4, <1>6, <1>7, <1>8, <1>9, <1>10, <1>11, <1>12
  DEF Next, Exit, Crash, WriterStep

-----------------------------------------------------------------------------
(* Steps in which nothing fails *)

\* Every step keeps what is in flight in the order of sending.
LEMMA StepInFlight ==
  EventTypes /\ EventTypes' /\ failed' = 0 /\ failed = 0 /\ InFlight /\ [Next]_vars => InFlight'
<1> SUFFICES ASSUME EventTypes, EventTypes', failed = 0, failed' = 0, InFlight, [Next]_vars
             PROVE  InFlight'
  OBVIOUS
<1> USE DEF EventTypes
<1>1. ASSUME NEW e \in Event, SendEvent(e) PROVE InFlight'
  <2>1. CASE wpc = "stopped"
    BY <1>1, <2>1 DEF SendEvent, InFlight, writerVars
  <2>2. CASE wpc # "stopped"
    <3>1. sent' = Append(sent, e) /\ queue' = Append(queue, e) /\ UNCHANGED <<log, batch, wpc>>
      BY <1>1, <2>2 DEF SendEvent, writerVars
    <3>2. <<e>> \in Seq(Event) /\ sent' = sent \o <<e>> /\ queue' = queue \o <<e>>
      BY <3>1, AppendIsConcat
    <3>3. CASE wpc = "last"
      <4>1. log \o batch \in Seq(Event)
        BY ConcatProperties
      <4>. QED
        BY <3>1, <3>2, <3>3, <4>1, PrefixGrows DEF InFlight
    <3>4. CASE wpc # "last"
      <4>1. log \o batch \in Seq(Event) /\ sent = (log \o batch) \o queue
        BY <2>2, <3>4, ConcatProperties DEF InFlight
      <4>2. sent' = (log \o batch) \o (queue \o <<e>>)
        <5> DEFINE rest == log \o batch
        <5>1. /\ rest \in Seq(Event) /\ sent' = (rest \o queue) \o <<e>>
              /\ queue \in Seq(Event)
          BY <3>2, <4>1
        <5> HIDE DEF rest, EventTypes
        <5>2. (rest \o queue) \o <<e>> = rest \o (queue \o <<e>>)
          BY <3>2, <5>1, ConcatAssociative
        <5>. QED
          BY <5>1, <5>2 DEF rest
      <4>. QED
        BY <2>2, <3>1, <3>2, <3>4, <4>2 DEF InFlight
    <3>. QED
      BY <3>3, <3>4
  <2>. QED
    BY <2>1, <2>2
<1>2. CASE Shutdown
  BY <1>2 DEF Shutdown, InFlight, writerVars
<1>3. CASE Die
  <2>1. <<>> \in Seq(Event)
    BY EmptySeq
  <2>2. <<>> \o <<>> = <<>>
    BY <2>1, ConcatEmptySeq
  <2> DEFINE none == <<>>
  <2>4. none \in Seq(Event) /\ none \o none = none
    BY <2>1, <2>2
  <2> HIDE DEF none
  <2>5. IsPrefix(none, none \o none)
    BY <2>4, PrefixOfConcat
  <2>6. IsPrefix(none \o none, none)
    BY <2>4, <2>5
  <2>3. log' = <<>> /\ batch' = <<>> /\ sent' = <<>> /\ wpc' = "stopped"
    BY <1>3 DEF Die
  <2>. QED
    BY <2>3, <2>6 DEF InFlight, none
<1>4. CASE Start
  <2>1. CleanupEvents(db) \in Seq(Event)
    BY CleanupIsEvents
  <2>. QED
    BY <1>4, <2>1, ConcatEmptySeq, EmptySeq DEF Start, Started, InFlight
<1>5. CASE Receive \/ Collect \/ Drain
  <2>1. /\ queue # <<>>
        /\ batch' = Append(batch, Head(queue)) /\ queue' = Tail(queue)
        /\ UNCHANGED <<sent, log>>
        /\ wpc \notin {"last", "stopped"} /\ wpc' \notin {"last", "stopped"}
    BY <1>5 DEF Receive, Collect, Drain, Move, Take, More, histVars
  <2>2. batch' \o queue' = batch \o queue
    BY <2>1, TakeKeeps
  <2> HIDE DEF EventTypes
  <2>3. (log \o batch) \o queue = log \o (batch \o queue)
    <3>1. log \in Seq(Event) /\ batch \in Seq(Event) /\ queue \in Seq(Event)
      BY DEF EventTypes
    <3>. QED
      BY <3>1, ConcatAssociative
  <2>4. (log \o batch') \o queue' = log \o (batch' \o queue')
    <3>1. log \in Seq(Event) /\ batch' \in Seq(Event) /\ queue' \in Seq(Event)
      BY DEF EventTypes
    <3>. QED
      BY <3>1, ConcatAssociative
  <2>. QED
    BY <2>1, <2>2, <2>3, <2>4 DEF InFlight
<1>6. CASE ReceiveStop \/ CollectNothing
  BY <1>6 DEF ReceiveStop, CollectNothing, Move, histVars, channelVars, InFlight
<1>7. CASE CollectStop \/ DrainEnd
  <2>1. UNCHANGED <<sent, log, batch>> /\ wpc \notin {"last", "stopped"} /\ wpc' = "last"
    BY <1>7 DEF CollectStop, DrainEnd, Move, histVars
  <2>2. log \o batch \in Seq(Event) /\ sent = (log \o batch) \o queue
    BY <2>1, ConcatProperties DEF InFlight
  <2>. QED
    BY <2>1, <2>2, PrefixOfConcat DEF InFlight
<1>8. CASE FlushAll
  <2>1. /\ log' = log \o batch /\ batch' = <<>> /\ UNCHANGED <<sent, queue>>
        /\ wpc \in {"last", "stopped"} <=> wpc' \in {"last", "stopped"}
    BY <1>8, AfterFlushMoves DEF FlushAll, channelVars
  <2>2. log' \o batch' = log \o batch
    BY <2>1, ConcatProperties, ConcatEmptySeq
  <2>. QED
    BY <2>1, <2>2 DEF InFlight
<1>9. CASE FlushFails \/ StatementFails
  BY <1>9 DEF FlushFails, StatementFails, Fault
<1>10. CASE UNCHANGED vars
  BY <1>10 DEF vars, InFlight
<1>. QED
  BY <1>1, <1>2, <1>3, <1>4, <1>5, <1>6, <1>7, <1>8, <1>9, <1>10
  DEF Next, Exit, Crash, WriterStep

\* Every step keeps the distance of Shutdown.
LEMMA StepStopDistance ==
  EventTypes /\ EventTypes' /\ failed' = 0 /\ failed = 0 /\ InFlight /\ StopDistance /\ [Next]_vars
    => StopDistance'
<1> SUFFICES ASSUME EventTypes, EventTypes', failed = 0, failed' = 0, InFlight, StopDistance,
                    [Next]_vars
             PROVE  StopDistance'
  OBVIOUS
<1>. DEFINE T == /\ queue \in Seq(Event) /\ batch \in Seq(Event) /\ sent \in Seq(Event)
                 /\ log \in Seq(Event)
<1>0. T /\ T'
  BY DEF EventTypes
<1>b. stopAt \in Nat \union {NoStop} /\ closedAt \in Nat \union {NoStop} /\ NoStop = -1
  BY DEF EventTypes, NoStop
<1>a. /\ Len(queue) \in Nat /\ Len(batch) \in Nat /\ Len(log) \in Nat /\ Len(sent) \in Nat
      /\ Len(queue') \in Nat /\ Len(batch') \in Nat /\ Len(log') \in Nat
  BY <1>0, LenProperties
<1>1. ASSUME NEW e \in Event, SendEvent(e) PROVE StopDistance'
  <2>1. UNCHANGED <<batch, stopAt, wpc, phase, log, closedAt>> /\ Len(queue') >= Len(queue)
    <3>1. Len(Append(queue, e)) = Len(queue) + 1
      BY <1>0
    <3>. QED
      BY <1>1, <1>a, <3>1 DEF SendEvent, writerVars
  <2>. QED
    BY <1>a, <1>b, <2>1 DEF StopDistance
<1>2. CASE Shutdown
  <2>1. /\ phase = "open" /\ phase' = "closing" /\ stopAt' = Len(queue) /\ closedAt' = Len(sent)
        /\ UNCHANGED <<queue, batch, wpc, log>>
    BY <1>2 DEF Shutdown, writerVars
  <2>2. wpc \notin {"drain", "last", "stopped"}
    BY <2>1 DEF StopDistance
  <2>3. Len(sent) = Len(log) + Len(batch) + Len(queue)
    <3>1. sent = (log \o batch) \o queue
      BY <2>2 DEF InFlight
    <3>2. log \o batch \in Seq(Event) /\ Len(log \o batch) = Len(log) + Len(batch)
      BY <1>0, ConcatProperties
    <3>. QED
      BY <1>0, <3>1, <3>2, ConcatProperties
  <2>. QED
    BY <1>a, <1>b, <2>1, <2>2, <2>3 DEF StopDistance
<1>3. CASE Die
  BY <1>3 DEF Die, StopDistance
<1>4. CASE Start
  BY <1>4 DEF Start, Started, StopDistance
<1>5. CASE Receive \/ Collect
  <2>1. /\ queue # <<>> /\ stopAt # 0
        /\ batch' = Append(batch, Head(queue)) /\ queue' = Tail(queue)
        /\ stopAt' = IF stopAt > 0 THEN stopAt - 1 ELSE NoStop
        /\ UNCHANGED <<phase, log, closedAt>>
        /\ wpc \in {"wait", "collect"} /\ wpc' \in {"collect", "full"}
    BY <1>5 DEF Receive, Collect, Move, Take, More, histVars
  <2>2. Len(batch') = Len(batch) + 1 /\ Len(queue') = Len(queue) - 1
    BY <1>0, <2>1, TakeKeeps
  <2>. QED
    BY <1>a, <1>b, <2>1, <2>2 DEF StopDistance
<1>6. CASE Drain
  <2>1. /\ queue # <<>> /\ wpc = "drain" /\ wpc' = "drain"
        /\ batch' = Append(batch, Head(queue)) /\ queue' = Tail(queue)
        /\ stopAt' = IF stopAt > 0 THEN stopAt - 1 ELSE NoStop
        /\ UNCHANGED <<phase, log, closedAt>>
    BY <1>6 DEF Drain, Take, histVars
  <2>2. Len(batch') = Len(batch) + 1 /\ Len(queue') = Len(queue) - 1
    BY <1>0, <2>1, TakeKeeps
  <2>3. phase = "closing" /\ stopAt = NoStop
    BY <1>b, <2>1 DEF StopDistance, EventTypes
  <2>. QED
    BY <1>a, <1>b, <2>1, <2>2, <2>3 DEF StopDistance
<1>7. CASE ReceiveStop \/ CollectStop
  <2>1. /\ stopAt = 0 /\ stopAt' = NoStop /\ wpc \in {"wait", "collect"}
        /\ UNCHANGED <<batch, phase, log, closedAt>>
        /\ wpc' \in {"drain", "last"}
    BY <1>7 DEF ReceiveStop, CollectStop, AtStop, Move, histVars
  <2>2. phase = "closing"
    BY <1>b, <2>1 DEF StopDistance, EventTypes
  <2>3. closedAt = Len(log) + Len(batch)
    BY <1>a, <1>b, <2>1, <2>2 DEF StopDistance
  <2>. QED
    BY <1>a, <1>b, <2>1, <2>2, <2>3 DEF StopDistance
<1>8. CASE CollectNothing
  <2>1. /\ UNCHANGED <<queue, stopAt, batch, phase, log, closedAt>>
        /\ wpc = "collect" /\ wpc' \in {"wait", "flush"}
    BY <1>8 DEF CollectNothing, Move, histVars, channelVars
  <2>. QED
    BY <2>1 DEF StopDistance
<1>9. CASE DrainEnd
  <2>1. /\ UNCHANGED <<queue, stopAt, batch, phase, log, closedAt>>
        /\ queue = <<>> /\ wpc = "drain" /\ wpc' = "last"
    BY <1>9 DEF DrainEnd, Move, histVars, channelVars
  <2>2. Len(queue) = 0
    BY <2>1, EmptySeq
  <2>. QED
    BY <1>a, <2>1, <2>2 DEF StopDistance
<1>10. CASE FlushAll
  <2>1. /\ log' = log \o batch /\ batch' = <<>>
        /\ UNCHANGED <<queue, stopAt, phase, closedAt>>
        /\ wpc \in {"full", "flush", "last"}
        /\ wpc' = CASE wpc = "full" -> "collect" [] wpc = "flush" -> "wait" [] OTHER -> "stopped"
    BY <1>10, AfterFlushMoves DEF FlushAll, channelVars
  <2>2. Len(log') = Len(log) + Len(batch) /\ Len(batch') = 0
    BY <1>0, <2>1, ConcatProperties, EmptySeq
  <2>3. phase # "down"
    BY <2>1 DEF StopDistance
  <2>. QED
    BY <1>a, <1>b, <2>1, <2>2, <2>3 DEF StopDistance
<1>11. CASE FlushFails \/ StatementFails
  BY <1>11 DEF FlushFails, StatementFails, Fault
<1>12. CASE UNCHANGED vars
  BY <1>12 DEF vars, StopDistance
<1>. QED
  BY <1>1, <1>2, <1>3, <1>4, <1>5, <1>6, <1>7, <1>8, <1>9, <1>10, <1>11, <1>12
  DEF Next, Exit, Crash, WriterStep

-----------------------------------------------------------------------------
(* Theorems *)

\* Nothing is forgotten: the number of failures only grows.
LEMMA FailuresStay == EventTypes /\ [Next]_vars /\ failed' = 0 => failed = 0
<1> SUFFICES ASSUME EventTypes, [Next]_vars, failed' = 0 PROVE failed = 0
  OBVIOUS
<1>1. failed' = failed \/ failed' = failed + 1
  BY DEF Next, SendEvent, Shutdown, Exit, Crash, Die, Start, WriterStep, Receive, ReceiveStop,
         Collect, CollectNothing, CollectStop, Drain, DrainEnd, FlushAll, FlushFails,
         StatementFails, Fault, vars, processVars
<1>. QED
  BY <1>1 DEF EventTypes

\* The invariant is inductive.
THEOREM Inductive == Spec => []IInv
<1>1. IInv /\ [Next]_vars => IInv'
  BY StepTypes, StepInFlight, StepStopDistance, FailuresStay DEF IInv
<1>. QED
  BY InitIInv, <1>1, PTL DEF Spec

\* Whatever crashes and shutdowns there are, as long as no statement fails, no
\* event is on disk without every event sent before it.
THEOREM CommittedPrefixAlways == Spec => []CommittedPrefix
<1>1. IInv => CommittedPrefix
  <2> SUFFICES ASSUME IInv, failed = 0 PROVE IsPrefix(log, sent)
    BY DEF CommittedPrefix
  <2>1. log \in Seq(Event) /\ batch \in Seq(Event) /\ queue \in Seq(Event) /\ sent \in Seq(Event)
    BY DEF IInv, EventTypes
  <2>2. log \o batch \in Seq(Event)
    BY <2>1, ConcatProperties
  <2>3. IsPrefix(log \o batch, sent)
    BY <2>1, <2>2, PrefixOfConcat DEF IInv, InFlight
  <2>. QED
    BY <2>1, <2>3, PrefixOfPart
<1>. QED
  BY <1>1, Inductive, PTL

\* A writer that has ended after Shutdown has written all that was sent before
\* it, whichever of its two loops met Shutdown.
THEOREM StopCompleteAlways == Spec => []StopComplete
<1>1. IInv => StopComplete
  <2> SUFFICES ASSUME IInv, failed = 0, phase = "closing", wpc = "stopped"
               PROVE  Len(log) >= closedAt
    BY DEF StopComplete
  <2>1. stopAt = NoStop /\ closedAt \in Nat /\ batch = <<>> /\ closedAt <= Len(log) + Len(batch)
    BY DEF IInv, StopDistance, EventTypes
  <2>2. Len(batch) = 0 /\ Len(log) \in Nat
    BY <2>1, EmptySeq, LenProperties DEF IInv, EventTypes
  <2>. QED
    BY <2>1, <2>2
<1>. QED
  BY <1>1, Inductive, PTL

-----------------------------------------------------------------------------
(* Types of all variables, and the length of a batch *)

\* What EventTypes leaves out.  How long a batch may be depends on where the
\* writer is: it goes on collecting only while there is room for one more.
TableTypes ==
    /\ db \in Tables /\ mem \in Tables
    /\ runs \in Nat

BatchBound ==
    /\ wpc \notin {"drain", "last"} => Len(batch) <= Limit
    /\ wpc = "collect" => Len(batch) < Limit
    /\ wpc \in {"wait", "stopped"} => batch = <<>>

\* Every step keeps the types of the tables.
LEMMA StepTableTypes == EventTypes /\ TableTypes /\ [Next]_vars => TableTypes'
<1> SUFFICES ASSUME EventTypes, TableTypes, [Next]_vars PROVE TableTypes'
  OBVIOUS
<1>t. db \in Tables /\ mem \in Tables /\ runs \in Nat /\ batch \in Seq(Event)
  BY DEF EventTypes, TableTypes
<1>1. ASSUME NEW e \in Event, SendEvent(e) PROVE TableTypes'
  <2>1. mem' = Apply(mem, e) /\ UNCHANGED <<db, runs>>
    BY <1>1 DEF SendEvent, processVars
  <2>2. Apply(mem, e) \in Tables
    BY <1>t, ApplyTypes
  <2>. QED
    BY <1>t, <2>1, <2>2 DEF TableTypes
<1>2. CASE Die
  <2>1. mem' = Empty /\ UNCHANGED <<db, runs>>
    BY <1>2 DEF Die, processVars
  <2>. QED
    BY <1>t, <2>1, EmptyTypes DEF TableTypes
<1>3. CASE Start
  <2>1. /\ mem' = RemoveOrphans(RemoveStale(db)) /\ runs' = runs + 1 /\ db' = db
    BY <1>3 DEF Start, Started
  <2>2. RemoveOrphans(RemoveStale(db)) \in Tables
    BY <1>t, CleanupTypes
  <2>. QED
    BY <1>t, <2>1, <2>2 DEF TableTypes
<1>4. CASE FlushAll
  <2>1. db' = ApplyAll(db, batch) /\ UNCHANGED <<mem, runs>>
    BY <1>4 DEF FlushAll, processVars
  <2>2. ApplyAll(db, batch) \in Tables
    BY <1>t, ApplyAllTypes
  <2>. QED
    BY <1>t, <2>1, <2>2 DEF TableTypes
<1>5. CASE StatementFails
  <2>1. PICK i \in DOMAIN batch : db' = ApplyAll(db, RemoveAt(batch, i))
    BY <1>5 DEF StatementFails
  <2>2. RemoveAt(batch, i) \in Seq(Event)
    BY <1>t, RemoveAtIsSeq
  <2>3. ApplyAll(db, RemoveAt(batch, i)) \in Tables
    BY <1>t, <2>2, ApplyAllTypes
  <2>4. UNCHANGED <<mem, runs>>
    BY <1>5 DEF StatementFails
  <2>. QED
    BY <1>t, <2>1, <2>3, <2>4 DEF TableTypes
<1>6. ASSUME UNCHANGED <<db, mem, runs>> PROVE TableTypes'
  BY <1>6 DEF TableTypes
<1>7. CASE \/ Shutdown \/ Receive \/ ReceiveStop \/ Collect \/ CollectNothing \/ CollectStop
           \/ Drain \/ DrainEnd \/ FlushFails \/ UNCHANGED vars
  BY <1>6, <1>7 DEF Shutdown, Receive, ReceiveStop, Collect, CollectNothing, CollectStop, Drain,
     DrainEnd, FlushFails, vars, processVars
<1>. QED
  BY <1>1, <1>2, <1>3, <1>4, <1>5, <1>7 DEF Next, Exit, Crash, WriterStep

\* Every step keeps the bound of a batch.
LEMMA StepBatchBound == EventTypes /\ BatchBound /\ [Next]_vars => BatchBound'
<1> SUFFICES ASSUME EventTypes, BatchBound, [Next]_vars PROVE BatchBound'
  OBVIOUS
<1>t. /\ batch \in Seq(Event) /\ queue \in Seq(Event)
      /\ Len(batch) \in Nat /\ Limit \in Nat /\ Limit > 1
      /\ wpc \in {"wait", "collect", "full", "flush", "drain", "last", "stopped"}
  BY LimitAssumption, LenProperties DEF EventTypes
<1>e. Len(<<>>) = 0 /\ (batch = <<>> => Len(batch) = 0)
  BY <1>t, EmptySeq
<1>1. ASSUME UNCHANGED <<batch, wpc>> PROVE BatchBound'
  BY <1>1 DEF BatchBound
<1>2. CASE (\E e \in Event : SendEvent(e)) \/ Shutdown \/ UNCHANGED vars
  BY <1>1, <1>2 DEF SendEvent, Shutdown, vars, writerVars
<1>3. ASSUME batch' = <<>>, wpc' \in {"wait", "collect", "stopped"} PROVE BatchBound'
  BY <1>3, <1>e, <1>t DEF BatchBound
<1>4. CASE Die \/ Start
  BY <1>3, <1>4 DEF Die, Start, Started
<1>5. CASE FlushAll \/ FlushFails \/ StatementFails
  BY <1>3, <1>5, AfterFlushMoves DEF FlushAll, FlushFails, StatementFails
<1>6. CASE Receive \/ Collect
  <2>1. queue # <<>> /\ batch' = Append(batch, Head(queue))
    BY <1>6 DEF Receive, Collect, Take, More
  <2>2. Len(batch') = Len(batch) + 1
    BY <1>t, <2>1, TakeKeeps
  <2>3. CASE Receive
    <3>1. wpc = "wait" /\ wpc' = "collect"
      BY <2>3 DEF Receive, Move
    <3>2. Len(batch') = 1
      BY <1>e, <2>2, <3>1 DEF BatchBound
    <3>. QED
      BY <1>t, <3>1, <3>2 DEF BatchBound
  <2>4. CASE Collect
    <3>1. wpc = "collect" /\ wpc' = IF Len(batch) + 1 >= Limit THEN "full" ELSE "collect"
      BY <2>4 DEF Collect, Move
    <3>2. Len(batch) < Limit
      BY <3>1 DEF BatchBound
    <3>. QED
      BY <1>t, <2>2, <3>1, <3>2 DEF BatchBound
  <2>. QED
    BY <1>6, <2>3, <2>4
<1>7. CASE ReceiveStop \/ CollectStop \/ Drain \/ DrainEnd
  <2>1. wpc' \in {"drain", "last"}
    BY <1>7 DEF ReceiveStop, CollectStop, Drain, DrainEnd, Move
  <2>. QED
    BY <2>1 DEF BatchBound
<1>8. CASE CollectNothing
  <2>1. /\ wpc = "collect" /\ batch' = batch
        /\ wpc' = IF batch = <<>> THEN "wait" ELSE "flush"
    BY <1>8 DEF CollectNothing, Move
  <2>. QED
    BY <1>t, <2>1 DEF BatchBound
<1>. QED
  BY <1>2, <1>4, <1>5, <1>6, <1>7, <1>8 DEF Next, Exit, Crash, WriterStep

\* Every variable is always of its type, and the writer never collects more
\* than Limit events except while it drains the channel.
THEOREM TypeCorrect == Spec => []TypeOK
<1>1. Init => TableTypes /\ BatchBound
  <2> SUFFICES ASSUME Init PROVE TableTypes /\ BatchBound
    OBVIOUS
  <2>1. db = Empty /\ mem = Empty /\ runs = 1 /\ batch = <<>> /\ wpc = "wait"
    BY DEF Init
  <2>2. Len(batch) = 0
    BY <2>1, EmptySeq
  <2>. QED
    BY <2>1, <2>2, EmptyTypes, LimitAssumption DEF TableTypes, BatchBound
<1>2. IInv /\ TableTypes /\ BatchBound /\ [Next]_vars => (TableTypes /\ BatchBound)'
  BY StepTableTypes, StepBatchBound DEF IInv
<1>3. IInv /\ TableTypes /\ BatchBound => TypeOK
  BY DEF IInv, EventTypes, TableTypes, BatchBound, TypeOK
<1>. QED
  BY <1>1, <1>2, <1>3, Inductive, PTL DEF Spec

-----------------------------------------------------------------------------
(* Memory and disk *)

\* Every step of a process that is not shutting down, in which nothing fails,
\* keeps memory what the disk will be.
LEMMA StepInStep == IInv /\ IInv' /\ TableTypes /\ InStep /\ [Next]_vars => InStep'
<1> SUFFICES ASSUME IInv, IInv', TableTypes, InStep, [Next]_vars, failed' = 0, phase' = "open"
             PROVE  mem' = ApplyAll(db', batch' \o queue')
  BY DEF InStep
<1>t. /\ batch \in Seq(Event) /\ queue \in Seq(Event) /\ db \in Tables
      /\ EventTypes /\ failed = 0 /\ StopDistance
  BY FailuresStay DEF IInv, EventTypes, TableTypes
<1>o. ASSUME phase = "open"
      PROVE  /\ mem = ApplyAll(db, batch \o queue)
             /\ stopAt = NoStop /\ wpc \notin {"drain", "last", "stopped"}
  BY <1>o, <1>t DEF InStep, StopDistance
<1>1. ASSUME NEW e \in Event, SendEvent(e) PROVE mem' = ApplyAll(db', batch' \o queue')
  <2>1. phase = "open"
    BY <1>1 DEF SendEvent
  <2>2. /\ mem' = Apply(mem, e) /\ queue' = Append(queue, e) /\ UNCHANGED <<db, batch>>
    BY <1>1, <1>o, <2>1 DEF SendEvent, writerVars
  <2>3. batch \o Append(queue, e) = Append(batch \o queue, e) /\ batch \o queue \in Seq(Event)
    <3>1. <<e>> \in Seq(Event) /\ Append(queue, e) = queue \o <<e>>
      BY <1>t, AppendIsConcat
    <3>2. batch \o queue \in Seq(Event)
      BY <1>t, ConcatProperties
    <3>3. batch \o (queue \o <<e>>) = (batch \o queue) \o <<e>>
      BY <1>t, <3>1, ConcatAssociative
    <3>. QED
      BY <3>1, <3>2, <3>3, AppendIsConcat
  <2> DEFINE s == batch \o queue
  <2>4. s \in Seq(Event) /\ batch' \o queue' = Append(s, e) /\ mem = ApplyAll(db, s)
    BY <1>o, <2>1, <2>2, <2>3
  <2> HIDE DEF s
  <2>5. ApplyAll(db, Append(s, e)) = Apply(ApplyAll(db, s), e)
    BY <2>4, ApplyLast
  <2>. QED
    BY <2>2, <2>4, <2>5
<1>2. CASE Shutdown \/ Die
  BY <1>2 DEF Shutdown, Die
<1>3. CASE Start
  <2>1. /\ mem' = RemoveOrphans(RemoveStale(db)) /\ queue' = CleanupEvents(db)
        /\ batch' = <<>> /\ db' = db
    BY <1>3 DEF Start, Started
  <2>2. CleanupEvents(db) \in Seq(Event)
    BY CleanupIsEvents
  <2>3. <<>> \o CleanupEvents(db) = CleanupEvents(db)
    BY <2>2, ConcatEmptySeq
  <2>4. ApplyAll(db, CleanupEvents(db)) = RemoveOrphans(RemoveStale(db))
    BY <1>t, CleanupApplied
  <2>. QED
    BY <2>1, <2>3, <2>4
<1>4. CASE Receive \/ Collect
  <2>1. /\ queue # <<>> /\ batch' = Append(batch, Head(queue)) /\ queue' = Tail(queue)
        /\ UNCHANGED <<db, mem, phase>>
    BY <1>4 DEF Receive, Collect, Take, More
  <2>2. batch' \o queue' = batch \o queue
    BY <1>t, <2>1, TakeKeeps
  <2>. QED
    BY <1>o, <2>1, <2>2
<1>5. CASE ReceiveStop \/ CollectStop \/ Drain \/ DrainEnd
  <2>1. phase = "open" /\ (stopAt = 0 \/ wpc = "drain")
    BY <1>5 DEF ReceiveStop, CollectStop, Drain, DrainEnd, AtStop, Move
  <2>. QED
    BY <1>o, <2>1 DEF NoStop
<1>6. CASE CollectNothing
  <2>1. UNCHANGED <<db, mem, batch, queue, phase>>
    BY <1>6 DEF CollectNothing, channelVars
  <2>. QED
    BY <1>o, <2>1
<1>7. CASE FlushAll
  <2>1. /\ db' = ApplyAll(db, batch) /\ batch' = <<>> /\ UNCHANGED <<mem, queue, phase>>
    BY <1>7 DEF FlushAll, channelVars
  <2>2. <<>> \o queue = queue
    BY <1>t, ConcatEmptySeq
  <2>3. ApplyAll(db, batch \o queue) = ApplyAll(ApplyAll(db, batch), queue)
    BY <1>t, ApplyConcat
  <2>. QED
    BY <1>o, <2>1, <2>2, <2>3
<1>8. CASE FlushFails \/ StatementFails
  BY <1>8, <1>t DEF FlushFails, StatementFails, Fault
<1>9. CASE UNCHANGED vars
  BY <1>9, <1>o DEF vars
<1>. QED
  BY <1>1, <1>2, <1>3, <1>4, <1>5, <1>6, <1>7, <1>8, <1>9 DEF Next, Exit, Crash, WriterStep

\* As long as no statement fails, what the broker has in memory is what the
\* tables become once the events on their way are written, after any number
\* of crashes and restarts, the clean-up at startup included.
THEOREM InStepAlways == Spec => []InStep
<1>1. Init => TableTypes /\ InStep
  <2> SUFFICES ASSUME Init PROVE TableTypes /\ InStep
    OBVIOUS
  <2>1. db = Empty /\ mem = Empty /\ runs = 1 /\ batch = <<>> /\ queue = <<>>
    BY DEF Init
  <2>2. <<>> \o <<>> = <<>>
    BY EmptySeq, ConcatEmptySeq
  <2>. QED
    BY <2>1, <2>2, EmptyTypes, ApplyNone DEF TableTypes, InStep
<1>2. IInv /\ IInv' /\ TableTypes /\ InStep /\ [Next]_vars => (TableTypes /\ InStep)'
  BY StepTableTypes, StepInStep DEF IInv
<1>. QED
  BY <1>1, <1>2, Inductive, PTL DEF Spec

\* From any tables that faults and crashes have left, startup makes a memory
\* without clean sessions and without subscriptions of unknown clients, and
\* everything of the persistent sessions is in it.
THEOREM StartupCleanAlways == Spec => StartupClean
<1> DEFINE Clean == \A c \in Client :
             /\ mem'.sessions[c] = IF db.sessions[c] = "kept" THEN "kept" ELSE "none"
             /\ {s \in mem'.subs : s[1] = c} =
                  {s \in db.subs : s[1] = c /\ db.sessions[c] = "kept"}
<1>1. TypeOK /\ Start => Clean
  <2> SUFFICES ASSUME TypeOK, Start, NEW c \in Client
               PROVE  /\ mem'.sessions[c] = IF db.sessions[c] = "kept" THEN "kept" ELSE "none"
                      /\ {s \in mem'.subs : s[1] = c} =
                           {s \in db.subs : s[1] = c /\ db.sessions[c] = "kept"}
    OBVIOUS
  <2> DEFINE left == [d \in Client |-> IF db.sessions[d] = "clean" THEN "none" ELSE db.sessions[d]]
             kept == {s \in db.subs : s[1] \notin StaleClients(db)}
             u == RemoveStale(db)
  <2>1. /\ db = [sessions |-> db.sessions, subs |-> db.subs, wills |-> db.wills,
                 retained |-> db.retained]
        /\ db.sessions[c] \in {"none", "clean", "kept"}
    BY DEF TypeOK, Tables, Session
  <2>2. u.sessions = left /\ u.subs = kept
           /\ u = [sessions |-> left, subs |-> kept, wills |-> db.wills, retained |-> db.retained]
    <3>1. u = [db EXCEPT !.sessions = left, !.subs = kept]
      BY DEF RemoveStale
    <3> HIDE DEF left, kept, u
    <3>. QED
      BY <2>1, <3>1
  <2>3. c \in StaleClients(db) <=> db.sessions[c] = "clean"
    BY DEF StaleClients
  <2>4. c \in OrphanClients(u) <=> left[c] = "none" /\ \E s \in kept : s[1] = c
    <3> HIDE DEF left, kept, u
    <3>. QED
      BY <2>2 DEF OrphanClients
  <2>5. mem'.sessions = left /\ mem'.subs = {s \in kept : s[1] \notin OrphanClients(u)}
    <3>1. mem' = RemoveOrphans(u)
      BY DEF Start, Started
    <3> HIDE DEF left, kept, u
    <3>. QED
      BY <2>2, <3>1 DEF RemoveOrphans
  <2>6. left[c] = IF db.sessions[c] = "clean" THEN "none" ELSE db.sessions[c]
    OBVIOUS
  <2>7. \A s : s \in kept <=> s \in db.subs /\ s[1] \notin StaleClients(db)
    OBVIOUS
  <2>8. mem'.sessions[c] = IF db.sessions[c] = "kept" THEN "kept" ELSE "none"
    BY <2>1, <2>5, <2>6
  <2>9. ASSUME NEW s
        PROVE  s \in mem'.subs /\ s[1] = c <=> s \in db.subs /\ s[1] = c /\ db.sessions[c] = "kept"
    <3> HIDE DEF left, kept, u
    <3>. QED
      BY <2>1, <2>3, <2>4, <2>5, <2>6, <2>7
  <2>. QED
    BY <2>8, <2>9
<1>2. TypeOK => [Start => Clean]_vars
  BY <1>1
<1> HIDE DEF Clean
<1>3. Spec => [][Start => Clean]_vars
  BY <1>2, TypeCorrect, PTL
<1>. QED
  BY <1>3, PTL DEF StartupClean, Clean
=============================================================================
