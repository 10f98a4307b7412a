----------------------------- MODULE WireProofs -----------------------------
(***************************************************************************)
(* Theorems about the bytes on a connection: RemainingLength and Framing,  *)
(* for every base, packet size and stream, and Codec, for every string,    *)
(* payload and list of properties that has an encoding.                    *)
(***************************************************************************)
EXTENDS Framing, Codec, Induction, SequenceTheorems

-----------------------------------------------------------------------------
(* The bytes of a length *)

\* A number is its last digit and Base times the rest; a digit is below Base,
\* whether its high bit is set or not, and the rest is smaller.
LEMMA Digits ==
  ASSUME NEW n \in Nat
  PROVE  /\ n % Base \in 0 .. Base - 1 /\ n \div Base \in Nat
         /\ n = (n % Base) + Base * (n \div Base)
         /\ n # 0 => n \div Base < n
         /\ (n % Base) % Base = n % Base
         /\ ((n % Base) + Base) % Base = n % Base
<1>1. n % Base \in 0 .. Base - 1 /\ n \div Base \in Nat
  BY BaseAssumption
<1>2. n = (n % Base) + Base * (n \div Base)
  BY BaseAssumption
<1>3. n # 0 => n \div Base < n
  BY BaseAssumption
<1>4. (n % Base) % Base = n % Base
  BY BaseAssumption
<1>5. ((n % Base) + Base) % Base = n % Base
  BY BaseAssumption
<1>. QED
  BY <1>1, <1>2, <1>3, <1>4, <1>5

\* What is left of n after each of k bytes: something, until the last.
Shrinks(n, k, left) ==
    /\ k \in 1 .. n + 1
    /\ left[0] = n /\ left[k] = 0
    /\ \A i \in 0 .. k : left[i] \in Nat
    /\ \A i \in 1 .. k : left[i] = left[i - 1] \div Base
    /\ \A i \in 1 .. k - 1 : left[i] # 0

\* EncodeLength comes to an end, with bytes that are what is left in the base, and
\* that have the high bit, all but the last.
LEMMA EncodeLengthEnds ==
  ASSUME NEW n \in Nat
  PROVE  \E k, left : /\ Shrinks(n, k, left)
                      /\ EncodeLength(n) = [i \in 1 .. k |->
                            (left[i - 1] % Base) + (IF left[i] # 0 THEN Base ELSE 0)]
<1> DEFINE IsLeft(f) == f = [i \in 0 .. n + 1 |-> IF i = 0 THEN n ELSE f[i - 1] \div Base]
           left == CHOOSE f : IsLeft(f)
           k == CHOOSE i \in 1 .. n + 1 : left[i] = 0 /\ \A j \in 1 .. i - 1 : left[j] # 0
<1>1. \E f : IsLeft(f)
  <2> DEFINE step == [x \in Nat \X (1 .. n + 1) |-> x[1] \div Base]
  <2>1. step \in [Nat \X (1 .. n + 1) -> Nat]
    <3>1. \A x \in Nat \X (1 .. n + 1) : x[1] \div Base \in Nat
      BY Digits
    <3>. QED
      BY <3>1
  <2>2. \A v \in Nat, i \in 1 .. n + 1 : step[<<v, i>>] = v \div Base
    OBVIOUS
  <2> HIDE DEF step
  <2>3. n + 1 \in Nat
    OBVIOUS
  <2>4. PICK f \in [0 .. n + 1 -> Nat] : IsChain(n, n + 1, step, f)
    BY <2>1, <2>3, ChainHasSolution
  <2>5. \A i \in 0 .. n + 1 : i # 0 => i \in 1 .. n + 1 /\ f[i - 1] \in Nat
    OBVIOUS
  <2>6. \A i \in 0 .. n + 1 : (IF i = 0 THEN n ELSE step[<<f[i - 1], i>>])
                              = (IF i = 0 THEN n ELSE f[i - 1] \div Base)
    BY <2>2, <2>5
  <2>7. f = [i \in 0 .. n + 1 |-> IF i = 0 THEN n ELSE step[<<f[i - 1], i>>]]
    BY <2>4 DEF IsChain
  <2>8. IsLeft(f)
    BY <2>6, <2>7, Zenon
  <2>. QED
    BY <2>8
<1>2. IsLeft(left)
  BY <1>1
<1>3. EncodeLength(n) = [i \in 1 .. k |-> (left[i - 1] % Base) + (IF left[i] # 0 THEN Base ELSE 0)]
  BY DEF EncodeLength
<1> HIDE DEF left
<1>4. left[0] = n /\ \A i \in 1 .. n + 1 : left[i] = left[i - 1] \div Base
  BY <1>2
<1>5. \A i \in Nat : i <= n + 1 => left[i] \in Nat /\ (left[i] = 0 \/ left[i] <= n - i)
  <2> DEFINE G == {i \in Nat : i <= n + 1 => left[i] \in Nat /\ (left[i] = 0 \/ left[i] <= n - i)}
  <2>1. 0 \in G
    BY <1>4
  <2>2. ASSUME NEW i \in Nat, i \in G PROVE i + 1 \in G
    <3> SUFFICES ASSUME i + 1 <= n + 1
                 PROVE  left[i + 1] \in Nat /\ (left[i + 1] = 0 \/ left[i + 1] <= n - (i + 1))
      OBVIOUS
    <3>1. left[i] \in Nat /\ (left[i] = 0 \/ left[i] <= n - i)
      BY <2>2
    <3>2. left[i + 1] = left[i] \div Base
      BY <1>4
    <3>3. left[i + 1] \in Nat /\ (left[i] # 0 => left[i + 1] < left[i])
      BY <3>1, <3>2, Digits
    <3>4. left[i] = 0 => left[i + 1] = 0
      BY <3>2, BaseAssumption
    <3>. QED
      BY <3>1, <3>3, <3>4
  <2> HIDE DEF G
  <2>3. \A i \in Nat : i \in G
    BY <2>1, <2>2, NaturalInduction
  <2>. QED
    BY <2>3 DEF G
<1>6. n + 1 \in 1 .. n + 1 /\ left[n + 1] = 0
  BY <1>5
<1>7. \E i \in 1 .. n + 1 : left[i] = 0 /\ \A j \in 1 .. i - 1 : left[j] # 0
  <2> DEFINE G == {m \in Nat : (\E i \in 1 .. n + 1 : i <= m /\ left[i] = 0) =>
                      \E i \in 1 .. n + 1 : left[i] = 0 /\ \A j \in 1 .. i - 1 : left[j] # 0}
  <2>1. 0 \in G
    OBVIOUS
  <2>2. ASSUME NEW m \in Nat, m \in G PROVE m + 1 \in G
    <3>1. CASE \E i \in 1 .. n + 1 : i <= m /\ left[i] = 0
      BY <2>2, <3>1
    <3>2. CASE ~\E i \in 1 .. n + 1 : i <= m /\ left[i] = 0
      <4> SUFFICES ASSUME NEW i \in 1 .. n + 1, i <= m + 1, left[i] = 0
                   PROVE  \E h \in 1 .. n + 1 : left[h] = 0 /\ \A j \in 1 .. h - 1 : left[j] # 0
        OBVIOUS
      <4>1. i = m + 1
        BY <3>2
      <4>2. \A j \in 1 .. i - 1 : j \in 1 .. n + 1 /\ j <= m
        BY <4>1
      <4>. QED
        BY <3>2, <4>2
    <3>. QED
      BY <3>1, <3>2
  <2> HIDE DEF G
  <2>3. \A m \in Nat : m \in G
    BY <2>1, <2>2, NaturalInduction
  <2>4. n + 1 \in G
    BY <2>3
  <2>. QED
    BY <1>6, <2>4 DEF G
<1>8. k \in 1 .. n + 1 /\ left[k] = 0 /\ \A j \in 1 .. k - 1 : left[j] # 0
  BY <1>7
<1> HIDE DEF k
<1>9. Shrinks(n, k, left)
  <2>1. \A i \in 0 .. k : i \in Nat /\ i <= n + 1
    BY <1>8
  <2>2. \A i \in 1 .. k : i \in 1 .. n + 1
    BY <1>8
  <2>. QED
    BY <1>4, <1>5, <1>8, <2>1, <2>2 DEF Shrinks
<1>. QED
  BY <1>3, <1>9

\* The value of the first k bytes of s, which m weighs and v sums up.
Accumulates(s, k, m, v) ==
    /\ m[0] = 1 /\ v[0] = 0
    /\ \A i \in 0 .. k : m[i] \in Nat /\ v[i] \in Nat
    /\ \A i \in 1 .. k : m[i] = m[i - 1] * Base /\ v[i] = v[i - 1] + (s[i] % Base) * m[i - 1]

\* Products and sums of naturals are natural.
LEMMA NaturalProducts ==
  ASSUME NEW a \in Nat, NEW b \in Nat, NEW c \in Nat
  PROVE  a * b \in Nat /\ c + a * b \in Nat
OBVIOUS

\* The two recursive definitions of DecodeLength, over the first k bytes of s.
MultiplierOf(k) == CHOOSE f : f = [i \in 0 .. k |-> IF i = 0 THEN 1 ELSE f[i - 1] * Base]
ValueOf(s, k) == CHOOSE f : f = [i \in 0 .. k |->
    IF i = 0 THEN 0 ELSE f[i - 1] + (s[i] % Base) * MultiplierOf(k)[i - 1]]

\* They have a solution.
LEMMA ValueAccumulates ==
  ASSUME NEW k \in Nat, NEW s, \A i \in 1 .. k : s[i] \in Nat
  PROVE  Accumulates(s, k, MultiplierOf(k), ValueOf(s, k))
<1> DEFINE multiplier == MultiplierOf(k)
           value == ValueOf(s, k)
           IsMultiplier(f) == f = [i \in 0 .. k |-> IF i = 0 THEN 1 ELSE f[i - 1] * Base]
           IsSum(f) == f = [i \in 0 .. k |->
                IF i = 0 THEN 0 ELSE f[i - 1] + (s[i] % Base) * multiplier[i - 1]]
<1>1. Base \in Nat
  BY BaseAssumption
<1>2. \E f : IsMultiplier(f)
  <2> DEFINE step == [x \in Nat \X (1 .. k) |-> x[1] * Base]
  <2>1. step \in [Nat \X (1 .. k) -> Nat]
    <3>1. \A x \in Nat \X (1 .. k) : x[1] * Base \in Nat
      BY <1>1, NaturalProducts
    <3>. QED
      BY <3>1
  <2>2. \A v \in Nat, i \in 1 .. k : step[<<v, i>>] = v * Base
    OBVIOUS
  <2> HIDE DEF step
  <2>3. PICK f \in [0 .. k -> Nat] : IsChain(1, k, step, f)
    BY <2>1, ChainHasSolution
  <2>4. \A i \in 0 .. k : i # 0 => i \in 1 .. k /\ f[i - 1] \in Nat
    OBVIOUS
  <2>5. \A i \in 0 .. k : (IF i = 0 THEN 1 ELSE step[<<f[i - 1], i>>])
                          = (IF i = 0 THEN 1 ELSE f[i - 1] * Base)
    BY <2>2, <2>4
  <2>6. f = [i \in 0 .. k |-> IF i = 0 THEN 1 ELSE step[<<f[i - 1], i>>]]
    BY <2>3 DEF IsChain
  <2>7. IsMultiplier(f)
    BY <2>5, <2>6, Zenon
  <2>. QED
    BY <2>7
<1>3. IsMultiplier(multiplier)
  BY <1>2 DEF MultiplierOf
<1> HIDE DEF multiplier
<1>4. multiplier[0] = 1 /\ \A i \in 1 .. k : multiplier[i] = multiplier[i - 1] * Base
  BY <1>3
<1>5. \A i \in 0 .. k : multiplier[i] \in Nat
  <2> DEFINE G == {i \in Nat : i <= k => multiplier[i] \in Nat}
  <2>1. 0 \in G
    BY <1>4
  <2>2. ASSUME NEW i \in Nat, i \in G PROVE i + 1 \in G
    <3> SUFFICES ASSUME i + 1 <= k PROVE multiplier[i + 1] \in Nat
      OBVIOUS
    <3>1. multiplier[i] \in Nat /\ multiplier[i + 1] = multiplier[i] * Base
      BY <1>4, <2>2
    <3>. QED
      BY <1>1, <3>1, NaturalProducts
  <2> HIDE DEF G
  <2>3. \A i \in Nat : i \in G
    BY <2>1, <2>2, NaturalInduction
  <2>. QED
    BY <2>3 DEF G
<1> DEFINE term(i) == (s[i] % Base) * multiplier[i - 1]
<1>6. ASSUME NEW v \in Nat, NEW i \in 1 .. k PROVE v + term(i) \in Nat
  <2>1. s[i] % Base \in Nat
    <3>1. s[i] \in Nat
      OBVIOUS
    <3>. QED
      BY <3>1, Digits
  <2>2. multiplier[i - 1] \in Nat
    BY <1>5
  <2>. QED
    BY <2>1, <2>2, NaturalProducts
<1>7. \E f : IsSum(f)
  <2> DEFINE step == [x \in Nat \X (1 .. k) |-> x[1] + term(x[2])]
  <2> HIDE DEF term
  <2>1. step \in [Nat \X (1 .. k) -> Nat]
    <3>1. \A x \in Nat \X (1 .. k) : x[1] + term(x[2]) \in Nat
      BY <1>6
    <3>. QED
      BY <3>1
  <2>2. \A v \in Nat, i \in 1 .. k : step[<<v, i>>] = v + term(i)
    OBVIOUS
  <2> HIDE DEF step
  <2>3. PICK f \in [0 .. k -> Nat] : IsChain(0, k, step, f)
    BY <2>1, ChainHasSolution
  <2>4. \A i \in 0 .. k : i # 0 => i \in 1 .. k /\ f[i - 1] \in Nat
    OBVIOUS
  <2>5. \A i \in 0 .. k : (IF i = 0 THEN 0 ELSE step[<<f[i - 1], i>>])
                          = (IF i = 0 THEN 0 ELSE f[i - 1] + term(i))
    BY <2>2, <2>4
  <2>6. f = [i \in 0 .. k |-> IF i = 0 THEN 0 ELSE step[<<f[i - 1], i>>]]
    BY <2>3 DEF IsChain
  <2>7. IsSum(f)
    BY <2>5, <2>6, Zenon DEF term
  <2>. QED
    BY <2>7
<1>8. IsSum(value)
  BY <1>7 DEF ValueOf, multiplier
<1> HIDE DEF value
<1>9. value[0] = 0 /\ \A i \in 1 .. k : value[i] = value[i - 1] + term(i)
  BY <1>8
<1>10. \A i \in 0 .. k : value[i] \in Nat
  <2> HIDE DEF term
  <2> DEFINE G == {i \in Nat : i <= k => value[i] \in Nat}
  <2>1. 0 \in G
    BY <1>9
  <2>2. ASSUME NEW i \in Nat, i \in G PROVE i + 1 \in G
    <3> SUFFICES ASSUME i + 1 <= k PROVE value[i + 1] \in Nat
      OBVIOUS
    <3>1. i + 1 \in 1 .. k /\ value[i] \in Nat /\ value[i + 1] = value[i] + term(i + 1)
      BY <1>9, <2>2
    <3>. QED
      BY <1>6, <3>1
  <2> HIDE DEF G
  <2>3. \A i \in Nat : i \in G
    BY <2>1, <2>2, NaturalInduction
  <2>. QED
    BY <2>3 DEF G
<1>. QED
  BY <1>4, <1>5, <1>9, <1>10 DEF Accumulates, multiplier, value

\* DecodeLength finds the first byte without the high bit.
LEMMA DecodeLengthEnds ==
  ASSUME NEW s \in Seq(Nat), HasLength(s)
  PROVE  \E k \in Ends(s) : \E m, v :
            /\ \A j \in Ends(s) : k <= j
            /\ Accumulates(s, k, m, v)
            /\ DecodeLength(s) = [value |-> v[k], bytes |-> k]
<1> DEFINE k == CHOOSE i \in Ends(s) : \A j \in Ends(s) : i <= j
<1>1. DecodeLength(s) = [value |-> ValueOf(s, k)[k], bytes |-> k]
  BY DEF DecodeLength, ValueOf, MultiplierOf
<1>2. DOMAIN s = 1 .. Len(s) /\ Len(s) \in Nat /\ \A i \in 1 .. Len(s) : s[i] \in Nat
  BY LenProperties, ElementOfSeq
<1>3. Ends(s) \subseteq 1 .. Len(s)
  BY <1>2 DEF Ends
<1>4. \E i \in Ends(s) : \A j \in Ends(s) : i <= j
  <2> DEFINE G == {m \in Nat : (\E i \in Ends(s) : i <= m) =>
                      \E i \in Ends(s) : \A j \in Ends(s) : i <= j}
  <2>1. 0 \in G
    BY <1>3
  <2>2. ASSUME NEW m \in Nat, m \in G PROVE m + 1 \in G
    <3>1. CASE \E i \in Ends(s) : i <= m
      BY <2>2, <3>1
    <3>2. CASE ~\E i \in Ends(s) : i <= m
      BY <1>3, <3>2
    <3>. QED
      BY <3>1, <3>2
  <2> HIDE DEF G
  <2>3. \A m \in Nat : m \in G
    BY <2>1, <2>2, NaturalInduction
  <2>4. Len(s) \in G
    BY <1>2, <2>3
  <2>5. \E i \in Ends(s) : i <= Len(s)
    BY <1>2, <1>3 DEF HasLength
  <2>. QED
    BY <2>4, <2>5 DEF G
<1>5. k \in Ends(s) /\ \A j \in Ends(s) : k <= j
  BY <1>4
<1> HIDE DEF k
<1>6. k \in Nat /\ \A i \in 1 .. k : s[i] \in Nat
  BY <1>2, <1>3, <1>5
<1>7. Accumulates(s, k, MultiplierOf(k), ValueOf(s, k))
  BY <1>6, ValueAccumulates
<1>. QED
  BY <1>1, <1>5, <1>7

\* s begins with the bytes of the length n, or with the first of them.
BeginsWith(s, n) == \A i \in 1 .. Len(s) : i <= Len(EncodeLength(n)) => s[i] = EncodeLength(n)[i]

\* The bytes of a length.
LEMMA EncodeLengthTyped ==
  ASSUME NEW n \in Nat
  PROVE  /\ EncodeLength(n) \in Seq(Nat)
         /\ Len(EncodeLength(n)) \in Nat \ {0}
         /\ \A i \in 1 .. Len(EncodeLength(n)) - 1 : EncodeLength(n)[i] >= Base
         /\ EncodeLength(n)[Len(EncodeLength(n))] < Base
         /\ n < Base => Len(EncodeLength(n)) = 1
<1>1. PICK k, left : /\ Shrinks(n, k, left)
                     /\ EncodeLength(n) = [i \in 1 .. k |->
                            (left[i - 1] % Base) + (IF left[i] # 0 THEN Base ELSE 0)]
  BY EncodeLengthEnds
<1>2. k \in Nat /\ k # 0 /\ Base \in Nat
  BY <1>1, BaseAssumption DEF Shrinks
<1>3. \A i \in 1 .. k : left[i - 1] % Base \in 0 .. Base - 1
  <2>1. \A i \in 1 .. k : left[i - 1] \in Nat
    BY <1>1, <1>2 DEF Shrinks
  <2>. QED
    BY <2>1, Digits
<1>4. \A i \in 1 .. k : EncodeLength(n)[i] = (left[i - 1] % Base) + (IF left[i] # 0 THEN Base ELSE 0)
  BY <1>1
<1>5. EncodeLength(n) \in [1 .. k -> Nat]
  <2>1. \A i \in 1 .. k : (left[i - 1] % Base) + (IF left[i] # 0 THEN Base ELSE 0) \in Nat
    BY <1>2, <1>3
  <2>. QED
    BY <1>1, <2>1
<1>6. EncodeLength(n) \in Seq(Nat) /\ Len(EncodeLength(n)) = k
  BY <1>2, <1>5
<1>7. \A i \in 1 .. k - 1 : EncodeLength(n)[i] >= Base
  <2>1. \A i \in 1 .. k - 1 : left[i] # 0 /\ i \in 1 .. k
    BY <1>1, <1>2 DEF Shrinks
  <2>. QED
    BY <1>2, <1>3, <1>4, <2>1
<1>8. EncodeLength(n)[k] < Base
  <2>1. left[k] = 0 /\ k \in 1 .. k
    BY <1>1, <1>2 DEF Shrinks
  <2>. QED
    BY <1>2, <1>3, <1>4, <2>1
<1>9. ASSUME n < Base PROVE k = 1
  <2>1. CASE k = 1
    BY <2>1
  <2>2. CASE k # 1
    <3>1. 1 \in 1 .. k - 1 /\ 1 \in 1 .. k
      BY <1>2, <2>2
    <3>2. left[1] = n \div Base /\ left[1] # 0
      BY <1>1, <3>1 DEF Shrinks
    <3>3. n \div Base = 0
      BY <1>9, BaseAssumption
    <3>. QED
      BY <3>2, <3>3
  <2>. QED
    BY <2>1, <2>2
<1>. QED
  BY <1>2, <1>6, <1>7, <1>8, <1>9

\* decode_remaining_length returns the length that encode_remaining_length was given,
\* whatever follows its bytes, and an error as long as they are not all there.
THEOREM LengthReadBack ==
  ASSUME NEW n \in Nat, Len(EncodeLength(n)) <= MaxLengthBytes,
         NEW s \in Seq(Nat), BeginsWith(s, n)
  PROVE  /\ HasLength(s) <=> Len(s) >= Len(EncodeLength(n))
         /\ HasLength(s) => DecodeLength(s) = [value |-> n, bytes |-> Len(EncodeLength(n))]
<1> DEFINE e == EncodeLength(n)
           k == Len(e)
<1>1. /\ e \in Seq(Nat) /\ k \in Nat \ {0}
      /\ \A i \in 1 .. k - 1 : e[i] >= Base
      /\ e[k] < Base
  BY EncodeLengthTyped
<1>2. DOMAIN s = 1 .. Len(s) /\ Len(s) \in Nat /\ Base \in Nat
  BY LenProperties, BaseAssumption
<1>3. \A i \in 1 .. Len(s) : i <= k => s[i] = e[i]
  BY DEF BeginsWith
<1>4. k <= MaxLengthBytes
  OBVIOUS
<1>5. PICK K, left : /\ Shrinks(n, K, left)
                     /\ e = [i \in 1 .. K |->
                            (left[i - 1] % Base) + (IF left[i] # 0 THEN Base ELSE 0)]
  BY EncodeLengthEnds
<1>6. k = K /\ \A i \in 1 .. k : e[i] = (left[i - 1] % Base) + (IF left[i] # 0 THEN Base ELSE 0)
  <2>1. K \in Nat /\ DOMAIN e = 1 .. K
    BY <1>5 DEF Shrinks
  <2>2. DOMAIN e = 1 .. k
    BY <1>1, LenProperties
  <2> HIDE DEF k, e
  <2>3. k = K
    BY <1>1, <2>1, <2>2
  <2>. QED
    BY <1>5, <2>3
<1> HIDE DEF k, e
<1>7. \A i \in Ends(s) : i \in 1 .. Len(s) /\ i >= k
  <2> TAKE i \in Ends(s)
  <2>1. i \in 1 .. Len(s) /\ s[i] < Base
    BY <1>2 DEF Ends
  <2>2. i < k => i \in 1 .. k - 1 /\ s[i] = e[i]
    BY <1>1, <1>2, <1>3, <2>1
  <2>3. i < k => e[i] >= Base /\ e[i] < Base
    BY <1>1, <2>1, <2>2
  <2>4. e[i] \in Nat \/ ~(i < k)
    BY <1>1, <2>2, ElementOfSeq DEF k
  <2>. QED
    BY <1>1, <1>2, <2>1, <2>3, <2>4
<1>8. Len(s) >= k => k \in Ends(s)
  BY <1>1, <1>2, <1>3, <1>4 DEF Ends
<1>9. HasLength(s) <=> Len(s) >= k
  BY <1>1, <1>2, <1>7, <1>8 DEF HasLength
<1>10. ASSUME HasLength(s) PROVE DecodeLength(s) = [value |-> n, bytes |-> k]
  <2>1. PICK h \in Ends(s) : \E m, v :
            /\ \A j \in Ends(s) : h <= j
            /\ Accumulates(s, h, m, v)
            /\ DecodeLength(s) = [value |-> v[h], bytes |-> h]
    BY <1>10, DecodeLengthEnds
  <2>0. PICK m, v :
            /\ \A j \in Ends(s) : h <= j
            /\ Accumulates(s, h, m, v)
            /\ DecodeLength(s) = [value |-> v[h], bytes |-> h]
    BY <2>1
  <2>2. h = k
    BY <1>1, <1>2, <1>7, <1>8, <1>9, <1>10, <2>0
  <2>3. \A i \in 1 .. k : s[i] % Base = left[i - 1] % Base
    <3> TAKE i \in 1 .. k
    <3>1. i \in 1 .. Len(s) /\ i <= k
      BY <1>1, <1>2, <1>9, <1>10
    <3>2. s[i] = (left[i - 1] % Base) + (IF left[i] # 0 THEN Base ELSE 0)
      BY <1>3, <1>6, <3>1
    <3>3. left[i - 1] \in Nat
      BY <1>1, <1>5, <1>6 DEF Shrinks
    <3>4. left[i - 1] % Base \in 0 .. Base - 1
      BY <3>3, Digits
    <3>5. CASE left[i] # 0
      <4>1. s[i] % Base = ((left[i - 1] % Base) + Base) % Base
        BY <3>2, <3>5
      <4>. QED
        BY <3>3, <4>1, Digits
    <3>6. CASE left[i] = 0
      <4>1. s[i] % Base = (left[i - 1] % Base) % Base
        BY <1>2, <3>2, <3>4, <3>6
      <4>. QED
        BY <3>3, <4>1, Digits
    <3>. QED
      BY <3>5, <3>6
  <2>4. \A i \in Nat : i <= k => n = v[i] + m[i] * left[i]
    <3> DEFINE G == {i \in Nat : i <= k => n = v[i] + m[i] * left[i]}
    <3>1. 0 \in G
      BY <1>5, <2>0 DEF Accumulates, Shrinks
    <3>2. ASSUME NEW i \in Nat, i \in G PROVE i + 1 \in G
      <4> SUFFICES ASSUME i + 1 <= k PROVE n = v[i + 1] + m[i + 1] * left[i + 1]
        OBVIOUS
      <4> DEFINE a == v[i]
                 b == m[i]
                 l == left[i]
                 d == left[i] % Base
                 r == left[i] \div Base
      <4>1. n = a + b * l
        BY <3>2, <1>1
      <4>2. i \in 0 .. k /\ i + 1 \in 1 .. k /\ (i + 1) - 1 = i
        BY <1>1
      <4>3. a \in Nat /\ b \in Nat /\ l \in Nat
        BY <1>5, <1>6, <2>0, <2>2, <4>2 DEF Accumulates, Shrinks
      <4>4. left[i + 1] = r
        BY <1>5, <1>6, <4>2 DEF Shrinks
      <4>5. m[i + 1] = b * Base /\ v[i + 1] = a + d * b
        <5>1. s[i + 1] % Base = left[i] % Base
          BY <2>3, <4>2
        <5>2. m[i + 1] = m[i] * Base /\ v[i + 1] = v[i] + (s[i + 1] % Base) * m[i]
          BY <2>0, <2>2, <4>2 DEF Accumulates
        <5>. QED
          BY <5>1, <5>2
      <4>6. d \in Nat /\ r \in Nat /\ l = d + Base * r
        <5>1. left[i] \in Nat
          BY <4>3
        <5>2. d \in 0 .. Base - 1 /\ r \in Nat
          BY <5>1, Digits
        <5>3. l = d + Base * r
          BY <5>1, Digits
        <5>4. Base \in Nat
          BY BaseAssumption
        <5> HIDE DEF d
        <5>. QED
          BY <5>2, <5>3, <5>4
      <4> HIDE DEF a, b, l, d, r
      <4>7. Base \in Nat
        BY BaseAssumption
      <4>8. b * l = d * b + (b * Base) * r
        BY <4>3, <4>6, <4>7
      <4>9. d * b \in Nat /\ (b * Base) * r \in Nat
        BY <4>3, <4>6, <4>7, NaturalProducts
      <4> DEFINE x == d * b
                 y == (b * Base) * r
      <4>10. n = a + (x + y)
        BY <4>1, <4>8
      <4>11. v[i + 1] + m[i + 1] * left[i + 1] = (a + x) + y
        BY <4>4, <4>5
      <4> HIDE DEF x, y
      <4>12. x \in Nat /\ y \in Nat
        BY <4>9 DEF x, y
      <4>. QED
        BY <4>3, <4>10, <4>11, <4>12
    <3> HIDE DEF G
    <3>3. \A i \in Nat : i \in G
      BY <3>1, <3>2, NaturalInduction
    <3>. QED
      BY <3>3 DEF G
  <2>5. n = v[k] + m[k] * left[k] /\ v[k] \in Nat /\ m[k] \in Nat /\ left[k] = 0
    BY <1>1, <1>5, <1>6, <2>0, <2>2, <2>4 DEF Accumulates, Shrinks
  <2>. QED
    BY <2>0, <2>2, <2>5
<1>. QED
  BY <1>9, <1>10 DEF k, e

-----------------------------------------------------------------------------
(* Streams of bytes *)

\* FlattenSeq puts one sequence behind the other.
LEMMA FlattenIsChain ==
  ASSUME NEW S, NEW ss \in Seq(Seq(S))
  PROVE  \E f \in [0 .. Len(ss) -> Seq(S)] :
            /\ f[0] = <<>>
            /\ \A i \in 1 .. Len(ss) : f[i] = f[i - 1] \o ss[i]
            /\ FlattenSeq(ss) = f[Len(ss)]
<1> DEFINE n == Len(ss)
           IsFlat(f) == f = [i \in 1 .. n |-> IF i = 1 THEN ss[i] ELSE f[i - 1] \o ss[i]]
           flat == CHOOSE f : IsFlat(f)
           step == [x \in Seq(S) \X (1 .. n) |-> x[1] \o ss[x[2]]]
<1>1. n \in Nat /\ \A i \in 1 .. n : ss[i] \in Seq(S)
  BY LenProperties, ElementOfSeq
<1>2. FlattenSeq(ss) = IF n = 0 THEN ss ELSE flat[n]
  BY DEF FlattenSeq
<1>3. <<>> \in Seq(S)
  OBVIOUS
<1> HIDE DEF n
<1>4. step \in [Seq(S) \X (1 .. n) -> Seq(S)]
  <2>1. \A x \in Seq(S) \X (1 .. n) : x[1] \o ss[x[2]] \in Seq(S)
    BY <1>1, ConcatProperties
  <2>. QED
    BY <2>1
<1>5. \A v \in Seq(S), i \in 1 .. n : step[<<v, i>>] = v \o ss[i]
  OBVIOUS
<1> HIDE DEF step
<1>6. PICK f \in [0 .. n -> Seq(S)] : IsChain(<<>>, n, step, f)
  BY <1>1, <1>3, <1>4, ChainHasSolution
<1>7. f[0] = <<>> /\ \A i \in 1 .. n : f[i] = f[i - 1] \o ss[i]
  <2>1. \A i \in 0 .. n : f[i] = IF i = 0 THEN <<>> ELSE step[<<f[i - 1], i>>]
    BY <1>6 DEF IsChain
  <2>2. \A i \in 1 .. n : i \in 0 .. n /\ i # 0 /\ f[i - 1] \in Seq(S)
    BY <1>1
  <2>3. 0 \in 0 .. n
    BY <1>1
  <2>. QED
    BY <1>5, <2>1, <2>2, <2>3
<1>8. IsFlat([i \in 1 .. n |-> f[i]])
  <2> DEFINE g == [i \in 1 .. n |-> f[i]]
  <2>1. ASSUME NEW i \in 1 .. n PROVE f[i] = IF i = 1 THEN ss[i] ELSE g[i - 1] \o ss[i]
    <3>1. CASE i = 1
      <4>1. i - 1 = 0
        BY <3>1
      <4>2. f[i] = f[i - 1] \o ss[i]
        BY <1>7
      <4>3. f[i] = <<>> \o ss[i]
        BY <1>7, <4>1, <4>2, Zenon
      <4>. QED
        BY <1>1, <3>1, <4>3, ConcatEmptySeq
    <3>2. CASE i # 1
      <4>1. i - 1 \in 1 .. n
        BY <1>1, <3>2
      <4>. QED
        BY <1>7, <3>2, <4>1
    <3>. QED
      BY <3>1, <3>2
  <2>2. g = [i \in 1 .. n |-> IF i = 1 THEN ss[i] ELSE g[i - 1] \o ss[i]]
    BY <2>1
  <2>. QED
    BY <2>2
<1>9. IsFlat(flat)
  BY <1>8
<1> HIDE DEF flat
<1>10. \A i \in Nat : i \in 1 .. n => flat[i] = f[i]
  <2> DEFINE G == {i \in Nat : i \in 1 .. n => flat[i] = f[i]}
  <2>1. 0 \in G
    OBVIOUS
  <2>2. ASSUME NEW i \in Nat, i \in G PROVE i + 1 \in G
    <3> SUFFICES ASSUME i + 1 \in 1 .. n PROVE flat[i + 1] = f[i + 1]
      OBVIOUS
    <3>1. flat[i + 1] = IF i + 1 = 1 THEN ss[i + 1] ELSE flat[(i + 1) - 1] \o ss[i + 1]
      BY <1>9
    <3>2. f[i + 1] = f[(i + 1) - 1] \o ss[i + 1]
      BY <1>7
    <3>3. CASE i = 0
      <4>1. (i + 1) - 1 = 0
        BY <3>3
      <4>2. f[i + 1] = <<>> \o ss[i + 1]
        BY <1>7, <3>2, <4>1
      <4>. QED
        BY <1>1, <3>1, <3>3, <4>2, ConcatEmptySeq
    <3>4. CASE i # 0
      <4>1. flat[i] = f[i] /\ (i + 1) - 1 = i /\ i + 1 # 1
        BY <1>1, <2>2, <3>4
      <4>. QED
        BY <3>1, <3>2, <4>1
    <3>. QED
      BY <3>3, <3>4
  <2> HIDE DEF G
  <2>3. \A i \in Nat : i \in G
    BY <2>1, <2>2, NaturalInduction
  <2>. QED
    BY <2>3 DEF G
<1>11. FlattenSeq(ss) = f[n]
  <2>1. CASE n = 0
    <3>1. ss = <<>>
      BY <2>1 DEF n
    <3>. QED
      BY <1>2, <1>7, <2>1, <3>1
  <2>2. CASE n # 0
    BY <1>1, <1>2, <1>10, <2>2
  <2>. QED
    BY <2>1, <2>2
<1>. QED
  BY <1>7, <1>11 DEF n

\* What it makes of no sequence, of one more behind others, and of one before others.
LEMMA FlattenLaws ==
  ASSUME NEW S
  PROVE  /\ FlattenSeq(<<>>) = <<>>
         /\ \A ss \in Seq(Seq(S)) : FlattenSeq(ss) \in Seq(S)
         /\ \A ss \in Seq(Seq(S)), x \in Seq(S) : FlattenSeq(Append(ss, x)) = FlattenSeq(ss) \o x
         /\ \A ss \in Seq(Seq(S)) : ss # <<>> => FlattenSeq(ss) = ss[1] \o FlattenSeq(Tail(ss))
<1>1. FlattenSeq(<<>>) = <<>>
  BY DEF FlattenSeq
<1>2. ASSUME NEW ss \in Seq(Seq(S)) PROVE FlattenSeq(ss) \in Seq(S)
  <2>1. PICK f \in [0 .. Len(ss) -> Seq(S)] : FlattenSeq(ss) = f[Len(ss)]
    BY FlattenIsChain
  <2>2. Len(ss) \in 0 .. Len(ss)
    BY LenProperties
  <2>. QED
    BY <2>1, <2>2
<1>3. ASSUME NEW ss \in Seq(Seq(S)), NEW x \in Seq(S)
      PROVE  FlattenSeq(Append(ss, x)) = FlattenSeq(ss) \o x
  <2> DEFINE tt == Append(ss, x)
             n == Len(ss)
  <2>1. n \in Nat /\ tt \in Seq(Seq(S)) /\ Len(tt) = n + 1
    BY LenProperties, AppendProperties
  <2>2. tt[n + 1] = x /\ \A i \in 1 .. n : tt[i] = ss[i]
    BY AppendProperties
  <2> HIDE DEF tt
  <2>3. PICK f \in [0 .. n -> Seq(S)] :
            /\ f[0] = <<>>
            /\ \A i \in 1 .. n : f[i] = f[i - 1] \o ss[i]
            /\ FlattenSeq(ss) = f[n]
    BY FlattenIsChain
  <2>4. PICK g \in [0 .. Len(tt) -> Seq(S)] :
            /\ g[0] = <<>>
            /\ \A i \in 1 .. Len(tt) : g[i] = g[i - 1] \o tt[i]
            /\ FlattenSeq(tt) = g[Len(tt)]
    BY <2>1, FlattenIsChain
  <2> HIDE DEF n
  <2>5. \A i \in Nat : i <= n => g[i] = f[i]
    <3> DEFINE G == {i \in Nat : i <= n => g[i] = f[i]}
    <3>1. 0 \in G
      BY <2>3, <2>4
    <3>2. ASSUME NEW i \in Nat, i \in G PROVE i + 1 \in G
      <4> SUFFICES ASSUME i + 1 <= n PROVE g[i + 1] = f[i + 1]
        OBVIOUS
      <4>1. i + 1 \in 1 .. n /\ i + 1 \in 1 .. Len(tt) /\ (i + 1) - 1 = i /\ g[i] = f[i]
        BY <2>1, <3>2
      <4>2. g[i + 1] = g[i] \o tt[i + 1] /\ f[i + 1] = f[i] \o ss[i + 1]
        BY <2>3, <2>4, <4>1
      <4>. QED
        BY <2>2, <4>1, <4>2
    <3> HIDE DEF G
    <3>3. \A i \in Nat : i \in G
      BY <3>1, <3>2, NaturalInduction
    <3>. QED
      BY <3>3 DEF G
  <2>6. g[n + 1] = g[n] \o x
    <3>1. n + 1 \in 1 .. Len(tt) /\ (n + 1) - 1 = n
      BY <2>1
    <3>2. g[n + 1] = g[(n + 1) - 1] \o tt[n + 1]
      BY <2>4, <3>1
    <3>. QED
      BY <2>2, <3>1, <3>2
  <2>7. g[n] = f[n]
    BY <2>1, <2>5
  <2>8. FlattenSeq(tt) = g[n + 1]
    BY <2>1, <2>4
  <2>9. FlattenSeq(tt) = FlattenSeq(ss) \o x
    BY <2>3, <2>6, <2>7, <2>8
  <2>. QED
    BY <2>9 DEF tt
<1>4. ASSUME NEW ss \in Seq(Seq(S)), ss # <<>>
      PROVE  FlattenSeq(ss) = ss[1] \o FlattenSeq(Tail(ss))
  <2> DEFINE tt == Tail(ss)
             n == Len(tt)
  <2>1. tt \in Seq(Seq(S)) /\ n = Len(ss) - 1 /\ \A i \in 1 .. n : tt[i] = ss[i + 1]
    BY <1>4, HeadTailProperties
  <2>2. n \in Nat /\ Len(ss) = n + 1 /\ \A i \in 1 .. n + 1 : ss[i] \in Seq(S)
    BY <2>1, LenProperties, ElementOfSeq
  <2>3. \A i \in 1 .. n : tt[i] \in Seq(S)
    BY <2>1, ElementOfSeq
  <2> HIDE DEF tt
  <2>4. PICK f \in [0 .. Len(ss) -> Seq(S)] :
            /\ f[0] = <<>>
            /\ \A i \in 1 .. Len(ss) : f[i] = f[i - 1] \o ss[i]
            /\ FlattenSeq(ss) = f[Len(ss)]
    BY FlattenIsChain
  <2>5. PICK g \in [0 .. n -> Seq(S)] :
            /\ g[0] = <<>>
            /\ \A i \in 1 .. n : g[i] = g[i - 1] \o tt[i]
            /\ FlattenSeq(tt) = g[n]
    BY <2>1, FlattenIsChain
  <2> HIDE DEF n
  <2>6. \A i \in Nat : i <= n => f[i + 1] = ss[1] \o g[i]
    <3> DEFINE G == {i \in Nat : i <= n => f[i + 1] = ss[1] \o g[i]}
    <3>1. 0 \in G
      <4>1. 1 \in 1 .. Len(ss) /\ 1 - 1 = 0 /\ ss[1] \in Seq(S) /\ 0 + 1 = 1 /\ 0 \in Nat
        BY <2>2
      <4>2. f[1] = <<>> \o ss[1]
        BY <2>4, <4>1
      <4>3. f[1] = ss[1] \o g[0]
        BY <2>5, <4>1, <4>2, ConcatEmptySeq
      <4>4. f[0 + 1] = ss[1] \o g[0]
        BY <4>1, <4>3, Zenon
      <4>. QED
        BY <4>1, <4>4, Zenon
    <3>2. ASSUME NEW i \in Nat, i \in G PROVE i + 1 \in G
      <4>. i + 1 \in Nat
        OBVIOUS
      <4> SUFFICES ASSUME i + 1 <= n PROVE f[(i + 1) + 1] = ss[1] \o g[i + 1]
        BY Zenon
      <4>1. /\ (i + 1) + 1 \in 1 .. Len(ss) /\ ((i + 1) + 1) - 1 = i + 1
            /\ i + 1 \in 1 .. n /\ (i + 1) - 1 = i
            /\ f[i + 1] = ss[1] \o g[i]
        <5>1. i <= n => f[i + 1] = ss[1] \o g[i]
          BY <3>2, Zenon
        <5>2. /\ (i + 1) + 1 \in 1 .. Len(ss) /\ ((i + 1) + 1) - 1 = i + 1
              /\ i + 1 \in 1 .. n /\ (i + 1) - 1 = i /\ i <= n
          BY <2>2
        <5>. QED
          BY <5>1, <5>2, Zenon
      <4>2. f[(i + 1) + 1] = f[i + 1] \o ss[(i + 1) + 1] /\ g[i + 1] = g[i] \o tt[i + 1]
        BY <2>4, <2>5, <4>1
      <4>3. tt[i + 1] = ss[(i + 1) + 1] /\ tt[i + 1] \in Seq(S)
        BY <2>1, <2>3, <4>1
      <4>4. ss[1] \in Seq(S) /\ g[i] \in Seq(S)
        BY <2>2, <2>5, <4>1
      <4>5. (ss[1] \o g[i]) \o tt[i + 1] = ss[1] \o (g[i] \o tt[i + 1])
        <5>1. \A u, v, z \in Seq(S) : (u \o v) \o z = u \o (v \o z)
          BY SMTT(30)
        <5>. QED
          BY <4>3, <4>4, <5>1, Zenon
      <4>. QED
        BY <4>1, <4>2, <4>3, <4>5
    <3> HIDE DEF G
    <3>3. \A i \in Nat : i \in G
      BY <3>1, <3>2, NaturalInduction
    <3>. QED
      BY <3>3 DEF G
  <2>7. f[n + 1] = ss[1] \o g[n]
    BY <2>2, <2>6
  <2>8. FlattenSeq(ss) = ss[1] \o FlattenSeq(tt)
    BY <2>2, <2>4, <2>5, <2>7
  <2>. QED
    BY <2>8 DEF tt
<1>. QED
  BY <1>1, <1>2, <1>3, <1>4

\* Bytes that move from the front of w to the end of b.
LEMMA MovedBytes ==
  ASSUME NEW b \in Seq(Nat), NEW w \in Seq(Nat), NEW n \in 1 .. Len(w)
  PROVE  /\ b \o SubSeq(w, 1, n) \in Seq(Nat) /\ SubSeq(w, n + 1, Len(w)) \in Seq(Nat)
         /\ (b \o SubSeq(w, 1, n)) \o SubSeq(w, n + 1, Len(w)) = b \o w
<1> DEFINE S == Nat
           x == SubSeq(w, 1, n)
           y == SubSeq(w, n + 1, Len(w))
<1>0. b \in Seq(S) /\ w \in Seq(S)
  OBVIOUS
<1> HIDE DEF S
<1>1. Len(w) \in Nat /\ n \in Int /\ \A i \in 1 .. Len(w) : w[i] \in S
  BY <1>0, LenProperties, ElementOfSeq
<1>2. x \in Seq(S) /\ Len(x) = n /\ \A i \in 1 .. n : x[i] = w[i]
  <2>1. \A i \in 1 .. n : w[i] \in S
    BY <1>1
  <2>2. /\ x \in Seq(S)
        /\ Len(x) = IF 1 <= n THEN n - 1 + 1 ELSE 0
        /\ \A i \in 1 .. n - 1 + 1 : x[i] = w[1 + i - 1]
    BY <1>0, <1>1, <2>1, SubSeqProperties
  <2>. QED
    BY <1>1, <2>2
<1>3. y \in Seq(S) /\ Len(y) = Len(w) - n /\ \A i \in 1 .. Len(w) - n : y[i] = w[n + i]
  <2>1. \A i \in n + 1 .. Len(w) : w[i] \in S
    BY <1>1
  <2>2. /\ y \in Seq(S)
        /\ Len(y) = IF n + 1 <= Len(w) THEN Len(w) - (n + 1) + 1 ELSE 0
        /\ \A i \in 1 .. Len(w) - (n + 1) + 1 : y[i] = w[n + 1 + i - 1]
    BY <1>0, <1>1, <2>1, SubSeqProperties
  <2>. QED
    BY <1>1, <2>2
<1> HIDE DEF x, y
<1>4. x \o y = w
  <2>1. /\ x \o y \in Seq(S) /\ Len(x \o y) = Len(x) + Len(y)
        /\ \A i \in 1 .. Len(x) + Len(y) : (x \o y)[i] = IF i <= Len(x) THEN x[i] ELSE y[i - Len(x)]
    BY <1>2, <1>3, ConcatProperties
  <2>2. Len(x \o y) = Len(w)
    BY <1>0, <1>1, <1>2, <1>3, <2>1
  <2>3. ASSUME NEW i \in 1 .. Len(w) PROVE (x \o y)[i] = w[i]
    <3>1. i \in 1 .. Len(x) + Len(y)
      BY <1>1, <1>2, <1>3
    <3>2. CASE i <= n
      <4>1. i \in 1 .. n /\ i <= Len(x)
        BY <1>1, <1>2, <3>2
      <4>2. (x \o y)[i] = x[i]
        BY <2>1, <3>1, <4>1
      <4>. QED
        BY <1>2, <4>1, <4>2
    <3>3. CASE ~(i <= n)
      <4>1. i - n \in 1 .. Len(w) - n /\ ~(i <= Len(x)) /\ i - Len(x) = i - n /\ n + (i - n) = i
        BY <1>1, <1>2, <3>3
      <4>2. (x \o y)[i] = y[i - n]
        BY <2>1, <3>1, <4>1
      <4>3. y[i - n] = w[n + (i - n)]
        BY <1>3, <4>1
      <4>. QED
        BY <4>1, <4>2, <4>3
    <3>. QED
      BY <3>2, <3>3
  <2>. QED
    BY <1>0, <2>1, <2>2, <2>3, SeqEqual
<1>5. b \o x \in Seq(S)
  BY <1>0, <1>2, ConcatProperties
<1>6. (b \o x) \o y = b \o w
  <2>1. (b \o x) \o y = b \o (x \o y)
    <3>1. \A u, v, z \in Seq(S) : (u \o v) \o z = u \o (v \o z)
      BY SMTT(30)
    <3>2. x \in Seq(S) /\ y \in Seq(S)
      BY <1>2, <1>3
    <3>. QED
      BY <1>0, <3>1, <3>2, Zenon
  <2>. QED
    BY <1>4, <2>1
<1>. QED
  BY <1>3, <1>5, <1>6 DEF x, y, S

\* What is left in b when a frame f is taken out of it.
LEMMA BehindFrame ==
  ASSUME NEW b \in Seq(Nat), NEW w \in Seq(Nat), NEW f \in Seq(Nat), NEW r \in Seq(Nat),
         b \o w = f \o r, Len(f) <= Len(b)
  PROVE  /\ SubSeq(b, Len(f) + 1, Len(b)) \in Seq(Nat)
         /\ SubSeq(b, Len(f) + 1, Len(b)) \o w = r
<1> DEFINE S == Nat
           n == Len(f)
           y == SubSeq(b, n + 1, Len(b))
<1>0. b \in Seq(S) /\ w \in Seq(S) /\ f \in Seq(S) /\ r \in Seq(S)
  OBVIOUS
<1> HIDE DEF S
<1>1. Len(b) \in Nat /\ Len(w) \in Nat /\ n \in Nat /\ Len(r) \in Nat
      /\ \A i \in 1 .. Len(b) : b[i] \in S
  BY <1>0, LenProperties, ElementOfSeq
<1>2. n <= Len(b)
  OBVIOUS
<1>3. /\ Len(b \o w) = Len(b) + Len(w)
      /\ \A i \in 1 .. Len(b) + Len(w) : (b \o w)[i] = IF i <= Len(b) THEN b[i] ELSE w[i - Len(b)]
  BY <1>0, ConcatProperties
<1>4. /\ Len(f \o r) = n + Len(r)
      /\ \A i \in 1 .. n + Len(r) : (f \o r)[i] = IF i <= n THEN f[i] ELSE r[i - n]
  BY <1>0, ConcatProperties
<1>5. b \o w = f \o r
  OBVIOUS
<1> HIDE DEF n
<1>6. y \in Seq(S) /\ Len(y) = Len(b) - n /\ \A i \in 1 .. Len(b) - n : y[i] = b[n + i]
  <2>1. \A i \in n + 1 .. Len(b) : b[i] \in S
    BY <1>1
  <2>2. /\ y \in Seq(S)
        /\ Len(y) = IF n + 1 <= Len(b) THEN Len(b) - (n + 1) + 1 ELSE 0
        /\ \A i \in 1 .. Len(b) - (n + 1) + 1 : y[i] = b[n + 1 + i - 1]
    BY <1>1, <2>1, <1>0, SubSeqProperties
  <2>. QED
    BY <1>1, <1>2, <2>2
<1> HIDE DEF y
<1>7. /\ y \o w \in Seq(S) /\ Len(y \o w) = Len(y) + Len(w)
      /\ \A i \in 1 .. Len(y) + Len(w) : (y \o w)[i] = IF i <= Len(y) THEN y[i] ELSE w[i - Len(y)]
  BY <1>0, <1>6, ConcatProperties
<1>8. Len(y \o w) = Len(r)
  BY <1>1, <1>3, <1>4, <1>5, <1>6, <1>7
<1>9. ASSUME NEW i \in 1 .. Len(r) PROVE (y \o w)[i] = r[i]
  <2>1. n + i \in 1 .. n + Len(r) /\ ~(n + i <= n) /\ (n + i) - n = i
        /\ n + i \in 1 .. Len(b) + Len(w)
    BY <1>1, <1>3, <1>4, <1>5
  <2>2. r[i] = (b \o w)[n + i]
    BY <1>4, <1>5, <2>1
  <2>3. CASE i <= Len(y)
    <3>1. /\ i \in 1 .. Len(b) - n /\ n + i \in 1 .. Len(b) + Len(w) /\ n + i <= Len(b)
          /\ i \in 1 .. Len(y) + Len(w)
      BY <1>1, <1>2, <1>6, <2>3
    <3>2. (y \o w)[i] = y[i] /\ y[i] = b[n + i]
      BY <1>6, <1>7, <2>3, <3>1
    <3>3. (b \o w)[n + i] = b[n + i]
      BY <1>3, <3>1
    <3>. QED
      BY <2>2, <3>2, <3>3
  <2>4. CASE ~(i <= Len(y))
    <3>1. (y \o w)[i] = w[i - Len(y)]
      BY <1>7, <1>8, <2>4
    <3>2. ~(n + i <= Len(b)) /\ (n + i) - Len(b) = i - Len(y)
      BY <1>1, <1>6, <2>4
    <3>3. (b \o w)[n + i] = w[(n + i) - Len(b)]
      BY <1>3, <2>1, <3>2
    <3>. QED
      BY <2>2, <3>1, <3>2, <3>3
  <2>. QED
    BY <2>3, <2>4
<1>10. y \o w = r
  BY <1>7, <1>8, <1>9, <1>0, SeqEqual
<1>. QED
  BY <1>6, <1>10 DEF y, n, S

-----------------------------------------------------------------------------
(* What is buffered and on its way *)

StreamTypes ==
    /\ sent \in Seq(Packet) /\ decoded \in Seq(Packet)
    /\ buf \in Seq(Nat) /\ stream \in Seq(Nat)

\* The frames of the packets that have not been decoded.
RestFrames == [i \in 1 .. Len(sent) - Len(decoded) |-> FrameOf(sent[Len(decoded) + i])]

\* A frame is a kind, a length and a body.
LEMMA FrameTyped ==
  ASSUME NEW p \in Packet
  PROVE  /\ p.kind \in Kind /\ p.kind \in Nat /\ p.len \in Nat
         /\ Len(EncodeLength(p.len)) \in Nat \ {0} /\ Len(EncodeLength(p.len)) <= MaxLengthBytes
         /\ FrameOf(p) \in Seq(Nat)
         /\ Len(FrameOf(p)) = 1 + Len(EncodeLength(p.len)) + p.len
         /\ FrameOf(p)[1] = p.kind
         /\ \A i \in 1 .. Len(EncodeLength(p.len)) : FrameOf(p)[i + 1] = EncodeLength(p.len)[i]
<1> DEFINE e == EncodeLength(p.len)
           h == <<p.kind>>
           z == [i \in 1 .. p.len |-> 0]
<1>1. p.kind \in Kind /\ p.len \in Nat /\ Len(e) <= MaxLengthBytes
  BY LengthAssumption DEF Packet
<1>2. p.kind \in Nat
  <2>1. p.kind \in 1 .. 2 * Base - 1
    BY <1>1, KindAssumption
  <2>2. 2 * Base - 1 \in Nat
    BY BaseAssumption
  <2>. QED
    BY <2>1, <2>2
<1>3. e \in Seq(Nat) /\ Len(e) \in Nat \ {0}
  BY <1>1, EncodeLengthTyped
<1>4. h \in Seq(Nat) /\ Len(h) = 1 /\ h[1] = p.kind
  BY <1>2
<1>5. z \in Seq(Nat) /\ Len(z) = p.len
  <2>1. z \in [1 .. p.len -> Nat]
    OBVIOUS
  <2>. QED
    BY <1>1, <2>1
<1>6. FrameOf(p) = (h \o e) \o z
  BY DEF FrameOf
<1> HIDE DEF e, h, z
<1>7. /\ h \o e \in Seq(Nat) /\ Len(h \o e) = 1 + Len(e)
      /\ \A i \in 1 .. 1 + Len(e) : (h \o e)[i] = IF i <= 1 THEN h[i] ELSE e[i - 1]
  <2>1. /\ h \o e \in Seq(Nat) /\ Len(h \o e) = Len(h) + Len(e)
        /\ \A i \in 1 .. Len(h) + Len(e) : (h \o e)[i] = IF i <= Len(h) THEN h[i] ELSE e[i - Len(h)]
    BY <1>3, <1>4, ConcatProperties
  <2>. QED
    BY <1>4, <2>1
<1>8. /\ FrameOf(p) \in Seq(Nat) /\ Len(FrameOf(p)) = 1 + Len(e) + p.len
      /\ \A i \in 1 .. 1 + Len(e) + p.len :
            FrameOf(p)[i] = IF i <= 1 + Len(e) THEN (h \o e)[i] ELSE z[i - (1 + Len(e))]
  <2> DEFINE u == h \o e
  <2>1. u \in Seq(Nat) /\ Len(u) = 1 + Len(e)
    BY <1>7
  <2> HIDE DEF u
  <2>2. /\ u \o z \in Seq(Nat) /\ Len(u \o z) = Len(u) + Len(z)
        /\ \A i \in 1 .. Len(u) + Len(z) : (u \o z)[i] = IF i <= Len(u) THEN u[i] ELSE z[i - Len(u)]
    <3>1. z \in Seq(Nat)
      BY <1>5
    <3>2. u \in Seq(Nat)
      BY <2>1
    <3>. QED
      BY <3>1, <3>2, ConcatProperties, Zenon
  <2>3. FrameOf(p) = u \o z
    BY <1>6 DEF u
  <2>4. /\ FrameOf(p) \in Seq(Nat) /\ Len(FrameOf(p)) = 1 + Len(e) + p.len
        /\ \A i \in 1 .. 1 + Len(e) + p.len :
              FrameOf(p)[i] = IF i <= 1 + Len(e) THEN u[i] ELSE z[i - (1 + Len(e))]
    BY <1>5, <2>1, <2>2, <2>3
  <2>. QED
    BY <2>4 DEF u
<1>9. FrameOf(p)[1] = p.kind
  <2>1. 1 \in 1 .. 1 + Len(e) /\ 1 \in 1 .. 1 + Len(e) + p.len /\ 1 <= 1
    BY <1>1, <1>3
  <2>2. (h \o e)[1] = h[1]
    BY <1>7, <2>1
  <2>3. FrameOf(p)[1] = (h \o e)[1]
    BY <1>1, <1>3, <1>8, <2>1
  <2>. QED
    BY <1>4, <2>2, <2>3
<1>10. ASSUME NEW i \in 1 .. Len(e) PROVE FrameOf(p)[i + 1] = e[i]
  <2>1. /\ i + 1 \in 1 .. 1 + Len(e) /\ i + 1 \in 1 .. 1 + Len(e) + p.len
        /\ i + 1 <= 1 + Len(e) /\ ~(i + 1 <= 1) /\ (i + 1) - 1 = i
    BY <1>1, <1>3
  <2>2. (h \o e)[i + 1] = e[(i + 1) - 1]
    BY <1>7, <2>1
  <2>3. FrameOf(p)[i + 1] = (h \o e)[i + 1]
    BY <1>8, <2>1
  <2>. QED
    BY <2>1, <2>2, <2>3
<1>. QED
  BY <1>1, <1>2, <1>3, <1>8, <1>9, <1>10 DEF e

\* A prefix has the first elements of the sequence.
LEMMA PrefixElements ==
  ASSUME NEW S, NEW s \in Seq(S), NEW t \in Seq(S)
  PROVE  IsPrefix(s, t) <=> Len(s) <= Len(t) /\ \A i \in 1 .. Len(s) : s[i] = t[i]
<1>1. /\ Len(s) \in Nat /\ Len(t) \in Nat
      /\ \A i \in 1 .. Len(s) : s[i] \in S
      /\ \A i \in 1 .. Len(t) : t[i] \in S
  BY LenProperties, ElementOfSeq
<1> SUFFICES ASSUME Len(s) <= Len(t)
             PROVE  SubSeq(s, 1, Len(s)) = SubSeq(t, 1, Len(s)) <=> \A i \in 1 .. Len(s) : s[i] = t[i]
  BY DEF IsPrefix
<1> DEFINE n == Len(s)
           u == SubSeq(s, 1, n)
           v == SubSeq(t, 1, n)
<1>2. u \in Seq(S) /\ Len(u) = n /\ \A i \in 1 .. n : u[i] = s[i]
  <2>1. /\ u \in Seq(S)
        /\ Len(u) = IF 1 <= n THEN n - 1 + 1 ELSE 0
        /\ \A i \in 1 .. n - 1 + 1 : u[i] = s[1 + i - 1]
    BY <1>1, SubSeqProperties
  <2>. QED
    BY <1>1, <2>1
<1>3. v \in Seq(S) /\ Len(v) = n /\ \A i \in 1 .. n : v[i] = t[i]
  <2>1. \A i \in 1 .. n : t[i] \in S
    BY <1>1
  <2>2. /\ v \in Seq(S)
        /\ Len(v) = IF 1 <= n THEN n - 1 + 1 ELSE 0
        /\ \A i \in 1 .. n - 1 + 1 : v[i] = t[1 + i - 1]
    BY <1>1, <2>1, SubSeqProperties
  <2>. QED
    BY <1>1, <2>2
<1>4. ASSUME \A i \in 1 .. n : s[i] = t[i] PROVE u = v
  BY <1>2, <1>3, <1>4, SeqEqual
<1>5. ASSUME u = v, NEW i \in 1 .. n PROVE s[i] = t[i]
  BY <1>2, <1>3, <1>5
<1>. QED
  BY <1>4, <1>5

\* The rest is a sequence of sequences of bytes.
LEMMA RestTyped ==
  ASSUME StreamTypes, StreamIntact
  PROVE  /\ Len(sent) \in Nat /\ Len(decoded) \in Nat /\ Len(decoded) <= Len(sent)
         /\ \A i \in 1 .. Len(sent) : sent[i] \in Packet
         /\ \A i \in 1 .. Len(decoded) : decoded[i] = sent[i]
         /\ RestFrames \in Seq(Seq(Nat)) /\ Len(RestFrames) = Len(sent) - Len(decoded)
         /\ \A i \in 1 .. Len(RestFrames) : RestFrames[i] = FrameOf(sent[Len(decoded) + i])
         /\ buf \o stream = FlattenSeq(RestFrames)
<1>1. /\ Len(sent) \in Nat /\ Len(decoded) \in Nat
      /\ \A i \in 1 .. Len(sent) : sent[i] \in Packet
  BY LenProperties, ElementOfSeq DEF StreamTypes
<1>2. Len(decoded) <= Len(sent) /\ \A i \in 1 .. Len(decoded) : decoded[i] = sent[i]
  BY PrefixElements DEF StreamTypes, StreamIntact
<1>3. Len(sent) - Len(decoded) \in Nat
  BY <1>1, <1>2
<1>4. \A i \in 1 .. Len(sent) - Len(decoded) : FrameOf(sent[Len(decoded) + i]) \in Seq(Nat)
  <2>1. \A i \in 1 .. Len(sent) - Len(decoded) : Len(decoded) + i \in 1 .. Len(sent)
    BY <1>1
  <2>. QED
    BY <1>1, <2>1, FrameTyped
<1>5. RestFrames \in [1 .. Len(sent) - Len(decoded) -> Seq(Nat)]
  BY <1>4 DEF RestFrames
<1>6. RestFrames \in Seq(Seq(Nat)) /\ Len(RestFrames) = Len(sent) - Len(decoded)
  BY <1>3, <1>5
<1>7. \A i \in 1 .. Len(RestFrames) : RestFrames[i] = FrameOf(sent[Len(decoded) + i])
  BY <1>6 DEF RestFrames
<1>8. buf \o stream = FlattenSeq(RestFrames)
  BY DEF StreamIntact, RestFrames
<1>. QED
  BY <1>1, <1>2, <1>6, <1>7, <1>8

\* p is the next packet, and the buffer begins with its frame or with a part of it.
AtFront(p, r) ==
    /\ Len(decoded) < Len(sent) /\ sent[Len(decoded) + 1] = p
    /\ r = FlattenSeq(Tail(RestFrames))
    /\ buf \o stream = FrameOf(p) \o r
    /\ buf[1] = p.kind
    /\ HasLength(Tail(buf)) <=> Len(buf) >= 1 + Len(EncodeLength(p.len))
    /\ HasLength(Tail(buf)) =>
          /\ DecodeLength(Tail(buf)) = [value |-> p.len, bytes |-> Len(EncodeLength(p.len))]
          /\ Total(buf) = Len(FrameOf(p))

\* So it is as long as the stream is intact.
LEMMA FrontOfStream ==
  ASSUME StreamTypes, StreamIntact, buf \o stream # <<>>
  PROVE  /\ RestFrames # <<>>
         /\ \E p \in Packet, r \in Seq(Nat) : buf # <<>> => AtFront(p, r)
<1>1. /\ Len(sent) \in Nat /\ Len(decoded) \in Nat /\ Len(decoded) <= Len(sent)
      /\ \A i \in 1 .. Len(sent) : sent[i] \in Packet
      /\ RestFrames \in Seq(Seq(Nat)) /\ Len(RestFrames) = Len(sent) - Len(decoded)
      /\ \A i \in 1 .. Len(RestFrames) : RestFrames[i] = FrameOf(sent[Len(decoded) + i])
      /\ buf \o stream = FlattenSeq(RestFrames)
  BY RestTyped
<1>2. RestFrames # <<>>
  <2>1. FlattenSeq(<<>>) = <<>>
    BY FlattenLaws
  <2>. QED
    BY <1>1, <2>1
<1>3. Len(RestFrames) # 0
  BY <1>1, <1>2, EmptySeq
<1>4. Len(decoded) < Len(sent) /\ Len(decoded) + 1 \in 1 .. Len(sent) /\ 1 \in 1 .. Len(RestFrames)
  BY <1>1, <1>3
<1> DEFINE p == sent[Len(decoded) + 1]
           r == FlattenSeq(Tail(RestFrames))
           e == EncodeLength(p.len)
<1>5. p \in Packet /\ RestFrames[1] = FrameOf(p)
  BY <1>1, <1>4
<1>6. Tail(RestFrames) \in Seq(Seq(Nat))
  BY <1>1, <1>2, HeadTailProperties
<1>7. r \in Seq(Nat) /\ buf \o stream = FrameOf(p) \o r
  BY <1>1, <1>2, <1>5, <1>6, FlattenLaws
<1> HIDE DEF p, r, e
<1>8. ASSUME buf # <<>> PROVE AtFront(p, r)
  <2>1. /\ p.kind \in Nat /\ p.len \in Nat
        /\ Len(e) \in Nat \ {0} /\ Len(e) <= MaxLengthBytes
        /\ FrameOf(p) \in Seq(Nat)
        /\ Len(FrameOf(p)) = 1 + Len(e) + p.len
        /\ FrameOf(p)[1] = p.kind
        /\ \A i \in 1 .. Len(e) : FrameOf(p)[i + 1] = e[i]
    BY <1>5, FrameTyped DEF e
  <2>2. /\ buf \in Seq(Nat) /\ stream \in Seq(Nat)
        /\ Len(buf) \in Nat /\ Len(stream) \in Nat /\ Len(r) \in Nat
    BY <1>7, LenProperties DEF StreamTypes
  <2>3. Len(buf) # 0
    BY <1>8, <2>2, EmptySeq
  <2>4. /\ Len(buf \o stream) = Len(buf) + Len(stream)
        /\ \A i \in 1 .. Len(buf) + Len(stream) :
              (buf \o stream)[i] = IF i <= Len(buf) THEN buf[i] ELSE stream[i - Len(buf)]
    BY <2>2, ConcatProperties
  <2>5. /\ Len(FrameOf(p) \o r) = Len(FrameOf(p)) + Len(r)
        /\ \A i \in 1 .. Len(FrameOf(p)) + Len(r) :
              (FrameOf(p) \o r)[i] = IF i <= Len(FrameOf(p)) THEN FrameOf(p)[i] ELSE r[i - Len(FrameOf(p))]
    BY <1>7, <2>1, ConcatProperties
  <2>6. ASSUME NEW i \in 1 .. Len(buf), i <= Len(FrameOf(p)) PROVE buf[i] = FrameOf(p)[i]
    <3> DEFINE f == Len(FrameOf(p))
    <3>0. f \in Nat /\ i <= f
      BY <2>1, <2>6, LenProperties
    <3> HIDE DEF f
    <3>1. i \in 1 .. Len(buf) + Len(stream) /\ i <= Len(buf) /\ i \in 1 .. f + Len(r)
      BY <2>2, <3>0
    <3>2. (buf \o stream)[i] = buf[i]
      BY <2>4, <3>1
    <3>3. (FrameOf(p) \o r)[i] = FrameOf(p)[i]
      BY <2>5, <2>6, <3>1 DEF f
    <3>. QED
      BY <1>7, <3>2, <3>3
  <2>7. buf[1] = p.kind
    <3>1. 1 \in 1 .. Len(buf) /\ 1 <= Len(FrameOf(p))
      BY <2>1, <2>2, <2>3
    <3>. QED
      BY <2>1, <2>6, <3>1
  <2>8. /\ Tail(buf) \in Seq(Nat) /\ Len(Tail(buf)) = Len(buf) - 1
        /\ \A i \in 1 .. Len(Tail(buf)) : Tail(buf)[i] = buf[i + 1]
    BY <1>8, <2>2, HeadTailProperties
  <2>9. BeginsWith(Tail(buf), p.len)
    <3>1. ASSUME NEW i \in 1 .. Len(Tail(buf)), i <= Len(e) PROVE Tail(buf)[i] = e[i]
      <4>1. i \in 1 .. Len(e) /\ i + 1 \in 1 .. Len(buf) /\ i + 1 <= Len(FrameOf(p))
        <5> DEFINE m == Len(buf)
                   k == Len(e)
                   f == Len(FrameOf(p))
        <5>1. m \in Nat /\ k \in Nat /\ p.len \in Nat /\ f = 1 + k + p.len
          BY <2>1, <2>2
        <5>2. i \in 1 .. m - 1 /\ i <= k
          BY <2>8, <3>1
        <5> HIDE DEF m, k, f
        <5>3. i \in 1 .. k /\ i + 1 \in 1 .. m /\ i + 1 <= f
          BY <5>1, <5>2
        <5>. QED
          BY <5>3 DEF m, k, f
      <4>2. buf[i + 1] = FrameOf(p)[i + 1]
        BY <2>6, <4>1
      <4>. QED
        BY <2>1, <2>8, <4>1, <4>2
    <3>. QED
      BY <3>1 DEF BeginsWith, e
  <2>10. /\ HasLength(Tail(buf)) <=> Len(Tail(buf)) >= Len(e)
         /\ HasLength(Tail(buf)) => DecodeLength(Tail(buf)) = [value |-> p.len, bytes |-> Len(e)]
    BY <2>1, <2>8, <2>9, LengthReadBack DEF e
  <2>11. HasLength(Tail(buf)) <=> Len(buf) >= 1 + Len(e)
    BY <2>1, <2>2, <2>8, <2>10
  <2>12. HasLength(Tail(buf)) => Total(buf) = Len(FrameOf(p))
    BY <2>1, <2>10 DEF Total
  <2>. QED
    BY <1>4, <1>7, <2>7, <2>10, <2>11, <2>12 DEF AtFront, p, r, e
<1>. QED
  BY <1>2, <1>5, <1>7, <1>8

-----------------------------------------------------------------------------
(* The steps *)

\* A packet that is sent goes to the end of what is on its way.
LEMMA SendKeepsIntact ==
  ASSUME StreamTypes, StreamIntact, NEW p \in Packet, SendPacket(p)
  PROVE  StreamTypes' /\ StreamIntact'
<1>1. sent' = Append(sent, p) /\ stream' = stream \o FrameOf(p) /\ buf' = buf /\ decoded' = decoded
  BY DEF SendPacket
<1>2. FrameOf(p) \in Seq(Nat)
  BY FrameTyped
<1>3. /\ sent \in Seq(Packet) /\ decoded \in Seq(Packet)
      /\ buf \in Seq(Nat) /\ stream \in Seq(Nat)
  BY DEF StreamTypes
<1>4. /\ Len(sent) \in Nat /\ Len(decoded) \in Nat /\ Len(decoded) <= Len(sent)
      /\ \A i \in 1 .. Len(decoded) : decoded[i] = sent[i]
      /\ RestFrames \in Seq(Seq(Nat)) /\ Len(RestFrames) = Len(sent) - Len(decoded)
      /\ \A i \in 1 .. Len(RestFrames) : RestFrames[i] = FrameOf(sent[Len(decoded) + i])
      /\ buf \o stream = FlattenSeq(RestFrames)
  BY RestTyped
<1>5. /\ sent' \in Seq(Packet) /\ Len(sent') = Len(sent) + 1
      /\ \A i \in 1 .. Len(sent) : sent'[i] = sent[i]
  BY <1>1, <1>3, AppendProperties
<1>6. sent'[Len(sent) + 1] = p
  BY <1>1, <1>3, AppendProperties
<1>7. stream' \in Seq(Nat)
  BY <1>1, <1>2, <1>3, ConcatProperties
<1>8. StreamTypes'
  BY <1>1, <1>3, <1>5, <1>7 DEF StreamTypes
<1>9. IsPrefix(decoded, sent')
  <2>1. Len(decoded) <= Len(sent')
    BY <1>4, <1>5
  <2>2. \A i \in 1 .. Len(decoded) : decoded[i] = sent'[i]
    BY <1>4, <1>5
  <2>. QED
    BY <1>3, <1>5, <2>1, <2>2, PrefixElements
<1> DEFINE rest == [i \in 1 .. Len(sent') - Len(decoded) |-> FrameOf(sent'[Len(decoded) + i])]
           more == Append(RestFrames, FrameOf(p))
<1>10. rest = more
  <2>1. /\ more \in Seq(Seq(Nat)) /\ Len(more) = Len(RestFrames) + 1
        /\ \A i \in 1 .. Len(RestFrames) : more[i] = RestFrames[i]
    <3> DEFINE f == FrameOf(p)
               ss == RestFrames
    <3>1. f \in Seq(Nat) /\ ss \in Seq(Seq(Nat))
      BY <1>2, <1>4
    <3> HIDE DEF f, ss
    <3>2. Append(ss, f) \in Seq(Seq(Nat)) /\ Len(Append(ss, f)) = Len(ss) + 1
      BY <3>1, AppendProperties
    <3>3. \A i \in 1 .. Len(ss) : Append(ss, f)[i] = ss[i]
      BY <3>1, AppendProperties
    <3>. QED
      BY <3>2, <3>3 DEF f, ss
  <2>2. more[Len(RestFrames) + 1] = FrameOf(p)
    BY <1>2, <1>4, AppendProperties
  <2>3. DOMAIN more = 1 .. Len(RestFrames) + 1 /\ more = [i \in DOMAIN more |-> more[i]]
    BY <2>1, LenProperties, IsASeq
  <2> HIDE DEF more
  <2>4. Len(sent') - Len(decoded) = Len(RestFrames) + 1
    BY <1>4, <1>5
  <2>5. ASSUME NEW i \in 1 .. Len(RestFrames) + 1 PROVE FrameOf(sent'[Len(decoded) + i]) = more[i]
    <3>1. CASE i = Len(RestFrames) + 1
      <4>1. Len(decoded) + i = Len(sent) + 1
        BY <1>4, <3>1
      <4>. QED
        BY <1>6, <2>2, <3>1, <4>1
    <3>2. CASE i # Len(RestFrames) + 1
      <4>1. i \in 1 .. Len(RestFrames) /\ Len(decoded) + i \in 1 .. Len(sent)
        BY <1>4, <3>2
      <4>. QED
        BY <1>4, <1>5, <2>1, <4>1
    <3>. QED
      BY <3>1, <3>2
  <2>6. rest = [i \in 1 .. Len(RestFrames) + 1 |-> more[i]]
    BY <2>4, <2>5
  <2>. QED
    BY <2>3, <2>6
<1>11. FlattenSeq(more) = FlattenSeq(RestFrames) \o FrameOf(p)
  BY <1>2, <1>4, FlattenLaws
<1>12. buf \o stream' = FlattenSeq(rest)
  <2> DEFINE f == FrameOf(p)
  <2>1. f \in Seq(Nat) /\ stream' = stream \o f
    BY <1>1, <1>2
  <2>2. FlattenSeq(rest) = (buf \o stream) \o f
    BY <1>4, <1>10, <1>11
  <2> HIDE DEF f
  <2>3. \A u, v, z \in Seq(Nat) : (u \o v) \o z = u \o (v \o z)
    BY SMTT(30)
  <2>4. (buf \o stream) \o f = buf \o (stream \o f)
    BY <1>3, <2>1, <2>3, Zenon
  <2>. QED
    BY <2>1, <2>2, <2>4
<1>13. StreamIntact'
  BY <1>1, <1>9, <1>12 DEF StreamIntact
<1>. QED
  BY <1>8, <1>13

\* What is read moves to the end of the buffer.
LEMMA ReadKeepsIntact ==
  ASSUME StreamTypes, StreamIntact, NEW n \in 1 .. Len(stream), Receive(n), UNCHANGED <<sent, decoded>>
  PROVE  StreamTypes' /\ StreamIntact'
<1>1. buf' = buf \o SubSeq(stream, 1, n) /\ stream' = SubSeq(stream, n + 1, Len(stream))
  BY DEF Receive
<1>2. buf' \in Seq(Nat) /\ stream' \in Seq(Nat) /\ buf' \o stream' = buf \o stream
  <2>1. buf \in Seq(Nat) /\ stream \in Seq(Nat)
    BY DEF StreamTypes
  <2>2. /\ buf \o SubSeq(stream, 1, n) \in Seq(Nat) /\ SubSeq(stream, n + 1, Len(stream)) \in Seq(Nat)
        /\ (buf \o SubSeq(stream, 1, n)) \o SubSeq(stream, n + 1, Len(stream)) = buf \o stream
    BY <2>1, MovedBytes, Zenon
  <2>. QED
    BY <1>1, <2>2, Zenon
<1>. QED
  BY <1>2 DEF StreamTypes, StreamIntact

\* The packet that is taken out of the buffer is the next one that was sent, and
\* nothing else is.
LEMMA ConsumeKeepsIntact ==
  ASSUME StreamTypes, StreamIntact, Consume, UNCHANGED <<sent, stream>>,
         Len(buf) >= 2, HasLength(Tail(buf)), Len(buf) >= Total(buf)
  PROVE  StreamTypes' /\ StreamIntact'
<1>1. /\ sent \in Seq(Packet) /\ decoded \in Seq(Packet)
      /\ buf \in Seq(Nat) /\ stream \in Seq(Nat) /\ Len(buf) \in Nat /\ Len(stream) \in Nat
  BY LenProperties DEF StreamTypes
<1>2. buf # <<>> /\ buf \o stream # <<>>
  <2>1. Len(buf) # 0
    BY <1>1
  <2>2. buf # <<>>
    BY <2>1
  <2>. QED
    BY <1>1, <2>2, ConcatEqualIffEmpty
<1>3. RestFrames # <<>> /\ \E p \in Packet, r \in Seq(Nat) : AtFront(p, r)
  BY <1>2, FrontOfStream
<1>4. PICK p \in Packet, r \in Seq(Nat) : AtFront(p, r)
  BY <1>3
<1>5. FrameOf(p) \in Seq(Nat) /\ Len(FrameOf(p)) \in Nat
  BY FrameTyped, LenProperties
<1>6. /\ Len(sent) \in Nat /\ Len(decoded) \in Nat
      /\ \A i \in 1 .. Len(decoded) : decoded[i] = sent[i]
      /\ RestFrames \in Seq(Seq(Nat)) /\ Len(RestFrames) = Len(sent) - Len(decoded)
      /\ \A i \in 1 .. Len(RestFrames) : RestFrames[i] = FrameOf(sent[Len(decoded) + i])
  BY RestTyped
<1>7. Len(decoded) < Len(sent) /\ sent[Len(decoded) + 1] = p
  BY <1>4 DEF AtFront
<1>8. decoded' = Append(decoded, p)
  <2>1. decoded' = Append(decoded, [kind |-> buf[1], len |-> DecodeLength(Tail(buf)).value])
    BY DEF Consume
  <2>2. buf[1] = p.kind /\ DecodeLength(Tail(buf)).value = p.len
    BY <1>4 DEF AtFront
  <2>3. p = [kind |-> p.kind, len |-> p.len]
    BY DEF Packet
  <2>. QED
    BY <2>1, <2>2, <2>3
<1>9. buf' \in Seq(Nat) /\ buf' \o stream' = r
  <2>1. buf' = SubSeq(buf, Len(FrameOf(p)) + 1, Len(buf)) /\ Len(FrameOf(p)) <= Len(buf)
    BY <1>4 DEF Consume, AtFront
  <2>2. buf \o stream = FrameOf(p) \o r
    BY <1>4 DEF AtFront
  <2> DEFINE f == FrameOf(p)
  <2>3. f \in Seq(Nat) /\ buf \o stream = f \o r /\ Len(f) <= Len(buf)
    BY <1>5, <2>1, <2>2
  <2> HIDE DEF f
  <2>4. /\ SubSeq(buf, Len(f) + 1, Len(buf)) \in Seq(Nat)
        /\ SubSeq(buf, Len(f) + 1, Len(buf)) \o stream = r
    BY <1>1, <2>3, BehindFrame, Zenon
  <2>5. buf' = SubSeq(buf, Len(f) + 1, Len(buf)) /\ stream' = stream
    BY <2>1 DEF f
  <2>. QED
    BY <2>4, <2>5, Zenon
<1>10. /\ decoded' \in Seq(Packet) /\ Len(decoded') = Len(decoded) + 1
       /\ \A i \in 1 .. Len(decoded) : decoded'[i] = decoded[i]
  BY <1>1, <1>8, AppendProperties
<1>11. decoded'[Len(decoded) + 1] = p
  BY <1>1, <1>8, AppendProperties
<1>12. StreamTypes'
  BY <1>1, <1>9, <1>10 DEF StreamTypes
<1>13. IsPrefix(decoded', sent)
  <2>1. Len(decoded') <= Len(sent)
    BY <1>6, <1>7, <1>10
  <2>2. ASSUME NEW i \in 1 .. Len(decoded') PROVE decoded'[i] = sent[i]
    <3>1. i \in 1 .. Len(decoded) \/ i = Len(decoded) + 1
      BY <1>6, <1>10
    <3>. QED
      BY <1>6, <1>7, <1>10, <1>11, <3>1
  <2>. QED
    BY <1>1, <1>10, <2>1, <2>2, PrefixElements
<1> DEFINE rest == [i \in 1 .. Len(sent) - Len(decoded') |-> FrameOf(sent[Len(decoded') + i])]
           t == Tail(RestFrames)
<1>14. rest = t
  <2>1. /\ t \in Seq(Seq(Nat)) /\ Len(t) = Len(RestFrames) - 1
        /\ \A i \in 1 .. Len(t) : t[i] = RestFrames[i + 1]
    BY <1>3, <1>6, HeadTailProperties
  <2>2. DOMAIN t = 1 .. Len(t) /\ t = [i \in DOMAIN t |-> t[i]]
    BY <2>1, LenProperties, IsASeq
  <2> HIDE DEF t
  <2>3. Len(sent) - Len(decoded') = Len(t)
    BY <1>6, <1>10, <2>1
  <2>4. ASSUME NEW i \in 1 .. Len(t) PROVE FrameOf(sent[Len(decoded') + i]) = t[i]
    <3>1. i + 1 \in 1 .. Len(RestFrames) /\ Len(decoded') + i = Len(decoded) + (i + 1)
      BY <1>6, <1>10, <2>1
    <3>. QED
      BY <1>6, <2>1, <3>1
  <2>5. rest = [i \in 1 .. Len(t) |-> t[i]]
    BY <2>3, <2>4
  <2>. QED
    BY <2>2, <2>5
<1>15. buf' \o stream' = FlattenSeq(rest)
  BY <1>4, <1>9, <1>14 DEF AtFront
<1>16. StreamIntact'
  BY <1>13, <1>15 DEF StreamIntact
<1>. QED
  BY <1>12, <1>16

\* A buffer that is not taken for malformed has a length, once it has two bytes.
LEMMA CompleteHasLength ==
  ASSUME Len(buf) >= 2, buf # <<>>, ~Malformed(buf)
  PROVE  HasLength(Tail(buf)) /\ ~(Total(buf) > MaxPacketSize)
BY DEF Malformed

\* total_len is a number, of a buffer that has a length.
LEMMA TotalTyped ==
  ASSUME StreamTypes, StreamIntact, Len(buf) >= 2, HasLength(Tail(buf))
  PROVE  Total(buf) \in Nat
<1>1. buf \in Seq(Nat) /\ stream \in Seq(Nat) /\ Len(buf) \in Nat
  BY LenProperties DEF StreamTypes
<1>2. buf # <<>>
  <2>1. Len(buf) # 0
    BY <1>1
  <2>. QED
    BY <2>1
<1>3. buf \o stream # <<>>
  BY <1>1, <1>2, ConcatEqualIffEmpty
<1>4. PICK p \in Packet, r \in Seq(Nat) : AtFront(p, r)
  BY <1>2, <1>3, FrontOfStream
<1>5. FrameOf(p) \in Seq(Nat)
  BY FrameTyped
<1>6. Len(FrameOf(p)) \in Nat
  BY <1>5, LenProperties
<1>. QED
  BY <1>4, <1>6 DEF AtFront

\* The frame of a short packet has one byte for its length.
LEMMA ShortFrame ==
  ASSUME NEW p \in Packet, Short(p)
  PROVE  Len(EncodeLength(p.len)) = 1 /\ Len(FrameOf(p)) = 2 + p.len
<1>1. p.len \in Nat /\ p.len < Base
  BY FrameTyped DEF Short
<1>2. Len(EncodeLength(p.len)) = 1
  BY <1>1, EncodeLengthTyped
<1>3. Len(FrameOf(p)) = 1 + Len(EncodeLength(p.len)) + p.len
  BY FrameTyped
<1>. QED
  BY <1>1, <1>2, <1>3

\* The next packet is not short.
NextNotShort == Len(decoded) < Len(sent) /\ ~Short(sent[Len(decoded) + 1])

\* The decoder fails at nothing else.
LEMMA FailsAtLong ==
  ASSUME StreamTypes, StreamIntact, Malformed(buf) \/ FirstMalformed(buf)
  PROVE  NextNotShort
<1>1. /\ buf \in Seq(Nat) /\ stream \in Seq(Nat) /\ Len(buf) \in Nat
  BY LenProperties DEF StreamTypes
<1>2. buf # <<>> /\ buf \o stream # <<>>
  <2>1. buf # <<>>
    <3>1. CASE Malformed(buf)
      BY <3>1 DEF Malformed
    <3>2. CASE FirstMalformed(buf)
      <4>1. Len(buf) # 0
        BY <1>1, <3>2 DEF FirstMalformed
      <4>. QED
        BY <4>1
    <3>. QED
      BY <3>1, <3>2
  <2>. QED
    BY <1>1, <2>1, ConcatEqualIffEmpty
<1>3. PICK p \in Packet, r \in Seq(Nat) : AtFront(p, r)
  BY <1>2, FrontOfStream
<1>4. buf[1] \in Kind
  BY <1>3, FrameTyped DEF AtFront
<1>5. Len(buf) >= 2 /\ (HasLength(Tail(buf)) => Total(buf) > MaxPacketSize)
  BY <1>4 DEF Malformed, FirstMalformed
<1>6. ASSUME Short(p) PROVE FALSE
  <2>1. Len(EncodeLength(p.len)) = 1 /\ Len(FrameOf(p)) = 2 + p.len
    BY <1>6, ShortFrame
  <2>2. HasLength(Tail(buf))
    BY <1>1, <1>3, <1>5, <2>1 DEF AtFront
  <2>3. 2 + p.len > MaxPacketSize
    BY <1>3, <1>5, <2>1, <2>2 DEF AtFront
  <2>4. p.len \in Nat
    BY FrameTyped
  <2>. QED
    BY <1>6, <2>3, <2>4, LimitAssumption DEF Short
<1>. QED
  BY <1>3, <1>6 DEF AtFront, NextNotShort

\* A connection that waits while nothing is on its way has decoded everything.
LEMMA NothingLeft ==
  ASSUME StreamTypes, StreamIntact, stream = <<>>, ~Malformed(buf), ~Complete(buf)
  PROVE  decoded = sent
<1>1. /\ sent \in Seq(Packet) /\ decoded \in Seq(Packet)
      /\ buf \in Seq(Nat) /\ stream \in Seq(Nat) /\ Len(buf) \in Nat
      /\ buf \o stream = buf
  BY LenProperties, ConcatEmptySeq DEF StreamTypes
<1>2. /\ Len(sent) \in Nat /\ Len(decoded) \in Nat /\ Len(decoded) <= Len(sent)
      /\ \A i \in 1 .. Len(sent) : sent[i] \in Packet
      /\ \A i \in 1 .. Len(decoded) : decoded[i] = sent[i]
      /\ RestFrames \in Seq(Seq(Nat)) /\ Len(RestFrames) = Len(sent) - Len(decoded)
      /\ \A i \in 1 .. Len(RestFrames) : RestFrames[i] = FrameOf(sent[Len(decoded) + i])
      /\ buf \o stream = FlattenSeq(RestFrames)
  BY RestTyped
<1>3. CASE buf # <<>>
  <2>1. PICK p \in Packet, r \in Seq(Nat) : AtFront(p, r)
    BY <1>1, <1>3, FrontOfStream
  <2>2. /\ FrameOf(p) \in Seq(Nat) /\ p.len \in Nat /\ Len(EncodeLength(p.len)) \in Nat \ {0}
        /\ Len(FrameOf(p)) = 1 + Len(EncodeLength(p.len)) + p.len
    BY FrameTyped
  <2>3. Len(buf) = Len(FrameOf(p)) + Len(r) /\ Len(r) \in Nat
    <3>1. buf = FrameOf(p) \o r
      BY <1>1, <2>1 DEF AtFront
    <3>. QED
      BY <2>2, <3>1, ConcatProperties, LenProperties
  <2>4. Len(buf) >= 1 + Len(EncodeLength(p.len)) /\ Len(buf) >= Len(FrameOf(p)) /\ Len(buf) >= 2
    BY <2>2, <2>3
  <2>5. Total(buf) = Len(FrameOf(p))
    BY <2>1, <2>4 DEF AtFront
  <2>. QED
    BY <2>4, <2>5 DEF Complete
<1>4. CASE buf = <<>>
  <2>1. RestFrames = <<>>
    <3> SUFFICES ASSUME RestFrames # <<>> PROVE FALSE
      OBVIOUS
    <3>1. FlattenSeq(RestFrames) = RestFrames[1] \o FlattenSeq(Tail(RestFrames))
      BY <1>2, FlattenLaws
    <3>2. Tail(RestFrames) \in Seq(Seq(Nat))
      BY <1>2, HeadTailProperties
    <3>3. FlattenSeq(Tail(RestFrames)) \in Seq(Nat)
      BY <3>2, FlattenLaws
    <3>4. 1 \in 1 .. Len(RestFrames) /\ Len(decoded) + 1 \in 1 .. Len(sent)
      <4>1. Len(RestFrames) # 0
        BY <1>2, EmptySeq
      <4>. QED
        BY <1>2, <4>1
    <3> DEFINE p == sent[Len(decoded) + 1]
    <3>5. p \in Packet /\ RestFrames[1] = FrameOf(p)
      BY <1>2, <3>4
    <3>6. FrameOf(p) \in Seq(Nat) /\ Len(FrameOf(p)) # 0
      <4>1. /\ FrameOf(p) \in Seq(Nat) /\ p.len \in Nat /\ Len(EncodeLength(p.len)) \in Nat \ {0}
            /\ Len(FrameOf(p)) = 1 + Len(EncodeLength(p.len)) + p.len
        BY <3>5, FrameTyped
      <4>. QED
        BY <4>1
    <3> DEFINE f == FrameOf(p)
               z == FlattenSeq(Tail(RestFrames))
    <3>7. f \in Seq(Nat) /\ z \in Seq(Nat) /\ f \o z = <<>>
      <4>1. f \o z = buf \o stream
        BY <1>2, <3>1, <3>5
      <4>. QED
        BY <1>1, <1>4, <3>3, <3>6, <4>1
    <3>8. Len(f) # 0
      BY <3>6
    <3> HIDE DEF f, z
    <3>9. f = <<>>
      BY <3>7, ConcatEqualIffEmpty
    <3>. QED
      BY <3>8, <3>9
  <2>2. Len(sent) = Len(decoded)
    BY <1>2, <2>1
  <2>3. \A i \in 1 .. Len(decoded) : decoded[i] = sent[i]
    BY <1>2
  <2>. QED
    BY <1>1, <2>2, <2>3, SeqEqual
<1>. QED
  BY <1>3, <1>4

-----------------------------------------------------------------------------
(* The theorems *)

\* The CONNECT is the first packet to be decoded, only a packet of several length
\* bytes or one that is too large makes a decoder fail, and a connection that ends
\* after its CONNECT has decoded all of the stream.
StageInv ==
    /\ phase \in {"connect", "first"} => decoded = <<>>
    /\ phase = "failed" => NextNotShort
    /\ phase = "closed" => decoded = <<>> \/ (eof /\ decoded = sent)

StreamInv == StreamTypes /\ StreamIntact /\ StageInv

\* At first nothing has been sent, buffered or decoded.
LEMMA InitStreamInv == StreamInit => StreamInv
<1> SUFFICES ASSUME StreamInit PROVE StreamInv
  OBVIOUS
<1>1. sent = <<>> /\ decoded = <<>> /\ buf = <<>> /\ stream = <<>> /\ phase = "connect"
  BY DEF StreamInit
<1>2. StreamTypes
  BY <1>1 DEF StreamTypes
<1>3. StreamIntact
  <2>1. [i \in 1 .. Len(sent) - Len(decoded) |-> FrameOf(sent[Len(decoded) + i])] = <<>>
    <3> DEFINE rest == [i \in 1 .. Len(sent) - Len(decoded) |-> FrameOf(sent[Len(decoded) + i])]
    <3>1. 1 .. Len(sent) - Len(decoded) = {}
      BY <1>1
    <3>2. DOMAIN rest = {}
      BY <3>1
    <3>3. rest = [i \in {} |-> rest[i]]
      BY <3>1
    <3>4. <<>> = [i \in {} |-> <<>>[i]]
      OBVIOUS
    <3>. QED
      BY <3>3, <3>4
  <2>2. FlattenSeq(<<>>) = <<>>
    BY FlattenLaws
  <2>3. buf \o stream = <<>>
    BY <1>1
  <2>4. IsPrefix(decoded, sent)
    <3>1. decoded \in Seq(Packet) /\ sent \in Seq(Packet) /\ Len(decoded) = 0 /\ Len(sent) = 0
      BY <1>1
    <3>2. Len(decoded) <= Len(sent) /\ \A i \in 1 .. Len(decoded) : decoded[i] = sent[i]
      BY <3>1
    <3>. QED
      BY <3>1, <3>2, PrefixElements
  <2>. QED
    BY <2>1, <2>2, <2>3, <2>4 DEF StreamIntact
<1>4. StageInv
  BY <1>1 DEF StageInv
<1>. QED
  BY <1>2, <1>3, <1>4 DEF StreamInv

\* Every step of the peer and of the connection keeps the stream intact.
LEMMA StepStreamInv == StreamInv /\ [StreamNext]_streamVars => StreamInv'
<1> SUFFICES ASSUME StreamInv, [StreamNext]_streamVars PROVE StreamInv'
  OBVIOUS
<1> USE DEF StreamInv
<1>1. ASSUME NEW p \in Packet, SendPacket(p) PROVE StreamInv'
  <2>1. StreamTypes' /\ StreamIntact'
    BY <1>1, SendKeepsIntact
  <2>2. /\ phase' = phase /\ decoded' = decoded /\ eof' = eof /\ ~eof
        /\ sent' = Append(sent, p)
    BY <1>1 DEF SendPacket
  <2>3. NextNotShort => NextNotShort'
    <3> SUFFICES ASSUME NextNotShort PROVE NextNotShort'
      OBVIOUS
    <3>1. Len(sent) \in Nat /\ Len(decoded) \in Nat /\ sent \in Seq(Packet)
      BY LenProperties DEF StreamTypes
    <3>2. Len(sent') = Len(sent) + 1 /\ \A i \in 1 .. Len(sent) : sent'[i] = sent[i]
      BY <2>2, <3>1, AppendProperties
    <3>3. Len(decoded) + 1 \in 1 .. Len(sent) /\ Len(decoded) < Len(sent) + 1
      BY <3>1 DEF NextNotShort
    <3>4. sent'[Len(decoded') + 1] = sent[Len(decoded) + 1]
      BY <2>2, <3>2, <3>3
    <3>. QED
      BY <2>2, <3>2, <3>3, <3>4 DEF NextNotShort, Short
  <2>4. StageInv'
    BY <2>2, <2>3 DEF StageInv
  <2>. QED
    BY <2>1, <2>4
<1>2. CASE Finish
  BY <1>2 DEF Finish, StreamTypes, StreamIntact, StageInv, NextNotShort
<1>3. ASSUME NEW n \in 1 .. Len(stream), ReadFirst(n) \/ ReadMore(n) PROVE StreamInv'
  <2>1. Receive(n) /\ UNCHANGED <<sent, decoded, eof>>
    BY <1>3 DEF ReadFirst, ReadMore
  <2>2. StreamTypes' /\ StreamIntact'
    BY <2>1, ReadKeepsIntact
  <2>3. StageInv'
    BY <1>3, <2>1 DEF ReadFirst, ReadMore, StageInv
  <2>. QED
    BY <2>2, <2>3
<1>4. ASSUME Consume, UNCHANGED <<sent, stream>>, phase' = "open", Complete(buf) PROVE StreamInv'
  <2>1. Len(buf) >= 2 /\ ~Malformed(buf) /\ Len(buf) >= Total(buf)
    BY <1>4 DEF Complete
  <2>2. buf # <<>>
    <3>1. Len(buf) # 0
      BY <2>1
    <3>. QED
      BY <3>1
  <2>3. HasLength(Tail(buf))
    BY <2>1, <2>2, CompleteHasLength
  <2>4. StreamTypes' /\ StreamIntact'
    BY <1>4, <2>1, <2>3, ConsumeKeepsIntact
  <2>5. StageInv'
    BY <1>4 DEF StageInv
  <2>. QED
    BY <2>4, <2>5
<1>5. CASE Accept
  <2>1. /\ Len(buf) \in Nat /\ Len(buf) >= 2
        /\ HasLength(Tail(buf)) /\ ~(Len(buf) < Total(buf))
        /\ ~(Len(buf) >= Total(buf) /\ Malformed(buf))
    <3>1. Len(buf) \in Nat
      BY LenProperties DEF StreamTypes
    <3>. QED
      BY <1>5, <3>1 DEF Accept, FirstMalformed, FirstIncomplete
  <2>2. Total(buf) \in Nat
    BY <2>1, TotalTyped
  <2>3. Complete(buf)
    BY <2>1, <2>2 DEF Complete
  <2>. QED
    BY <1>4, <1>5, <2>3 DEF Accept
<1>6. CASE AwaitFirst
  BY <1>6 DEF AwaitFirst, StreamTypes, StreamIntact, StageInv
<1>7. CASE FirstFails
  <2>1. NextNotShort
    BY <1>7, FailsAtLong DEF FirstFails
  <2>. QED
    BY <1>7, <2>1 DEF FirstFails, StreamTypes, StreamIntact, StageInv, NextNotShort
<1>8. CASE NextPacket
  BY <1>4, <1>8 DEF NextPacket
<1>9. CASE DecodeError
  <2>1. NextNotShort
    BY <1>9, FailsAtLong DEF DecodeError
  <2>. QED
    BY <1>9, <2>1 DEF DecodeError, StreamTypes, StreamIntact, StageInv, NextNotShort
<1>10. CASE End
  <2>1. decoded = <<>> \/ decoded = sent
    BY <1>10, NothingLeft DEF End, StageInv
  <2>. QED
    BY <1>10, <2>1 DEF End, StreamTypes, StreamIntact, StageInv
<1>11. CASE UNCHANGED streamVars
  BY <1>11 DEF streamVars, StreamTypes, StreamIntact, StageInv, NextNotShort
<1>. QED
  BY <1>1, <1>2, <1>3, <1>5, <1>6, <1>7, <1>8, <1>9, <1>10, <1>11 DEF StreamNext, Connection

\* So it holds in every state.
LEMMA StreamInvAlways == StreamSpec => []StreamInv
BY InitStreamInv, StepStreamInv, PTL DEF StreamSpec

\* However the stream is cut, the packets decoded are the packets sent, in order, and
\* the buffer and the wire hold the rest and nothing else (framed_buf.advance,
\* server.rs:375, and read_buf.split_to, server.rs:367).
THEOREM StreamIntactAlways == StreamSpec => []StreamIntact
<1>1. StreamInv => StreamIntact
  BY DEF StreamInv
<1>. QED
  BY <1>1, StreamInvAlways, PTL

\* A decoder fails only at a packet whose length takes several bytes or that is too
\* large, and it is the next one that was sent (v3/codec.rs:21-32).
FailsOnlyAtLong == phase = "failed" => NextNotShort
\* It does in every state, however the stream is cut.
THEOREM FailsOnlyAtLongAlways == StreamSpec => []FailsOnlyAtLong
<1>1. StreamInv => FailsOnlyAtLong
  BY DEF StreamInv, StageInv, FailsOnlyAtLong
<1>. QED
  BY <1>1, StreamInvAlways, PTL

\* A stream that ends leaves no packet behind: a connection that has got its CONNECT
\* and that the end of the stream closes has decoded all that was sent
\* (server.rs:371-396).
ClosedHasAll == phase = "closed" /\ decoded # <<>> => decoded = sent
\* It has in every state in which a connection is closed, however the stream was cut.
THEOREM ClosedHasAllAlways == StreamSpec => []ClosedHasAll
<1>1. StreamInv => ClosedHasAll
  BY DEF StreamInv, StageInv, ClosedHasAll
<1>. QED
  BY <1>1, StreamInvAlways, PTL

\* A chain that does what e does is e.
LEMMA ChainIs ==
  ASSUME NEW n \in Nat, NEW e, NEW f, f[0] = e[0],
         \A i \in 1 .. n : f[i - 1] = e[i - 1] => f[i] = e[i]
  PROVE  \A i \in 0 .. n : f[i] = e[i]
<1> DEFINE G == {i \in Nat : i <= n => f[i] = e[i]}
<1>1. 0 \in G
  OBVIOUS
<1>2. ASSUME NEW i \in Nat, i \in G PROVE i + 1 \in G
  <2> SUFFICES ASSUME i + 1 <= n PROVE f[i + 1] = e[i + 1]
    OBVIOUS
  <2>1. i + 1 \in 1 .. n /\ (i + 1) - 1 = i /\ f[i] = e[i]
    BY <1>2
  <2>. QED
    BY <2>1
<1> HIDE DEF G
<1>3. \A i \in Nat : i \in G
  BY <1>1, <1>2, NaturalInduction
<1>. QED
  BY <1>3 DEF G

-----------------------------------------------------------------------------
(* Bytes *)

\* The parts of two sequences, one behind the other.
LEMMA Parts ==
  ASSUME NEW S, NEW a \in Seq(S), NEW b \in Seq(S)
  PROVE  /\ a \o b \in Seq(S) /\ Len(a \o b) = Len(a) + Len(b) /\ Len(a) \in Nat /\ Len(b) \in Nat
         /\ SubSeq(a \o b, 1, Len(a)) = a
         /\ From(a \o b, Len(a) + 1) = b
         /\ From(a, 1) = a
<1>1. a \o b \in Seq(S) /\ Len(a \o b) = Len(a) + Len(b) /\ Len(a) \in Nat /\ Len(b) \in Nat
  BY ConcatProperties, LenProperties
<1>2. SubSeq(a \o b, 1, Len(a)) = a
  OBVIOUS
<1>3. SubSeq(a \o b, Len(a) + 1, Len(a \o b)) = b
  OBVIOUS
<1>4. SubSeq(a, 1, Len(a)) = a
  OBVIOUS
<1>. QED
  BY <1>1, <1>2, <1>3, <1>4 DEF From

\* The same of any two sequences of numbers.
LEMMA NatParts ==
  \A a, b \in Seq(Nat) :
    /\ a \o b \in Seq(Nat) /\ Len(a \o b) = Len(a) + Len(b) /\ Len(a) \in Nat /\ Len(b) \in Nat
    /\ SubSeq(a \o b, 1, Len(a)) = a
    /\ From(a \o b, Len(a) + 1) = b
    /\ From(a, 1) = a
BY Parts

\* Elements of a smaller set.
LEMMA WiderSeq ==
  ASSUME NEW S, NEW T, S \subseteq T, NEW a \in Seq(S)
  PROVE  a \in Seq(T)
OBVIOUS

\* Brackets do not matter.
LEMMA Brackets == \A u, v, w \in Seq(Nat) : (u \o v) \o w = u \o (v \o w)
<1> DEFINE S == Nat
<1> HIDE DEF S
<1>1. \A u, v, w \in Seq(S) : (u \o v) \o w = u \o (v \o w)
  BY SMTT(30)
<1>. QED
  BY <1>1, Zenon DEF S

\* Four bytes are two and two.
LEMMA FourBytes ==
  ASSUME NEW a, NEW b, NEW c, NEW d
  PROVE  <<a, b>> \o <<c, d>> = <<a, b, c, d>>
<1> DEFINE S == {a, b, c, d}
           x == <<a, b>>
           y == <<c, d>>
           z == <<a, b, c, d>>
<1>1. x \in Seq(S) /\ y \in Seq(S) /\ z \in Seq(S)
  OBVIOUS
<1>2. Len(x) = 2 /\ Len(y) = 2 /\ Len(z) = 4 /\ x[1] = a /\ x[2] = b /\ y[1] = c /\ y[2] = d
      /\ z[1] = a /\ z[2] = b /\ z[3] = c /\ z[4] = d
  OBVIOUS
<1> HIDE DEF x, y, z, S
<1>3. /\ x \o y \in Seq(S) /\ Len(x \o y) = Len(x) + Len(y)
      /\ \A i \in 1 .. Len(x) + Len(y) : (x \o y)[i] = IF i <= Len(x) THEN x[i] ELSE y[i - Len(x)]
  BY <1>1, ConcatProperties
<1>4. (x \o y)[1] = a /\ (x \o y)[2] = b /\ (x \o y)[3] = c /\ (x \o y)[4] = d
  BY <1>2, <1>3
<1>5. x \o y = z
  <2>1. Len(x \o y) = Len(z) /\ \A i \in 1 .. Len(z) : (x \o y)[i] = z[i]
    BY <1>2, <1>3, <1>4
  <2>. QED
    BY <1>1, <1>3, <2>1, SeqEqual
<1>. QED
  BY <1>5 DEF x, y, z

\* What the bytes of s add up to, one after the other.
AddsUp(s, e) == e[0] = 0 /\ \A i \in 1 .. Len(s) : e[i] = e[i - 1] * 256 + s[i]

\* The recursive sum over the bytes of s is the one that is expected, e.
LEMMA NumberIs ==
  ASSUME NEW s \in Seq(Nat), NEW e, AddsUp(s, e)
  PROVE  NumberOf(s) = e[Len(s)]
<1> DEFINE n == Len(s)
           next(v, i) == v * 256 + s[i]
           IsSum(f) == f = [i \in 0 .. n |-> IF i = 0 THEN 0 ELSE next(f[i - 1], i)]
           sum == CHOOSE f : IsSum(f)
           g == [i \in 0 .. n |-> e[i]]
<1>1. n \in Nat
  BY LenProperties
<1>2. NumberOf(s) = sum[n]
  BY DEF NumberOf
<1>3. e[0] = 0 /\ \A i \in 1 .. n : e[i] = next(e[i - 1], i)
  BY DEF AddsUp
<1> HIDE DEF n, next
<1>4. IsSum(g)
  <2>1. ASSUME NEW i \in 0 .. n PROVE e[i] = IF i = 0 THEN 0 ELSE next(g[i - 1], i)
    <3>1. CASE i = 0
      BY <1>3, <3>1
    <3>2. CASE i # 0
      <4>1. i \in 1 .. n /\ i - 1 \in 0 .. n
        BY <1>1, <3>2
      <4>2. g[i - 1] = e[i - 1]
        BY <4>1
      <4>. QED
        BY <1>3, <3>2, <4>1, <4>2
    <3>. QED
      BY <3>1, <3>2
  <2>2. g = [i \in 0 .. n |-> IF i = 0 THEN 0 ELSE next(g[i - 1], i)]
    BY <2>1
  <2>. QED
    BY <2>2
<1>5. IsSum(sum)
  BY <1>4
<1> HIDE DEF sum
<1>6. sum[0] = e[0]
  BY <1>1, <1>3, <1>5
<1>7. \A i \in 1 .. n : sum[i] = next(sum[i - 1], i)
  <2>1. \A i \in 1 .. n : i \in 0 .. n /\ i # 0
    BY <1>1
  <2>. QED
    BY <1>5, <2>1
<1>8. ASSUME NEW i \in 1 .. n, sum[i - 1] = e[i - 1] PROVE sum[i] = e[i]
  BY <1>3, <1>7, <1>8, Zenon
<1>9. \A i \in 0 .. n : sum[i] = e[i]
  BY <1>1, <1>6, <1>8, ChainIs, Zenon
<1>10. n \in 0 .. n
  BY <1>1
<1>. QED
  BY <1>2, <1>9, <1>10 DEF n

\* The numbers that one, two and four bytes give.
LEMMA NumberOf1 ==
  ASSUME NEW a \in Nat
  PROVE  NumberOf(<<a>>) = a
<1> DEFINE s == <<a>>
           e == [i \in 0 .. 1 |-> IF i = 0 THEN 0 ELSE a]
<1>1. e[0] = 0 /\ e[1] = a
  OBVIOUS
<1>2. s \in Seq(Nat) /\ Len(s) = 1 /\ s[1] = a
  OBVIOUS
<1> HIDE DEF e, s
<1>3. AddsUp(s, e)
  <2>1. \A i \in 1 .. Len(s) : i = 1
    BY <1>2
  <2>2. e[1] = e[1 - 1] * 256 + s[1]
    BY <1>1, <1>2
  <2>3. \A i \in 1 .. Len(s) : e[i] = e[i - 1] * 256 + s[i]
    BY <2>1, <2>2
  <2>. QED
    BY <1>1, <2>3 DEF AddsUp
<1>4. NumberOf(s) = e[Len(s)]
  BY <1>2, <1>3, NumberIs, Zenon
<1>. QED
  BY <1>1, <1>2, <1>4 DEF s

\* The number of two bytes.
LEMMA NumberOf2 ==
  ASSUME NEW a \in Nat, NEW b \in Nat
  PROVE  NumberOf(<<a, b>>) = a * 256 + b
<1> DEFINE s == <<a, b>>
           e == [i \in 0 .. 2 |-> IF i = 0 THEN 0 ELSE IF i = 1 THEN a ELSE a * 256 + b]
<1>1. e[0] = 0 /\ e[1] = a /\ e[2] = a * 256 + b
  OBVIOUS
<1>2. s \in Seq(Nat) /\ Len(s) = 2 /\ s[1] = a /\ s[2] = b
  OBVIOUS
<1> HIDE DEF e, s
<1>3. AddsUp(s, e)
  BY <1>1, <1>2 DEF AddsUp
<1>4. NumberOf(s) = e[Len(s)]
  BY <1>2, <1>3, NumberIs, Zenon
<1>. QED
  BY <1>1, <1>2, <1>4 DEF s

\* The number of four bytes.
LEMMA NumberOf4 ==
  ASSUME NEW a \in Nat, NEW b \in Nat, NEW c \in Nat, NEW d \in Nat
  PROVE  NumberOf(<<a, b, c, d>>) = ((a * 256 + b) * 256 + c) * 256 + d
<1> DEFINE s == <<a, b, c, d>>
           e == [i \in 0 .. 4 |-> IF i = 0 THEN 0 ELSE IF i = 1 THEN a ELSE IF i = 2 THEN a * 256 + b
                   ELSE IF i = 3 THEN (a * 256 + b) * 256 + c ELSE ((a * 256 + b) * 256 + c) * 256 + d]
<1>1. /\ e[0] = 0 /\ e[1] = a /\ e[2] = a * 256 + b /\ e[3] = (a * 256 + b) * 256 + c
      /\ e[4] = ((a * 256 + b) * 256 + c) * 256 + d
  OBVIOUS
<1>2. s \in Seq(Nat) /\ Len(s) = 4 /\ s[1] = a /\ s[2] = b /\ s[3] = c /\ s[4] = d
  OBVIOUS
<1> HIDE DEF e, s
<1>3. AddsUp(s, e)
  BY <1>1, <1>2 DEF AddsUp
<1>4. NumberOf(s) = e[Len(s)]
  BY <1>2, <1>3, NumberIs, Zenon
<1>. QED
  BY <1>1, <1>2, <1>4 DEF s

\* Quotient and rest.
LEMMA Division ==
  ASSUME NEW n \in Nat, NEW k \in Nat, k # 0
  PROVE  n \div k \in Nat /\ n % k \in 0 .. k - 1 /\ (n \div k) * k + (n % k) = n
<1>1. n % k \in 0 .. k - 1 /\ n \div k \in Nat
  OBVIOUS
<1>2. (n \div k) * k + (n % k) = n
  OBVIOUS
<1>. QED
  BY <1>1, <1>2

\* What fits two bytes.
LEMMA TwoBytesAre ==
  ASSUME NEW n
  PROVE  n \in TwoBytes <=> n \in Nat /\ n <= 65535
BY SMT DEF TwoBytes

\* The bytes of a number of two bytes, and of one of four.
LEMMA Bytes16 ==
  ASSUME NEW n \in TwoBytes
  PROVE  U16(n) \in Seq(Nat) /\ Len(U16(n)) = 2 /\ NumberOf(U16(n)) = n
<1> DEFINE a == n \div 256
           b == n % 256
<1>1. a \in Nat /\ b \in Nat /\ a * 256 + b = n
  <2>1. n \in Nat /\ 256 \in Nat /\ 256 # 0
    BY TwoBytesAre
  <2>. QED
    BY <2>1, Division
<1>2. U16(n) = <<a, b>>
  BY DEF U16
<1> HIDE DEF a, b
<1>3. NumberOf(<<a, b>>) = a * 256 + b
  BY <1>1, NumberOf2
<1>4. <<a, b>> \in Seq(Nat) /\ Len(<<a, b>>) = 2
  BY <1>1
<1>. QED
  BY <1>1, <1>2, <1>3, <1>4

Fits32(n) == n \in Nat /\ n \div 65536 \in TwoBytes

\* A number of 32 bits is its four bytes.
LEMMA Bytes32 ==
  ASSUME NEW n, Fits32(n)
  PROVE  U32(n) \in Seq(Nat) /\ Len(U32(n)) = 4 /\ NumberOf(U32(n)) = n
<1> DEFINE h == n \div 65536
           l == n % 65536
           a == h \div 256
           b == h % 256
           c == l \div 256
           d == l % 256
<1>1. n \in Nat
  BY DEF Fits32
<1>2. h \in Nat /\ l \in Nat /\ h * 65536 + l = n
  BY <1>1, Division
<1>3. U32(n) = <<a, b>> \o <<c, d>>
  BY DEF U32, U16
<1> HIDE DEF h, l
<1>4. a \in Nat /\ b \in Nat /\ a * 256 + b = h
  <2>1. h \in Nat
    BY <1>2
  <2>. QED
    BY <2>1, Division
<1>5. c \in Nat /\ d \in Nat /\ c * 256 + d = l
  <2>1. l \in Nat
    BY <1>2
  <2>. QED
    BY <2>1, Division
<1> HIDE DEF a, b, c, d
<1>6. U32(n) = <<a, b, c, d>>
  BY <1>3, FourBytes, Zenon
<1>7. NumberOf(<<a, b, c, d>>) = ((a * 256 + b) * 256 + c) * 256 + d
  BY <1>4, <1>5, NumberOf4
<1>8. ((a * 256 + b) * 256 + c) * 256 + d = n
  BY <1>2, <1>4, <1>5
<1>9. <<a, b, c, d>> \in Seq(Nat) /\ Len(<<a, b, c, d>>) = 4
  BY <1>4, <1>5
<1>. QED
  BY <1>6, <1>7, <1>8, <1>9

-----------------------------------------------------------------------------
(* Strings and lengths *)

\* What is between two parts.
LEMMA Middle ==
  ASSUME NEW S, NEW a \in Seq(S), NEW b \in Seq(S), NEW c \in Seq(S)
  PROVE  SubSeq((a \o b) \o c, Len(a) + 1, Len(a) + Len(b)) = b
OBVIOUS

\* Byte sequences whose length fits two bytes.
TwoByteLong(s) == s \in Seq(Nat) /\ Len(s) \in TwoBytes

\* A string is a byte sequence whose length fits two bytes, without high bits.
LEMMA StringShort ==
  ASSUME NEW s, IsString(s)
  PROVE  TwoByteLong(s) /\ \A i \in DOMAIN s : s[i] < 128
<1> DEFINE A == {b \in Byte : b < 128}
<1>1. s \in Seq(A) /\ Len(s) \in TwoBytes
  BY DEF IsString
<1>2. A \subseteq Nat /\ \A b \in A : b < 128
  BY DEF Byte
<1> HIDE DEF A
<1>3. DOMAIN s = 1 .. Len(s) /\ \A i \in 1 .. Len(s) : s[i] \in A
  BY <1>1, LenProperties, ElementOfSeq
<1>4. s \in Seq(Nat)
  BY <1>1, <1>2, WiderSeq
<1>. QED
  BY <1>1, <1>2, <1>3, <1>4, SMT DEF TwoByteLong

\* So is a payload, which may have them.
LEMMA BinaryShort ==
  ASSUME NEW s, IsBinary(s)
  PROVE  TwoByteLong(s)
<1>1. s \in Seq(Byte) /\ Len(s) \in TwoBytes
  BY DEF IsBinary
<1>2. Byte \subseteq Nat
  BY DEF Byte
<1>3. s \in Seq(Nat)
  BY <1>1, <1>2, WiderSeq
<1>. QED
  BY <1>1, <1>3 DEF TwoByteLong

\* What is encoded behind its length is read back, whatever follows it.
LEMMA BinaryBack ==
  ASSUME NEW s, TwoByteLong(s), NEW r \in Seq(Nat)
  PROVE  /\ EncodeString(s) \in Seq(Nat) /\ Len(EncodeString(s)) = 2 + Len(s)
         /\ DecodeBinary(EncodeString(s) \o r) = Ok(s, 2 + Len(s))
<1> DEFINE k == Len(s)
           u == U16(k)
           e == EncodeString(s)
           d == e \o r
<1>1. s \in Seq(Nat) /\ k \in TwoBytes /\ k \in Nat
  BY LenProperties DEF TwoByteLong
<1>2. u \in Seq(Nat) /\ Len(u) = 2 /\ NumberOf(u) = k
  <2> HIDE DEF k
  <2>. QED
    BY <1>1, Bytes16
<1>3. e = u \o s
  BY DEF EncodeString
<1> HIDE DEF u, e
<1>4. e \in Seq(Nat) /\ Len(e) = 2 + k
  <2>1. u \o s \in Seq(Nat) /\ Len(u \o s) = Len(u) + Len(s)
    BY <1>1, <1>2, Parts, ZenonT(30)
  <2>. QED
    BY <1>2, <1>3, <2>1
<1>5. d \in Seq(Nat) /\ Len(d) = Len(e) + Len(r) /\ Len(r) \in Nat
  BY <1>4, Parts
<1>6. SubSeq(d, 1, 2) = u
  <2> DEFINE x == s \o r
  <2>1. (u \o s) \o r = u \o x
    BY <1>1, <1>2, Brackets, Zenon
  <2>2. d = u \o x
    BY <1>3, <2>1
  <2>3. x \in Seq(Nat)
    BY <1>1, Parts
  <2> HIDE DEF d, x
  <2>4. SubSeq(u \o x, 1, Len(u)) = u
    BY <1>2, <2>3, Parts, ZenonT(30)
  <2>. QED
    BY <1>2, <2>2, <2>4
<1>7. SubSeq(d, 3, 2 + k) = s
  <2>1. SubSeq((u \o s) \o r, Len(u) + 1, Len(u) + Len(s)) = s
    BY <1>1, <1>2, Middle
  <2>2. Len(u) + 1 = 3 /\ Len(u) + Len(s) = 2 + k
    BY <1>2
  <2>. QED
    BY <1>3, <2>1, <2>2
<1> HIDE DEF d, k
<1>8. Len(d) >= 2 /\ Len(d) >= 2 + k
  BY <1>1, <1>4, <1>5
<1>9. DecodeBinary(d) = Ok(s, 2 + k)
  BY <1>2, <1>6, <1>7, <1>8 DEF DecodeBinary
<1>. QED
  BY <1>4, <1>9 DEF d, e, k

\* A string is read back: its bytes pass the check for UTF-8.
LEMMA StringBack ==
  ASSUME NEW s, IsString(s), NEW r \in Seq(Nat)
  PROVE  DecodeString(EncodeString(s) \o r) = Ok(s, 2 + Len(s))
<1>1. TwoByteLong(s) /\ \A i \in DOMAIN s : s[i] < 128
  BY StringShort
<1>2. DecodeBinary(EncodeString(s) \o r) = Ok(s, 2 + Len(s))
  BY <1>1, BinaryBack
<1>3. Ok(s, 2 + Len(s)).value = s
  BY DEF Ok
<1>. QED
  BY <1>1, <1>2, <1>3 DEF DecodeString

\* The lengths that have an encoding; those of four digits of seven bits have one.
FitsLength(n) == n \in Nat /\ Len(EncodeLength(n)) <= MaxLengthBytes
LengthLimit == 268435456

\* A length below 2^28 takes four bytes at most (common.rs, MAX_REMAINING_LENGTH_BYTES).
LEMMA FourLengthBytes ==
  ASSUME Width, NEW n \in Nat, n < LengthLimit
  PROVE  FitsLength(n)
<1>1. PICK k, left : /\ Shrinks(n, k, left)
                     /\ EncodeLength(n) = [i \in 1 .. k |->
                           (left[i - 1] % Base) + (IF left[i] # 0 THEN Base ELSE 0)]
  BY EncodeLengthEnds
<1>2. k \in Nat
  BY <1>1 DEF Shrinks
<1>3. Len(EncodeLength(n)) = k
  BY <1>1, <1>2
<1>4. ASSUME k > 4 PROVE FALSE
  <2>1. left[0] = n /\ left[1] = n \div 128 /\ left[2] = left[1] \div 128
        /\ left[3] = left[2] \div 128 /\ left[4] = left[3] \div 128 /\ left[4] # 0
    <3>1. \A i \in 1 .. 4 : i \in 1 .. k
      BY <1>2, <1>4
    <3>2. \A i \in 1 .. 4 : left[i] = left[i - 1] \div 128
      BY <1>1, <3>1 DEF Shrinks, Width
    <3>3. 4 \in 1 .. k - 1
      BY <1>2, <1>4
    <3>. QED
      BY <1>1, <3>2, <3>3 DEF Shrinks
  <2>2. left[1] \in Nat /\ left[1] < 2097152
    BY <2>1, SMT DEF LengthLimit
  <2>3. left[2] \in Nat /\ left[2] < 16384
    BY <2>1, <2>2, SMT
  <2>4. left[3] \in Nat /\ left[3] < 128
    BY <2>1, <2>3, SMT
  <2>5. left[4] = 0
    BY <2>1, <2>4, SMT
  <2>. QED
    BY <2>1, <2>5
<1>. QED
  BY <1>2, <1>3, <1>4 DEF FitsLength, Width

\* It is read back from the front of a sequence.
LEMMA LengthBack ==
  ASSUME Width, NEW n, FitsLength(n), NEW r \in Seq(Nat)
  PROVE  /\ EncodeLength(n) \in Seq(Nat) /\ Len(EncodeLength(n)) \in 1 .. 4
         /\ HasLength(EncodeLength(n) \o r)
         /\ DecodeLength(EncodeLength(n) \o r) = [value |-> n, bytes |-> Len(EncodeLength(n))]
<1> DEFINE e == EncodeLength(n)
           d == e \o r
<1>1. n \in Nat /\ Len(e) <= MaxLengthBytes
  BY DEF FitsLength
<1>2. e \in Seq(Nat) /\ Len(e) \in Nat \ {0}
  BY <1>1, EncodeLengthTyped
<1>3. /\ d \in Seq(Nat) /\ Len(d) = Len(e) + Len(r) /\ Len(r) \in Nat
      /\ \A i \in 1 .. Len(e) + Len(r) : d[i] = IF i <= Len(e) THEN e[i] ELSE r[i - Len(e)]
  <2> HIDE DEF e
  <2>. QED
    BY <1>2, ConcatProperties, LenProperties
<1>4. BeginsWith(d, n)
  <2> SUFFICES ASSUME NEW i \in 1 .. Len(d), i <= Len(e) PROVE d[i] = e[i]
    BY DEF BeginsWith
  <2> HIDE DEF d, e
  <2>. QED
    BY <1>3
<1>5. Len(d) >= Len(e)
  <2> HIDE DEF d, e
  <2>. QED
    BY <1>2, <1>3
<1> HIDE DEF d
<1>6. HasLength(d) /\ DecodeLength(d) = [value |-> n, bytes |-> Len(e)]
  BY <1>1, <1>3, <1>4, <1>5, LengthReadBack
<1>7. Len(e) \in 1 .. 4
  <2> DEFINE k == Len(e)
  <2>1. k \in Nat \ {0} /\ k <= 4
    BY <1>1, <1>2 DEF Width
  <2> HIDE DEF k
  <2>2. k \in 1 .. 4
    BY <2>1
  <2>. QED
    BY <2>2 DEF k
<1>. QED
  BY <1>2, <1>6, <1>7 DEF d

-----------------------------------------------------------------------------
(* Properties *)

\* What is cut off behind a part.
LEMMA Cut ==
  ASSUME NEW a \in Seq(Nat), NEW b \in Seq(Nat), NEW n \in Nat, n <= Len(b)
  PROVE  SubSeq(b, 1, n) \in Seq(Nat) /\ SubSeq(a \o b, 1, Len(a) + n) = a \o SubSeq(b, 1, n)
<1> DEFINE S == Nat
<1>1. a \in Seq(S) /\ b \in Seq(S)
  OBVIOUS
<1> HIDE DEF S
<1>2. SubSeq(b, 1, n) \in Seq(S) /\ SubSeq(a \o b, 1, Len(a) + n) = a \o SubSeq(b, 1, n)
  BY <1>1
<1>. QED
  BY <1>2 DEF S

\* v at the front of some bytes, e its encoding.
ReadsAs(kind, e, v) ==
    /\ e \in Seq(Nat) /\ Len(e) \in Nat \ {0}
    /\ \A r \in Seq(Nat), room \in Nat : Len(e) <= room /\ room <= Len(e) + Len(r) =>
          DecodeValue(kind, e \o r, room) = Ok(v, Len(e))

\* The kinds of numbers.
LEMMA NumberReads ==
  ASSUME NEW kind, NEW n \in {1, 2, 4}, <<kind, n>> \in {<<"byte", 1>>, <<"u16", 2>>, <<"u32", 4>>},
         NEW e \in Seq(Nat), Len(e) = n, NEW v, v = <<NumberOf(e)>>
  PROVE  ReadsAs(kind, e, v)
<1>1. n \in Nat \ {0} /\ Len(e) = n
  OBVIOUS
<1>2. ASSUME NEW r \in Seq(Nat), NEW room \in Nat, n <= room
      PROVE  DecodeValue(kind, e \o r, room) = Ok(v, n)
  <2>1. SubSeq(e \o r, 1, n) = e
    BY <1>1, Parts
  <2> DEFINE d == e \o r
  <2>2. SubSeq(d, 1, n) = e
    BY <2>1
  <2> HIDE DEF d
  <2>3. DecodeValue(kind, d, room) = IF room >= n THEN Ok(<<NumberOf(SubSeq(d, 1, n))>>, n) ELSE Fail
    BY DEF DecodeValue
  <2>4. DecodeValue(kind, d, room) = Ok(v, n)
    BY <1>1, <1>2, <2>2, <2>3
  <2>. QED
    BY <2>4 DEF d
<1>. QED
  BY <1>1, <1>2 DEF ReadsAs

\* A value of the type variable byte integer is read back,
LEMMA VarintReads ==
  ASSUME Width, NEW n, FitsLength(n)
  PROVE  ReadsAs("varint", EncodeLength(n), <<n>>)
<1> DEFINE e == EncodeLength(n)
<1>1. e \in Seq(Nat) /\ Len(e) \in Nat \ {0}
  BY EncodeLengthTyped DEF FitsLength
<1>2. ASSUME NEW r \in Seq(Nat), NEW room \in Nat
      PROVE  DecodeValue("varint", e \o r, room) = Ok(<<n>>, Len(e))
  <2>1. HasLength(e \o r) /\ DecodeLength(e \o r) = [value |-> n, bytes |-> Len(e)]
    BY LengthBack
  <2> DEFINE d == e \o r
  <2> HIDE DEF d, e
  <2>2. DecodeValue("varint", d, room)
          = IF HasLength(d) THEN Ok(<<DecodeLength(d).value>>, DecodeLength(d).bytes) ELSE Fail
    BY DEF DecodeValue
  <2>. QED
    BY <2>1, <2>2 DEF d
<1> HIDE DEF e
<1>3. ReadsAs("varint", e, <<n>>)
  BY <1>1, <1>2 DEF ReadsAs
<1>. QED
  BY <1>3 DEF e

\* and one of the type binary data,
LEMMA BinaryReads ==
  ASSUME NEW s, IsBinary(s)
  PROVE  ReadsAs("binary", EncodeString(s), s)
<1> DEFINE e == EncodeString(s)
           k == Len(s)
<1>1. TwoByteLong(s) /\ <<>> \in Seq(Nat) /\ k \in Nat
  BY BinaryShort, LenProperties DEF TwoByteLong
<1>2. e \in Seq(Nat) /\ Len(e) = 2 + k
  BY <1>1, BinaryBack
<1>3. \A r \in Seq(Nat) : DecodeBinary(e \o r) = Ok(s, 2 + k)
  BY <1>1, BinaryBack
<1> HIDE DEF e, k
<1>4. ASSUME NEW r \in Seq(Nat), NEW room \in Nat, Len(e) <= room, room <= Len(e) + Len(r)
      PROVE  DecodeValue("binary", e \o r, room) = Ok(s, Len(e))
  <2> DEFINE n == room - Len(e)
             x == SubSeq(r, 1, n)
  <2>1. n \in Nat /\ n <= Len(r) /\ Len(e) + n = room
    BY <1>1, <1>2, <1>4, LenProperties
  <2> HIDE DEF n
  <2>2. x \in Seq(Nat) /\ SubSeq(e \o r, 1, Len(e) + n) = e \o x
    BY <1>2, <2>1, Cut, Zenon
  <2> HIDE DEF x
  <2>3. DecodeValue("binary", e \o r, room) = DecodeBinary(e \o x)
    BY <2>1, <2>2 DEF DecodeValue
  <2>. QED
    BY <1>2, <1>3, <2>2, <2>3
<1>5. ReadsAs("binary", e, s)
  BY <1>1, <1>2, <1>4 DEF ReadsAs
<1>. QED
  BY <1>5 DEF e

\* and a string,
LEMMA StringReads ==
  ASSUME NEW s, IsString(s)
  PROVE  ReadsAs("string", EncodeString(s), s)
<1> DEFINE e == EncodeString(s)
           k == Len(s)
<1>1. TwoByteLong(s) /\ k \in Nat
  BY StringShort, LenProperties DEF TwoByteLong
<1>2. e \in Seq(Nat) /\ Len(e) = 2 + k
  BY <1>1, BinaryBack, EmptySeq
<1>3. \A r \in Seq(Nat) : DecodeString(e \o r) = Ok(s, 2 + k)
  BY StringBack
<1> HIDE DEF e, k
<1>4. ASSUME NEW r \in Seq(Nat), NEW room \in Nat
      PROVE  DecodeValue("string", e \o r, room) = Ok(s, Len(e))
  BY <1>2, <1>3 DEF DecodeValue
<1>5. ReadsAs("string", e, s)
  BY <1>1, <1>2, <1>4 DEF ReadsAs
<1>. QED
  BY <1>5 DEF e

\* and a pair of strings, of which the second begins where the first has ended.
LEMMA PairReads ==
  ASSUME NEW s, NEW t, IsString(s), IsString(t)
  PROVE  ReadsAs("pair", EncodeString(s) \o EncodeString(t), <<s, t>>)
<1> DEFINE e == EncodeString(s)
           f == EncodeString(t)
           k == Len(s)
           m == Len(t)
<1>1. TwoByteLong(s) /\ k \in Nat /\ TwoByteLong(t) /\ m \in Nat
  BY StringShort, LenProperties DEF TwoByteLong
<1>2. e \in Seq(Nat) /\ Len(e) = 2 + k /\ f \in Seq(Nat) /\ Len(f) = 2 + m
  BY <1>1, BinaryBack, EmptySeq
<1>3. /\ \A r \in Seq(Nat) : DecodeString(e \o r) = Ok(s, 2 + k)
      /\ \A r \in Seq(Nat) : DecodeString(f \o r) = Ok(t, 2 + m)
  BY StringBack
<1> HIDE DEF e, f, k, m
<1>4. e \o f \in Seq(Nat) /\ Len(e \o f) = 4 + k + m
  BY <1>1, <1>2, Parts, SMTT(30)
<1>5. ASSUME NEW r \in Seq(Nat), NEW room \in Nat
      PROVE  DecodeValue("pair", (e \o f) \o r, room) = Ok(<<s, t>>, 4 + k + m)
  <2> DEFINE x == f \o r
             d == (e \o f) \o r
  <2>1. x \in Seq(Nat) /\ d = e \o x
    BY <1>2, Parts, Brackets
  <2>2. DecodeString(x) = Ok(t, 2 + m)
    BY <1>3
  <2> HIDE DEF x, d
  <2>3. DecodeString(d) = Ok(s, 2 + k)
    BY <1>3, <2>1
  <2>4. From(d, Len(e) + 1) = x
    BY <1>2, <2>1, Parts
  <2> DEFINE key == DecodeString(d)
             val == DecodeString(From(d, key.used + 1))
  <2>5. DecodeValue("pair", d, room) = Pair(key, val)
    BY DEF DecodeValue
  <2>6. key = Ok(s, 2 + k)
    BY <2>3
  <2>7. key.used = Len(e)
    BY <1>2, <2>6 DEF Ok
  <2>8. val = Ok(t, 2 + m)
    BY <2>2, <2>4, <2>7
  <2> HIDE DEF key, val
  <2>9. key.ok /\ key.value = s /\ key.used = 2 + k /\ val.ok /\ val.value = t /\ val.used = 2 + m
    BY <2>6, <2>8 DEF Ok
  <2>10. Pair(key, val) = Ok(<<s, t>>, (2 + k) + (2 + m))
    BY <2>9 DEF Pair
  <2>11. (2 + k) + (2 + m) = 4 + k + m
    BY <1>1
  <2>. QED
    BY <2>5, <2>10, <2>11 DEF d
<1>6. ReadsAs("pair", e \o f, <<s, t>>)
  <2> DEFINE g == e \o f
  <2>1. g \in Seq(Nat) /\ Len(g) = 4 + k + m
    BY <1>4
  <2>2. \A r \in Seq(Nat), room \in Nat : DecodeValue("pair", g \o r, room) = Ok(<<s, t>>, 4 + k + m)
    BY <1>5
  <2>3. 4 + k + m \in Nat \ {0}
    BY <1>1
  <2> HIDE DEF g
  <2>4. ReadsAs("pair", g, <<s, t>>)
    BY <2>1, <2>2, <2>3 DEF ReadsAs
  <2>. QED
    BY <2>4 DEF g
<1>. QED
  BY <1>6 DEF e, f

\* Every value is read back behind its encoding.
LEMMA ValueReads ==
  ASSUME Width, NEW kind, NEW v, IsValue(kind, v)
  PROVE  ReadsAs(kind, EncodeValue(kind, v), v)
<1>1. CASE kind = "byte"
  <2> DEFINE n == v[1]
  <2>1. v = <<n>> /\ n \in Byte /\ EncodeValue(kind, v) = v
    BY <1>1 DEF IsValue, EncodeValue
  <2>2. n \in Nat
    BY <2>1 DEF Byte
  <2> HIDE DEF n
  <2>3. <<n>> \in Seq(Nat) /\ Len(<<n>>) = 1
    BY <2>2
  <2>4. v = <<NumberOf(v)>>
    BY <2>1, <2>2, NumberOf1
  <2>. QED
    BY <1>1, <2>1, <2>3, <2>4, NumberReads
<1>2. CASE kind = "u16"
  <2> DEFINE n == v[1]
  <2>1. v = <<n>> /\ n \in TwoBytes /\ EncodeValue(kind, v) = U16(n)
    BY <1>2 DEF IsValue, EncodeValue
  <2> HIDE DEF n
  <2>2. U16(n) \in Seq(Nat) /\ Len(U16(n)) = 2 /\ v = <<NumberOf(U16(n))>>
    BY <2>1, Bytes16
  <2>. QED
    BY <1>2, <2>1, <2>2, NumberReads
<1>3. CASE kind = "u32"
  <2> DEFINE n == v[1]
  <2>1. v = <<n>> /\ Fits32(n) /\ EncodeValue(kind, v) = U32(n)
    BY <1>3 DEF IsValue, EncodeValue, Fits32
  <2> HIDE DEF n
  <2>2. U32(n) \in Seq(Nat) /\ Len(U32(n)) = 4 /\ v = <<NumberOf(U32(n))>>
    BY <2>1, Bytes32
  <2>. QED
    BY <1>3, <2>1, <2>2, NumberReads
<1>4. CASE kind = "varint"
  <2> DEFINE n == v[1]
  <2>1. v = <<n>> /\ FitsLength(n) /\ EncodeValue(kind, v) = EncodeLength(n)
    BY <1>4 DEF IsValue, EncodeValue, FitsLength
  <2> HIDE DEF n
  <2>. QED
    BY <1>4, <2>1, VarintReads
<1>5. CASE kind = "binary"
  <2>1. IsBinary(v) /\ EncodeValue(kind, v) = EncodeString(v)
    BY <1>5 DEF IsValue, EncodeValue
  <2>. QED
    BY <1>5, <2>1, BinaryReads
<1>6. CASE kind = "string"
  <2>1. IsString(v) /\ EncodeValue(kind, v) = EncodeString(v)
    BY <1>6 DEF IsValue, EncodeValue
  <2>. QED
    BY <1>6, <2>1, StringReads
<1>7. CASE kind = "pair"
  <2> DEFINE s == v[1]
             t == v[2]
  <2>1. v = <<s, t>> /\ IsString(s) /\ IsString(t)
        /\ EncodeValue(kind, v) = EncodeString(s) \o EncodeString(t)
    BY <1>7 DEF IsValue, EncodeValue
  <2> HIDE DEF s, t
  <2>. QED
    BY <1>7, <2>1, PairReads
<1>8. kind \in {"byte", "u16", "u32", "varint", "binary", "string", "pair"}
  BY DEF IsValue
<1>. QED
  BY <1>1, <1>2, <1>3, <1>4, <1>5, <1>6, <1>7, <1>8

-----------------------------------------------------------------------------
(* Items *)

\* The frames fs of the items vs lie one behind the other from start to end: off is
\* where each of them ends, and item gives it where the one before it ends.
ItemsLie(item, start, end, vs, fs, off) ==
    /\ start \in Nat /\ vs \in Seq({vs[i] : i \in DOMAIN vs}) /\ Len(fs) = Len(vs)
    /\ off[0] = start /\ off[Len(vs)] = end
    /\ \A i \in 1 .. Len(vs) :
          /\ Len(fs[i]) \in Nat \ {0}
          /\ off[i] = off[i - 1] + Len(fs[i])
          /\ item[off[i - 1]] = Ok(vs[i], Len(fs[i]))

\* Then they are read.
LEMMA ItemsRead ==
  ASSUME NEW item, NEW start, NEW end, NEW vs, NEW fs, NEW off,
         ItemsLie(item, start, end, vs, fs, off)
  PROVE  ReadItems(item, start, end) = Ok(vs, end)
<1> DEFINE n == Len(vs)
           V == {vs[i] : i \in DOMAIN vs}
           push(acc, r) ==
              IF r.ok THEN Ok(Append(acc.value, r.value), acc.used + r.used) ELSE Fail
           over(acc) == ~acc.ok \/ acc.used >= end
           turn(acc) == IF over(acc) THEN acc ELSE push(acc, item[acc.used])
           IsAfter(f) == f = [i \in 0 .. end |-> IF i = 0 THEN Ok(<<>>, start) ELSE turn(f[i - 1])]
           after == CHOOSE f : IsAfter(f)
           first == CHOOSE i \in 0 .. end : over(after[i])
           have(i) == IF i <= n THEN Ok(SubSeq(vs, 1, i), off[i]) ELSE Ok(vs, end)
           e == [i \in 0 .. end |-> have(i)]
<1>1. ReadItems(item, start, end) = after[first]
  BY DEF ReadItems
<1>2. /\ start \in Nat /\ vs \in Seq(V) /\ off[0] = start /\ off[n] = end
      /\ \A i \in 1 .. n : /\ Len(fs[i]) \in Nat \ {0}
                           /\ off[i] = off[i - 1] + Len(fs[i])
                           /\ item[off[i - 1]] = Ok(vs[i], Len(fs[i]))
  BY DEF ItemsLie
<1>3. n \in Nat
  BY <1>2, LenProperties
<1> HIDE DEF V, n
\* The ends ascend.
<1>4. \A i \in Nat : i <= n => off[i] \in Nat /\ off[i] >= start + i
  <2> DEFINE G == {i \in Nat : i <= n => off[i] \in Nat /\ off[i] >= start + i}
  <2>1. 0 \in G
    BY <1>2
  <2>2. ASSUME NEW i \in Nat, i \in G PROVE i + 1 \in G
    <3> SUFFICES ASSUME i + 1 <= n PROVE off[i + 1] \in Nat /\ off[i + 1] >= start + (i + 1)
      OBVIOUS
    <3>1. i + 1 \in 1 .. n /\ (i + 1) - 1 = i /\ i <= n
      BY <1>3
    <3>2. off[i + 1] = off[i] + Len(fs[i + 1]) /\ Len(fs[i + 1]) \in Nat \ {0}
      BY <1>2, <3>1
    <3>3. off[i] \in Nat /\ off[i] >= start + i
      BY <2>2, <3>1
    <3>. QED
      BY <1>2, <3>2, <3>3
  <2> HIDE DEF G
  <2>3. \A i \in Nat : i \in G
    BY <2>1, <2>2, NaturalInduction
  <2>. QED
    BY <2>3 DEF G
<1>5. end \in Nat /\ n <= end
  BY <1>2, <1>3, <1>4
\* Before the last one there is more.
<1>6. \A i \in Nat : i < n => off[i] < end
  <2> DEFINE G == {k \in Nat : k < n => off[n - (k + 1)] < end}
  <2>1. 0 \in G
    <3> SUFFICES ASSUME 0 < n PROVE off[n - (0 + 1)] < end
      OBVIOUS
    <3>1. n \in 1 .. n /\ n - (0 + 1) = n - 1 /\ n - 1 \in Nat /\ n - 1 <= n
      BY <1>3
    <3>2. off[n] = off[n - 1] + Len(fs[n]) /\ Len(fs[n]) \in Nat \ {0} /\ off[n - 1] \in Nat
      BY <1>2, <1>4, <3>1
    <3>. QED
      BY <1>2, <3>1, <3>2
  <2>2. ASSUME NEW k \in Nat, k \in G PROVE k + 1 \in G
    <3> SUFFICES ASSUME k + 1 < n PROVE off[n - ((k + 1) + 1)] < end
      OBVIOUS
    <3> DEFINE i == n - ((k + 1) + 1)
    <3>1. i + 1 = n - (k + 1) /\ i + 1 \in 1 .. n /\ (i + 1) - 1 = i /\ i \in Nat /\ i <= n
      BY <1>3
    <3>2. off[i + 1] < end
      <4>1. off[n - (k + 1)] < end
        BY <1>3, <2>2
      <4>. QED
        BY <3>1, <4>1
    <3> HIDE DEF i
    <3>3. off[i + 1] = off[i] + Len(fs[i + 1]) /\ Len(fs[i + 1]) \in Nat \ {0} /\ off[i] \in Nat
      BY <1>2, <1>4, <3>1
    <3>4. off[i] < end
      BY <1>5, <3>2, <3>3
    <3>. QED
      BY <3>4 DEF i
  <2> HIDE DEF G
  <2>3. \A k \in Nat : k \in G
    BY <2>1, <2>2, NaturalInduction
  <2>4. \A k \in Nat : k < n => off[n - (k + 1)] < end
    BY <2>3 DEF G
  <2>5. ASSUME NEW i \in Nat, i < n PROVE off[i] < end
    <3>1. n - (i + 1) \in Nat /\ n - (i + 1) < n /\ n - ((n - (i + 1)) + 1) = i
      BY <1>3, <2>5
    <3>. QED
      BY <2>4, <3>1
  <2>. QED
    BY <2>5
<1> HIDE DEF have
<1>7. SubSeq(vs, 1, 0) = <<>> /\ SubSeq(vs, 1, n) = vs
      /\ \A i \in Nat : i < n => SubSeq(vs, 1, i + 1) = Append(SubSeq(vs, 1, i), vs[i + 1])
  BY <1>2, <1>3 DEF n
<1>8. have(0) = Ok(<<>>, start) /\ \A i \in Nat : i >= n => have(i) = Ok(vs, end)
  <2>1. have(0) = Ok(<<>>, start)
    <3>1. 0 <= n
      BY <1>3
    <3>2. have(0) = Ok(SubSeq(vs, 1, 0), off[0])
      BY <3>1, Zenon DEF have
    <3>. QED
      BY <1>2, <1>7, <3>2, Zenon
  <2>2. have(n) = Ok(vs, end)
    BY <1>2, <1>3, <1>7 DEF have
  <2>3. ASSUME NEW i \in Nat, i >= n PROVE have(i) = Ok(vs, end)
    <3>1. i = n \/ ~(i <= n)
      BY <1>3, <2>3
    <3>. QED
      BY <2>2, <3>1 DEF have
  <2>. QED
    BY <2>1, <2>3
<1>9. ASSUME NEW i \in Nat, i < end PROVE turn(have(i)) = have(i + 1)
  <2>1. CASE i >= n
    <3>1. have(i) = Ok(vs, end) /\ have(i + 1) = Ok(vs, end)
      BY <1>3, <1>8, <2>1
    <3>2. over(have(i))
      BY <1>5, <3>1 DEF Ok
    <3>. QED
      BY <3>1, <3>2
  <2>2. CASE i < n
    <3>1. /\ have(i) = Ok(SubSeq(vs, 1, i), off[i])
          /\ have(i + 1) = Ok(SubSeq(vs, 1, i + 1), off[i + 1])
      BY <1>3, <2>2 DEF have
    <3>2. have(i).ok /\ have(i).value = SubSeq(vs, 1, i) /\ have(i).used = off[i]
      BY <3>1 DEF Ok
    <3>3. off[i] < end /\ off[i] \in Nat
      BY <1>3, <1>4, <1>6, <2>2
    <3>4. ~over(have(i))
      BY <1>5, <3>2, <3>3
    <3>5. i + 1 \in 1 .. n /\ (i + 1) - 1 = i
      BY <1>3, <2>2
    <3>6. item[off[i]] = Ok(vs[i + 1], Len(fs[i + 1])) /\ off[i + 1] = off[i] + Len(fs[i + 1])
      BY <1>2, <3>5
    <3> DEFINE r == item[off[i]]
    <3>7. r.ok /\ r.value = vs[i + 1] /\ r.used = Len(fs[i + 1])
      BY <3>6 DEF Ok
    <3> HIDE DEF over, r
    <3>8. turn(have(i)) = push(have(i), r)
      BY <3>2, <3>4 DEF r
    <3>9. push(have(i), r) = Ok(Append(SubSeq(vs, 1, i), vs[i + 1]), off[i] + Len(fs[i + 1]))
      BY <3>2, <3>7
    <3>. QED
      BY <1>7, <2>2, <3>1, <3>6, <3>8, <3>9
  <2>. QED
    BY <1>3, <2>1, <2>2
<1> HIDE DEF turn, over
<1>10. IsAfter(e)
  <2>1. ASSUME NEW i \in 0 .. end PROVE have(i) = IF i = 0 THEN Ok(<<>>, start) ELSE turn(e[i - 1])
    <3>1. CASE i = 0
      BY <1>8, <3>1
    <3>2. CASE i # 0
      <4>1. i - 1 \in Nat /\ i - 1 < end /\ (i - 1) + 1 = i /\ i - 1 \in 0 .. end
        BY <1>5, <3>2
      <4>2. turn(have(i - 1)) = have(i)
        BY <1>9, <4>1
      <4>3. e[i - 1] = have(i - 1)
        BY <4>1
      <4>. QED
        BY <3>2, <4>2, <4>3
    <3>. QED
      BY <3>1, <3>2
  <2>2. e = [i \in 0 .. end |-> IF i = 0 THEN Ok(<<>>, start) ELSE turn(e[i - 1])]
    BY <2>1
  <2>. QED
    BY <2>2
<1>11. IsAfter(after)
  BY <1>10
<1> HIDE DEF after
<1>12. \A i \in 0 .. end : after[i] = have(i)
  <2> DEFINE h == [i \in Nat |-> have(i)]
  <2>1. after[0] = have(0)
    BY <1>5, <1>8, <1>11
  <2>2. ASSUME NEW i \in 1 .. end, after[i - 1] = have(i - 1) PROVE after[i] = have(i)
    <3>1. i \in 0 .. end /\ i # 0 /\ i - 1 \in Nat /\ i - 1 < end /\ (i - 1) + 1 = i
      BY <1>5
    <3>2. after[i] = turn(after[i - 1])
      BY <1>11, <3>1
    <3>3. turn(have(i - 1)) = have(i)
      BY <1>9, <3>1
    <3>. QED
      BY <2>2, <3>2, <3>3
  <2>3. \A i \in Nat : h[i] = have(i)
    OBVIOUS
  <2>4. \A i \in 0 .. end : i \in Nat /\ (i # 0 => i - 1 \in Nat)
    OBVIOUS
  <2> HIDE DEF h
  <2>5. after[0] = h[0] /\ \A i \in 1 .. end : after[i - 1] = h[i - 1] => after[i] = h[i]
    <3>1. \A i \in 1 .. end : i \in Nat /\ i - 1 \in Nat
      BY <1>5
    <3>. QED
      BY <2>1, <2>2, <2>3, <3>1
  <2>6. \A i \in 0 .. end : after[i] = h[i]
    BY <1>5, <2>5, ChainIs, Zenon
  <2>. QED
    BY <2>3, <2>4, <2>6
<1>13. over(after[n])
  <2>1. n \in 0 .. end /\ n \in Nat /\ n >= n
    BY <1>3, <1>5
  <2>2. after[n] = Ok(vs, end)
    BY <1>8, <1>12, <2>1
  <2>. QED
    BY <1>5, <2>2 DEF over, Ok
<1>14. first \in 0 .. end /\ over(after[first])
  <2>1. n \in 0 .. end
    BY <1>3, <1>5
  <2>. QED
    BY <1>13, <2>1
<1> HIDE DEF first
<1>15. first >= n
  <2> SUFFICES ASSUME first < n PROVE FALSE
    BY <1>3, <1>14
  <2>1. first \in Nat /\ off[first] < end /\ off[first] \in Nat
    BY <1>3, <1>4, <1>6, <1>14
  <2>2. after[first] = Ok(SubSeq(vs, 1, first), off[first])
    BY <1>3, <1>12, <1>14 DEF have
  <2>. QED
    BY <1>5, <1>14, <2>1, <2>2 DEF over, Ok
<1>16. first \in Nat
  BY <1>14
<1>. QED
  BY <1>1, <1>8, <1>12, <1>14, <1>15, <1>16

\* The frames fs lie in d, one behind the other: off is where each of them ends, the
\* last one at end.
FramesLie(d, fs, start, end, off) ==
    /\ off[0] = start /\ off[Len(fs)] = end
    /\ \A i \in 1 .. Len(fs) :
          /\ off[i - 1] \in Nat /\ off[i] = off[i - 1] + Len(fs[i]) /\ off[i] <= end
          /\ \E r \in Seq(Nat) : /\ From(d, off[i - 1] + 1) = fs[i] \o r
                                 /\ Len(d) = off[i - 1] + Len(fs[i]) + Len(r)

\* So they do when they are flattened.
LEMMA FlattenedLie ==
  ASSUME NEW a \in Seq(Nat), NEW fs \in Seq(Seq(Nat)), NEW b \in Seq(Nat)
  PROVE  \E off : FramesLie((a \o FlattenSeq(fs)) \o b, fs, Len(a), Len(a) + Len(FlattenSeq(fs)), off)
<1> DEFINE n == Len(fs)
           w == FlattenSeq(fs)
           d == (a \o w) \o b
           start == Len(a)
           end == start + Len(w)
<1>1. n \in Nat /\ \A i \in 1 .. n : fs[i] \in Seq(Nat)
  BY LenProperties, ElementOfSeq
<1>2. PICK f \in [0 .. n -> Seq(Nat)] :
        /\ f[0] = <<>>
        /\ \A i \in 1 .. n : f[i] = f[i - 1] \o fs[i]
        /\ w = f[n]
  BY FlattenIsChain
<1> HIDE DEF n, w
<1>3. w \in Seq(Nat) /\ Len(w) \in Nat /\ start \in Nat
  <2>1. n \in 0 .. n
    BY <1>1
  <2>2. w \in Seq(Nat)
    BY <1>2, <2>1
  <2>. QED
    BY <2>2, LenProperties
<1> HIDE DEF start
<1>4. \A i \in 1 .. n : /\ f[i - 1] \in Seq(Nat) /\ f[i] = f[i - 1] \o fs[i] /\ fs[i] \in Seq(Nat)
                        /\ Len(f[i - 1]) \in Nat /\ Len(fs[i]) \in Nat
                        /\ Len(f[i]) = Len(f[i - 1]) + Len(fs[i])
  <2> SUFFICES ASSUME NEW i \in 1 .. n
               PROVE  /\ f[i - 1] \in Seq(Nat) /\ f[i] = f[i - 1] \o fs[i] /\ fs[i] \in Seq(Nat)
                      /\ Len(f[i - 1]) \in Nat /\ Len(fs[i]) \in Nat
                      /\ Len(f[i]) = Len(f[i - 1]) + Len(fs[i])
    OBVIOUS
  <2>1. i - 1 \in 0 .. n
    BY <1>1
  <2>2. f[i - 1] \in Seq(Nat) /\ fs[i] \in Seq(Nat) /\ f[i] = f[i - 1] \o fs[i]
    BY <1>1, <1>2, <2>1
  <2>. QED
    BY <2>2, Parts
\* What is behind the frames up to i.
<1>5. \A i \in 0 .. n : \E z \in Seq(Nat) : w = f[i] \o z
  <2> DEFINE P(k) == k <= n => \E z \in Seq(Nat) : w = f[n - k] \o z
             G == {k \in Nat : P(k)}
  <2>1. 0 \in G
    <3>1. w = w \o <<>> /\ <<>> \in Seq(Nat)
      BY <1>3, ConcatEmptySeq
    <3>2. n - 0 = n
      BY <1>1
    <3>3. \E z \in Seq(Nat) : w = f[n - 0] \o z
      BY <1>2, <3>1, <3>2
    <3>. QED
      BY <3>3
  <2>2. ASSUME NEW k \in Nat, k \in G PROVE k + 1 \in G
    <3> SUFFICES P(k + 1)
      <4> HIDE DEF P
      <4>. QED
        OBVIOUS
    <3> SUFFICES ASSUME k + 1 <= n PROVE \E z \in Seq(Nat) : w = f[n - (k + 1)] \o z
      OBVIOUS
    <3> DEFINE i == n - k
    <3>1. i \in 1 .. n /\ i - 1 = n - (k + 1) /\ k <= n
      BY <1>1
    <3>2. PICK z \in Seq(Nat) : w = f[i] \o z
      BY <2>2, <3>1
    <3> HIDE DEF i
    <3>3. f[i - 1] \in Seq(Nat) /\ fs[i] \in Seq(Nat) /\ f[i] = f[i - 1] \o fs[i]
      BY <1>4, <3>1
    <3>4. w = f[i - 1] \o (fs[i] \o z)
      <4> DEFINE y == f[i - 1]
                 x == fs[i]
      <4>1. y \in Seq(Nat) /\ x \in Seq(Nat) /\ w = (y \o x) \o z
        BY <3>2, <3>3
      <4> HIDE DEF x, y
      <4>2. w = y \o (x \o z)
        BY <4>1, Brackets, Zenon
      <4>. QED
        BY <4>2 DEF x, y
    <3>5. fs[i] \o z \in Seq(Nat)
      BY <3>3, Parts
    <3>. QED
      BY <3>1, <3>4, <3>5
  <2> HIDE DEF G
  <2>3. \A k \in Nat : k \in G
    BY <2>1, <2>2, NaturalInduction
  <2>4. \A k \in Nat : k <= n => \E z \in Seq(Nat) : w = f[n - k] \o z
    BY <2>3 DEF G
  <2>5. ASSUME NEW i \in 0 .. n PROVE \E z \in Seq(Nat) : w = f[i] \o z
    <3>1. n - i \in Nat /\ n - i <= n /\ n - (n - i) = i
      BY <1>1
    <3>. QED
      BY <2>4, <3>1
  <2>. QED
    BY <2>5
<1> DEFINE off == [i \in 0 .. n |-> start + Len(f[i])]
<1>6. \A i \in 0 .. n : off[i] = start + Len(f[i])
  OBVIOUS
<1> HIDE DEF off
<1>7. off[0] = start /\ off[n] = end
  <2>1. 0 \in 0 .. n /\ n \in 0 .. n
    BY <1>1
  <2>2. Len(f[0]) = 0
    BY <1>2
  <2>3. off[0] = start + 0
    BY <1>6, <2>1, <2>2
  <2>4. off[n] = start + Len(w)
    BY <1>2, <1>6, <2>1
  <2>. QED
    BY <1>3, <2>3, <2>4
<1>8. ASSUME NEW i \in 1 .. n
      PROVE  /\ off[i - 1] \in Nat /\ off[i] = off[i - 1] + Len(fs[i]) /\ off[i] <= end
             /\ \E r \in Seq(Nat) : /\ From(d, off[i - 1] + 1) = fs[i] \o r
                                    /\ Len(d) = off[i - 1] + Len(fs[i]) + Len(r)
  <2> DEFINE y == f[i - 1]
             x == fs[i]
  <2>1. i - 1 \in 0 .. n /\ i \in 0 .. n
    BY <1>1
  <2>2. y \in Seq(Nat) /\ x \in Seq(Nat) /\ Len(y) \in Nat /\ Len(x) \in Nat
        /\ f[i] = y \o x /\ Len(f[i]) = Len(y) + Len(x)
    BY <1>4
  <2>3. off[i - 1] = start + Len(y) /\ off[i] = start + (Len(y) + Len(x))
    BY <1>6, <2>1, <2>2
  <2>4. PICK z \in Seq(Nat) : w = f[i] \o z
    BY <1>5, <2>1
  <2> HIDE DEF x, y
  <2>5. y \o x \in Seq(Nat) /\ Len(w) = (Len(y) + Len(x)) + Len(z) /\ Len(z) \in Nat
    BY <2>2, <2>4, Parts
  <2> DEFINE r == z \o b
             p == a \o y
             q == x \o r
  <2>6. r \in Seq(Nat) /\ p \in Seq(Nat) /\ Len(r) = Len(z) + Len(b) /\ Len(p) = start + Len(y)
        /\ Len(b) \in Nat
    BY <2>2, Parts DEF start
  <2>7. d = p \o q
    <3> DEFINE u == x \o z
    <3>1. u \in Seq(Nat) /\ w = y \o u
      <4>1. u \in Seq(Nat)
        BY <2>2, NatParts, Zenon
      <4>2. w = (y \o x) \o z
        BY <2>2, <2>4
      <4>. QED
        BY <2>2, <4>1, <4>2, Brackets, ZenonT(30)
    <3>2. u \o b = q
      BY <2>2, Brackets, Zenon
    <3> HIDE DEF u, q
    <3>3. a \o w = p \o u
      BY <2>2, <3>1, Brackets, Zenon
    <3> HIDE DEF p
    <3>4. (p \o u) \o b = p \o (u \o b)
      BY <2>6, <3>1, Brackets, ZenonT(30)
    <3>. QED
      BY <3>2, <3>3, <3>4
  <2> HIDE DEF r, p
  <2>8. q \in Seq(Nat) /\ Len(q) = Len(x) + Len(r)
    BY <2>2, <2>6, NatParts, Zenon
  <2> HIDE DEF q
  <2> HIDE DEF d
  <2>9. From(d, Len(p) + 1) = q /\ Len(d) = Len(p) + Len(q)
    BY <2>6, <2>7, <2>8, NatParts, Zenon
  <2>10. off[i - 1] \in Nat /\ off[i] = off[i - 1] + Len(x) /\ off[i] <= end
    BY <1>3, <2>2, <2>3, <2>5
  <2>11. From(d, off[i - 1] + 1) = x \o r /\ Len(d) = off[i - 1] + Len(x) + Len(r)
    <3>1. off[i - 1] = Len(p)
      BY <2>3, <2>6
    <3>2. Len(p) \in Nat /\ Len(r) \in Nat
      BY <2>6, LenProperties
    <3>3. From(d, off[i - 1] + 1) = q /\ Len(d) = off[i - 1] + Len(q)
      BY <2>9, <3>1
    <3>4. Len(d) = off[i - 1] + Len(x) + Len(r)
      BY <2>2, <2>8, <2>10, <3>2, <3>3
    <3>. QED
      BY <3>3, <3>4 DEF q
  <2>. QED
    BY <2>6, <2>10, <2>11 DEF x
<1> HIDE DEF d, end
<1>9. FramesLie(d, fs, start, end, off)
  BY <1>7, <1>8 DEF FramesLie, n
<1>. QED
  BY <1>9 DEF d, end, start, w

-----------------------------------------------------------------------------
(* Properties *)

\* The first element of the bytes from some position, and those behind it.
LEMMA OneFurther ==
  ASSUME NEW S, NEW d \in Seq(S), NEW pos \in Nat, pos < Len(d)
  PROVE  /\ From(d, pos + 1)[1] = d[pos + 1]
         /\ From(d, pos + 2) = From(From(d, pos + 1), 2)
<1>1. From(d, pos + 1)[1] = d[pos + 1]
  BY DEF From
<1>2. From(d, pos + 2) = From(From(d, pos + 1), 2)
  BY DEF From
<1>. QED
  BY <1>1, <1>2

\* One element in front.
LEMMA InFront ==
  ASSUME NEW n \in Nat, NEW e \in Seq(Nat)
  PROVE  /\ <<n>> \o e \in Seq(Nat) /\ Len(<<n>> \o e) = 1 + Len(e)
         /\ (<<n>> \o e)[1] = n /\ From(<<n>> \o e, 2) = e
<1> DEFINE one == <<n>>
<1>1. one \in Seq(Nat) /\ Len(one) = 1 /\ one[1] = n /\ 1 + 1 = 2
  OBVIOUS
<1> HIDE DEF one
<1>2. /\ one \o e \in Seq(Nat) /\ Len(one \o e) = Len(one) + Len(e)
      /\ From(one \o e, Len(one) + 1) = e
  BY <1>1, NatParts, Zenon
<1>3. (one \o e)[1] = n
  <2>1. 1 \in 1 .. Len(one) + Len(e) /\ 1 <= Len(one)
    BY <1>1, LenProperties
  <2>2. (one \o e)[1] = one[1]
    BY <1>1, <2>1, ConcatProperties
  <2>. QED
    BY <1>1, <2>2
<1>4. From(one \o e, 2) = e
  BY <1>1, <1>2
<1>. QED
  BY <1>1, <1>2, <1>3, <1>4 DEF one

\* A property as DecodeProperties takes it at a position, when properties end at end.
PropertyOf(id, v) == IF v.ok THEN Ok(<<id, v.value>>, 1 + v.used) ELSE Fail
PropertyAt(d, pos, end) ==
    PropertyOf(d[pos + 1], DecodeValue(PropertyKind(d[pos + 1]), From(d, pos + 2), end - pos - 1))

IsProperty(p) == p = <<p[1], p[2]>> /\ IsValue(PropertyKind(p[1]), p[2])

\* A property is read back from its place in a list that ends behind it.
LEMMA PropertyBack ==
  ASSUME Width, NEW p, IsProperty(p)
  PROVE  /\ EncodeProperty(p) \in Seq(Nat) /\ Len(EncodeProperty(p)) \in Nat \ {0}
         /\ \A d \in Seq(Nat), pos \in Nat, end \in Nat, r \in Seq(Nat) :
              /\ From(d, pos + 1) = EncodeProperty(p) \o r
              /\ Len(d) = pos + Len(EncodeProperty(p)) + Len(r)
              /\ pos + Len(EncodeProperty(p)) <= end /\ end <= Len(d)
              => PropertyAt(d, pos, end) = Ok(p, Len(EncodeProperty(p)))
<1> DEFINE id == p[1]
           v == p[2]
           kind == PropertyKind(id)
           e == EncodeValue(kind, v)
           one == <<id>>
           f == one \o e
<1>1. EncodeProperty(p) = f
  BY DEF EncodeProperty
<1>2. id \in Nat
  <2>1. kind # "unknown"
    <3> HIDE DEF kind
    <3>1. IsValue(kind, v)
      BY DEF IsProperty, kind
    <3>. QED
      BY <3>1 DEF IsValue
  <2> HIDE DEF id
  <2>2. SUFFICES ASSUME id \notin Nat PROVE FALSE
    OBVIOUS
  <2>3. PropertyKind(id) = "unknown"
    BY <2>2 DEF PropertyKind
  <2>. QED
    BY <2>1, <2>3
<1>3. ReadsAs(kind, e, v)
  BY ValueReads DEF IsProperty
<1>4. p = <<id, v>>
  BY DEF IsProperty
<1> HIDE DEF id, v, kind
<1> HIDE DEF e
<1>5. /\ e \in Seq(Nat) /\ Len(e) \in Nat \ {0}
      /\ \A r \in Seq(Nat), room \in Nat : Len(e) <= room /\ room <= Len(e) + Len(r) =>
            DecodeValue(kind, e \o r, room) = Ok(v, Len(e))
  BY <1>3 DEF ReadsAs
<1>6. f \in Seq(Nat) /\ Len(f) = 1 + Len(e) /\ Len(f) \in Nat \ {0}
  <2>1. f \in Seq(Nat) /\ Len(f) = 1 + Len(e)
    BY <1>2, <1>5, InFront
  <2>. QED
    BY <1>5, <2>1
<1>7. ASSUME NEW r \in Seq(Nat)
      PROVE  (f \o r)[1] = id /\ From(f \o r, 2) = e \o r
  <2>1. e \o r \in Seq(Nat)
    BY <1>5, NatParts
  <2>2. one \in Seq(Nat)
    BY <1>2
  <2> DEFINE g == one \o (e \o r)
  <2>3. g[1] = id /\ From(g, 2) = e \o r
    BY <1>2, <2>1, InFront
  <2> HIDE DEF one
  <2>4. f \o r = g
    BY <1>5, <2>2, Brackets, Zenon
  <2>. QED
    BY <2>3, <2>4
<1> HIDE DEF f
<1>8. ASSUME NEW d \in Seq(Nat), NEW pos \in Nat, NEW end \in Nat, NEW r \in Seq(Nat),
             From(d, pos + 1) = f \o r, Len(d) = pos + Len(f) + Len(r),
             pos + Len(f) <= end, end <= Len(d)
      PROVE  PropertyAt(d, pos, end) = Ok(p, Len(f))
  <2>1. Len(r) \in Nat
    BY LenProperties
  <2>2. pos < Len(d)
    BY <1>6, <1>8, <2>1
  <2>3. From(d, pos + 1)[1] = d[pos + 1] /\ From(d, pos + 2) = From(From(d, pos + 1), 2)
    BY <2>2, OneFurther
  <2>4. d[pos + 1] = id /\ From(d, pos + 2) = e \o r
    BY <1>7, <1>8, <2>3
  <2> DEFINE room == end - pos - 1
             w == DecodeValue(kind, e \o r, room)
  <2>5. room \in Nat /\ Len(e) <= room /\ room <= Len(e) + Len(r)
    BY <1>5, <1>6, <1>8, <2>1
  <2>6. w = Ok(v, Len(e))
    BY <1>5, <2>5
  <2>7. w.ok /\ w.value = v /\ w.used = Len(e)
    BY <2>6 DEF Ok
  <2>8. PropertyAt(d, pos, end) = PropertyOf(id, w)
    BY <2>4 DEF PropertyAt, kind
  <2> HIDE DEF w
  <2>9. PropertyOf(id, w) = Ok(<<id, v>>, 1 + Len(e))
    BY <2>7 DEF PropertyOf
  <2>. QED
    BY <1>4, <1>6, <2>8, <2>9
<1>. QED
  BY <1>1, <1>6, <1>8

IsProperties(ps) ==
    /\ ps \in Seq({ps[i] : i \in DOMAIN ps})
    /\ \A i \in DOMAIN ps : IsProperty(ps[i])
    /\ Len(EncodeProperties(ps)) <= LongestProperties

\* Properties are read back.
LEMMA PropertiesBack ==
  ASSUME Width, NEW ps, IsProperties(ps)
  PROVE  /\ EncodeProperties(ps) \in Seq(Nat)
         /\ \A rest \in Seq(Nat) :
              DecodeProperties(EncodeProperties(ps) \o rest) = Ok(ps, Len(EncodeProperties(ps)))
<1> DEFINE fs == [i \in DOMAIN ps |-> EncodeProperty(ps[i])]
           body == FlattenSeq(fs)
           m == Len(body)
           len == EncodeLength(m)
           e == len \o body
           V == {ps[i] : i \in DOMAIN ps}
<1>1. EncodeProperties(ps) = e
  BY DEF EncodeProperties
<1>2. ps \in Seq(V) /\ (\A i \in DOMAIN ps : IsProperty(ps[i])) /\ Len(e) <= LongestProperties
  BY <1>1 DEF IsProperties
<1>3. Len(ps) \in Nat /\ DOMAIN ps = 1 .. Len(ps)
  <2> HIDE DEF V
  <2>. QED
    BY <1>2, LenProperties
<1>4. fs \in Seq(Seq(Nat)) /\ Len(fs) = Len(ps)
      /\ \A i \in 1 .. Len(ps) : fs[i] = EncodeProperty(ps[i]) /\ IsProperty(ps[i])
  <2>1. \A i \in DOMAIN ps : EncodeProperty(ps[i]) \in Seq(Nat)
    BY <1>2, PropertyBack
  <2>. QED
    BY <1>2, <1>3, <2>1
<1> HIDE DEF fs, V
<1>5. body \in Seq(Nat) /\ m \in Nat
  <2>1. body \in Seq(Nat)
    BY <1>4, FlattenLaws
  <2>. QED
    BY <2>1, LenProperties
<1> HIDE DEF body
<1> HIDE DEF m
<1>6. len \in Seq(Nat) /\ Len(len) \in Nat \ {0}
  BY <1>5, EncodeLengthTyped
<1> HIDE DEF len
<1>7. e \in Seq(Nat) /\ Len(e) = Len(len) + m
  BY <1>5, <1>6, NatParts DEF m
<1>8. FitsLength(m)
  <2>1. m < LengthLimit
    <3>1. m <= LongestProperties
      <4> DEFINE q == LongestProperties
      <4>1. Len(e) <= q
        BY <1>2
      <4>2. q \in Nat
        BY SMT DEF LongestProperties
      <4> HIDE DEF q
      <4>3. m <= q
        BY <1>5, <1>6, <1>7, <4>1, <4>2
      <4>. QED
        BY <4>3 DEF q
    <3>. QED
      BY <1>5, <3>1, SMT DEF LongestProperties, LengthLimit
  <2>. QED
    BY <1>5, <2>1, FourLengthBytes
<1>9. ASSUME NEW rest \in Seq(Nat)
      PROVE  DecodeProperties(e \o rest) = Ok(ps, Len(e))
  <2> DEFINE d == e \o rest
             start == Len(len)
             end == start + m
             item == [pos \in 0 .. Len(d) - 1 |-> PropertyAt(d, pos, end)]
             n == DecodeLength(d)
  <2>1. d \in Seq(Nat) /\ Len(d) = Len(e) + Len(rest) /\ Len(rest) \in Nat
    BY <1>7, NatParts
  <2>2. HasLength(d) /\ n = [value |-> m, bytes |-> start]
    <3>1. d = len \o (body \o rest)
      BY <1>5, <1>6, Brackets, Zenon
    <3>2. body \o rest \in Seq(Nat)
      BY <1>5, NatParts
    <3> HIDE DEF d
    <3>. QED
      BY <1>8, <3>1, <3>2, LengthBack DEF len
  <2>3. PICK off : FramesLie(d, fs, start, end, off)
    BY <1>4, <1>5, <1>6, FlattenedLie DEF body, m
  <2> HIDE DEF d, n
  <2>4. start \in Nat /\ end \in Nat /\ start > 0 /\ end <= Len(d) /\ end = Len(e)
    BY <1>5, <1>6, <1>7, <2>1
  <2> HIDE DEF start, end
  <2>5. off[0] = start /\ off[Len(ps)] = end
        /\ \A i \in 1 .. Len(ps) :
             /\ off[i - 1] \in Nat /\ off[i] = off[i - 1] + Len(fs[i]) /\ off[i] <= end
             /\ \E r \in Seq(Nat) : /\ From(d, off[i - 1] + 1) = fs[i] \o r
                                    /\ Len(d) = off[i - 1] + Len(fs[i]) + Len(r)
    BY <1>4, <2>3 DEF FramesLie
  <2>6. ItemsLie(item, start, end, ps, fs, off)
    <3>1. ASSUME NEW i \in 1 .. Len(ps)
          PROVE  Len(fs[i]) \in Nat \ {0} /\ item[off[i - 1]] = Ok(ps[i], Len(fs[i]))
      <4> DEFINE p == ps[i]
                 f == EncodeProperty(p)
                 pos == off[i - 1]
      <4>1. IsProperty(p) /\ fs[i] = f
        BY <1>4
      <4> HIDE DEF p
      <4>2. /\ f \in Seq(Nat) /\ Len(f) \in Nat \ {0}
            /\ \A dd \in Seq(Nat), pp \in Nat, ee \in Nat, r \in Seq(Nat) :
                 /\ From(dd, pp + 1) = f \o r
                 /\ Len(dd) = pp + Len(f) + Len(r)
                 /\ pp + Len(f) <= ee /\ ee <= Len(dd)
                 => PropertyAt(dd, pp, ee) = Ok(p, Len(f))
        BY <4>1, PropertyBack
      <4>3. pos \in Nat /\ pos + Len(f) <= end
        BY <2>5, <4>1
      <4>4. PICK r \in Seq(Nat) : From(d, pos + 1) = f \o r /\ Len(d) = pos + Len(f) + Len(r)
        BY <2>5, <4>1
      <4> HIDE DEF f, pos
      <4>5. PropertyAt(d, pos, end) = Ok(p, Len(f))
        BY <2>1, <2>4, <4>2, <4>3, <4>4
      <4>6. pos \in 0 .. Len(d) - 1
        BY <2>1, <2>4, <4>2, <4>3
      <4>7. item[pos] = PropertyAt(d, pos, end)
        BY <4>6
      <4>. QED
        BY <4>1, <4>2, <4>5, <4>7 DEF p, pos
    <3> HIDE DEF item
    <3>2. ps \in Seq({ps[i] : i \in DOMAIN ps})
      BY <1>2 DEF V
    <3>. QED
      BY <1>4, <2>4, <2>5, <3>1, <3>2 DEF ItemsLie
  <2>7. ReadItems(item, start, end) = Ok(ps, end)
    <3> HIDE DEF item
    <3>. QED
      BY <2>6, ItemsRead
  <2> DEFINE until(x) == IF x.ok THEN Ok(x.value, end) ELSE Fail
  <2>8. d # <<>>
    <3>1. end > 0
      BY <1>5, <2>4 DEF end
    <3>. QED
      BY <2>1, <2>4, <3>1
  <2>9. DecodeProperties(d) = until(ReadItems(item, start, end))
    <3>1. n.bytes = start /\ n.value = m /\ end = n.bytes + n.value
      BY <2>2 DEF end
    <3>2. Len(d) >= n.bytes + n.value
      BY <2>1, <2>4, <3>1
    <3>. QED
      BY <2>2, <2>8, <3>1, <3>2 DEF DecodeProperties, PropertyAt, PropertyOf, n
  <2>10. until(Ok(ps, end)) = Ok(ps, end)
    BY DEF Ok
  <2>. QED
    BY <2>4, <2>7, <2>9, <2>10 DEF d
<1>. QED
  BY <1>1, <1>7, <1>9

-----------------------------------------------------------------------------
(* Lists *)

\* The items of a list are read up to its end: vs from their frames fs, whatever is
\* behind each of them.
LEMMA ListRead ==
  ASSUME NEW vs, vs \in Seq({vs[i] : i \in DOMAIN vs}), NEW fs \in Seq(Seq(Nat)), Len(fs) = Len(vs),
         NEW item,
         \A i \in 1 .. Len(vs) :
            /\ Len(fs[i]) \in Nat \ {0}
            /\ \A pos \in 0 .. Len(FlattenSeq(fs)) - 1, r \in Seq(Nat) :
                 From(FlattenSeq(fs), pos + 1) = fs[i] \o r => item[pos] = Ok(vs[i], Len(fs[i]))
  PROVE  ReadItems(item, 0, Len(FlattenSeq(fs))) = Ok(vs, Len(FlattenSeq(fs)))
<1> DEFINE d == FlattenSeq(fs)
           none == <<>>
           V == {vs[i] : i \in DOMAIN vs}
<1>1. d \in Seq(Nat)
  BY FlattenLaws
<1>2. none \in Seq(Nat) /\ Len(none) = 0 /\ (none \o d) \o none = d
  BY <1>1, ConcatEmptySeq
<1>3. Len(d) \in Nat
  BY <1>1, LenProperties
<1> HIDE DEF none
<1>4. PICK off : FramesLie((none \o d) \o none, fs, Len(none), Len(none) + Len(d), off)
  BY <1>2, FlattenedLie
<1>5. FramesLie(d, fs, 0, Len(d), off)
  <2>1. Len(none) + Len(d) = Len(d)
    BY <1>2, <1>3
  <2> HIDE DEF d
  <2>. QED
    BY <1>2, <1>4, <2>1
<1>6. \A i \in 1 .. Len(vs) :
            /\ Len(fs[i]) \in Nat \ {0}
            /\ \A pos \in 0 .. Len(d) - 1, r \in Seq(Nat) :
                 From(d, pos + 1) = fs[i] \o r => item[pos] = Ok(vs[i], Len(fs[i]))
  OBVIOUS
<1>7. Len(vs) \in Nat /\ vs \in Seq(V)
  <2>1. vs \in Seq(V)
    OBVIOUS
  <2> HIDE DEF V
  <2>. QED
    BY <2>1, LenProperties
<1> HIDE DEF d
<1>8. off[0] = 0 /\ off[Len(vs)] = Len(d)
      /\ \A i \in 1 .. Len(vs) :
           /\ off[i - 1] \in Nat /\ off[i] = off[i - 1] + Len(fs[i]) /\ off[i] <= Len(d)
           /\ \E r \in Seq(Nat) : /\ From(d, off[i - 1] + 1) = fs[i] \o r
                                  /\ Len(d) = off[i - 1] + Len(fs[i]) + Len(r)
  BY <1>5 DEF FramesLie
<1>9. ItemsLie(item, 0, Len(d), vs, fs, off)
  <2>1. ASSUME NEW i \in 1 .. Len(vs) PROVE item[off[i - 1]] = Ok(vs[i], Len(fs[i]))
    <3> DEFINE pos == off[i - 1]
    <3>1. PICK r \in Seq(Nat) : From(d, pos + 1) = fs[i] \o r
      BY <1>8
    <3>2. pos \in 0 .. Len(d) - 1
      <4>1. pos \in Nat /\ off[i] = pos + Len(fs[i]) /\ off[i] <= Len(d) /\ Len(fs[i]) \in Nat \ {0}
        BY <1>6, <1>8
      <4> HIDE DEF pos
      <4>. QED
        BY <1>3, <4>1
    <3> HIDE DEF pos
    <3>3. item[pos] = Ok(vs[i], Len(fs[i]))
      BY <1>6, <3>1, <3>2
    <3>. QED
      BY <3>3 DEF pos
  <2>. QED
    BY <1>6, <1>7, <1>8, <2>1 DEF ItemsLie
<1>. QED
  BY <1>9, ItemsRead DEF d

\* A string and a byte behind it.
LEMMA StringAndByte ==
  ASSUME NEW s, IsString(s), NEW b \in Nat
  PROVE  /\ EncodeString(s) \o <<b>> \in Seq(Nat) /\ Len(EncodeString(s) \o <<b>>) = (2 + Len(s)) + 1
         /\ Len(s) \in Nat
         /\ \A r \in Seq(Nat) :
              LET d == (EncodeString(s) \o <<b>>) \o r
              IN  /\ DecodeString(d) = Ok(s, 2 + Len(s))
                  /\ Len(d) > 2 + Len(s) /\ d[(2 + Len(s)) + 1] = b
<1> DEFINE e == EncodeString(s)
           one == <<b>>
           n == 2 + Len(s)
<1>1. e \in Seq(Nat) /\ Len(e) = n /\ Len(s) \in Nat
  BY StringShort, BinaryBack DEF TwoByteLong
<1>2. one \in Seq(Nat) /\ Len(one) = 1 /\ one[1] = b
  OBVIOUS
<1>3. \A r \in Seq(Nat) : DecodeString(e \o r) = Ok(s, n)
  BY StringBack
<1>4. n \in Nat
  BY <1>1
<1> HIDE DEF e, one, n
<1>5. e \o one \in Seq(Nat) /\ Len(e \o one) = n + 1
  BY <1>1, <1>2, NatParts, ZenonT(30)
<1>6. ASSUME NEW r \in Seq(Nat)
      PROVE  LET d == (e \o one) \o r
             IN  DecodeString(d) = Ok(s, n) /\ Len(d) > n /\ d[n + 1] = b
  <2> DEFINE t == one \o r
             d == (e \o one) \o r
  <2>1. t \in Seq(Nat) /\ Len(t) = 1 + Len(r) /\ Len(r) \in Nat /\ d = e \o t
    BY <1>1, <1>2, NatParts, Brackets, ZenonT(30)
  <2>2. t[1] = b
    BY <1>2, InFront DEF one
  <2> HIDE DEF t, d
  <2>3. DecodeString(d) = Ok(s, n)
    BY <1>3, <2>1
  <2>4. Len(d) = n + (1 + Len(r))
    BY <1>1, <2>1, NatParts
  <2>5. d[n + 1] = t[1]
    <3>1. n + 1 \in 1 .. Len(e) + Len(t) /\ ~(n + 1 <= Len(e)) /\ (n + 1) - Len(e) = 1
      BY <1>1, <1>4, <2>1
    <3>. QED
      BY <1>1, <2>1, <3>1, ConcatProperties
  <2>. QED
    BY <1>4, <2>1, <2>2, <2>3, <2>4, <2>5 DEF d
<1>. QED
  BY <1>1, <1>5, <1>6 DEF e, one, n

\* The options of a filter are four fields that do not meet.
LEMMA FilterBits ==
  ASSUME NEW q \in 0 .. 2, NEW a \in BOOLEAN, NEW c \in BOOLEAN, NEW h \in 0 .. 2
  PROVE  LET b == q + Flag(a, 4) + Flag(c, 8) + 16 * h
         IN  b \in Nat /\ b % 4 = q /\ Bit(b, 4) = a /\ Bit(b, 8) = c /\ (b \div 16) % 4 = h
<1> DEFINE x == IF a THEN 1 ELSE 0
           y == IF c THEN 1 ELSE 0
           b == q + 4 * x + 8 * y + 16 * h
<1>1. Flag(a, 4) = 4 * x /\ Flag(c, 8) = 8 * y /\ x \in 0 .. 1 /\ y \in 0 .. 1
      /\ a = (x = 1) /\ c = (y = 1)
  BY DEF Flag
<1> HIDE DEF x, y
<1>2. b \in Nat /\ b % 4 = q /\ b \div 4 = x + 2 * y + 4 * h /\ b \div 8 = y + 2 * h
      /\ b \div 16 = h
  BY <1>1, SMT
<1> HIDE DEF b
<1>3. (x + 2 * y + 4 * h) % 2 = x /\ (y + 2 * h) % 2 = y /\ h % 4 = h
  BY <1>1, SMT
<1>4. Bit(b, 4) = a /\ Bit(b, 8) = c /\ (b \div 16) % 4 = h
  BY <1>1, <1>2, <1>3 DEF Bit
<1>. QED
  BY <1>1, <1>2, <1>4 DEF b

\* A frame e is read as v by some item, whatever is behind it.
LEMMA FilterV3Back ==
  ASSUME NEW f \in [path : Text, qos : 0 .. 2]
  PROVE  /\ EncodeFilterV3(f) \in Seq(Nat) /\ Len(EncodeFilterV3(f)) \in Nat \ {0}
         /\ \A r \in Seq(Nat) : DecodeFilterV3(EncodeFilterV3(f) \o r) = Ok(f, Len(EncodeFilterV3(f)))
<1> DEFINE s == f.path
           b == f.qos
           e == EncodeFilterV3(f)
<1>1. IsString(s) /\ b \in 0 .. 2 /\ b \in Nat
  BY TextAssumption
<1>2. f = [path |-> s, qos |-> b]
  OBVIOUS
<1>3. e = EncodeString(s) \o <<b>>
  BY DEF EncodeFilterV3
<1> HIDE DEF s, b
<1>4. e \in Seq(Nat) /\ Len(e) = (2 + Len(s)) + 1 /\ Len(s) \in Nat
      /\ \A r \in Seq(Nat) : /\ DecodeString(e \o r) = Ok(s, 2 + Len(s))
                             /\ Len(e \o r) > 2 + Len(s) /\ (e \o r)[(2 + Len(s)) + 1] = b
  BY <1>1, <1>3, StringAndByte
<1> HIDE DEF e
<1>5. ASSUME NEW r \in Seq(Nat) PROVE DecodeFilterV3(e \o r) = Ok(f, Len(e))
  <2> DEFINE d == e \o r
             p == DecodeString(d)
             n == 2 + Len(s)
  <2>1. p = Ok(s, n) /\ Len(d) > n /\ d[n + 1] = b
    BY <1>4
  <2>2. p.ok /\ p.value = s /\ p.used = n
    BY <2>1 DEF Ok
  <2>3. b % 4 = b /\ b <= 2
    BY <1>1
  <2> DEFINE filter(path, qos) ==
               IF path.ok /\ Len(d) > path.used /\ qos <= 2
               THEN Ok([path |-> path.value, qos |-> qos], path.used + 1) ELSE Fail
             options(path) == filter(path, d[path.used + 1] % 4)
  <2>4. DecodeFilterV3(d) = options(p)
    BY DEF DecodeFilterV3
  <2> HIDE DEF p, d, n
  <2>5. options(p) = Ok([path |-> s, qos |-> b], n + 1)
    BY <2>1, <2>2, <2>3
  <2>. QED
    BY <1>2, <1>4, <2>4, <2>5 DEF d, n
<1>. QED
  BY <1>4, <1>5 DEF e

\* A filter of version 5.0 with its options is read back, whatever follows it.
LEMMA FilterV5Back ==
  ASSUME NEW f \in FiltersV5
  PROVE  /\ EncodeFilterV5(f) \in Seq(Nat) /\ Len(EncodeFilterV5(f)) \in Nat \ {0}
         /\ \A r \in Seq(Nat) : DecodeFilterV5(EncodeFilterV5(f) \o r) = Ok(f, Len(EncodeFilterV5(f)))
<1> DEFINE s == f.path
           q == f.qos
           a == f.no_local
           c == f.retain_as_published
           h == f.retain_handling
           b == q + Flag(a, 4) + Flag(c, 8) + 16 * h
           e == EncodeFilterV5(f)
<1>1. IsString(s) /\ q \in 0 .. 2 /\ a \in BOOLEAN /\ c \in BOOLEAN /\ h \in 0 .. 2
  BY TextAssumption DEF FiltersV5
<1>2. f = [path |-> s, qos |-> q, no_local |-> a, retain_as_published |-> c,
           retain_handling |-> h]
  BY DEF FiltersV5
<1>3. e = EncodeString(s) \o <<b>>
  BY DEF EncodeFilterV5
<1> HIDE DEF s, q, a, c, h
<1>4. b \in Nat /\ b % 4 = q /\ Bit(b, 4) = a /\ Bit(b, 8) = c /\ (b \div 16) % 4 = h
  BY <1>1, FilterBits
<1> HIDE DEF b
<1>5. e \in Seq(Nat) /\ Len(e) = (2 + Len(s)) + 1 /\ Len(s) \in Nat
      /\ \A r \in Seq(Nat) : /\ DecodeString(e \o r) = Ok(s, 2 + Len(s))
                             /\ Len(e \o r) > 2 + Len(s) /\ (e \o r)[(2 + Len(s)) + 1] = b
  BY <1>1, <1>3, <1>4, StringAndByte
<1> HIDE DEF e
<1>6. ASSUME NEW r \in Seq(Nat) PROVE DecodeFilterV5(e \o r) = Ok(f, Len(e))
  <2> DEFINE d == e \o r
             p == DecodeString(d)
             n == 2 + Len(s)
             x == [path |-> s, qos |-> q, no_local |-> a, retain_as_published |-> c,
                   retain_handling |-> h]
  <2>1. p = Ok(s, n) /\ Len(d) > n /\ d[n + 1] = b
    BY <1>5
  <2>2. p.ok /\ p.value = s /\ p.used = n
    BY <2>1 DEF Ok
  <2>3. q <= 2 /\ h # 3
    BY <1>1
  <2> DEFINE handling(k) == IF k = 3 THEN 0 ELSE k
             filter(path, options) ==
               IF path.ok /\ Len(d) > path.used /\ options % 4 <= 2
               THEN Ok([path |-> path.value, qos |-> options % 4, no_local |-> Bit(options, 4),
                        retain_as_published |-> Bit(options, 8),
                        retain_handling |-> handling((options \div 16) % 4)], path.used + 1)
               ELSE Fail
             behind(path) == filter(path, d[path.used + 1])
  <2>4. DecodeFilterV5(d) = behind(p)
    BY DEF DecodeFilterV5
  <2> HIDE DEF p, d, n
  <2>5. behind(p) = Ok(x, n + 1)
    BY <1>4, <2>1, <2>2, <2>3
  <2>. QED
    BY <1>2, <1>5, <2>4, <2>5 DEF d, n
<1>. QED
  BY <1>5, <1>6 DEF e

\* A string has its length in front.
LEMMA StringFrame ==
  ASSUME NEW s, IsString(s)
  PROVE  /\ EncodeString(s) \in Seq(Nat) /\ Len(EncodeString(s)) \in Nat \ {0}
         /\ Len(EncodeString(s)) = 2 + Len(s) /\ Len(s) \in TwoBytes
         /\ \A r \in Seq(Nat) : DecodeString(EncodeString(s) \o r) = Ok(s, Len(EncodeString(s)))
<1>1. EncodeString(s) \in Seq(Nat) /\ Len(EncodeString(s)) = 2 + Len(s) /\ Len(s) \in Nat
      /\ Len(s) \in TwoBytes
  BY StringShort, BinaryBack, LenProperties DEF TwoByteLong
<1>2. \A r \in Seq(Nat) : DecodeString(EncodeString(s) \o r) = Ok(s, 2 + Len(s))
  BY StringBack
<1>. QED
  BY <1>1, <1>2

\* Lists of strings are read back.
LEMMA StringsBack ==
  ASSUME NEW list, list \in Seq({list[i] : i \in DOMAIN list}),
         \A i \in DOMAIN list : IsString(list[i])
  PROVE  /\ EncodeList(list, EncodeString) \in Seq(Nat)
         /\ DecodeList(EncodeList(list, EncodeString), DecodeString)
               = Ok(list, Len(EncodeList(list, EncodeString)))
<1> DEFINE fs == [i \in DOMAIN list |-> EncodeString(list[i])]
           d == FlattenSeq(fs)
           V == {list[i] : i \in DOMAIN list}
           item == [pos \in 0 .. Len(d) - 1 |-> DecodeString(From(d, pos + 1))]
<1>1. EncodeList(list, EncodeString) = d /\ DecodeList(d, DecodeString) = ReadItems(item, 0, Len(d))
  BY DEF EncodeList, DecodeList
<1>2. list \in Seq(V)
  OBVIOUS
<1>3. Len(list) \in Nat /\ DOMAIN list = 1 .. Len(list)
  <2> HIDE DEF V
  <2>. QED
    BY <1>2, LenProperties
<1>4. \A i \in DOMAIN list :
        /\ EncodeString(list[i]) \in Seq(Nat) /\ Len(EncodeString(list[i])) \in Nat \ {0}
        /\ \A r \in Seq(Nat) :
             DecodeString(EncodeString(list[i]) \o r) = Ok(list[i], Len(EncodeString(list[i])))
  <2> SUFFICES ASSUME NEW i \in DOMAIN list
               PROVE  /\ EncodeString(list[i]) \in Seq(Nat) /\ Len(EncodeString(list[i])) \in Nat \ {0}
                      /\ \A r \in Seq(Nat) :
                           DecodeString(EncodeString(list[i]) \o r) = Ok(list[i], Len(EncodeString(list[i])))
    OBVIOUS
  <2> DEFINE x == list[i]
  <2>1. IsString(x)
    OBVIOUS
  <2> HIDE DEF x
  <2>2. /\ EncodeString(x) \in Seq(Nat) /\ Len(EncodeString(x)) \in Nat \ {0}
        /\ \A r \in Seq(Nat) : DecodeString(EncodeString(x) \o r) = Ok(x, Len(EncodeString(x)))
    BY <2>1, StringFrame
  <2>. QED
    BY <2>2 DEF x
<1>5. fs \in Seq(Seq(Nat)) /\ Len(fs) = Len(list)
      /\ \A i \in 1 .. Len(list) : fs[i] = EncodeString(list[i])
  BY <1>3, <1>4
<1> HIDE DEF fs, V
<1>6. \A i \in 1 .. Len(list) :
        /\ Len(fs[i]) \in Nat \ {0}
        /\ \A pos \in 0 .. Len(d) - 1, r \in Seq(Nat) :
             From(d, pos + 1) = fs[i] \o r => item[pos] = Ok(list[i], Len(fs[i]))
  <2> SUFFICES ASSUME NEW i \in 1 .. Len(list)
               PROVE  /\ Len(fs[i]) \in Nat \ {0}
                      /\ \A pos \in 0 .. Len(d) - 1, r \in Seq(Nat) :
                           From(d, pos + 1) = fs[i] \o r => item[pos] = Ok(list[i], Len(fs[i]))
    OBVIOUS
  <2>1. Len(fs[i]) \in Nat \ {0}
        /\ \A r \in Seq(Nat) : DecodeString(fs[i] \o r) = Ok(list[i], Len(fs[i]))
    BY <1>3, <1>4, <1>5
  <2> HIDE DEF d
  <2>2. ASSUME NEW pos \in 0 .. Len(d) - 1, NEW r \in Seq(Nat), From(d, pos + 1) = fs[i] \o r
        PROVE  item[pos] = Ok(list[i], Len(fs[i]))
    <3>1. item[pos] = DecodeString(From(d, pos + 1))
      OBVIOUS
    <3>. QED
      BY <2>1, <2>2, <3>1
  <2>. QED
    BY <2>1, <2>2
<1> HIDE DEF item
<1>7. ReadItems(item, 0, Len(d)) = Ok(list, Len(d))
  BY <1>2, <1>5, <1>6, ListRead DEF V
<1>8. d \in Seq(Nat)
  BY <1>5, FlattenLaws
<1>. QED
  BY <1>1, <1>7, <1>8

\* Lists of filters of version 3.1.1 are read back.
LEMMA FiltersV3Back ==
  ASSUME NEW list, list \in Seq({list[i] : i \in DOMAIN list}),
         \A i \in DOMAIN list : list[i] \in [path : Text, qos : 0 .. 2]
  PROVE  /\ EncodeList(list, EncodeFilterV3) \in Seq(Nat)
         /\ DecodeList(EncodeList(list, EncodeFilterV3), DecodeFilterV3)
               = Ok(list, Len(EncodeList(list, EncodeFilterV3)))
<1> DEFINE fs == [i \in DOMAIN list |-> EncodeFilterV3(list[i])]
           d == FlattenSeq(fs)
           V == {list[i] : i \in DOMAIN list}
           item == [pos \in 0 .. Len(d) - 1 |-> DecodeFilterV3(From(d, pos + 1))]
<1>1. EncodeList(list, EncodeFilterV3) = d /\ DecodeList(d, DecodeFilterV3) = ReadItems(item, 0, Len(d))
  BY DEF EncodeList, DecodeList
<1>2. list \in Seq(V)
  OBVIOUS
<1>3. Len(list) \in Nat /\ DOMAIN list = 1 .. Len(list)
  <2> HIDE DEF V
  <2>. QED
    BY <1>2, LenProperties
<1>4. \A i \in DOMAIN list :
        /\ EncodeFilterV3(list[i]) \in Seq(Nat) /\ Len(EncodeFilterV3(list[i])) \in Nat \ {0}
        /\ \A r \in Seq(Nat) :
             DecodeFilterV3(EncodeFilterV3(list[i]) \o r) = Ok(list[i], Len(EncodeFilterV3(list[i])))
  <2> SUFFICES ASSUME NEW i \in DOMAIN list
               PROVE  /\ EncodeFilterV3(list[i]) \in Seq(Nat) /\ Len(EncodeFilterV3(list[i])) \in Nat \ {0}
                      /\ \A r \in Seq(Nat) :
                           DecodeFilterV3(EncodeFilterV3(list[i]) \o r) = Ok(list[i], Len(EncodeFilterV3(list[i])))
    OBVIOUS
  <2> DEFINE x == list[i]
  <2>1. x \in [path : Text, qos : 0 .. 2]
    OBVIOUS
  <2> HIDE DEF x
  <2>2. /\ EncodeFilterV3(x) \in Seq(Nat) /\ Len(EncodeFilterV3(x)) \in Nat \ {0}
        /\ \A r \in Seq(Nat) : DecodeFilterV3(EncodeFilterV3(x) \o r) = Ok(x, Len(EncodeFilterV3(x)))
    BY <2>1, FilterV3Back
  <2>. QED
    BY <2>2 DEF x
<1>5. fs \in Seq(Seq(Nat)) /\ Len(fs) = Len(list)
      /\ \A i \in 1 .. Len(list) : fs[i] = EncodeFilterV3(list[i])
  BY <1>3, <1>4
<1> HIDE DEF fs, V
<1>6. \A i \in 1 .. Len(list) :
        /\ Len(fs[i]) \in Nat \ {0}
        /\ \A pos \in 0 .. Len(d) - 1, r \in Seq(Nat) :
             From(d, pos + 1) = fs[i] \o r => item[pos] = Ok(list[i], Len(fs[i]))
  <2> SUFFICES ASSUME NEW i \in 1 .. Len(list)
               PROVE  /\ Len(fs[i]) \in Nat \ {0}
                      /\ \A pos \in 0 .. Len(d) - 1, r \in Seq(Nat) :
                           From(d, pos + 1) = fs[i] \o r => item[pos] = Ok(list[i], Len(fs[i]))
    OBVIOUS
  <2>1. Len(fs[i]) \in Nat \ {0}
        /\ \A r \in Seq(Nat) : DecodeFilterV3(fs[i] \o r) = Ok(list[i], Len(fs[i]))
    BY <1>3, <1>4, <1>5
  <2> HIDE DEF d
  <2>2. ASSUME NEW pos \in 0 .. Len(d) - 1, NEW r \in Seq(Nat), From(d, pos + 1) = fs[i] \o r
        PROVE  item[pos] = Ok(list[i], Len(fs[i]))
    <3>1. item[pos] = DecodeFilterV3(From(d, pos + 1))
      OBVIOUS
    <3>. QED
      BY <2>1, <2>2, <3>1
  <2>. QED
    BY <2>1, <2>2
<1> HIDE DEF item
<1>7. ReadItems(item, 0, Len(d)) = Ok(list, Len(d))
  BY <1>2, <1>5, <1>6, ListRead DEF V
<1>8. d \in Seq(Nat)
  BY <1>5, FlattenLaws
<1>. QED
  BY <1>1, <1>7, <1>8

\* Lists of filters of version 5.0 are read back.
LEMMA FiltersV5Back ==
  ASSUME NEW list, list \in Seq({list[i] : i \in DOMAIN list}),
         \A i \in DOMAIN list : list[i] \in FiltersV5
  PROVE  /\ EncodeList(list, EncodeFilterV5) \in Seq(Nat)
         /\ DecodeList(EncodeList(list, EncodeFilterV5), DecodeFilterV5)
               = Ok(list, Len(EncodeList(list, EncodeFilterV5)))
<1> DEFINE fs == [i \in DOMAIN list |-> EncodeFilterV5(list[i])]
           d == FlattenSeq(fs)
           V == {list[i] : i \in DOMAIN list}
           item == [pos \in 0 .. Len(d) - 1 |-> DecodeFilterV5(From(d, pos + 1))]
<1>1. EncodeList(list, EncodeFilterV5) = d /\ DecodeList(d, DecodeFilterV5) = ReadItems(item, 0, Len(d))
  BY DEF EncodeList, DecodeList
<1>2. list \in Seq(V)
  OBVIOUS
<1>3. Len(list) \in Nat /\ DOMAIN list = 1 .. Len(list)
  <2> HIDE DEF V
  <2>. QED
    BY <1>2, LenProperties
<1>4. \A i \in DOMAIN list :
        /\ EncodeFilterV5(list[i]) \in Seq(Nat) /\ Len(EncodeFilterV5(list[i])) \in Nat \ {0}
        /\ \A r \in Seq(Nat) :
             DecodeFilterV5(EncodeFilterV5(list[i]) \o r) = Ok(list[i], Len(EncodeFilterV5(list[i])))
  <2> SUFFICES ASSUME NEW i \in DOMAIN list
               PROVE  /\ EncodeFilterV5(list[i]) \in Seq(Nat) /\ Len(EncodeFilterV5(list[i])) \in Nat \ {0}
                      /\ \A r \in Seq(Nat) :
                           DecodeFilterV5(EncodeFilterV5(list[i]) \o r) = Ok(list[i], Len(EncodeFilterV5(list[i])))
    OBVIOUS
  <2> DEFINE x == list[i]
  <2>1. x \in FiltersV5
    OBVIOUS
  <2> HIDE DEF x
  <2>2. /\ EncodeFilterV5(x) \in Seq(Nat) /\ Len(EncodeFilterV5(x)) \in Nat \ {0}
        /\ \A r \in Seq(Nat) : DecodeFilterV5(EncodeFilterV5(x) \o r) = Ok(x, Len(EncodeFilterV5(x)))
    BY <2>1, FilterV5Back
  <2>. QED
    BY <2>2 DEF x
<1>5. fs \in Seq(Seq(Nat)) /\ Len(fs) = Len(list)
      /\ \A i \in 1 .. Len(list) : fs[i] = EncodeFilterV5(list[i])
  BY <1>3, <1>4
<1> HIDE DEF fs, V
<1>6. \A i \in 1 .. Len(list) :
        /\ Len(fs[i]) \in Nat \ {0}
        /\ \A pos \in 0 .. Len(d) - 1, r \in Seq(Nat) :
             From(d, pos + 1) = fs[i] \o r => item[pos] = Ok(list[i], Len(fs[i]))
  <2> SUFFICES ASSUME NEW i \in 1 .. Len(list)
               PROVE  /\ Len(fs[i]) \in Nat \ {0}
                      /\ \A pos \in 0 .. Len(d) - 1, r \in Seq(Nat) :
                           From(d, pos + 1) = fs[i] \o r => item[pos] = Ok(list[i], Len(fs[i]))
    OBVIOUS
  <2>1. Len(fs[i]) \in Nat \ {0}
        /\ \A r \in Seq(Nat) : DecodeFilterV5(fs[i] \o r) = Ok(list[i], Len(fs[i]))
    BY <1>3, <1>4, <1>5
  <2> HIDE DEF d
  <2>2. ASSUME NEW pos \in 0 .. Len(d) - 1, NEW r \in Seq(Nat), From(d, pos + 1) = fs[i] \o r
        PROVE  item[pos] = Ok(list[i], Len(fs[i]))
    <3>1. item[pos] = DecodeFilterV5(From(d, pos + 1))
      OBVIOUS
    <3>. QED
      BY <2>1, <2>2, <3>1
  <2>. QED
    BY <2>1, <2>2
<1> HIDE DEF item
<1>7. ReadItems(item, 0, Len(d)) = Ok(list, Len(d))
  BY <1>2, <1>5, <1>6, ListRead DEF V
<1>8. d \in Seq(Nat)
  BY <1>5, FlattenLaws
<1>. QED
  BY <1>1, <1>7, <1>8

-----------------------------------------------------------------------------
(* Fields *)

\* Of codes that are known none is left out.
LEMMA CodesBack ==
  ASSUME NEW Codes, NEW list \in Seq(Codes)
  PROVE  OnlyKnown(list, Codes) = Ok(list, Len(list))
<1> DEFINE n == Len(list)
           next(v, i) == v \o (IF list[i] \in Codes THEN <<list[i]>> ELSE <<>>)
           IsCodes(f) == f = [i \in 0 .. n |-> IF i = 0 THEN <<>> ELSE next(f[i - 1], i)]
           codes == CHOOSE f : IsCodes(f)
           g == [i \in 0 .. n |-> SubSeq(list, 1, i)]
           e == [i \in Nat |-> SubSeq(list, 1, i)]
<1>1. n \in Nat
  BY LenProperties
<1>2. OnlyKnown(list, Codes) = Ok(codes[n], n)
  BY DEF OnlyKnown
<1>3. /\ SubSeq(list, 1, 0) = <<>> /\ SubSeq(list, 1, n) = list
      /\ \A i \in 1 .. n : SubSeq(list, 1, i) = next(SubSeq(list, 1, i - 1), i)
  <2>1. SubSeq(list, 1, 0) = <<>> /\ SubSeq(list, 1, n) = list
    OBVIOUS
  <2>2. ASSUME NEW i \in 1 .. n PROVE SubSeq(list, 1, i) = next(SubSeq(list, 1, i - 1), i)
    <3> DEFINE c == SubSeq(list, 1, i - 1)
    <3>1. list[i] \in Codes /\ i - 1 \in 0 .. n /\ i \in 0 .. n
      BY <1>1, ElementOfSeq
    <3>2. c \in Seq(Codes) /\ SubSeq(list, 1, i) = Append(c, list[i])
      BY <1>1, <3>1
    <3> HIDE DEF c
    <3>3. Append(c, list[i]) = c \o <<list[i]>>
      BY <3>1, <3>2, AppendIsConcat
    <3>. QED
      BY <3>1, <3>2, <3>3 DEF c
  <2>. QED
    BY <2>1, <2>2
<1> HIDE DEF n, next
<1>4. IsCodes(g)
  <2>1. ASSUME NEW i \in 0 .. n
        PROVE  SubSeq(list, 1, i) = IF i = 0 THEN <<>> ELSE next(g[i - 1], i)
    <3>1. CASE i = 0
      BY <1>3, <3>1
    <3>2. CASE i # 0
      <4>1. i \in 1 .. n /\ i - 1 \in 0 .. n
        BY <1>1, <3>2
      <4>2. g[i - 1] = SubSeq(list, 1, i - 1)
        BY <4>1
      <4>. QED
        BY <1>3, <3>2, <4>1, <4>2
    <3>. QED
      BY <3>1, <3>2
  <2>2. g = [i \in 0 .. n |-> IF i = 0 THEN <<>> ELSE next(g[i - 1], i)]
    BY <2>1
  <2>. QED
    BY <2>2
<1>5. IsCodes(codes)
  BY <1>4
<1> HIDE DEF codes
<1>6. e[0] = SubSeq(list, 1, 0)
      /\ \A i \in 1 .. n : e[i] = SubSeq(list, 1, i) /\ e[i - 1] = SubSeq(list, 1, i - 1)
  <2>1. \A i \in 1 .. n : i \in Nat /\ i - 1 \in Nat
    BY <1>1
  <2>. QED
    BY <2>1
<1> HIDE DEF e
<1>7. codes[0] = e[0]
  BY <1>1, <1>3, <1>5, <1>6
<1>8. \A i \in 1 .. n : codes[i] = next(codes[i - 1], i)
  <2>1. \A i \in 1 .. n : i \in 0 .. n /\ i # 0
    BY <1>1
  <2>. QED
    BY <1>5, <2>1
<1>9. ASSUME NEW i \in 1 .. n, codes[i - 1] = e[i - 1] PROVE codes[i] = e[i]
  BY <1>3, <1>6, <1>8, <1>9, Zenon
<1>10. \A i \in 0 .. n : codes[i] = e[i]
  BY <1>1, <1>7, <1>9, ChainIs, Zenon
<1>11. codes[n] = list
  <2>1. n \in 0 .. n /\ (n = 0 \/ n \in 1 .. n)
    BY <1>1
  <2>. QED
    BY <1>3, <1>6, <1>10, <2>1
<1>. QED
  BY <1>2, <1>11 DEF n

\* A field behind those that are read.
With(acc, name, r) ==
    IF r.ok THEN Ok(Merge([x \in {name} |-> r.value], acc.value), acc.used + r.used) ELSE Fail
Field(d, acc, f) == IF acc.ok THEN With(acc, f[1], Read(f[2], From(d, acc.used + 1))) ELSE acc

\* e is what is read of d up to each field; the fields of a layout come to r.
FieldChain(layout, d, e) ==
    e[0] = Ok(<<>>, 0) /\ \A i \in 1 .. Len(layout) : e[i] = Field(d, e[i - 1], layout[i])
FieldsRead(layout, d, r) == \E e : FieldChain(layout, d, e) /\ e[Len(layout)] = r

\* The result of the recursive function is what reading field by field leads to.
LEMMA ReadAllIs ==
  ASSUME NEW layout, Len(layout) \in Nat, NEW d, NEW r, FieldsRead(layout, d, r)
  PROVE  ReadAll(layout, d) = r
<1> DEFINE n == Len(layout)
           next(v, i) == Field(d, v, layout[i])
           IsRead(f) == f = [i \in 0 .. n |-> IF i = 0 THEN Ok(<<>>, 0) ELSE next(f[i - 1], i)]
           after == CHOOSE f : IsRead(f)
<1>1. n \in Nat
  OBVIOUS
<1>2. ReadAll(layout, d) = after[n]
  BY DEF ReadAll, Field, With
<1>3. PICK e : e[0] = Ok(<<>>, 0) /\ (\A i \in 1 .. n : e[i] = next(e[i - 1], i)) /\ e[n] = r
  BY DEF FieldsRead, FieldChain
<1> DEFINE g == [i \in 0 .. n |-> e[i]]
<1> HIDE DEF n, next
<1>4. IsRead(g)
  <2>1. ASSUME NEW i \in 0 .. n PROVE e[i] = IF i = 0 THEN Ok(<<>>, 0) ELSE next(g[i - 1], i)
    <3>1. CASE i = 0
      BY <1>3, <3>1
    <3>2. CASE i # 0
      <4>1. i \in 1 .. n /\ i - 1 \in 0 .. n
        BY <1>1, <3>2
      <4>2. g[i - 1] = e[i - 1]
        BY <4>1
      <4>. QED
        BY <1>3, <3>2, <4>1, <4>2
    <3>. QED
      BY <3>1, <3>2
  <2>2. g = [i \in 0 .. n |-> IF i = 0 THEN Ok(<<>>, 0) ELSE next(g[i - 1], i)]
    BY <2>1
  <2>. QED
    BY <2>2
<1>5. IsRead(after)
  BY <1>4
<1> HIDE DEF after
<1>6. after[0] = e[0]
  BY <1>1, <1>3, <1>5
<1>7. \A i \in 1 .. n : after[i] = next(after[i - 1], i)
  <2>1. \A i \in 1 .. n : i \in 0 .. n /\ i # 0
    BY <1>1
  <2>. QED
    BY <1>5, <2>1
<1>8. ASSUME NEW i \in 1 .. n, after[i - 1] = e[i - 1] PROVE after[i] = e[i]
  BY <1>3, <1>7, <1>8, Zenon
<1>9. \A i \in 0 .. n : after[i] = e[i]
  BY <1>1, <1>6, <1>8, ChainIs, Zenon
<1>10. n \in 0 .. n
  BY <1>1
<1>. QED
  BY <1>2, <1>3, <1>9, <1>10

\* Without fields nothing is read; one field more is read behind the others.
LEMMA NoField == \A d : FieldsRead(<<>>, d, Ok(<<>>, 0))
<1> SUFFICES ASSUME NEW d PROVE FieldsRead(<<>>, d, Ok(<<>>, 0))
  OBVIOUS
<1> DEFINE e == [i \in {0} |-> Ok(<<>>, 0)]
<1>1. FieldChain(<<>>, d, e) /\ e[Len(<<>>)] = Ok(<<>>, 0)
  BY DEF FieldChain
<1>. QED
  BY <1>1 DEF FieldsRead

\* A layout with one more field reads that field behind the others.
LEMMA OneMoreField ==
  ASSUME NEW L, NEW layout \in Seq(L), NEW f \in L, NEW d, NEW r, FieldsRead(layout, d, r)
  PROVE  FieldsRead(Append(layout, f), d, Field(d, r, f))
<1> DEFINE n == Len(layout)
           more == Append(layout, f)
           x == Field(d, r, f)
<1>1. n \in Nat
  BY LenProperties
<1>2. Len(more) = n + 1 /\ more[n + 1] = f /\ \A i \in 1 .. n : more[i] = layout[i]
  OBVIOUS
<1>3. PICK e : /\ e[0] = Ok(<<>>, 0) /\ e[n] = r
               /\ \A i \in 1 .. n : e[i] = Field(d, e[i - 1], layout[i])
  BY DEF FieldsRead, FieldChain
<1> HIDE DEF n, more, x
<1> DEFINE g == [i \in Nat |-> IF i <= n THEN e[i] ELSE x]
<1>4. \A i \in Nat : g[i] = IF i <= n THEN e[i] ELSE x
  OBVIOUS
<1> HIDE DEF g
<1>5. g[0] = Ok(<<>>, 0) /\ g[n + 1] = x
  BY <1>1, <1>3, <1>4, SMTT(30)
<1>6. ASSUME NEW i \in 1 .. n + 1 PROVE g[i] = Field(d, g[i - 1], more[i])
  <2>1. CASE i = n + 1
    <3>1. i - 1 = n
      BY <1>1, <2>1
    <3>2. g[i - 1] = r
      BY <1>1, <1>3, <1>4, <3>1
    <3>. QED
      BY <1>2, <1>5, <2>1, <3>2 DEF x
  <2>2. CASE i # n + 1
    <3>1. i \in 1 .. n /\ i \in Nat /\ i - 1 \in Nat /\ i <= n /\ i - 1 <= n
      BY <1>1, <2>2
    <3>2. g[i] = e[i] /\ g[i - 1] = e[i - 1]
      BY <1>4, <3>1
    <3>. QED
      BY <1>2, <1>3, <3>1, <3>2
  <2>. QED
    BY <2>1, <2>2
<1>7. FieldChain(more, d, g) /\ g[Len(more)] = x
  BY <1>2, <1>5, <1>6 DEF FieldChain
<1>. QED
  BY <1>7 DEF FieldsRead, more, x

IsLayout(layout) == layout \in Seq({layout[i] : i \in DOMAIN layout})

\* A layout with one more field is a layout.
LEMMA OneMore ==
  ASSUME NEW layout, IsLayout(layout), NEW f
  PROVE  /\ \E L : layout \in Seq(L) /\ f \in L
         /\ IsLayout(Append(layout, f))
<1> DEFINE V == {layout[i] : i \in DOMAIN layout}
           L == V \union {f}
           more == Append(layout, f)
           W == {more[i] : i \in DOMAIN more}
           n == Len(layout)
<1>1. layout \in Seq(V) /\ V \subseteq L /\ f \in L
  BY DEF IsLayout
<1>2. \A x \in L : x = f \/ \E i \in DOMAIN layout : x = layout[i]
  OBVIOUS
<1> HIDE DEF V, L
<1>3. layout \in Seq(L) /\ n \in Nat /\ DOMAIN layout = 1 .. n
  BY <1>1, WiderSeq, LenProperties
<1>4. more \in Seq(L) /\ Len(more) = n + 1 /\ more[n + 1] = f
      /\ (\A i \in 1 .. n : more[i] = layout[i]) /\ DOMAIN more = 1 .. n + 1
  BY <1>1, <1>3
<1> HIDE DEF more, n
<1>5. L \subseteq W
  <2> SUFFICES ASSUME NEW x \in L PROVE \E i \in DOMAIN more : x = more[i]
    OBVIOUS
  <2>1. CASE x = f
    BY <1>3, <1>4, <2>1
  <2>2. CASE x # f
    <3>1. PICK i \in 1 .. n : x = layout[i]
      BY <1>2, <1>3, <2>2
    <3>2. i \in 1 .. n + 1
      BY <1>3
    <3>. QED
      BY <1>4, <3>1, <3>2
  <2>. QED
    BY <2>1, <2>2
<1> HIDE DEF W
<1>6. more \in Seq(W)
  BY <1>4, <1>5, WiderSeq
<1>. QED
  BY <1>1, <1>3, <1>6 DEF IsLayout, W, more

\* The bytes g are read as a field x, the bytes e as the fields v of a layout, whatever
\* is behind them; or the latter at the end of a packet.
FieldReads(kind, g, x) ==
    /\ g \in Seq(Nat)
    /\ \A r \in Seq(Nat) : Read(kind, g \o r) = Ok(x, Len(g))
LayoutReads(layout, e, v) ==
    /\ IsLayout(layout) /\ e \in Seq(Nat)
    /\ \A r \in Seq(Nat) : FieldsRead(layout, e \o r, Ok(v, Len(e)))
LayoutEnds(layout, e, v) ==
    /\ IsLayout(layout) /\ e \in Seq(Nat)
    /\ FieldsRead(layout, e, Ok(v, Len(e)))

AndField(name, x, v) == Merge([y \in {name} |-> x], v)

\* The layout without fields reads nothing.
LEMMA ReadsNone == LayoutReads(<<>>, <<>>, <<>>)
<1>1. IsLayout(<<>>) /\ <<>> \in Seq(Nat) /\ Len(<<>>) = 0
  BY DEF IsLayout
<1>. QED
  BY <1>1, NoField DEF LayoutReads

\* What is read behind n bytes.
LEMMA FieldBehind ==
  ASSUME NEW d, NEW n \in Nat, NEW f, NEW v, NEW x, NEW k \in Nat,
         Read(f[2], From(d, n + 1)) = Ok(x, k)
  PROVE  Field(d, Ok(v, n), f) = Ok(AndField(f[1], x, v), n + k)
<1> DEFINE acc == Ok(v, n)
           r == Read(f[2], From(d, n + 1))
<1>1. acc.ok /\ acc.value = v /\ acc.used = n
  BY DEF Ok
<1>2. Field(d, acc, f) = With(acc, f[1], r)
  <2> HIDE DEF acc
  <2>. QED
    BY <1>1 DEF Field
<1>3. r.ok /\ r.value = x /\ r.used = k
  BY DEF Ok
<1> HIDE DEF acc, r
<1>4. With(acc, f[1], r) = Ok(AndField(f[1], x, v), n + k)
  BY <1>1, <1>3 DEF With, AndField
<1>. QED
  BY <1>2, <1>4 DEF acc, r

\* A field that is read back whatever follows it may be added to a layout that is.
LEMMA ReadsMore ==
  ASSUME NEW layout, NEW e, NEW v, LayoutReads(layout, e, v),
         NEW name, NEW kind, NEW g, NEW x, FieldReads(kind, g, x)
  PROVE  LayoutReads(Append(layout, <<name, kind>>), e \o g, AndField(name, x, v))
<1> DEFINE f == <<name, kind>>
<1>1. IsLayout(layout) /\ e \in Seq(Nat) /\ g \in Seq(Nat)
  BY DEF LayoutReads, FieldReads
<1>2. e \o g \in Seq(Nat) /\ Len(e \o g) = Len(e) + Len(g) /\ Len(g) \in Nat
  BY <1>1, NatParts
<1>3. ASSUME NEW r \in Seq(Nat)
      PROVE  FieldsRead(Append(layout, f), (e \o g) \o r, Ok(AndField(name, x, v), Len(e \o g)))
  <2> DEFINE s == g \o r
             d == (e \o g) \o r
  <2>1. s \in Seq(Nat) /\ d = e \o s
    BY <1>1, NatParts, Brackets, ZenonT(30)
  <2>2. Read(kind, s) = Ok(x, Len(g))
    BY DEF FieldReads
  <2> HIDE DEF s, d
  <2>3. FieldsRead(layout, d, Ok(v, Len(e)))
    BY <2>1 DEF LayoutReads
  <2>4. Field(d, Ok(v, Len(e)), f) = Ok(AndField(name, x, v), Len(e) + Len(g))
    <3>1. f[1] = name /\ f[2] = kind /\ From(d, Len(e) + 1) = s
      BY <1>1, <2>1, NatParts
    <3> HIDE DEF f
    <3>2. Read(f[2], From(d, Len(e) + 1)) = Ok(x, Len(g)) /\ Len(e) \in Nat /\ Len(g) \in Nat
      BY <1>1, <1>2, <2>2, <3>1, LenProperties
    <3>3. Field(d, Ok(v, Len(e)), f) = Ok(AndField(f[1], x, v), Len(e) + Len(g))
      BY <3>2, FieldBehind
    <3>. QED
      BY <3>1, <3>3
  <2> HIDE DEF f
  <2>5. FieldsRead(Append(layout, f), d, Field(d, Ok(v, Len(e)), f))
    <3>1. PICK L : layout \in Seq(L) /\ f \in L
      BY <1>1, OneMore
    <3>. QED
      BY <2>3, <3>1, OneMoreField
  <2>. QED
    BY <1>2, <2>4, <2>5 DEF d
<1>4. IsLayout(Append(layout, f))
  BY <1>1, OneMore
<1>. QED
  BY <1>2, <1>3, <1>4 DEF LayoutReads

\* A field that takes the rest of a packet may be added at the end,
LEMMA EndsMore ==
  ASSUME NEW layout, NEW e, NEW v, LayoutReads(layout, e, v),
         NEW name, NEW kind, NEW g \in Seq(Nat), NEW x,
         Read(kind, g) = Ok(x, Len(g))
  PROVE  LayoutEnds(Append(layout, <<name, kind>>), e \o g, AndField(name, x, v))
<1> DEFINE f == <<name, kind>>
           d == e \o g
<1>1. IsLayout(layout) /\ e \in Seq(Nat)
  BY DEF LayoutReads
<1>2. d \in Seq(Nat) /\ Len(d) = Len(e) + Len(g) /\ Len(g) \in Nat
  BY <1>1, NatParts
<1>3. FieldsRead(layout, d, Ok(v, Len(e)))
  BY DEF LayoutReads
<1>4. Field(d, Ok(v, Len(e)), f) = Ok(AndField(name, x, v), Len(e) + Len(g))
  <2>1. f[1] = name /\ f[2] = kind /\ From(d, Len(e) + 1) = g
    BY <1>1, NatParts
  <2> HIDE DEF f, d
  <2>2. Read(f[2], From(d, Len(e) + 1)) = Ok(x, Len(g)) /\ Len(e) \in Nat /\ Len(g) \in Nat
    BY <1>1, <1>2, <2>1, LenProperties
  <2>3. Field(d, Ok(v, Len(e)), f) = Ok(AndField(f[1], x, v), Len(e) + Len(g))
    BY <2>2, FieldBehind
  <2>. QED
    BY <2>1, <2>3
<1> HIDE DEF f, d
<1>5. FieldsRead(Append(layout, f), d, Field(d, Ok(v, Len(e)), f))
  <2>1. PICK L : layout \in Seq(L) /\ f \in L
    BY <1>1, OneMore
  <2>. QED
    BY <1>3, <2>1, OneMoreField
<1>6. IsLayout(Append(layout, f))
  BY <1>1, OneMore
<1>. QED
  BY <1>2, <1>4, <1>5, <1>6 DEF LayoutEnds, d, f

\* and one that is left out when nothing is left.
LEMMA EndsShort ==
  ASSUME NEW layout, NEW e, NEW v, LayoutEnds(layout, e, v),
         NEW name, NEW kind, NEW x, Read(kind, <<>>) = Ok(x, 0)
  PROVE  LayoutEnds(Append(layout, <<name, kind>>), e, AndField(name, x, v))
<1> DEFINE f == <<name, kind>>
           none == <<>>
<1>1. IsLayout(layout) /\ e \in Seq(Nat) /\ FieldsRead(layout, e, Ok(v, Len(e)))
  BY DEF LayoutEnds
<1>2. none \in Seq(Nat) /\ e \o none = e /\ Len(e) \in Nat
  BY <1>1, ConcatEmptySeq, LenProperties
<1>3. Field(e, Ok(v, Len(e)), f) = Ok(AndField(name, x, v), Len(e))
  <2>1. f[1] = name /\ f[2] = kind /\ Read(kind, none) = Ok(x, 0)
    OBVIOUS
  <2>2. Len(e) + 0 = Len(e)
    BY <1>2
  <2> HIDE DEF none, f
  <2>3. From(e, Len(e) + 1) = none
    <3>1. From(e \o none, Len(e) + 1) = none
      BY <1>1, <1>2, NatParts, Zenon
    <3>. QED
      BY <1>2, <3>1
  <2>4. Read(f[2], From(e, Len(e) + 1)) = Ok(x, 0) /\ 0 \in Nat
    BY <2>1, <2>3
  <2>5. Field(e, Ok(v, Len(e)), f) = Ok(AndField(f[1], x, v), Len(e) + 0)
    BY <1>2, <2>4, FieldBehind
  <2>. QED
    BY <2>1, <2>2, <2>5
<1> HIDE DEF f
<1>4. FieldsRead(Append(layout, f), e, Field(e, Ok(v, Len(e)), f))
  <2>1. PICK L : layout \in Seq(L) /\ f \in L
    BY <1>1, OneMore
  <2>. QED
    BY <1>1, <2>1, OneMoreField
<1>5. IsLayout(Append(layout, f))
  BY <1>1, OneMore
<1>. QED
  BY <1>1, <1>3, <1>4, <1>5 DEF LayoutEnds, f

\* A layout that is read back whatever follows it is read back when nothing does.
LEMMA ReadsEnd ==
  ASSUME NEW layout, NEW e, NEW v, LayoutReads(layout, e, v)
  PROVE  LayoutEnds(layout, e, v)
<1> DEFINE none == <<>>
<1>1. e \in Seq(Nat) /\ none \in Seq(Nat) /\ e \o none = e
  BY ConcatEmptySeq DEF LayoutReads
<1> HIDE DEF none
<1>. QED
  BY <1>1 DEF LayoutReads, LayoutEnds

\* The fields that the bytes of a packet end with are those of the packet.
LEMMA AllOfEnds ==
  ASSUME NEW layout, NEW e, NEW v, LayoutEnds(layout, e, v)
  PROVE  ReadAll(layout, e) = Ok(v, Len(e))
<1>1. IsLayout(layout) /\ FieldsRead(layout, e, Ok(v, Len(e)))
  BY DEF LayoutEnds
<1>2. Len(layout) \in Nat
  <2> DEFINE L == {layout[i] : i \in DOMAIN layout}
  <2>1. layout \in Seq(L)
    BY <1>1 DEF IsLayout
  <2> HIDE DEF L
  <2>. QED
    BY <2>1, LenProperties
<1>. QED
  BY <1>1, <1>2, ReadAllIs

\* Fields of one byte.
LEMMA OneByte ==
  ASSUME NEW n \in Nat, NEW r \in Seq(Nat)
  PROVE  <<n>> \in Seq(Nat) /\ Len(<<n>>) = 1 /\ <<n>> \o r # <<>> /\ (<<n>> \o r)[1] = n
<1>1. <<n>> \in Seq(Nat) /\ Len(<<n>>) = 1
  OBVIOUS
<1>2. (<<n>> \o r)[1] = n /\ Len(<<n>> \o r) = 1 + Len(r) /\ Len(r) \in Nat
  BY InFront, LenProperties
<1>3. <<n>> \o r # <<>>
  <2> DEFINE d == <<n>> \o r
  <2>1. Len(d) # 0
    BY <1>2
  <2> HIDE DEF d
  <2>2. d # <<>>
    BY <2>1
  <2>. QED
    BY <2>2 DEF d
<1>. QED
  BY <1>1, <1>2, <1>3

\* The codes of both versions are bytes.
LEMMA CodesAreBytes ==
  /\ ReasonCode \subseteq Nat /\ ReturnCode \subseteq Nat /\ SubAckCode \subseteq Nat
  /\ Byte = 0 .. 255 /\ Byte \subseteq Nat
BY DEF ReasonCode, ReturnCode, SubAckCode, Byte

\* The fields of one byte are read back.
LEMMA ByteFields ==
  ASSUME NEW n \in Nat
  PROVE  /\ n \in Byte => FieldReads("byte", <<n>>, n)
         /\ n \in ReturnCode => FieldReads("return", <<n>>, n)
         /\ n \in ReasonCode => FieldReads("reason", <<n>>, n)
         /\ n \in ReasonCode => FieldReads("reason or success", <<n>>, n)
         /\ FieldReads("flag", <<n>>, Bit(n, 1))
<1> DEFINE g == <<n>>
<1>1. g \in Seq(Nat) /\ Len(g) = 1 /\ \A r \in Seq(Nat) : g \o r # <<>> /\ (g \o r)[1] = n
  BY OneByte
<1> HIDE DEF g
<1>2. ASSUME NEW Codes, n \in Codes, NEW r \in Seq(Nat) PROVE Known(g \o r, Codes) = Ok(n, Len(g))
  BY <1>1, <1>2 DEF Known
<1>3. ASSUME n \in Byte, NEW r \in Seq(Nat) PROVE Read("byte", g \o r) = Ok(n, Len(g))
  <2>1. Read("byte", g \o r) = Known(g \o r, Byte)
    BY DEF Read, Byte
  <2>. QED
    BY <1>2, <1>3, <2>1
<1>4. ASSUME n \in ReturnCode, NEW r \in Seq(Nat) PROVE Read("return", g \o r) = Ok(n, Len(g))
  <2>1. Read("return", g \o r) = Known(g \o r, ReturnCode)
    BY DEF Read
  <2>. QED
    BY <1>2, <1>4, <2>1
<1>5. ASSUME n \in ReasonCode, NEW r \in Seq(Nat) PROVE Read("reason", g \o r) = Ok(n, Len(g))
  <2>1. Read("reason", g \o r) = Known(g \o r, ReasonCode)
    BY DEF Read
  <2>. QED
    BY <1>2, <1>5, <2>1
<1>6. ASSUME n \in ReasonCode, NEW r \in Seq(Nat)
      PROVE  Read("reason or success", g \o r) = Ok(n, Len(g))
  <2>1. Read("reason or success", g \o r) = ReasonOrSuccess(g \o r)
    BY DEF Read
  <2>2. ReasonOrSuccess(g \o r) = Ok(n, 1)
    BY <1>1, <1>6 DEF ReasonOrSuccess
  <2>. QED
    BY <1>1, <2>1, <2>2
<1>7. ASSUME NEW r \in Seq(Nat) PROVE Read("flag", g \o r) = Ok(Bit(n, 1), Len(g))
  <2>1. g \o r # <<>> /\ (g \o r)[1] = n
    BY <1>1
  <2> DEFINE d == g \o r
  <2>2. Read("flag", d) = IF d # <<>> THEN Ok(Bit(d[1], 1), 1) ELSE Fail
    BY DEF Read
  <2> HIDE DEF d
  <2>3. Read("flag", d) = Ok(Bit(n, 1), 1)
    BY <2>1, <2>2 DEF d
  <2>. QED
    BY <1>1, <2>3 DEF d
<1>. QED
  BY <1>1, <1>3, <1>4, <1>5, <1>6, <1>7 DEF FieldReads, g

\* A flag in the lowest bit.
LEMMA LowestBit ==
  ASSUME NEW on \in BOOLEAN
  PROVE  Flag(on, 1) \in Nat /\ Bit(Flag(on, 1), 1) = on
BY DEF Flag, Bit

\* Nothing, numbers, strings, payloads and properties.
LEMMA NoBytes == FieldReads("absent", <<>>, <<>>)
<1>1. \A d : Read("absent", d) = Ok(<<>>, 0)
  BY DEF Read
<1>. QED
  BY <1>1 DEF FieldReads

\* So is a number of two bytes, also as the id a packet may have,
LEMMA NumberField ==
  ASSUME NEW n \in TwoBytes
  PROVE  FieldReads("u16", U16(n), n) /\ FieldReads("id", U16(n), <<n>>)
         /\ U16(n) \in Seq(Nat) /\ Len(U16(n)) = 2
<1> DEFINE g == U16(n)
<1>1. g \in Seq(Nat) /\ Len(g) = 2 /\ <<n>> = <<NumberOf(g)>>
  BY Bytes16
<1>2. NumberOf(g) = n
  <2> HIDE DEF g
  <2>1. <<n>>[1] = <<NumberOf(g)>>[1]
    BY <1>1
  <2>. QED
    BY <2>1
<1> HIDE DEF g
<1>3. ASSUME NEW r \in Seq(Nat) PROVE ReadU16(g \o r) = Ok(n, 2)
  <2>1. SubSeq(g \o r, 1, 2) = g /\ Len(g \o r) = 2 + Len(r) /\ Len(r) \in Nat
    BY <1>1, NatParts
  <2> DEFINE d == g \o r
  <2>2. Len(d) >= 2 /\ SubSeq(d, 1, 2) = g
    BY <2>1
  <2> HIDE DEF d
  <2>3. ReadU16(d) = Ok(n, 2)
    BY <1>2, <2>2 DEF ReadU16
  <2>. QED
    BY <2>3 DEF d
<1>4. Some(Ok(n, 2)) = Ok(<<n>>, 2)
  BY DEF Some, Ok
<1>5. \A d : Read("u16", d) = ReadU16(d) /\ Read("id", d) = Some(ReadU16(d))
  BY DEF Read
<1>6. ASSUME NEW r \in Seq(Nat)
      PROVE  Read("u16", g \o r) = Ok(n, Len(g)) /\ Read("id", g \o r) = Ok(<<n>>, Len(g))
  BY <1>1, <1>3, <1>4, <1>5
<1>. QED
  BY <1>1, <1>6 DEF FieldReads, g

\* and a string,
LEMMA StringField ==
  ASSUME NEW s, IsString(s)
  PROVE  FieldReads("string", EncodeString(s), s)
<1>1. EncodeString(s) \in Seq(Nat)
      /\ \A r \in Seq(Nat) : DecodeString(EncodeString(s) \o r) = Ok(s, Len(EncodeString(s)))
  BY StringFrame
<1>2. \A d : Read("string", d) = DecodeString(d)
  BY DEF Read
<1>. QED
  BY <1>1, <1>2 DEF FieldReads

\* and a payload or password,
LEMMA BinaryField ==
  ASSUME NEW s, IsBinary(s)
  PROVE  FieldReads("binary", EncodeString(s), s)
         /\ Len(EncodeString(s)) = 2 + Len(s) /\ Len(s) \in TwoBytes
<1>1. TwoByteLong(s)
  BY BinaryShort
<1>2. EncodeString(s) \in Seq(Nat) /\ Len(EncodeString(s)) = 2 + Len(s)
      /\ \A r \in Seq(Nat) : DecodeBinary(EncodeString(s) \o r) = Ok(s, Len(EncodeString(s)))
  <2>1. \A r \in Seq(Nat) :
          /\ EncodeString(s) \in Seq(Nat) /\ Len(EncodeString(s)) = 2 + Len(s)
          /\ DecodeBinary(EncodeString(s) \o r) = Ok(s, 2 + Len(s))
    BY <1>1, BinaryBack
  <2>2. <<>> \in Seq(Nat)
    OBVIOUS
  <2>. QED
    BY <2>1, <2>2
<1>3. \A d : Read("binary", d) = DecodeBinary(d)
  BY DEF Read
<1>. QED
  BY <1>1, <1>2, <1>3 DEF FieldReads, TwoByteLong

\* and a list of properties.
LEMMA PropertiesField ==
  ASSUME Width, NEW ps \in Properties
  PROVE  FieldReads("properties", EncodeProperties(ps), ps)
         /\ Len(EncodeProperties(ps)) \in Nat /\ Len(EncodeProperties(ps)) <= LongestProperties
<1>1. IsProperties(ps)
  BY PropertiesAssumption DEF IsProperties, IsProperty
<1>2. /\ EncodeProperties(ps) \in Seq(Nat)
      /\ \A r \in Seq(Nat) :
           DecodeProperties(EncodeProperties(ps) \o r) = Ok(ps, Len(EncodeProperties(ps)))
  BY <1>1, PropertiesBack
<1>3. \A d : Read("properties", d) = DecodeProperties(d)
  BY DEF Read
<1>4. Len(EncodeProperties(ps)) \in Nat /\ Len(EncodeProperties(ps)) <= LongestProperties
  BY <1>1, <1>2, LenProperties DEF IsProperties
<1>. QED
  BY <1>2, <1>3, <1>4 DEF FieldReads

-----------------------------------------------------------------------------
(* Frames *)

\* The packet types have different names.
LEMMA TypesDiffer ==
  /\ DOMAIN PacketTypes = 1 .. 15
  /\ \A i, j \in 1 .. 15 : PacketTypes[i] = PacketTypes[j] => i = j
<1>1. DOMAIN PacketTypes = 1 .. 15
  BY DEF PacketTypes
<1>2. /\ PacketTypes[1] = "CONNECT" /\ PacketTypes[2] = "CONNACK" /\ PacketTypes[3] = "PUBLISH"
      /\ PacketTypes[4] = "PUBACK" /\ PacketTypes[5] = "PUBREC" /\ PacketTypes[6] = "PUBREL"
      /\ PacketTypes[7] = "PUBCOMP" /\ PacketTypes[8] = "SUBSCRIBE" /\ PacketTypes[9] = "SUBACK"
      /\ PacketTypes[10] = "UNSUBSCRIBE" /\ PacketTypes[11] = "UNSUBACK"
      /\ PacketTypes[12] = "PINGREQ" /\ PacketTypes[13] = "PINGRESP"
      /\ PacketTypes[14] = "DISCONNECT" /\ PacketTypes[15] = "AUTH"
  BY DEF PacketTypes
<1>3. \A i, j \in 1 .. 15 : PacketTypes[i] = PacketTypes[j] => i = j
  <2> DEFINE P == PacketTypes
  <2> HIDE DEF P
  <2>. QED
    BY <1>2, SMTT(60)
<1>. QED
  BY <1>1, <1>3

\* The number of a type.
TypeNumber(type) == CHOOSE i \in DOMAIN PacketTypes : PacketTypes[i] = type

\* The number of a type is the one under which it stands.
LEMMA TypeCode ==
  ASSUME NEW c \in 1 .. 15
  PROVE  TypeNumber(PacketTypes[c]) = c
<1> DEFINE P == PacketTypes
<1>1. DOMAIN P = 1 .. 15 /\ \A i, j \in 1 .. 15 : P[i] = P[j] => i = j
  BY TypesDiffer
<1> HIDE DEF P
<1>2. (CHOOSE i \in DOMAIN P : P[i] = P[c]) = c
  BY <1>1
<1>. QED
  BY <1>2 DEF P, TypeNumber

\* Of the bytes of a packet the first tells its type and its flags, and the body is that
\* of the packet.
LEMMA FrameBack ==
  ASSUME Width, NEW v, NEW p, TypeNumber(p.type) \in 1 .. 15, HeaderFlags(v, p) \in 0 .. 15,
         NEW body \in Seq(Nat), Len(body) < LengthLimit
  PROVE  /\ Frame(v, p, body)[1] = 16 * TypeNumber(p.type) + HeaderFlags(v, p)
         /\ BodyOf(Frame(v, p, body)) = body
<1> DEFINE c == TypeNumber(p.type)
           h == HeaderFlags(v, p)
           m == Len(body)
           len == EncodeLength(m)
           b == 16 * c + h
           one == <<b>>
           s == one \o (len \o body)
<1>1. m \in Nat
  BY LenProperties
<1>2. /\ len \in Seq(Nat) /\ Len(len) \in Nat
      /\ DecodeLength(len \o body) = [value |-> m, bytes |-> Len(len)]
  BY <1>1, FourLengthBytes, LengthBack
<1>3. b \in Nat /\ one \in Seq(Nat)
  <2>1. b \in Nat
    <3> HIDE DEF c, h
    <3>1. c \in 1 .. 15 /\ h \in 0 .. 15
      BY DEF c, h
    <3>. QED
      BY <3>1
  <2> HIDE DEF b
  <2>. QED
    BY <2>1
<1> HIDE DEF m, len
<1>4. len \o body \in Seq(Nat) /\ Len(len \o body) = Len(len) + m
  BY <1>2, NatParts DEF m
<1>5. Frame(v, p, body) = s
  <2>1. Frame(v, p, body) = (one \o len) \o body
    BY DEF Frame, TypeNumber, len, m
  <2> HIDE DEF one
  <2>. QED
    BY <1>2, <1>3, <2>1, Brackets, Zenon
<1>6. s[1] = b /\ From(s, 2) = len \o body /\ s \in Seq(Nat) /\ Len(s) = 1 + (Len(len) + m)
  <2> DEFINE t == len \o body
  <2> HIDE DEF t, b
  <2>1. one \o t \in Seq(Nat) /\ Len(one \o t) = 1 + Len(t) /\ (one \o t)[1] = b
        /\ From(one \o t, 2) = t
    BY <1>3, <1>4, InFront DEF t
  <2>. QED
    BY <1>4, <2>1 DEF t
<1>7. Tail(s) = len \o body
  <2> HIDE DEF s
  <2>1. Tail(s) = From(s, 2)
    BY <1>1, <1>2, <1>6 DEF From
  <2>. QED
    BY <1>6, <2>1
<1>8. BodyOf(s) = SubSeq(s, 2 + Len(len), 1 + Len(len) + m)
  <2> HIDE DEF s, len
  <2> DEFINE n == DecodeLength(Tail(s))
  <2>1. n = [value |-> m, bytes |-> Len(len)]
    BY <1>2, <1>7
  <2>2. n.value = m /\ n.bytes = Len(len)
    BY <2>1
  <2>. QED
    BY <2>2 DEF BodyOf
<1>9. SubSeq(s, 2 + Len(len), 1 + Len(len) + m) = body
  <2> DEFINE a == one \o len
             none == <<>>
  <2>1. a \in Seq(Nat) /\ Len(a) = 1 + Len(len)
    BY <1>2, <1>3, NatParts
  <2>2. s = (a \o body) \o none
    <3>1. s = a \o body
      <4> HIDE DEF one
      <4>. QED
        BY <1>2, <1>3, Brackets, Zenon
    <3> HIDE DEF s, a
    <3>2. a \o body \in Seq(Nat)
      BY <2>1, NatParts
    <3>. QED
      BY <3>1, <3>2, ConcatEmptySeq
  <2>3. none \in Seq(Nat)
    OBVIOUS
  <2> HIDE DEF a, s, none
  <2>4. SubSeq(s, Len(a) + 1, Len(a) + Len(body)) = body
    BY <2>1, <2>2, <2>3, Middle
  <2>5. Len(a) + 1 = 2 + Len(len) /\ Len(a) + Len(body) = 1 + Len(len) + m
    BY <1>1, <1>2, <2>1 DEF m
  <2>. QED
    BY <2>4, <2>5
<1>. QED
  BY <1>5, <1>6, <1>8, <1>9

Layout(v, type, qos) == IF v = 5 THEN LayoutV5(type, qos) ELSE LayoutV3(type, qos)

\* A packet is decoded from the fields of its body.
LEMMA ByLayout ==
  ASSUME Width, NEW v, NEW p, NEW c \in 1 .. 15, p.type = PacketTypes[c],
         p.type \notin {"CONNECT", "PUBLISH"}, p.type = "AUTH" => v # 4,
         NEW h \in 0 .. 15, HeaderFlags(v, p) = h,
         NEW body \in Seq(Nat), Len(body) < LengthLimit,
         NEW f, \A q : LayoutEnds(Layout(v, p.type, q), body, f), Merge([type |-> p.type], f) = p
  PROVE  Decode(v, Frame(v, p, body)) = Ok(p, Len(Frame(v, p, body)))
<1> DEFINE s == Frame(v, p, body)
           t == PacketTypes[s[1] \div 16]
           q == (s[1] \div 2) % 4
           r == ReadAll(Layout(v, t, q), BodyOf(s))
           header == [type |-> t]
           read(x) == IF x.ok THEN Ok(Merge(header, x.value), Len(s)) ELSE Fail
<1>1. s[1] = 16 * c + h /\ BodyOf(s) = body
  <2>1. TypeNumber(p.type) = c
    BY TypeCode
  <2>. QED
    BY <2>1, FrameBack
<1> HIDE DEF s
<1>2. t = p.type
  <2>1. s[1] \div 16 = c
    BY <1>1
  <2>. QED
    BY <2>1
<1>3. r = Ok(f, Len(body))
  BY <1>1, <1>2, AllOfEnds
<1>4. r.ok /\ r.value = f
  BY <1>3 DEF Ok
<1>5. Decode(v, s) = read(r)
  <2> HIDE DEF q
  <2>1. t \notin {"CONNECT", "PUBLISH"} /\ (t = "AUTH" => v # 4)
    BY <1>2
  <2>. QED
    BY <2>1 DEF Decode, Layout, q
<1> HIDE DEF r
<1>6. read(r) = Ok(Merge([type |-> p.type], f), Len(s))
  BY <1>2, <1>4
<1>. QED
  BY <1>5, <1>6 DEF s

\* The same of a PUBLISH, whose flags tell the QoS and whether it is retained.
LEMMA PublishByLayout ==
  ASSUME Width, NEW v, NEW p, p.type = "PUBLISH", p.qos \in 0 .. 2, p.retain \in BOOLEAN,
         NEW body \in Seq(Nat), Len(body) < LengthLimit,
         NEW f, LayoutEnds(Layout(v, "PUBLISH", p.qos), body, f),
         Merge([type |-> "PUBLISH", qos |-> p.qos, retain |-> p.retain], f) = p
  PROVE  Decode(v, Frame(v, p, body)) = Ok(p, Len(Frame(v, p, body)))
<1> DEFINE s == Frame(v, p, body)
           t == PacketTypes[s[1] \div 16]
           q == (s[1] \div 2) % 4
           r == ReadAll(Layout(v, t, q), BodyOf(s))
           header == [type |-> t, qos |-> q, retain |-> Bit(s[1], 1)]
           read(x) == IF x.ok THEN Ok(Merge(header, x.value), Len(s)) ELSE Fail
           dup == v = 4 /\ EncodeId(p) # <<>>
           x1 == IF p.retain THEN 1 ELSE 0
           x8 == IF dup THEN 1 ELSE 0
           k == p.qos
           h == 2 * k + x1 + 8 * x8
<1>1. HeaderFlags(v, p) = h
  BY DEF HeaderFlags, Flag
<1>2. x1 \in 0 .. 1 /\ x8 \in 0 .. 1 /\ k \in 0 .. 2 /\ p.retain = (x1 = 1)
  OBVIOUS
<1> HIDE DEF x1, x8, k
<1>3. h \in 0 .. 15 /\ (48 + h) \div 16 = 3 /\ (48 + h) \div 2 = 24 + k + 4 * x8
      /\ (24 + k + 4 * x8) % 4 = k /\ (48 + h) % 2 = x1
  BY <1>2, SMT
<1> HIDE DEF h
<1>4. s[1] = 48 + h /\ BodyOf(s) = body
  <2>1. p.type = PacketTypes[3] /\ 3 \in 1 .. 15 /\ 16 * 3 + h = 48 + h
    BY <1>3 DEF PacketTypes
  <2>. QED
    <3>1. TypeNumber(p.type) = 3
      BY <2>1, TypeCode
    <3>2. s[1] = 16 * 3 + h /\ BodyOf(s) = body
      BY <1>1, <1>3, <2>1, <3>1, FrameBack
    <3>. QED
      BY <2>1, <3>2
<1> HIDE DEF s
<1>5. t = "PUBLISH" /\ q = k
  BY <1>3, <1>4 DEF PacketTypes
<1>6. Bit(s[1], 1) = p.retain
  <2>1. (48 + h) \div 1 = 48 + h
    BY <1>3
  <2>. QED
    BY <1>2, <1>3, <1>4, <2>1 DEF Bit
<1>7. r = Ok(f, Len(body))
  BY <1>4, <1>5, AllOfEnds DEF k
<1>8. r.ok /\ r.value = f
  BY <1>7 DEF Ok
<1>9. Decode(v, s) = read(r)
  <2>1. t = "PUBLISH" /\ q # 3
    BY <1>2, <1>5
  <2> HIDE DEF q
  <2>. QED
    BY <2>1 DEF Decode, Layout, q
<1> HIDE DEF r
<1>10. header = [type |-> "PUBLISH", qos |-> p.qos, retain |-> p.retain]
  BY <1>5, <1>6 DEF k
<1> HIDE DEF header
<1>11. read(r) = Ok(p, Len(s))
  BY <1>8, <1>10
<1>. QED
  BY <1>9, <1>11 DEF s

\* Layouts one field at a time.
LEMMA Layouts ==
  /\ \A a : <<a>> = Append(<<>>, a)
  /\ \A a, b : <<a, b>> = Append(<<a>>, b)
  /\ \A a, b, c : <<a, b, c>> = Append(<<a, b>>, c)
  /\ \A a, b, c, d : <<a, b, c, d>> = Append(<<a, b, c>>, d)
OBVIOUS

\* A field alone is a layout.
LEMMA FirstReads ==
  ASSUME NEW name, NEW kind, NEW g, NEW x, FieldReads(kind, g, x)
  PROVE  LayoutReads(<<<<name, kind>>>>, g, AndField(name, x, <<>>))
<1> DEFINE none == <<>>
           f == <<name, kind>>
<1>1. none \in Seq(Nat) /\ g \in Seq(Nat)
  BY DEF FieldReads
<1>2. none \o g = g
  BY <1>1, ConcatEmptySeq
<1>3. <<f>> = Append(none, f)
  BY Layouts
<1>4. LayoutReads(none, none, none)
  BY ReadsNone
<1> HIDE DEF none
<1>5. LayoutReads(Append(none, f), none \o g, AndField(name, x, none))
  BY <1>4, ReadsMore
<1>. QED
  BY <1>2, <1>3, <1>5 DEF none

-----------------------------------------------------------------------------
(* Packets of both versions *)

Survives(v, p, s) == Decode(v, s) = Ok(p, Len(s))

\* How long fields are.
StringLimit == 65537

\* A packet of two lists of properties and six strings has a length of four bytes.
LEMMA Room ==
  /\ LongestProperties \in Nat /\ StringLimit \in Nat /\ LengthLimit \in Nat
  /\ 2 * LongestProperties + 6 * StringLimit < LengthLimit
  /\ 20 < StringLimit
BY SMT DEF LongestProperties, StringLimit, LengthLimit

\* How long a string with its length can be.
LEMMA StringRoom ==
  ASSUME NEW n \in TwoBytes
  PROVE  2 + n \in Nat /\ 2 + n <= StringLimit
BY TwoBytesAre, SMT DEF StringLimit

\* What a field with a text needs,
LEMMA TextField ==
  ASSUME NEW s \in Text
  PROVE  /\ FieldReads("string", EncodeString(s), s)
         /\ EncodeString(s) \in Seq(Nat)
         /\ Len(EncodeString(s)) \in Nat /\ Len(EncodeString(s)) <= StringLimit
<1>1. IsString(s)
  BY TextAssumption
<1>2. Len(EncodeString(s)) = 2 + Len(s) /\ Len(s) \in TwoBytes /\ EncodeString(s) \in Seq(Nat)
  BY <1>1, StringFrame
<1>. QED
  BY <1>1, <1>2, StringField, StringRoom

\* one with a payload or password,
LEMMA BytesField ==
  ASSUME NEW s \in Binary
  PROVE  /\ FieldReads("binary", EncodeString(s), s)
         /\ EncodeString(s) \in Seq(Nat)
         /\ Len(EncodeString(s)) \in Nat /\ Len(EncodeString(s)) <= StringLimit
         /\ s \in Seq(Nat) /\ Len(s) \in Nat /\ Len(s) <= StringLimit
<1>1. IsBinary(s)
  BY BinaryAssumption
<1>2. FieldReads("binary", EncodeString(s), s)
      /\ Len(EncodeString(s)) = 2 + Len(s) /\ Len(s) \in TwoBytes
  BY <1>1, BinaryField
<1>3. EncodeString(s) \in Seq(Nat)
  BY <1>2 DEF FieldReads
<1>4. s \in Seq(Nat) /\ Len(s) \in Nat
  BY <1>1, BinaryShort, LenProperties DEF TwoByteLong
<1>5. 2 + Len(s) \in Nat /\ 2 + Len(s) <= StringLimit
  BY <1>2, StringRoom
<1>6. Len(s) <= StringLimit
  BY <1>4, <1>5, Room
<1>. QED
  BY <1>2, <1>3, <1>4, <1>5, <1>6

\* and one with properties.
LEMMA PropertiesRoom ==
  ASSUME Width, NEW ps \in Properties
  PROVE  /\ FieldReads("properties", EncodeProperties(ps), ps)
         /\ EncodeProperties(ps) \in Seq(Nat)
         /\ Len(EncodeProperties(ps)) \in Nat /\ Len(EncodeProperties(ps)) <= LongestProperties
BY PropertiesField DEF FieldReads

\* The id of a PUBLISH, if it has one.
LEMMA IdField ==
  ASSUME NEW p, p.qos \in 0 .. 2,
         p.packet_id \in (IF p.qos > 0 THEN {<<n>> : n \in Number} ELSE {<<>>})
  PROVE  /\ IdKind(p.qos)[1] = "packet_id" /\ IdKind(p.qos) = <<IdKind(p.qos)[1], IdKind(p.qos)[2]>>
         /\ FieldReads(IdKind(p.qos)[2], EncodeId(p), p.packet_id)
         /\ EncodeId(p) \in Seq(Nat) /\ Len(EncodeId(p)) \in Nat /\ Len(EncodeId(p)) <= 2
<1>1. IdKind(p.qos)[1] = "packet_id" /\ IdKind(p.qos) = <<IdKind(p.qos)[1], IdKind(p.qos)[2]>>
  BY DEF IdKind
<1>2. CASE p.qos > 0
  <2>1. PICK n \in Number : p.packet_id = <<n>>
    BY <1>2
  <2>2. n \in TwoBytes
    BY NumberAssumption
  <2>3. EncodeId(p) = U16(n)
    BY <1>2, <2>1 DEF EncodeId
  <2>4. IdKind(p.qos)[2] = "id"
    BY <1>2 DEF IdKind
  <2>5. FieldReads("id", U16(n), <<n>>) /\ U16(n) \in Seq(Nat) /\ Len(U16(n)) = 2
    BY <2>2, NumberField
  <2>6. FieldReads(IdKind(p.qos)[2], EncodeId(p), p.packet_id)
    BY <2>1, <2>3, <2>4, <2>5
  <2>7. EncodeId(p) \in Seq(Nat) /\ Len(EncodeId(p)) \in Nat /\ Len(EncodeId(p)) <= 2
    BY <2>3, <2>5
  <2>. QED
    BY <1>1, <2>6, <2>7
<1>3. CASE ~(p.qos > 0)
  <2>1. EncodeId(p) = <<>> /\ p.packet_id = <<>> /\ IdKind(p.qos)[2] = "absent"
    BY <1>3 DEF EncodeId, IdKind
  <2>2. <<>> \in Seq(Nat) /\ Len(<<>>) = 0
    OBVIOUS
  <2>. QED
    BY <1>1, <2>1, <2>2, NoBytes
<1>. QED
  BY <1>2, <1>3

\* The fields of a record, put together again.
LEMMA FieldsOfPublishV3 ==
  ASSUME NEW p, NEW Q, NEW T, NEW I, NEW B,
         p \in [type : {"PUBLISH"}, qos : Q, retain : BOOLEAN, topic : T, packet_id : I, payload : B]
  PROVE  Merge([type |-> "PUBLISH", qos |-> p.qos, retain |-> p.retain],
               AndField("payload", p.payload,
                  AndField("packet_id", p.packet_id, AndField("topic", p.topic, <<>>)))) = p
BY DEF Merge, AndField

\* A PUBLISH of version 3.1.1 survives, with its packet id or without.
LEMMA PublishV3Back ==
  ASSUME Width, NEW qos \in 0 .. 2, NEW p \in Publishes(4, qos)
  PROVE  Survives(4, p, Encode(4, p))
<1>1. /\ p \in [type : {"PUBLISH"}, qos : {qos}, retain : BOOLEAN, topic : Text,
                packet_id : IF qos > 0 THEN {<<n>> : n \in Number} ELSE {<<>>}, payload : Binary]
      /\ p.type = "PUBLISH" /\ p.qos = qos /\ p.retain \in BOOLEAN /\ p.topic \in Text
      /\ p.packet_id \in (IF p.qos > 0 THEN {<<n>> : n \in Number} ELSE {<<>>})
      /\ p.payload \in Binary
  BY DEF Publishes
<1> DEFINE g1 == EncodeString(p.topic)
           g2 == EncodeId(p)
           g3 == p.payload
           body == (g1 \o g2) \o g3
           v1 == AndField("topic", p.topic, <<>>)
           v2 == AndField("packet_id", p.packet_id, v1)
           v3 == AndField("payload", p.payload, v2)
           l1 == <<<<"topic", "string">>>>
           l2 == Append(l1, <<"packet_id", IdKind(qos)[2]>>)
           l3 == Append(l2, <<"payload", "payload">>)
<1>2. Encode(4, p) = Frame(4, p, body)
  BY <1>1 DEF Encode, BodyV3, EncodePublishV3, Acks, Pings
<1>3. Merge([type |-> "PUBLISH", qos |-> p.qos, retain |-> p.retain], v3) = p
  BY <1>1, FieldsOfPublishV3
<1>4. Layout(4, "PUBLISH", qos) = l3
  <2>1. Layout(4, "PUBLISH", qos) = <<<<"topic", "string">>, IdKind(qos), <<"payload", "payload">>>>
    BY DEF Layout, LayoutV3, PublishV3, Acks, Pings
  <2>2. IdKind(qos) = <<"packet_id", IdKind(qos)[2]>>
    BY <1>1, IdField
  <2>. QED
    BY <2>1, <2>2, Layouts
<1>5. LayoutReads(l1, g1, v1)
  BY <1>1, TextField, FirstReads
<1>6. FieldReads(IdKind(qos)[2], g2, p.packet_id)
  BY <1>1, IdField
<1> HIDE DEF l1, v1, g1, g2
<1>7. LayoutReads(l2, g1 \o g2, v2)
  BY <1>5, <1>6, ReadsMore
<1>8. g3 \in Seq(Nat) /\ Read("payload", g3) = Ok(p.payload, Len(g3))
  BY <1>1, BytesField DEF Read
<1> HIDE DEF l2, v2, g3
<1>9. LayoutEnds(l3, body, v3)
  BY <1>7, <1>8, EndsMore
<1>10. body \in Seq(Nat) /\ Len(body) < LengthLimit
  <2>1. g1 \in Seq(Nat) /\ Len(g1) \in Nat /\ Len(g1) <= StringLimit
    BY <1>1, TextField DEF g1
  <2>2. g2 \in Seq(Nat) /\ Len(g2) \in Nat /\ Len(g2) <= 2
    BY <1>1, IdField DEF g2
  <2>3. g3 \in Seq(Nat) /\ Len(g3) \in Nat /\ Len(g3) <= StringLimit
    BY <1>1, BytesField DEF g3
  <2>4. body \in Seq(Nat) /\ Len(body) = (Len(g1) + Len(g2)) + Len(g3)
    BY <2>1, <2>2, <2>3, NatParts
  <2>. QED
    BY <2>1, <2>2, <2>3, <2>4, Room
<1> HIDE DEF l3, v3, body
<1>. QED
  BY <1>1, <1>2, <1>3, <1>4, <1>9, <1>10, PublishByLayout DEF Survives

\* The lists that are sent.
LEMMA ListOf ==
  ASSUME NEW S, NEW list \in UpTo2(S)
  PROVE  /\ list \in Seq(S) /\ list \in Seq({list[i] : i \in DOMAIN list})
         /\ Len(list) \in {1, 2} /\ DOMAIN list = 1 .. Len(list)
         /\ \A i \in DOMAIN list : list[i] \in S
<1>1. PICK x \in S, y \in S : list = <<x>> \/ list = <<x, y>>
  <2>1. CASE \E x \in S : list = <<x>>
    BY <2>1
  <2>2. CASE \E x \in S : list = <<x, CHOOSE y \in S : TRUE>>
    <3> DEFINE y == CHOOSE z \in S : TRUE
    <3>1. PICK x \in S : list = <<x, y>>
      BY <2>2
    <3>2. y \in S
      OBVIOUS
    <3>. QED
      BY <3>1, <3>2
  <2>. QED
    BY <2>1, <2>2 DEF UpTo2
<1>2. CASE list = <<x>>
  <2>1. DOMAIN list = {1} /\ list[1] = x /\ Len(list) = 1 /\ 1 .. 1 = {1}
    BY <1>2
  <2>2. list \in Seq({list[i] : i \in {1}}) /\ list \in Seq(S)
    BY <1>2
  <2>. QED
    BY <2>1, <2>2
<1>3. CASE list = <<x, y>>
  <2>1. DOMAIN list = {1, 2} /\ list[1] = x /\ list[2] = y /\ Len(list) = 2 /\ 1 .. 2 = {1, 2}
    BY <1>3
  <2>2. list \in Seq({list[i] : i \in {1, 2}}) /\ list \in Seq(S)
    BY <1>3
  <2>. QED
    BY <2>1, <2>2
<1>. QED
  BY <1>1, <1>2, <1>3

\* One or two frames one behind the other.
LEMMA TwoFrames ==
  ASSUME NEW fs \in Seq(Seq(Nat)), Len(fs) \in {1, 2}, NEW m \in Nat,
         \A i \in 1 .. Len(fs) : Len(fs[i]) <= m
  PROVE  FlattenSeq(fs) \in Seq(Nat) /\ Len(FlattenSeq(fs)) \in Nat /\ Len(FlattenSeq(fs)) <= 2 * m
<1>1. PICK f \in [0 .. Len(fs) -> Seq(Nat)] :
        /\ f[0] = <<>>
        /\ \A i \in 1 .. Len(fs) : f[i] = f[i - 1] \o fs[i]
        /\ FlattenSeq(fs) = f[Len(fs)]
  BY FlattenIsChain
<1>2. \A i \in 1 .. Len(fs) : fs[i] \in Seq(Nat) /\ Len(fs[i]) \in Nat
  <2>1. \A i \in 1 .. Len(fs) : fs[i] \in Seq(Nat)
    BY ElementOfSeq
  <2>. QED
    BY <2>1, LenProperties
<1>3. f[1] = fs[1]
  <2>1. 1 \in 1 .. Len(fs) /\ f[1] = f[1 - 1] \o fs[1] /\ fs[1] \in Seq(Nat)
    BY <1>1, <1>2
  <2>2. f[1] = <<>> \o fs[1]
    <3>1. f[1 - 1] = <<>>
      <4>1. 1 - 1 = 0
        OBVIOUS
      <4>. QED
        BY <1>1, <4>1, Zenon
    <3>. QED
      BY <2>1, <3>1, Zenon
  <2>. QED
    BY <2>1, <2>2, ConcatEmptySeq
<1>4. CASE Len(fs) = 1
  <2>1. FlattenSeq(fs) = fs[1] /\ 1 \in 1 .. Len(fs)
    BY <1>1, <1>3, <1>4
  <2>. QED
    BY <1>2, <2>1
<1>5. CASE Len(fs) = 2
  <2>1. 1 \in 1 .. Len(fs) /\ 2 \in 1 .. Len(fs)
    BY <1>5
  <2>2. f[2] = f[2 - 1] \o fs[2]
    BY <1>1, <2>1
  <2>3. FlattenSeq(fs) = fs[1] \o fs[2]
    <3>1. f[2 - 1] = fs[1]
      <4>1. 2 - 1 = 1
        OBVIOUS
      <4>. QED
        BY <1>3, <4>1, Zenon
    <3>. QED
      BY <1>1, <1>5, <2>2, <3>1, Zenon
  <2>4. FlattenSeq(fs) \in Seq(Nat) /\ Len(FlattenSeq(fs)) = Len(fs[1]) + Len(fs[2])
    BY <1>2, <2>1, <2>3, NatParts
  <2>5. /\ Len(fs[1]) \in Nat /\ Len(fs[1]) <= m
        /\ Len(fs[2]) \in Nat /\ Len(fs[2]) <= m
    BY <1>2, <2>1
  <2> DEFINE n == Len(FlattenSeq(fs))
             n1 == Len(fs[1])
             n2 == Len(fs[2])
  <2>6. n = n1 + n2 /\ n1 \in Nat /\ n1 <= m /\ n2 \in Nat /\ n2 <= m
    BY <2>4, <2>5
  <2> HIDE DEF n, n1, n2
  <2>7. n \in Nat /\ n <= 2 * m
    BY <2>6
  <2>. QED
    BY <2>4, <2>7 DEF n
<1>. QED
  BY <1>4, <1>5

\* The topics of an UNSUBSCRIBE are read back from the end of the packet,
LEMMA TopicsField ==
  ASSUME NEW list \in UpTo2(Text)
  PROVE  /\ Read("topics", EncodeList(list, EncodeString)) = Ok(list, Len(EncodeList(list, EncodeString)))
         /\ EncodeList(list, EncodeString) \in Seq(Nat)
         /\ Len(EncodeList(list, EncodeString)) \in Nat
         /\ Len(EncodeList(list, EncodeString)) <= 2 * (StringLimit + 1)
<1> DEFINE e == EncodeList(list, EncodeString)
           fs == [i \in DOMAIN list |-> EncodeString(list[i])]
<1>1. /\ list \in Seq({list[i] : i \in DOMAIN list}) /\ Len(list) \in {1, 2}
      /\ DOMAIN list = 1 .. Len(list) /\ \A i \in DOMAIN list : list[i] \in Text
  BY ListOf
<1>2. ASSUME NEW x \in Text
      PROVE  EncodeString(x) \in Seq(Nat) /\ Len(EncodeString(x)) <= StringLimit + 1
  <2>1. EncodeString(x) \in Seq(Nat) /\ Len(EncodeString(x)) \in Nat /\ Len(EncodeString(x)) <= StringLimit
    BY TextField
  <2>. QED
    BY <2>1, Room
<1>3. fs \in Seq(Seq(Nat)) /\ Len(fs) = Len(list) /\ \A i \in 1 .. Len(list) : fs[i] = EncodeString(list[i])
  BY <1>1, <1>2
<1> HIDE DEF fs
<1>4. e = FlattenSeq(fs)
  BY DEF EncodeList, fs
<1>5. StringLimit + 1 \in Nat
  BY Room
<1>6. e \in Seq(Nat) /\ Len(e) \in Nat /\ Len(e) <= 2 * (StringLimit + 1)
  <2> DEFINE m == StringLimit + 1
  <2>1. \A i \in 1 .. Len(fs) : Len(fs[i]) <= m
    BY <1>1, <1>2, <1>3
  <2>2. Len(fs) \in {1, 2} /\ m \in Nat
    BY <1>1, <1>3, <1>5
  <2> HIDE DEF e, m
  <2>3. e \in Seq(Nat) /\ Len(e) \in Nat /\ Len(e) <= 2 * m
    BY <1>3, <1>4, <2>1, <2>2, TwoFrames
  <2>. QED
    BY <2>3 DEF m
<1>7. DecodeList(e, DecodeString) = Ok(list, Len(e))
  <2>1. \A i \in DOMAIN list : IsString(list[i])
    BY <1>1, TextAssumption
  <2>. QED
    BY <1>1, <2>1, StringsBack
<1>8. Read("topics", e) = DecodeList(e, DecodeString)
  BY DEF Read
<1>. QED
  BY <1>6, <1>7, <1>8

\* and the filters of a SUBSCRIBE of version 3.1.1,
LEMMA FiltersV3Field ==
  ASSUME NEW list \in UpTo2(FiltersV3)
  PROVE  /\ Read("filters v3", EncodeList(list, EncodeFilterV3)) = Ok(list, Len(EncodeList(list, EncodeFilterV3)))
         /\ EncodeList(list, EncodeFilterV3) \in Seq(Nat)
         /\ Len(EncodeList(list, EncodeFilterV3)) \in Nat
         /\ Len(EncodeList(list, EncodeFilterV3)) <= 2 * (StringLimit + 1)
<1> DEFINE e == EncodeList(list, EncodeFilterV3)
           fs == [i \in DOMAIN list |-> EncodeFilterV3(list[i])]
<1>1. /\ list \in Seq({list[i] : i \in DOMAIN list}) /\ Len(list) \in {1, 2}
      /\ DOMAIN list = 1 .. Len(list) /\ \A i \in DOMAIN list : list[i] \in FiltersV3
  <2>1. list \in Seq({list[i] : i \in DOMAIN list}) /\ Len(list) \in {1, 2}
    BY ListOf
  <2>2. DOMAIN list = 1 .. Len(list)
    BY ListOf
  <2>3. \A i \in DOMAIN list : list[i] \in FiltersV3
    BY ListOf
  <2>. QED
    BY <2>1, <2>2, <2>3
<1>2. ASSUME NEW x \in FiltersV3
      PROVE  EncodeFilterV3(x) \in Seq(Nat) /\ Len(EncodeFilterV3(x)) <= StringLimit + 1
  <2>1. EncodeString(x.path) \o <<x.qos>> = EncodeFilterV3(x) /\ x.path \in Text /\ x.qos \in Nat
    <3>1. x.path \in Text /\ x.qos \in Nat
      BY DEF FiltersV3
    <3>. QED
      BY <3>1 DEF EncodeFilterV3
  <2>2. IsString(x.path)
    BY <2>1, TextAssumption
  <2>3. EncodeFilterV3(x) \in Seq(Nat) /\ Len(EncodeFilterV3(x)) = (2 + Len(x.path)) + 1
    BY <2>1, <2>2, StringAndByte
  <2>4. 2 + Len(x.path) \in Nat /\ 2 + Len(x.path) <= StringLimit
    BY <2>2, StringFrame, StringRoom
  <2>. QED
    BY <2>3, <2>4, Room
<1>3. fs \in Seq(Seq(Nat)) /\ Len(fs) = Len(list) /\ \A i \in 1 .. Len(list) : fs[i] = EncodeFilterV3(list[i])
  BY <1>1, <1>2
<1> HIDE DEF fs
<1>4. e = FlattenSeq(fs)
  BY DEF EncodeList, fs
<1>5. StringLimit + 1 \in Nat
  BY Room
<1>6. e \in Seq(Nat) /\ Len(e) \in Nat /\ Len(e) <= 2 * (StringLimit + 1)
  <2> DEFINE m == StringLimit + 1
  <2>1. \A i \in 1 .. Len(fs) : Len(fs[i]) <= m
    BY <1>1, <1>2, <1>3
  <2>2. Len(fs) \in {1, 2} /\ m \in Nat
    BY <1>1, <1>3, <1>5
  <2> HIDE DEF e, m
  <2>3. e \in Seq(Nat) /\ Len(e) \in Nat /\ Len(e) <= 2 * m
    BY <1>3, <1>4, <2>1, <2>2, TwoFrames
  <2>. QED
    BY <2>3 DEF m
<1>7. DecodeList(e, DecodeFilterV3) = Ok(list, Len(e))
  <2>1. \A i \in DOMAIN list : list[i] \in [path : Text, qos : 0 .. 2]
    BY <1>1 DEF FiltersV3
  <2>. QED
    BY <1>1, <2>1, FiltersV3Back
<1>8. Read("filters v3", e) = DecodeList(e, DecodeFilterV3)
  BY DEF Read
<1>. QED
  BY <1>6, <1>7, <1>8

\* and those of one of version 5.0.
LEMMA FiltersV5Field ==
  ASSUME NEW list \in UpTo2(FiltersV5)
  PROVE  /\ Read("filters v5", EncodeList(list, EncodeFilterV5)) = Ok(list, Len(EncodeList(list, EncodeFilterV5)))
         /\ EncodeList(list, EncodeFilterV5) \in Seq(Nat)
         /\ Len(EncodeList(list, EncodeFilterV5)) \in Nat
         /\ Len(EncodeList(list, EncodeFilterV5)) <= 2 * (StringLimit + 1)
<1> DEFINE e == EncodeList(list, EncodeFilterV5)
           fs == [i \in DOMAIN list |-> EncodeFilterV5(list[i])]
<1>1. /\ list \in Seq({list[i] : i \in DOMAIN list}) /\ Len(list) \in {1, 2}
      /\ DOMAIN list = 1 .. Len(list) /\ \A i \in DOMAIN list : list[i] \in FiltersV5
  <2>1. list \in Seq({list[i] : i \in DOMAIN list}) /\ Len(list) \in {1, 2}
    BY ListOf
  <2>2. DOMAIN list = 1 .. Len(list)
    BY ListOf
  <2>3. \A i \in DOMAIN list : list[i] \in FiltersV5
    BY ListOf
  <2>. QED
    BY <2>1, <2>2, <2>3
<1>2. ASSUME NEW x \in FiltersV5
      PROVE  EncodeFilterV5(x) \in Seq(Nat) /\ Len(EncodeFilterV5(x)) <= StringLimit + 1
  <2> DEFINE b == x.qos + Flag(x.no_local, 4) + Flag(x.retain_as_published, 8) + 16 * x.retain_handling
  <2>1. x.path \in Text /\ b \in Nat
    BY FilterBits DEF FiltersV5
  <2>2. IsString(x.path)
    BY <2>1, TextAssumption
  <2>3. EncodeFilterV5(x) \in Seq(Nat) /\ Len(EncodeFilterV5(x)) = (2 + Len(x.path)) + 1
    <3>1. EncodeFilterV5(x) = EncodeString(x.path) \o <<b>>
      BY DEF EncodeFilterV5
    <3> HIDE DEF b
    <3>. QED
      BY <2>1, <2>2, <3>1, StringAndByte
  <2>4. 2 + Len(x.path) \in Nat /\ 2 + Len(x.path) <= StringLimit
    BY <2>2, StringFrame, StringRoom
  <2>. QED
    BY <2>3, <2>4, Room
<1>3. fs \in Seq(Seq(Nat)) /\ Len(fs) = Len(list) /\ \A i \in 1 .. Len(list) : fs[i] = EncodeFilterV5(list[i])
  BY <1>1, <1>2
<1> HIDE DEF fs
<1>4. e = FlattenSeq(fs)
  BY DEF EncodeList, fs
<1>5. StringLimit + 1 \in Nat
  BY Room
<1>6. e \in Seq(Nat) /\ Len(e) \in Nat /\ Len(e) <= 2 * (StringLimit + 1)
  <2> DEFINE m == StringLimit + 1
  <2>1. \A i \in 1 .. Len(fs) : Len(fs[i]) <= m
    BY <1>1, <1>2, <1>3
  <2>2. Len(fs) \in {1, 2} /\ m \in Nat
    BY <1>1, <1>3, <1>5
  <2> HIDE DEF e, m
  <2>3. e \in Seq(Nat) /\ Len(e) \in Nat /\ Len(e) <= 2 * m
    BY <1>3, <1>4, <2>1, <2>2, TwoFrames
  <2>. QED
    BY <2>3 DEF m
<1>7. DecodeList(e, DecodeFilterV5) = Ok(list, Len(e))
  BY <1>1, FiltersV5Back
<1>8. Read("filters v5", e) = DecodeList(e, DecodeFilterV5)
  BY DEF Read
<1>. QED
  BY <1>6, <1>7, <1>8

\* Codes are bytes of their own.
LEMMA CodesField ==
  /\ \A list \in UpTo2(SubAckCode) :
       /\ Read("returns", list) = Ok(list, Len(list))
       /\ list \in Seq(Nat) /\ Len(list) \in Nat /\ Len(list) <= 2
  /\ \A list \in UpTo2(ReasonCode) :
       /\ Read("reasons", list) = Ok(list, Len(list))
       /\ list \in Seq(Nat) /\ Len(list) \in Nat /\ Len(list) <= 2
<1>1. ASSUME NEW list \in UpTo2(SubAckCode)
      PROVE  /\ Read("returns", list) = Ok(list, Len(list))
             /\ list \in Seq(Nat) /\ Len(list) \in Nat /\ Len(list) <= 2
  <2>1. list \in Seq(SubAckCode) /\ Len(list) \in {1, 2}
    BY ListOf
  <2>2. OnlyKnown(list, SubAckCode) = Ok(list, Len(list))
    BY <2>1, CodesBack
  <2>3. Read("returns", list) = OnlyKnown(list, SubAckCode)
    BY DEF Read
  <2>4. list \in Seq(Nat)
    BY <2>1, CodesAreBytes, WiderSeq
  <2>5. Len(list) \in Nat /\ Len(list) <= 2
    BY <2>1
  <2>. QED
    BY <2>2, <2>3, <2>4, <2>5, Zenon
<1>2. ASSUME NEW list \in UpTo2(ReasonCode)
      PROVE  /\ Read("reasons", list) = Ok(list, Len(list))
             /\ list \in Seq(Nat) /\ Len(list) \in Nat /\ Len(list) <= 2
  <2>1. list \in Seq(ReasonCode) /\ Len(list) \in {1, 2}
    BY ListOf
  <2>2. OnlyKnown(list, ReasonCode) = Ok(list, Len(list))
    BY <2>1, CodesBack
  <2>3. Read("reasons", list) = OnlyKnown(list, ReasonCode)
    BY DEF Read
  <2>4. list \in Seq(Nat)
    BY <2>1, CodesAreBytes, WiderSeq
  <2>5. Len(list) \in Nat /\ Len(list) <= 2
    BY <2>1
  <2>. QED
    BY <2>2, <2>3, <2>4, <2>5, Zenon
<1>. QED
  BY <1>1, <1>2

\* The other types and their flags.
LEMMA OtherTypes ==
  ASSUME NEW type, type \in (Acks \union Pings) \union
                            {"CONNECT", "CONNACK", "SUBSCRIBE", "SUBACK", "UNSUBSCRIBE", "UNSUBACK",
                             "DISCONNECT", "AUTH"}
  PROVE  \E c \in 1 .. 15 : type = PacketTypes[c]
<1> DEFINE P == PacketTypes
<1>1. /\ P[1] = "CONNECT" /\ P[2] = "CONNACK" /\ P[4] = "PUBACK" /\ P[5] = "PUBREC"
      /\ P[6] = "PUBREL" /\ P[7] = "PUBCOMP" /\ P[8] = "SUBSCRIBE" /\ P[9] = "SUBACK"
      /\ P[10] = "UNSUBSCRIBE" /\ P[11] = "UNSUBACK" /\ P[12] = "PINGREQ"
      /\ P[13] = "PINGRESP" /\ P[14] = "DISCONNECT" /\ P[15] = "AUTH"
  BY DEF PacketTypes
<1> HIDE DEF P
<1> DEFINE C == {1, 2, 4, 5, 6, 7, 8, 9, 10, 11, 12, 13, 14, 15}
<1>2. \E c \in C : type = P[c]
  <2>1. \/ type = P[1] \/ type = P[2] \/ type = P[4] \/ type = P[5] \/ type = P[6]
        \/ type = P[7] \/ type = P[8] \/ type = P[9] \/ type = P[10] \/ type = P[11]
        \/ type = P[12] \/ type = P[13] \/ type = P[14] \/ type = P[15]
    BY <1>1 DEF Acks, Pings
  <2>. QED
    BY <2>1
<1>3. C \subseteq 1 .. 15
  OBVIOUS
<1> HIDE DEF C
<1>. QED
  BY <1>2, <1>3 DEF P

\* The low bits of the first byte, of all packets but PUBLISH.
LEMMA OtherFlags ==
  ASSUME NEW v, NEW p, p.type # "PUBLISH"
  PROVE  HeaderFlags(v, p) \in 0 .. 15
BY DEF HeaderFlags

\* Fields that several packets have.
LEMMA NumberRoom ==
  ASSUME NEW n \in Number
  PROVE  FieldReads("u16", U16(n), n) /\ U16(n) \in Seq(Nat) /\ Len(U16(n)) \in Nat /\ Len(U16(n)) <= 2
<1>1. n \in TwoBytes
  BY NumberAssumption
<1>2. FieldReads("u16", U16(n), n) /\ U16(n) \in Seq(Nat) /\ Len(U16(n)) = 2
  BY <1>1, NumberField
<1>. QED
  BY <1>2

\* A reason code is read back, and is short,
LEMMA ReasonRoom ==
  ASSUME NEW c \in ReasonCode
  PROVE  FieldReads("reason", <<c>>, c) /\ FieldReads("reason or success", <<c>>, c)
         /\ <<c>> \in Seq(Nat) /\ Len(<<c>>) \in Nat /\ Len(<<c>>) <= 2
<1>1. c \in Nat
  BY CodesAreBytes
<1>2. FieldReads("reason", <<c>>, c) /\ FieldReads("reason or success", <<c>>, c)
  BY <1>1, ByteFields
<1>3. <<c>> \in Seq(Nat) /\ Len(<<c>>) \in Nat /\ Len(<<c>>) <= 2
  BY <1>1
<1>. QED
  BY <1>2, <1>3

\* a return code,
LEMMA ReturnRoom ==
  ASSUME NEW c \in ReturnCode
  PROVE  FieldReads("return", <<c>>, c)
         /\ <<c>> \in Seq(Nat) /\ Len(<<c>>) \in Nat /\ Len(<<c>>) <= 2
<1>1. c \in Nat
  BY CodesAreBytes
<1>2. FieldReads("return", <<c>>, c)
  BY <1>1, ByteFields
<1>3. <<c>> \in Seq(Nat) /\ Len(<<c>>) \in Nat /\ Len(<<c>>) <= 2
  BY <1>1
<1>. QED
  BY <1>2, <1>3

\* and the flag that a session is present.
LEMMA FlagRoom ==
  ASSUME NEW on \in BOOLEAN
  PROVE  FieldReads("flag", <<Flag(on, 1)>>, on)
         /\ <<Flag(on, 1)>> \in Seq(Nat) /\ Len(<<Flag(on, 1)>>) \in Nat /\ Len(<<Flag(on, 1)>>) <= 2
<1>1. Flag(on, 1) \in Nat /\ Bit(Flag(on, 1), 1) = on
  BY LowestBit
<1> DEFINE n == Flag(on, 1)
<1> HIDE DEF n
<1>2. FieldReads("flag", <<n>>, Bit(n, 1))
  BY <1>1, ByteFields DEF n
<1>3. <<n>> \in Seq(Nat) /\ Len(<<n>>) = 1
  BY <1>1 DEF n
<1>. QED
  BY <1>1, <1>2, <1>3 DEF n

\* Two bytes are one behind the other.
LEMMA TwoBytesApart == \A a, b : <<a, b>> = <<a>> \o <<b>>
<1> SUFFICES ASSUME NEW a, NEW b PROVE <<a, b>> = <<a>> \o <<b>>
  OBVIOUS
<1> DEFINE S == {a, b}
           x == <<a>>
           y == <<b>>
           z == <<a, b>>
<1>1. x \in Seq(S) /\ y \in Seq(S) /\ z \in Seq(S)
  OBVIOUS
<1>2. Len(x) = 1 /\ Len(y) = 1 /\ Len(z) = 2 /\ x[1] = a /\ y[1] = b /\ z[1] = a /\ z[2] = b
  OBVIOUS
<1> HIDE DEF x, y, z, S
<1>3. /\ x \o y \in Seq(S) /\ Len(x \o y) = Len(x) + Len(y)
      /\ \A i \in 1 .. Len(x) + Len(y) : (x \o y)[i] = IF i <= Len(x) THEN x[i] ELSE y[i - Len(x)]
  BY <1>1, ConcatProperties
<1>4. (x \o y)[1] = a /\ (x \o y)[2] = b
  BY <1>2, <1>3
<1>5. x \o y = z
  <2>1. Len(x \o y) = Len(z) /\ \A i \in 1 .. Len(z) : (x \o y)[i] = z[i]
    BY <1>2, <1>3, <1>4
  <2>. QED
    BY <1>1, <1>3, <2>1, SeqEqual
<1>. QED
  BY <1>5 DEF x, y, z

-----------------------------------------------------------------------------
(* Packets of version 3.1.1 *)

\* A CONNACK.
LEMMA ConnAckV3Back ==
  ASSUME Width, NEW p \in ConnAcks(4)
  PROVE  Survives(4, p, Encode(4, p))
<1>1. /\ p \in [type : {"CONNACK"}, session_present : BOOLEAN, return_code : ReturnCode]
      /\ p.type \in {"CONNACK"}
      /\ p.session_present \in BOOLEAN /\ p.return_code \in ReturnCode
  BY DEF ConnAcks
<1> DEFINE g1 == <<Flag(p.session_present, 1)>>
           g2 == <<p.return_code>>
           body == g1 \o g2
           v1 == AndField("session_present", p.session_present, <<>>)
           v2 == AndField("return_code", p.return_code, v1)
           l1 == <<<<"session_present", "flag">>>>
           l2 == Append(l1, <<"return_code", "return">>)
<1>2. Encode(4, p) = Frame(4, p, body)
  <2>1. Encode(4, p) = Frame(4, p, EncodeConnAckV3(p))
    BY <1>1 DEF Encode, BodyV3, Acks, Pings
  <2>2. EncodeConnAckV3(p) = body
    <3> DEFINE x == Flag(p.session_present, 1)
               y == p.return_code
    <3> HIDE DEF x, y
    <3>1. \A a, b : <<a, b>> = <<a>> \o <<b>>
      BY TwoBytesApart
    <3>. QED
      BY <3>1 DEF EncodeConnAckV3
  <2>. QED
    BY <2>1, <2>2
<1>3. Merge([type |-> p.type], v2) = p
  BY <1>1 DEF Merge, AndField
<1>4. \A q : Layout(4, p.type, q) = l2
  <2>1. \A q : Layout(4, p.type, q) = ConnAckV3
    BY <1>1 DEF Layout, LayoutV3, Acks, Pings
  <2>2. ConnAckV3 = l2
    BY Layouts DEF ConnAckV3
  <2>. QED
    BY <2>1, <2>2
<1>5. LayoutReads(l1, g1, v1)
  BY <1>1, FlagRoom, FirstReads
<1> HIDE DEF l1, v1, g1
<1>6. FieldReads("return", g2, p.return_code)
  BY <1>1, ReturnRoom
<1> HIDE DEF g2
<1>7. LayoutReads(l2, g1 \o g2, v2)
  BY <1>5, <1>6, ReadsMore
<1> HIDE DEF l2, v2
<1>8. LayoutEnds(l2, body, v2)
  BY <1>7, ReadsEnd
<1>9. body \in Seq(Nat) /\ Len(body) < LengthLimit
  <2>1. g1 \in Seq(Nat) /\ Len(g1) \in Nat /\ Len(g1) <= 2
    BY <1>1, FlagRoom DEF g1
  <2>2. g2 \in Seq(Nat) /\ Len(g2) \in Nat /\ Len(g2) <= 2
    BY <1>1, ReturnRoom DEF g2
  <2>3. body \in Seq(Nat) /\ Len(body) = Len(g1) + Len(g2)
    BY <2>1, <2>2, NatParts
  <2>. QED
    BY <2>1, <2>2, <2>3, Room
<1>10. PICK c \in 1 .. 15 : p.type = PacketTypes[c]
  BY <1>1, OtherTypes DEF Acks, Pings
<1>11. /\ p.type \notin {"CONNECT", "PUBLISH"} /\ (p.type = "AUTH" => 4 # 4)
      /\ HeaderFlags(4, p) \in 0 .. 15
  <2>1. p.type \notin {"CONNECT", "PUBLISH"} /\ (p.type = "AUTH" => 4 # 4)
    BY <1>1 DEF Acks, Pings
  <2>2. HeaderFlags(4, p) \in 0 .. 15
    BY <2>1, OtherFlags
  <2>. QED
    BY <2>1, <2>2
<1>12. \A q : LayoutEnds(Layout(4, p.type, q), body, v2)
  BY <1>4, <1>8
<1> HIDE DEF body, v2
<1>. QED
  BY <1>2, <1>3, <1>9, <1>10, <1>11, <1>12, ByLayout DEF Survives

\* A PUBACK, PUBREC, PUBREL, PUBCOMP or UNSUBACK.
LEMMA AckV3Back ==
  ASSUME Width, NEW p \in AcksOf(4, Acks \union {"UNSUBACK"})
  PROVE  Survives(4, p, Encode(4, p))
<1>1. /\ p \in [type : Acks \union {"UNSUBACK"}, packet_id : Number]
      /\ p.type \in Acks \union {"UNSUBACK"}
      /\ p.packet_id \in Number
  BY DEF AcksOf
<1> DEFINE g1 == U16(p.packet_id)
           body == g1
           v1 == AndField("packet_id", p.packet_id, <<>>)
           l1 == <<<<"packet_id", "u16">>>>
<1>2. Encode(4, p) = Frame(4, p, body)
  BY <1>1, Layouts DEF Encode, BodyV3, EncodeAckV3, Acks, Pings
<1>3. Merge([type |-> p.type], v1) = p
  BY <1>1 DEF Merge, AndField
<1>4. \A q : Layout(4, p.type, q) = l1
  <2>1. \A q : Layout(4, p.type, q) = AckV3
    BY <1>1 DEF Layout, LayoutV3, Acks, Pings
  <2>2. AckV3 = l1
    BY Layouts DEF AckV3
  <2>. QED
    BY <2>1, <2>2
<1>5. LayoutReads(l1, g1, v1)
  BY <1>1, NumberRoom, FirstReads
<1> HIDE DEF l1, v1, g1
<1>6. LayoutEnds(l1, body, v1)
  BY <1>5, ReadsEnd
<1>7. body \in Seq(Nat) /\ Len(body) < LengthLimit
  <2>1. g1 \in Seq(Nat) /\ Len(g1) \in Nat /\ Len(g1) <= 2
    BY <1>1, NumberRoom DEF g1
  <2>2. body \in Seq(Nat) /\ Len(body) = Len(g1)
    BY <2>1, NatParts
  <2>. QED
    BY <2>1, <2>2, Room
<1>8. PICK c \in 1 .. 15 : p.type = PacketTypes[c]
  BY <1>1, OtherTypes DEF Acks, Pings
<1>9. /\ p.type \notin {"CONNECT", "PUBLISH"} /\ (p.type = "AUTH" => 4 # 4)
      /\ HeaderFlags(4, p) \in 0 .. 15
  <2>1. p.type \notin {"CONNECT", "PUBLISH"} /\ (p.type = "AUTH" => 4 # 4)
    BY <1>1 DEF Acks, Pings
  <2>2. HeaderFlags(4, p) \in 0 .. 15
    BY <2>1, OtherFlags
  <2>. QED
    BY <2>1, <2>2
<1>10. \A q : LayoutEnds(Layout(4, p.type, q), body, v1)
  BY <1>4, <1>6
<1> HIDE DEF body, v1
<1>. QED
  BY <1>2, <1>3, <1>7, <1>8, <1>9, <1>10, ByLayout DEF Survives

\* A SUBSCRIBE.
LEMMA SubscribeV3Back ==
  ASSUME Width, NEW p \in Subscribes(4)
  PROVE  Survives(4, p, Encode(4, p))
<1>1. /\ p \in [type : {"SUBSCRIBE"}, packet_id : Number, filters : UpTo2(FiltersV3)]
      /\ p.type \in {"SUBSCRIBE"}
      /\ p.packet_id \in Number /\ p.filters \in UpTo2(FiltersV3)
  BY DEF Subscribes
<1> DEFINE g1 == U16(p.packet_id)
           g2 == EncodeList(p.filters, EncodeFilterV3)
           body == g1 \o g2
           v1 == AndField("packet_id", p.packet_id, <<>>)
           v2 == AndField("filters", p.filters, v1)
           l1 == <<<<"packet_id", "u16">>>>
           l2 == Append(l1, <<"filters", "filters v3">>)
<1>2. Encode(4, p) = Frame(4, p, body)
  BY <1>1, Layouts DEF Encode, BodyV3, EncodeSubscribeV3, Acks, Pings
<1>3. Merge([type |-> p.type], v2) = p
  BY <1>1 DEF Merge, AndField
<1>4. \A q : Layout(4, p.type, q) = l2
  <2>1. \A q : Layout(4, p.type, q) = SubscribeV3
    BY <1>1 DEF Layout, LayoutV3, Acks, Pings
  <2>2. SubscribeV3 = l2
    BY Layouts DEF SubscribeV3
  <2>. QED
    BY <2>1, <2>2
<1>5. LayoutReads(l1, g1, v1)
  BY <1>1, NumberRoom, FirstReads
<1> HIDE DEF l1, v1, g1
<1>6. g2 \in Seq(Nat) /\ Read("filters v3", g2) = Ok(p.filters, Len(g2))
  BY <1>1, FiltersV3Field
<1> HIDE DEF g2
<1>7. LayoutEnds(l2, body, v2)
  BY <1>5, <1>6, EndsMore
<1> HIDE DEF l2, v2
<1>8. body \in Seq(Nat) /\ Len(body) < LengthLimit
  <2>1. g1 \in Seq(Nat) /\ Len(g1) \in Nat /\ Len(g1) <= 2
    BY <1>1, NumberRoom DEF g1
  <2>2. g2 \in Seq(Nat) /\ Len(g2) \in Nat /\ Len(g2) <= 2 * (StringLimit + 1)
    BY <1>1, FiltersV3Field DEF g2
  <2>3. body \in Seq(Nat) /\ Len(body) = Len(g1) + Len(g2)
    BY <2>1, <2>2, NatParts
  <2>. QED
    BY <2>1, <2>2, <2>3, Room
<1>9. PICK c \in 1 .. 15 : p.type = PacketTypes[c]
  BY <1>1, OtherTypes DEF Acks, Pings
<1>10. /\ p.type \notin {"CONNECT", "PUBLISH"} /\ (p.type = "AUTH" => 4 # 4)
      /\ HeaderFlags(4, p) \in 0 .. 15
  <2>1. p.type \notin {"CONNECT", "PUBLISH"} /\ (p.type = "AUTH" => 4 # 4)
    BY <1>1 DEF Acks, Pings
  <2>2. HeaderFlags(4, p) \in 0 .. 15
    BY <2>1, OtherFlags
  <2>. QED
    BY <2>1, <2>2
<1>11. \A q : LayoutEnds(Layout(4, p.type, q), body, v2)
  BY <1>4, <1>7
<1> HIDE DEF body, v2
<1>. QED
  BY <1>2, <1>3, <1>8, <1>9, <1>10, <1>11, ByLayout DEF Survives

\* A SUBACK.
LEMMA SubAckV3Back ==
  ASSUME Width, NEW p \in SubAcks(4)
  PROVE  Survives(4, p, Encode(4, p))
<1>1. /\ p \in [type : {"SUBACK"}, packet_id : Number, return_codes : UpTo2(SubAckCode)]
      /\ p.type \in {"SUBACK"}
      /\ p.packet_id \in Number /\ p.return_codes \in UpTo2(SubAckCode)
  BY DEF SubAcks
<1> DEFINE g1 == U16(p.packet_id)
           g2 == p.return_codes
           body == g1 \o g2
           v1 == AndField("packet_id", p.packet_id, <<>>)
           v2 == AndField("return_codes", p.return_codes, v1)
           l1 == <<<<"packet_id", "u16">>>>
           l2 == Append(l1, <<"return_codes", "returns">>)
<1>2. Encode(4, p) = Frame(4, p, body)
  BY <1>1, Layouts DEF Encode, BodyV3, EncodeSubAckV3, Acks, Pings
<1>3. Merge([type |-> p.type], v2) = p
  BY <1>1 DEF Merge, AndField
<1>4. \A q : Layout(4, p.type, q) = l2
  <2>1. \A q : Layout(4, p.type, q) = SubAckV3
    BY <1>1 DEF Layout, LayoutV3, Acks, Pings
  <2>2. SubAckV3 = l2
    BY Layouts DEF SubAckV3
  <2>. QED
    BY <2>1, <2>2
<1>5. LayoutReads(l1, g1, v1)
  BY <1>1, NumberRoom, FirstReads
<1> HIDE DEF l1, v1, g1
<1>6. g2 \in Seq(Nat) /\ Read("returns", g2) = Ok(p.return_codes, Len(g2))
  BY <1>1, CodesField
<1> HIDE DEF g2
<1>7. LayoutEnds(l2, body, v2)
  BY <1>5, <1>6, EndsMore
<1> HIDE DEF l2, v2
<1>8. body \in Seq(Nat) /\ Len(body) < LengthLimit
  <2>1. g1 \in Seq(Nat) /\ Len(g1) \in Nat /\ Len(g1) <= 2
    BY <1>1, NumberRoom DEF g1
  <2>2. g2 \in Seq(Nat) /\ Len(g2) \in Nat /\ Len(g2) <= 2
    BY <1>1, CodesField DEF g2
  <2>3. body \in Seq(Nat) /\ Len(body) = Len(g1) + Len(g2)
    BY <2>1, <2>2, NatParts
  <2>. QED
    BY <2>1, <2>2, <2>3, Room
<1>9. PICK c \in 1 .. 15 : p.type = PacketTypes[c]
  BY <1>1, OtherTypes DEF Acks, Pings
<1>10. /\ p.type \notin {"CONNECT", "PUBLISH"} /\ (p.type = "AUTH" => 4 # 4)
      /\ HeaderFlags(4, p) \in 0 .. 15
  <2>1. p.type \notin {"CONNECT", "PUBLISH"} /\ (p.type = "AUTH" => 4 # 4)
    BY <1>1 DEF Acks, Pings
  <2>2. HeaderFlags(4, p) \in 0 .. 15
    BY <2>1, OtherFlags
  <2>. QED
    BY <2>1, <2>2
<1>11. \A q : LayoutEnds(Layout(4, p.type, q), body, v2)
  BY <1>4, <1>7
<1> HIDE DEF body, v2
<1>. QED
  BY <1>2, <1>3, <1>8, <1>9, <1>10, <1>11, ByLayout DEF Survives

\* An UNSUBSCRIBE.
LEMMA UnsubscribeV3Back ==
  ASSUME Width, NEW p \in Unsubscribes(4)
  PROVE  Survives(4, p, Encode(4, p))
<1>1. /\ p \in [type : {"UNSUBSCRIBE"}, packet_id : Number, filters : UpTo2(Text)]
      /\ p.type \in {"UNSUBSCRIBE"}
      /\ p.packet_id \in Number /\ p.filters \in UpTo2(Text)
  BY DEF Unsubscribes
<1> DEFINE g1 == U16(p.packet_id)
           g2 == EncodeList(p.filters, EncodeString)
           body == g1 \o g2
           v1 == AndField("packet_id", p.packet_id, <<>>)
           v2 == AndField("filters", p.filters, v1)
           l1 == <<<<"packet_id", "u16">>>>
           l2 == Append(l1, <<"filters", "topics">>)
<1>2. Encode(4, p) = Frame(4, p, body)
  BY <1>1, Layouts DEF Encode, BodyV3, EncodeUnsubscribeV3, Acks, Pings
<1>3. Merge([type |-> p.type], v2) = p
  BY <1>1 DEF Merge, AndField
<1>4. \A q : Layout(4, p.type, q) = l2
  <2>1. \A q : Layout(4, p.type, q) = UnsubscribeV3
    BY <1>1 DEF Layout, LayoutV3, Acks, Pings
  <2>2. UnsubscribeV3 = l2
    BY Layouts DEF UnsubscribeV3
  <2>. QED
    BY <2>1, <2>2
<1>5. LayoutReads(l1, g1, v1)
  BY <1>1, NumberRoom, FirstReads
<1> HIDE DEF l1, v1, g1
<1>6. g2 \in Seq(Nat) /\ Read("topics", g2) = Ok(p.filters, Len(g2))
  BY <1>1, TopicsField
<1> HIDE DEF g2
<1>7. LayoutEnds(l2, body, v2)
  BY <1>5, <1>6, EndsMore
<1> HIDE DEF l2, v2
<1>8. body \in Seq(Nat) /\ Len(body) < LengthLimit
  <2>1. g1 \in Seq(Nat) /\ Len(g1) \in Nat /\ Len(g1) <= 2
    BY <1>1, NumberRoom DEF g1
  <2>2. g2 \in Seq(Nat) /\ Len(g2) \in Nat /\ Len(g2) <= 2 * (StringLimit + 1)
    BY <1>1, TopicsField DEF g2
  <2>3. body \in Seq(Nat) /\ Len(body) = Len(g1) + Len(g2)
    BY <2>1, <2>2, NatParts
  <2>. QED
    BY <2>1, <2>2, <2>3, Room
<1>9. PICK c \in 1 .. 15 : p.type = PacketTypes[c]
  BY <1>1, OtherTypes DEF Acks, Pings
<1>10. /\ p.type \notin {"CONNECT", "PUBLISH"} /\ (p.type = "AUTH" => 4 # 4)
      /\ HeaderFlags(4, p) \in 0 .. 15
  <2>1. p.type \notin {"CONNECT", "PUBLISH"} /\ (p.type = "AUTH" => 4 # 4)
    BY <1>1 DEF Acks, Pings
  <2>2. HeaderFlags(4, p) \in 0 .. 15
    BY <2>1, OtherFlags
  <2>. QED
    BY <2>1, <2>2
<1>11. \A q : LayoutEnds(Layout(4, p.type, q), body, v2)
  BY <1>4, <1>7
<1> HIDE DEF body, v2
<1>. QED
  BY <1>2, <1>3, <1>8, <1>9, <1>10, <1>11, ByLayout DEF Survives

-----------------------------------------------------------------------------
(* Packets of version 5.0 *)

\* A CONNACK.
LEMMA ConnAckV5Back ==
  ASSUME Width, NEW p \in ConnAcks(5)
  PROVE  Survives(5, p, Encode(5, p))
<1>1. /\ p \in [type : {"CONNACK"}, session_present : BOOLEAN, reason_code : ReasonCode, properties : Properties]
      /\ p.type \in {"CONNACK"}
      /\ p.session_present \in BOOLEAN /\ p.reason_code \in ReasonCode /\ p.properties \in Properties
  BY DEF ConnAcks
<1> DEFINE g1 == <<Flag(p.session_present, 1)>>
           g2 == <<p.reason_code>>
           g3 == EncodeProperties(p.properties)
           body == (g1 \o g2) \o g3
           v1 == AndField("session_present", p.session_present, <<>>)
           v2 == AndField("reason_code", p.reason_code, v1)
           v3 == AndField("properties", p.properties, v2)
           l1 == <<<<"session_present", "flag">>>>
           l2 == Append(l1, <<"reason_code", "reason">>)
           l3 == Append(l2, <<"properties", "properties">>)
<1>2. Encode(5, p) = Frame(5, p, body)
  <2>1. Encode(5, p) = Frame(5, p, EncodeConnAckV5(p))
    BY <1>1 DEF Encode, BodyV5, Acks, Pings
  <2>2. EncodeConnAckV5(p) = body
    <3> DEFINE x == Flag(p.session_present, 1)
               y == p.reason_code
    <3> HIDE DEF x, y
    <3>1. \A a, b : <<a, b>> = <<a>> \o <<b>>
      BY TwoBytesApart
    <3>. QED
      BY <3>1 DEF EncodeConnAckV5
  <2>. QED
    BY <2>1, <2>2
<1>3. Merge([type |-> p.type], v3) = p
  BY <1>1 DEF Merge, AndField
<1>4. \A q : Layout(5, p.type, q) = l3
  <2>1. \A q : Layout(5, p.type, q) = ConnAckV5
    BY <1>1 DEF Layout, LayoutV5, Acks, Pings
  <2>2. ConnAckV5 = l3
    <3> DEFINE a == <<"session_present", "flag">>
               b == <<"reason_code", "reason">>
               c == <<"properties", "properties">>
    <3>1. ConnAckV5 = <<a, b, c>> /\ l3 = Append(Append(<<a>>, b), c)
      BY DEF ConnAckV5
    <3> HIDE DEF a, b, c, l3
    <3>. QED
      BY <3>1, Layouts
  <2>. QED
    BY <2>1, <2>2
<1>5. LayoutReads(l1, g1, v1)
  BY <1>1, FlagRoom, FirstReads
<1> HIDE DEF l1, v1, g1
<1>6. FieldReads("reason", g2, p.reason_code)
  BY <1>1, ReasonRoom
<1> HIDE DEF g2
<1>7. LayoutReads(l2, g1 \o g2, v2)
  BY <1>5, <1>6, ReadsMore
<1> HIDE DEF l2, v2
<1>8. FieldReads("properties", g3, p.properties)
  BY <1>1, PropertiesRoom
<1> HIDE DEF g3
<1>9. LayoutReads(l3, (g1 \o g2) \o g3, v3)
  BY <1>7, <1>8, ReadsMore
<1> HIDE DEF l3, v3
<1>10. LayoutEnds(l3, body, v3)
  BY <1>9, ReadsEnd
<1>11. body \in Seq(Nat) /\ Len(body) < LengthLimit
  <2>1. g1 \in Seq(Nat) /\ Len(g1) \in Nat /\ Len(g1) <= 2
    BY <1>1, FlagRoom DEF g1
  <2>2. g2 \in Seq(Nat) /\ Len(g2) \in Nat /\ Len(g2) <= 2
    BY <1>1, ReasonRoom DEF g2
  <2>3. g3 \in Seq(Nat) /\ Len(g3) \in Nat /\ Len(g3) <= LongestProperties
    BY <1>1, PropertiesRoom DEF g3
  <2>4. body \in Seq(Nat) /\ Len(body) = (Len(g1) + Len(g2)) + Len(g3)
    BY <2>1, <2>2, <2>3, NatParts
  <2>. QED
    BY <2>1, <2>2, <2>3, <2>4, Room
<1>12. PICK c \in 1 .. 15 : p.type = PacketTypes[c]
  BY <1>1, OtherTypes DEF Acks, Pings
<1>13. /\ p.type \notin {"CONNECT", "PUBLISH"} /\ (p.type = "AUTH" => 5 # 4)
      /\ HeaderFlags(5, p) \in 0 .. 15
  <2>1. p.type \notin {"CONNECT", "PUBLISH"} /\ (p.type = "AUTH" => 5 # 4)
    BY <1>1 DEF Acks, Pings
  <2>2. HeaderFlags(5, p) \in 0 .. 15
    BY <2>1, OtherFlags
  <2>. QED
    BY <2>1, <2>2
<1>14. \A q : LayoutEnds(Layout(5, p.type, q), body, v3)
  BY <1>4, <1>10
<1> HIDE DEF body, v3
<1>. QED
  BY <1>2, <1>3, <1>11, <1>12, <1>13, <1>14, ByLayout DEF Survives

\* A PUBACK, PUBREC, PUBREL or PUBCOMP.
LEMMA AckV5Back ==
  ASSUME Width, NEW p \in AcksOf(5, Acks)
  PROVE  Survives(5, p, Encode(5, p))
<1>1. /\ p \in [type : Acks, packet_id : Number, reason_code : ReasonCode, properties : Properties]
      /\ p.type \in Acks
      /\ p.packet_id \in Number /\ p.reason_code \in ReasonCode /\ p.properties \in Properties
  BY DEF AcksOf
<1> DEFINE g1 == U16(p.packet_id)
           g2 == <<p.reason_code>>
           g3 == EncodeProperties(p.properties)
           body == (g1 \o g2) \o g3
           v1 == AndField("packet_id", p.packet_id, <<>>)
           v2 == AndField("reason_code", p.reason_code, v1)
           v3 == AndField("properties", p.properties, v2)
           l1 == <<<<"packet_id", "u16">>>>
           l2 == Append(l1, <<"reason_code", "reason or success">>)
           l3 == Append(l2, <<"properties", "properties">>)
<1>2. Encode(5, p) = Frame(5, p, body)
  BY <1>1, Layouts DEF Encode, BodyV5, EncodeAckV5, Acks, Pings
<1>3. Merge([type |-> p.type], v3) = p
  BY <1>1 DEF Merge, AndField
<1>4. \A q : Layout(5, p.type, q) = l3
  <2>1. \A q : Layout(5, p.type, q) = AckV5
    BY <1>1 DEF Layout, LayoutV5, Acks, Pings
  <2>2. AckV5 = l3
    <3> DEFINE a == <<"packet_id", "u16">>
               b == <<"reason_code", "reason or success">>
               c == <<"properties", "properties">>
    <3>1. AckV5 = <<a, b, c>> /\ l3 = Append(Append(<<a>>, b), c)
      BY DEF AckV5
    <3> HIDE DEF a, b, c, l3
    <3>. QED
      BY <3>1, Layouts
  <2>. QED
    BY <2>1, <2>2
<1>5. LayoutReads(l1, g1, v1)
  BY <1>1, NumberRoom, FirstReads
<1> HIDE DEF l1, v1, g1
<1>6. FieldReads("reason or success", g2, p.reason_code)
  BY <1>1, ReasonRoom
<1> HIDE DEF g2
<1>7. LayoutReads(l2, g1 \o g2, v2)
  BY <1>5, <1>6, ReadsMore
<1> HIDE DEF l2, v2
<1>8. FieldReads("properties", g3, p.properties)
  BY <1>1, PropertiesRoom
<1> HIDE DEF g3
<1>9. LayoutReads(l3, (g1 \o g2) \o g3, v3)
  BY <1>7, <1>8, ReadsMore
<1> HIDE DEF l3, v3
<1>10. LayoutEnds(l3, body, v3)
  BY <1>9, ReadsEnd
<1>11. body \in Seq(Nat) /\ Len(body) < LengthLimit
  <2>1. g1 \in Seq(Nat) /\ Len(g1) \in Nat /\ Len(g1) <= 2
    BY <1>1, NumberRoom DEF g1
  <2>2. g2 \in Seq(Nat) /\ Len(g2) \in Nat /\ Len(g2) <= 2
    BY <1>1, ReasonRoom DEF g2
  <2>3. g3 \in Seq(Nat) /\ Len(g3) \in Nat /\ Len(g3) <= LongestProperties
    BY <1>1, PropertiesRoom DEF g3
  <2>4. body \in Seq(Nat) /\ Len(body) = (Len(g1) + Len(g2)) + Len(g3)
    BY <2>1, <2>2, <2>3, NatParts
  <2>. QED
    BY <2>1, <2>2, <2>3, <2>4, Room
<1>12. PICK c \in 1 .. 15 : p.type = PacketTypes[c]
  BY <1>1, OtherTypes DEF Acks, Pings
<1>13. /\ p.type \notin {"CONNECT", "PUBLISH"} /\ (p.type = "AUTH" => 5 # 4)
      /\ HeaderFlags(5, p) \in 0 .. 15
  <2>1. p.type \notin {"CONNECT", "PUBLISH"} /\ (p.type = "AUTH" => 5 # 4)
    BY <1>1 DEF Acks, Pings
  <2>2. HeaderFlags(5, p) \in 0 .. 15
    BY <2>1, OtherFlags
  <2>. QED
    BY <2>1, <2>2
<1>14. \A q : LayoutEnds(Layout(5, p.type, q), body, v3)
  BY <1>4, <1>10
<1> HIDE DEF body, v3
<1>. QED
  BY <1>2, <1>3, <1>11, <1>12, <1>13, <1>14, ByLayout DEF Survives

\* A SUBSCRIBE.
LEMMA SubscribeV5Back ==
  ASSUME Width, NEW p \in Subscribes(5)
  PROVE  Survives(5, p, Encode(5, p))
<1>1. /\ p \in [type : {"SUBSCRIBE"}, packet_id : Number, properties : Properties, filters : UpTo2(FiltersV5)]
      /\ p.type \in {"SUBSCRIBE"}
      /\ p.packet_id \in Number /\ p.properties \in Properties /\ p.filters \in UpTo2(FiltersV5)
  BY DEF Subscribes
<1> DEFINE g1 == U16(p.packet_id)
           g2 == EncodeProperties(p.properties)
           g3 == EncodeList(p.filters, EncodeFilterV5)
           body == (g1 \o g2) \o g3
           v1 == AndField("packet_id", p.packet_id, <<>>)
           v2 == AndField("properties", p.properties, v1)
           v3 == AndField("filters", p.filters, v2)
           l1 == <<<<"packet_id", "u16">>>>
           l2 == Append(l1, <<"properties", "properties">>)
           l3 == Append(l2, <<"filters", "filters v5">>)
<1>2. Encode(5, p) = Frame(5, p, body)
  BY <1>1, Layouts DEF Encode, BodyV5, EncodeSubscribeV5, Acks, Pings
<1>3. Merge([type |-> p.type], v3) = p
  BY <1>1 DEF Merge, AndField
<1>4. \A q : Layout(5, p.type, q) = l3
  <2>1. \A q : Layout(5, p.type, q) = SubscribeV5
    BY <1>1 DEF Layout, LayoutV5, Acks, Pings
  <2>2. SubscribeV5 = l3
    <3> DEFINE a == <<"packet_id", "u16">>
               b == <<"properties", "properties">>
               c == <<"filters", "filters v5">>
    <3>1. SubscribeV5 = <<a, b, c>> /\ l3 = Append(Append(<<a>>, b), c)
      BY DEF SubscribeV5
    <3> HIDE DEF a, b, c, l3
    <3>. QED
      BY <3>1, Layouts
  <2>. QED
    BY <2>1, <2>2
<1>5. LayoutReads(l1, g1, v1)
  BY <1>1, NumberRoom, FirstReads
<1> HIDE DEF l1, v1, g1
<1>6. FieldReads("properties", g2, p.properties)
  BY <1>1, PropertiesRoom
<1> HIDE DEF g2
<1>7. LayoutReads(l2, g1 \o g2, v2)
  BY <1>5, <1>6, ReadsMore
<1> HIDE DEF l2, v2
<1>8. g3 \in Seq(Nat) /\ Read("filters v5", g3) = Ok(p.filters, Len(g3))
  BY <1>1, FiltersV5Field
<1> HIDE DEF g3
<1>9. LayoutEnds(l3, body, v3)
  BY <1>7, <1>8, EndsMore
<1> HIDE DEF l3, v3
<1>10. body \in Seq(Nat) /\ Len(body) < LengthLimit
  <2>1. g1 \in Seq(Nat) /\ Len(g1) \in Nat /\ Len(g1) <= 2
    BY <1>1, NumberRoom DEF g1
  <2>2. g2 \in Seq(Nat) /\ Len(g2) \in Nat /\ Len(g2) <= LongestProperties
    BY <1>1, PropertiesRoom DEF g2
  <2>3. g3 \in Seq(Nat) /\ Len(g3) \in Nat /\ Len(g3) <= 2 * (StringLimit + 1)
    BY <1>1, FiltersV5Field DEF g3
  <2>4. body \in Seq(Nat) /\ Len(body) = (Len(g1) + Len(g2)) + Len(g3)
    BY <2>1, <2>2, <2>3, NatParts
  <2>. QED
    BY <2>1, <2>2, <2>3, <2>4, Room
<1>11. PICK c \in 1 .. 15 : p.type = PacketTypes[c]
  BY <1>1, OtherTypes DEF Acks, Pings
<1>12. /\ p.type \notin {"CONNECT", "PUBLISH"} /\ (p.type = "AUTH" => 5 # 4)
      /\ HeaderFlags(5, p) \in 0 .. 15
  <2>1. p.type \notin {"CONNECT", "PUBLISH"} /\ (p.type = "AUTH" => 5 # 4)
    BY <1>1 DEF Acks, Pings
  <2>2. HeaderFlags(5, p) \in 0 .. 15
    BY <2>1, OtherFlags
  <2>. QED
    BY <2>1, <2>2
<1>13. \A q : LayoutEnds(Layout(5, p.type, q), body, v3)
  BY <1>4, <1>9
<1> HIDE DEF body, v3
<1>. QED
  BY <1>2, <1>3, <1>10, <1>11, <1>12, <1>13, ByLayout DEF Survives

\* A SUBACK or UNSUBACK.
LEMMA SubAckV5Back ==
  ASSUME Width, NEW p \in SubAcks(5)
  PROVE  Survives(5, p, Encode(5, p))
<1>1. /\ p \in [type : {"SUBACK", "UNSUBACK"}, packet_id : Number, properties : Properties, reason_codes : UpTo2(ReasonCode)]
      /\ p.type \in {"SUBACK", "UNSUBACK"}
      /\ p.packet_id \in Number /\ p.properties \in Properties /\ p.reason_codes \in UpTo2(ReasonCode)
  BY DEF SubAcks
<1> DEFINE g1 == U16(p.packet_id)
           g2 == EncodeProperties(p.properties)
           g3 == p.reason_codes
           body == (g1 \o g2) \o g3
           v1 == AndField("packet_id", p.packet_id, <<>>)
           v2 == AndField("properties", p.properties, v1)
           v3 == AndField("reason_codes", p.reason_codes, v2)
           l1 == <<<<"packet_id", "u16">>>>
           l2 == Append(l1, <<"properties", "properties">>)
           l3 == Append(l2, <<"reason_codes", "reasons">>)
<1>2. Encode(5, p) = Frame(5, p, body)
  BY <1>1, Layouts DEF Encode, BodyV5, EncodeSubAckV5, EncodeUnsubAckV5, Acks, Pings
<1>3. Merge([type |-> p.type], v3) = p
  BY <1>1 DEF Merge, AndField
<1>4. \A q : Layout(5, p.type, q) = l3
  <2>1. \A q : Layout(5, p.type, q) = SubAckV5
    BY <1>1 DEF Layout, LayoutV5, Acks, Pings, UnsubAckV5
  <2>2. SubAckV5 = l3
    <3> DEFINE a == <<"packet_id", "u16">>
               b == <<"properties", "properties">>
               c == <<"reason_codes", "reasons">>
    <3>1. SubAckV5 = <<a, b, c>> /\ l3 = Append(Append(<<a>>, b), c)
      BY DEF SubAckV5
    <3> HIDE DEF a, b, c, l3
    <3>. QED
      BY <3>1, Layouts
  <2>. QED
    BY <2>1, <2>2
<1>5. LayoutReads(l1, g1, v1)
  BY <1>1, NumberRoom, FirstReads
<1> HIDE DEF l1, v1, g1
<1>6. FieldReads("properties", g2, p.properties)
  BY <1>1, PropertiesRoom
<1> HIDE DEF g2
<1>7. LayoutReads(l2, g1 \o g2, v2)
  BY <1>5, <1>6, ReadsMore
<1> HIDE DEF l2, v2
<1>8. g3 \in Seq(Nat) /\ Read("reasons", g3) = Ok(p.reason_codes, Len(g3))
  BY <1>1, CodesField
<1> HIDE DEF g3
<1>9. LayoutEnds(l3, body, v3)
  BY <1>7, <1>8, EndsMore
<1> HIDE DEF l3, v3
<1>10. body \in Seq(Nat) /\ Len(body) < LengthLimit
  <2>1. g1 \in Seq(Nat) /\ Len(g1) \in Nat /\ Len(g1) <= 2
    BY <1>1, NumberRoom DEF g1
  <2>2. g2 \in Seq(Nat) /\ Len(g2) \in Nat /\ Len(g2) <= LongestProperties
    BY <1>1, PropertiesRoom DEF g2
  <2>3. g3 \in Seq(Nat) /\ Len(g3) \in Nat /\ Len(g3) <= 2
    BY <1>1, CodesField DEF g3
  <2>4. body \in Seq(Nat) /\ Len(body) = (Len(g1) + Len(g2)) + Len(g3)
    BY <2>1, <2>2, <2>3, NatParts
  <2>. QED
    BY <2>1, <2>2, <2>3, <2>4, Room
<1>11. PICK c \in 1 .. 15 : p.type = PacketTypes[c]
  BY <1>1, OtherTypes DEF Acks, Pings
<1>12. /\ p.type \notin {"CONNECT", "PUBLISH"} /\ (p.type = "AUTH" => 5 # 4)
      /\ HeaderFlags(5, p) \in 0 .. 15
  <2>1. p.type \notin {"CONNECT", "PUBLISH"} /\ (p.type = "AUTH" => 5 # 4)
    BY <1>1 DEF Acks, Pings
  <2>2. HeaderFlags(5, p) \in 0 .. 15
    BY <2>1, OtherFlags
  <2>. QED
    BY <2>1, <2>2
<1>13. \A q : LayoutEnds(Layout(5, p.type, q), body, v3)
  BY <1>4, <1>9
<1> HIDE DEF body, v3
<1>. QED
  BY <1>2, <1>3, <1>10, <1>11, <1>12, <1>13, ByLayout DEF Survives

\* An UNSUBSCRIBE.
LEMMA UnsubscribeV5Back ==
  ASSUME Width, NEW p \in Unsubscribes(5)
  PROVE  Survives(5, p, Encode(5, p))
<1>1. /\ p \in [type : {"UNSUBSCRIBE"}, packet_id : Number, properties : Properties, filters : UpTo2(Text)]
      /\ p.type \in {"UNSUBSCRIBE"}
      /\ p.packet_id \in Number /\ p.properties \in Properties /\ p.filters \in UpTo2(Text)
  BY DEF Unsubscribes
<1> DEFINE g1 == U16(p.packet_id)
           g2 == EncodeProperties(p.properties)
           g3 == EncodeList(p.filters, EncodeString)
           body == (g1 \o g2) \o g3
           v1 == AndField("packet_id", p.packet_id, <<>>)
           v2 == AndField("properties", p.properties, v1)
           v3 == AndField("filters", p.filters, v2)
           l1 == <<<<"packet_id", "u16">>>>
           l2 == Append(l1, <<"properties", "properties">>)
           l3 == Append(l2, <<"filters", "topics">>)
<1>2. Encode(5, p) = Frame(5, p, body)
  BY <1>1, Layouts DEF Encode, BodyV5, EncodeUnsubscribeV5, Acks, Pings
<1>3. Merge([type |-> p.type], v3) = p
  BY <1>1 DEF Merge, AndField
<1>4. \A q : Layout(5, p.type, q) = l3
  <2>1. \A q : Layout(5, p.type, q) = UnsubscribeV5
    BY <1>1 DEF Layout, LayoutV5, Acks, Pings
  <2>2. UnsubscribeV5 = l3
    <3> DEFINE a == <<"packet_id", "u16">>
               b == <<"properties", "properties">>
               c == <<"filters", "topics">>
    <3>1. UnsubscribeV5 = <<a, b, c>> /\ l3 = Append(Append(<<a>>, b), c)
      BY DEF UnsubscribeV5
    <3> HIDE DEF a, b, c, l3
    <3>. QED
      BY <3>1, Layouts
  <2>. QED
    BY <2>1, <2>2
<1>5. LayoutReads(l1, g1, v1)
  BY <1>1, NumberRoom, FirstReads
<1> HIDE DEF l1, v1, g1
<1>6. FieldReads("properties", g2, p.properties)
  BY <1>1, PropertiesRoom
<1> HIDE DEF g2
<1>7. LayoutReads(l2, g1 \o g2, v2)
  BY <1>5, <1>6, ReadsMore
<1> HIDE DEF l2, v2
<1>8. g3 \in Seq(Nat) /\ Read("topics", g3) = Ok(p.filters, Len(g3))
  BY <1>1, TopicsField
<1> HIDE DEF g3
<1>9. LayoutEnds(l3, body, v3)
  BY <1>7, <1>8, EndsMore
<1> HIDE DEF l3, v3
<1>10. body \in Seq(Nat) /\ Len(body) < LengthLimit
  <2>1. g1 \in Seq(Nat) /\ Len(g1) \in Nat /\ Len(g1) <= 2
    BY <1>1, NumberRoom DEF g1
  <2>2. g2 \in Seq(Nat) /\ Len(g2) \in Nat /\ Len(g2) <= LongestProperties
    BY <1>1, PropertiesRoom DEF g2
  <2>3. g3 \in Seq(Nat) /\ Len(g3) \in Nat /\ Len(g3) <= 2 * (StringLimit + 1)
    BY <1>1, TopicsField DEF g3
  <2>4. body \in Seq(Nat) /\ Len(body) = (Len(g1) + Len(g2)) + Len(g3)
    BY <2>1, <2>2, <2>3, NatParts
  <2>. QED
    BY <2>1, <2>2, <2>3, <2>4, Room
<1>11. PICK c \in 1 .. 15 : p.type = PacketTypes[c]
  BY <1>1, OtherTypes DEF Acks, Pings
<1>12. /\ p.type \notin {"CONNECT", "PUBLISH"} /\ (p.type = "AUTH" => 5 # 4)
      /\ HeaderFlags(5, p) \in 0 .. 15
  <2>1. p.type \notin {"CONNECT", "PUBLISH"} /\ (p.type = "AUTH" => 5 # 4)
    BY <1>1 DEF Acks, Pings
  <2>2. HeaderFlags(5, p) \in 0 .. 15
    BY <2>1, OtherFlags
  <2>. QED
    BY <2>1, <2>2
<1>13. \A q : LayoutEnds(Layout(5, p.type, q), body, v3)
  BY <1>4, <1>9
<1> HIDE DEF body, v3
<1>. QED
  BY <1>2, <1>3, <1>10, <1>11, <1>12, <1>13, ByLayout DEF Survives

\* A DISCONNECT.
LEMMA DisconnectV5Back ==
  ASSUME Width, NEW p \in [type : {"DISCONNECT"}, reason_code : ReasonCode, properties : Properties]
  PROVE  Survives(5, p, Encode(5, p))
<1>1. /\ p \in [type : {"DISCONNECT"}, reason_code : ReasonCode, properties : Properties]
      /\ p.type \in {"DISCONNECT"}
      /\ p.reason_code \in ReasonCode /\ p.properties \in Properties
  BY DEF EndsV5
<1> DEFINE g1 == <<p.reason_code>>
           g2 == EncodeProperties(p.properties)
           body == g1 \o g2
           v1 == AndField("reason_code", p.reason_code, <<>>)
           v2 == AndField("properties", p.properties, v1)
           l1 == <<<<"reason_code", "reason or success">>>>
           l2 == Append(l1, <<"properties", "properties">>)
<1>2. Encode(5, p) = Frame(5, p, body)
  BY <1>1, Layouts DEF Encode, BodyV5, EncodeDisconnectV5, Acks, Pings
<1>3. Merge([type |-> p.type], v2) = p
  BY <1>1 DEF Merge, AndField
<1>4. \A q : Layout(5, p.type, q) = l2
  <2>1. \A q : Layout(5, p.type, q) = DisconnectV5
    BY <1>1 DEF Layout, LayoutV5, Acks, Pings
  <2>2. DisconnectV5 = l2
    BY Layouts DEF DisconnectV5
  <2>. QED
    BY <2>1, <2>2
<1>5. LayoutReads(l1, g1, v1)
  BY <1>1, ReasonRoom, FirstReads
<1> HIDE DEF l1, v1, g1
<1>6. FieldReads("properties", g2, p.properties)
  BY <1>1, PropertiesRoom
<1> HIDE DEF g2
<1>7. LayoutReads(l2, g1 \o g2, v2)
  BY <1>5, <1>6, ReadsMore
<1> HIDE DEF l2, v2
<1>8. LayoutEnds(l2, body, v2)
  BY <1>7, ReadsEnd
<1>9. body \in Seq(Nat) /\ Len(body) < LengthLimit
  <2>1. g1 \in Seq(Nat) /\ Len(g1) \in Nat /\ Len(g1) <= 2
    BY <1>1, ReasonRoom DEF g1
  <2>2. g2 \in Seq(Nat) /\ Len(g2) \in Nat /\ Len(g2) <= LongestProperties
    BY <1>1, PropertiesRoom DEF g2
  <2>3. body \in Seq(Nat) /\ Len(body) = Len(g1) + Len(g2)
    BY <2>1, <2>2, NatParts
  <2>. QED
    BY <2>1, <2>2, <2>3, Room
<1>10. PICK c \in 1 .. 15 : p.type = PacketTypes[c]
  BY <1>1, OtherTypes DEF Acks, Pings
<1>11. /\ p.type \notin {"CONNECT", "PUBLISH"} /\ (p.type = "AUTH" => 5 # 4)
      /\ HeaderFlags(5, p) \in 0 .. 15
  <2>1. p.type \notin {"CONNECT", "PUBLISH"} /\ (p.type = "AUTH" => 5 # 4)
    BY <1>1 DEF Acks, Pings
  <2>2. HeaderFlags(5, p) \in 0 .. 15
    BY <2>1, OtherFlags
  <2>. QED
    BY <2>1, <2>2
<1>12. \A q : LayoutEnds(Layout(5, p.type, q), body, v2)
  BY <1>4, <1>8
<1> HIDE DEF body, v2
<1>. QED
  BY <1>2, <1>3, <1>9, <1>10, <1>11, <1>12, ByLayout DEF Survives

\* An AUTH.
LEMMA AuthV5Back ==
  ASSUME Width, NEW p \in [type : {"AUTH"}, reason_code : ReasonCode, properties : Properties]
  PROVE  Survives(5, p, Encode(5, p))
<1>1. /\ p \in [type : {"AUTH"}, reason_code : ReasonCode, properties : Properties]
      /\ p.type \in {"AUTH"}
      /\ p.reason_code \in ReasonCode /\ p.properties \in Properties
  BY DEF EndsV5
<1> DEFINE g1 == <<p.reason_code>>
           g2 == EncodeProperties(p.properties)
           body == g1 \o g2
           v1 == AndField("reason_code", p.reason_code, <<>>)
           v2 == AndField("properties", p.properties, v1)
           l1 == <<<<"reason_code", "reason">>>>
           l2 == Append(l1, <<"properties", "properties">>)
<1>2. Encode(5, p) = Frame(5, p, body)
  BY <1>1, Layouts DEF Encode, BodyV5, EncodeAuthV5, Acks, Pings
<1>3. Merge([type |-> p.type], v2) = p
  BY <1>1 DEF Merge, AndField
<1>4. \A q : Layout(5, p.type, q) = l2
  <2>1. \A q : Layout(5, p.type, q) = AuthV5
    BY <1>1 DEF Layout, LayoutV5, Acks, Pings
  <2>2. AuthV5 = l2
    BY Layouts DEF AuthV5
  <2>. QED
    BY <2>1, <2>2
<1>5. LayoutReads(l1, g1, v1)
  BY <1>1, ReasonRoom, FirstReads
<1> HIDE DEF l1, v1, g1
<1>6. FieldReads("properties", g2, p.properties)
  BY <1>1, PropertiesRoom
<1> HIDE DEF g2
<1>7. LayoutReads(l2, g1 \o g2, v2)
  BY <1>5, <1>6, ReadsMore
<1> HIDE DEF l2, v2
<1>8. LayoutEnds(l2, body, v2)
  BY <1>7, ReadsEnd
<1>9. body \in Seq(Nat) /\ Len(body) < LengthLimit
  <2>1. g1 \in Seq(Nat) /\ Len(g1) \in Nat /\ Len(g1) <= 2
    BY <1>1, ReasonRoom DEF g1
  <2>2. g2 \in Seq(Nat) /\ Len(g2) \in Nat /\ Len(g2) <= LongestProperties
    BY <1>1, PropertiesRoom DEF g2
  <2>3. body \in Seq(Nat) /\ Len(body) = Len(g1) + Len(g2)
    BY <2>1, <2>2, NatParts
  <2>. QED
    BY <2>1, <2>2, <2>3, Room
<1>10. PICK c \in 1 .. 15 : p.type = PacketTypes[c]
  BY <1>1, OtherTypes DEF Acks, Pings
<1>11. /\ p.type \notin {"CONNECT", "PUBLISH"} /\ (p.type = "AUTH" => 5 # 4)
      /\ HeaderFlags(5, p) \in 0 .. 15
  <2>1. p.type \notin {"CONNECT", "PUBLISH"} /\ (p.type = "AUTH" => 5 # 4)
    BY <1>1 DEF Acks, Pings
  <2>2. HeaderFlags(5, p) \in 0 .. 15
    BY <2>1, OtherFlags
  <2>. QED
    BY <2>1, <2>2
<1>12. \A q : LayoutEnds(Layout(5, p.type, q), body, v2)
  BY <1>4, <1>8
<1> HIDE DEF body, v2
<1>. QED
  BY <1>2, <1>3, <1>9, <1>10, <1>11, <1>12, ByLayout DEF Survives

\* A PUBLISH, with the properties before its id.
LEMMA FieldsOfPublishV5 ==
  ASSUME NEW p, NEW Q, NEW T, NEW I, NEW B, NEW P,
         p \in [type : {"PUBLISH"}, qos : Q, retain : BOOLEAN, topic : T, packet_id : I,
                payload : B, properties : P]
  PROVE  Merge([type |-> "PUBLISH", qos |-> p.qos, retain |-> p.retain],
               AndField("payload", p.payload,
                  AndField("packet_id", p.packet_id,
                     AndField("properties", p.properties, AndField("topic", p.topic, <<>>))))) = p
BY DEF Merge, AndField

\* A PUBLISH of version 5.0 survives: its properties stand behind its id.
LEMMA PublishV5Back ==
  ASSUME Width, NEW qos \in 0 .. 2, NEW p \in Publishes(5, qos)
  PROVE  Survives(5, p, Encode(5, p))
<1>1. /\ p \in [type : {"PUBLISH"}, qos : {qos}, retain : BOOLEAN, topic : Text,
                packet_id : IF qos > 0 THEN {<<n>> : n \in Number} ELSE {<<>>}, payload : Binary,
                properties : Properties]
      /\ p.type = "PUBLISH" /\ p.qos = qos /\ p.retain \in BOOLEAN /\ p.topic \in Text
      /\ p.packet_id \in (IF p.qos > 0 THEN {<<n>> : n \in Number} ELSE {<<>>})
      /\ p.payload \in Binary /\ p.properties \in Properties
  BY DEF Publishes
<1> DEFINE g1 == EncodeString(p.topic)
           g2 == EncodeProperties(p.properties)
           g3 == EncodeId(p)
           g4 == p.payload
           body == ((g1 \o g2) \o g3) \o g4
           v1 == AndField("topic", p.topic, <<>>)
           v2 == AndField("properties", p.properties, v1)
           v3 == AndField("packet_id", p.packet_id, v2)
           v4 == AndField("payload", p.payload, v3)
           l1 == <<<<"topic", "string">>>>
           l2 == Append(l1, <<"properties", "properties">>)
           l3 == Append(l2, <<"packet_id", IdKind(qos)[2]>>)
           l4 == Append(l3, <<"payload", "payload">>)
<1>2. Encode(5, p) = Frame(5, p, body)
  BY <1>1 DEF Encode, BodyV5, EncodePublishV5, Acks, Pings
<1>3. Merge([type |-> "PUBLISH", qos |-> p.qos, retain |-> p.retain], v4) = p
  <2> DEFINE Q == {qos}
             I == IF qos > 0 THEN {<<n>> : n \in Number} ELSE {<<>>}
  <2>1. p \in [type : {"PUBLISH"}, qos : Q, retain : BOOLEAN, topic : Text, packet_id : I,
               payload : Binary, properties : Properties]
    BY <1>1
  <2> HIDE DEF Q, I
  <2>. QED
    BY <2>1, FieldsOfPublishV5
<1>4. Layout(5, "PUBLISH", qos) = l4
  <2>1. Layout(5, "PUBLISH", qos) = PublishV5(qos)
    BY DEF Layout, LayoutV5, Acks, Pings
  <2>2. IdKind(qos) = <<"packet_id", IdKind(qos)[2]>>
    BY <1>1, IdField
  <2> DEFINE a == <<"topic", "string">>
             b == <<"properties", "properties">>
             c == IdKind(qos)
             d == <<"payload", "payload">>
  <2>3. PublishV5(qos) = <<a, b, c, d>> /\ l4 = Append(Append(Append(<<a>>, b), c), d)
    BY <2>2 DEF PublishV5
  <2> HIDE DEF a, b, c, d, l4
  <2>. QED
    BY <2>1, <2>3, Layouts
<1>5. LayoutReads(l1, g1, v1)
  BY <1>1, TextField, FirstReads
<1>6. FieldReads("properties", g2, p.properties)
  BY <1>1, PropertiesRoom
<1>7. FieldReads(IdKind(qos)[2], g3, p.packet_id)
  BY <1>1, IdField
<1> HIDE DEF l1, v1, g1, g2, g3
<1>8. LayoutReads(l2, g1 \o g2, v2)
  BY <1>5, <1>6, ReadsMore
<1> HIDE DEF l2, v2
<1>9. LayoutReads(l3, (g1 \o g2) \o g3, v3)
  BY <1>7, <1>8, ReadsMore
<1>10. g4 \in Seq(Nat) /\ Read("payload", g4) = Ok(p.payload, Len(g4))
  BY <1>1, BytesField DEF Read
<1> HIDE DEF l3, v3, g4
<1>11. LayoutEnds(l4, body, v4)
  BY <1>9, <1>10, EndsMore
<1>12. body \in Seq(Nat) /\ Len(body) < LengthLimit
  <2>1. g1 \in Seq(Nat) /\ Len(g1) \in Nat /\ Len(g1) <= StringLimit
    BY <1>1, TextField DEF g1
  <2>2. g2 \in Seq(Nat) /\ Len(g2) \in Nat /\ Len(g2) <= LongestProperties
    BY <1>1, PropertiesRoom DEF g2
  <2>3. g3 \in Seq(Nat) /\ Len(g3) \in Nat /\ Len(g3) <= 2
    BY <1>1, IdField DEF g3
  <2>4. g4 \in Seq(Nat) /\ Len(g4) \in Nat /\ Len(g4) <= StringLimit
    BY <1>1, BytesField DEF g4
  <2>5. body \in Seq(Nat) /\ Len(body) = ((Len(g1) + Len(g2)) + Len(g3)) + Len(g4)
    BY <2>1, <2>2, <2>3, <2>4, NatParts
  <2>. QED
    BY <2>1, <2>2, <2>3, <2>4, <2>5, Room
<1> HIDE DEF l4, v4, body
<1>. QED
  BY <1>1, <1>2, <1>3, <1>4, <1>11, <1>12, PublishByLayout DEF Survives

-----------------------------------------------------------------------------
(* Packets without a body, and the short forms *)

\* A packet without a body has no fields.
LEMMA NoBody ==
  /\ LayoutReads(<<>>, <<>>, <<>>) /\ LayoutEnds(<<>>, <<>>, <<>>)
  /\ <<>> \in Seq(Nat) /\ Len(<<>>) < LengthLimit
<1>1. <<>> \in Seq(Nat) /\ Len(<<>>) = 0
  OBVIOUS
<1>2. 0 < LengthLimit
  BY Room
<1>. QED
  BY <1>1, <1>2, ReadsNone, ReadsEnd

\* A packet without a body survives.
LEMMA EmptyBack ==
  ASSUME Width, NEW v \in {4, 5}, NEW type \in Pings \union {"DISCONNECT"}, type = "DISCONNECT" => v = 4
  PROVE  Survives(v, [type |-> type], Encode(v, [type |-> type]))
<1> DEFINE p == [type |-> type]
           none == <<>>
<1>1. p.type = type
  OBVIOUS
<1>2. Merge([type |-> p.type], none) = p
  BY DEF Merge
<1>3. Encode(v, p) = Frame(v, p, none)
  BY DEF Encode, BodyV3, BodyV5, Acks, Pings
<1>4. \A q : Layout(v, type, q) = none
  BY DEF Layout, LayoutV3, LayoutV5, Acks, Pings
<1>5. LayoutEnds(none, none, none) /\ none \in Seq(Nat) /\ Len(none) < LengthLimit
  BY NoBody
<1>6. PICK c \in 1 .. 15 : type = PacketTypes[c]
  BY OtherTypes
<1>7. type \notin {"CONNECT", "PUBLISH"} /\ (type = "AUTH" => v # 4)
  BY DEF Pings
<1>8. HeaderFlags(v, p) \in 0 .. 15
  BY <1>1, <1>7, OtherFlags
<1>9. \A q : LayoutEnds(Layout(v, p.type, q), none, none)
  BY <1>1, <1>4, <1>5
<1> HIDE DEF p, none
<1>. QED
  BY <1>1, <1>2, <1>3, <1>5, <1>6, <1>7, <1>8, <1>9, ByLayout DEF Survives, p

\* The end of a packet is success and no properties.
LEMMA EndIsSuccess ==
  Read("reason or success", <<>>) = Ok(0, 0) /\ Read("properties", <<>>) = Ok(<<>>, 0)
<1>1. Read("reason or success", <<>>) = ReasonOrSuccess(<<>>)
      /\ Read("properties", <<>>) = DecodeProperties(<<>>)
  BY DEF Read
<1>2. ReasonOrSuccess(<<>>) = Ok(0, 0)
  BY DEF ReasonOrSuccess
<1>3. DecodeProperties(<<>>) = Ok(<<>>, 0)
  BY DEF DecodeProperties
<1>. QED
  BY <1>1, <1>2, <1>3

\* An acknowledgement of a success without its code and properties.
LEMMA ShortAckBack ==
  ASSUME Width, NEW p \in AcksOf(5, Acks), p.reason_code = 0, p.properties = <<>>
  PROVE  Survives(5, p, Frame(5, p, U16(p.packet_id)))
<1>1. /\ p \in [type : Acks, packet_id : Number, reason_code : ReasonCode, properties : Properties]
      /\ p.type \in Acks /\ p.packet_id \in Number
  BY DEF AcksOf
<1> DEFINE body == U16(p.packet_id)
           v1 == AndField("packet_id", p.packet_id, <<>>)
           v2 == AndField("reason_code", p.reason_code, v1)
           v3 == AndField("properties", p.properties, v2)
           l1 == <<<<"packet_id", "u16">>>>
           l2 == Append(l1, <<"reason_code", "reason or success">>)
           l3 == Append(l2, <<"properties", "properties">>)
<1>2. Merge([type |-> p.type], v3) = p
  BY <1>1 DEF Merge, AndField
<1>3. \A q : Layout(5, p.type, q) = l3
  <2>1. \A q : Layout(5, p.type, q) = AckV5
    BY <1>1 DEF Layout, LayoutV5, Acks, Pings
  <2> DEFINE a == <<"packet_id", "u16">>
             b == <<"reason_code", "reason or success">>
             c == <<"properties", "properties">>
  <2>2. AckV5 = <<a, b, c>> /\ l3 = Append(Append(<<a>>, b), c)
    BY DEF AckV5
  <2> HIDE DEF a, b, c, l3
  <2>. QED
    BY <2>1, <2>2, Layouts
<1>4. LayoutEnds(l1, body, v1)
  BY <1>1, NumberRoom, FirstReads, ReadsEnd
<1> HIDE DEF l1, v1
<1>5. LayoutEnds(l2, body, v2)
  BY <1>4, EndIsSuccess, EndsShort
<1> HIDE DEF l2, v2
<1>6. LayoutEnds(l3, body, v3)
  BY <1>5, EndIsSuccess, EndsShort
<1>7. body \in Seq(Nat) /\ Len(body) < LengthLimit
  <2>1. body \in Seq(Nat) /\ Len(body) \in Nat /\ Len(body) <= 2
    BY <1>1, NumberRoom
  <2> HIDE DEF body
  <2>. QED
    BY <2>1, Room
<1>8. PICK c \in 1 .. 15 : p.type = PacketTypes[c]
  BY <1>1, OtherTypes
<1>9. p.type \notin {"CONNECT", "PUBLISH"} /\ (p.type = "AUTH" => 5 # 4)
  BY <1>1 DEF Acks
<1>10. HeaderFlags(5, p) \in 0 .. 15
  BY <1>9, OtherFlags
<1>11. \A q : LayoutEnds(Layout(5, p.type, q), body, v3)
  BY <1>3, <1>6
<1> HIDE DEF body, v3
<1>. QED
  BY <1>2, <1>7, <1>8, <1>9, <1>10, <1>11, ByLayout DEF Survives, body

\* A DISCONNECT of a success without its code and properties.
LEMMA ShortDisconnectBack ==
  ASSUME Width, NEW p \in EndsV5, p.type = "DISCONNECT", p.reason_code = 0, p.properties = <<>>
  PROVE  Survives(5, p, Frame(5, p, <<>>))
<1>1. p \in [type : {"DISCONNECT", "AUTH"}, reason_code : ReasonCode, properties : Properties]
  BY DEF EndsV5
<1> DEFINE none == <<>>
           v1 == AndField("reason_code", p.reason_code, none)
           v2 == AndField("properties", p.properties, v1)
           l1 == <<<<"reason_code", "reason or success">>>>
           l2 == Append(l1, <<"properties", "properties">>)
<1>2. Merge([type |-> p.type], v2) = p
  BY <1>1 DEF Merge, AndField
<1>3. \A q : Layout(5, p.type, q) = l2
  <2>1. \A q : Layout(5, p.type, q) = DisconnectV5
    BY <1>1 DEF Layout, LayoutV5, Acks, Pings
  <2>2. DisconnectV5 = l2
    BY Layouts DEF DisconnectV5
  <2>. QED
    BY <2>1, <2>2
<1>4. LayoutEnds(l1, none, v1)
  <2> DEFINE f == <<"reason_code", "reason or success">>
  <2>1. <<f>> = Append(none, f)
    BY Layouts
  <2>2. LayoutEnds(Append(none, f), none, v1)
    BY NoBody, EndIsSuccess, EndsShort
  <2>. QED
    BY <2>1, <2>2
<1>5. none \in Seq(Nat) /\ Len(none) < LengthLimit
  BY NoBody
<1> HIDE DEF l1, v1
<1>6. LayoutEnds(l2, none, v2)
  BY <1>4, EndIsSuccess, EndsShort
<1>7. p.type = PacketTypes[14] /\ 14 \in 1 .. 15
  BY DEF PacketTypes
<1>8. p.type \notin {"CONNECT", "PUBLISH"} /\ (p.type = "AUTH" => 5 # 4)
  OBVIOUS
<1>9. HeaderFlags(5, p) \in 0 .. 15
  BY <1>8, OtherFlags
<1>10. \A q : LayoutEnds(Layout(5, p.type, q), none, v2)
  BY <1>3, <1>6
<1> HIDE DEF v2, none
<1>. QED
  BY <1>2, <1>5, <1>7, <1>8, <1>9, <1>10, ByLayout DEF Survives, none

-----------------------------------------------------------------------------
(* CONNECT *)

\* The bits of the flags of a CONNECT.
LEMMA BitsOfConnect ==
  ASSUME NEW c \in 0 .. 1, NEW w \in 0 .. 1, NEW q \in 0 .. 2, NEW r \in 0 .. 1,
         NEW s \in 0 .. 1, NEW u \in 0 .. 1
  PROVE  LET n == 2 * c + 4 * w + 8 * q + 32 * r + 64 * s + 128 * u
         IN  /\ n \in 0 .. 255
             /\ (n \div 2) % 2 = c /\ (n \div 4) % 2 = w /\ (n \div 8) % 4 = q
             /\ (n \div 32) % 2 = r /\ (n \div 64) % 2 = s /\ (n \div 128) % 2 = u
<1> DEFINE n == 2 * c + 4 * w + 8 * q + 32 * r + 64 * s + 128 * u
<1>1. n \in 0 .. 255
  OBVIOUS
<1>2. (n \div 2) % 2 = c
  <2>1. n \div 2 = c + 2 * (w + 2 * q + 8 * r + 16 * s + 32 * u)
    OBVIOUS
  <2>. QED
    BY <2>1
<1>3. (n \div 4) % 2 = w
  <2>1. n \div 4 = w + 2 * (q + 4 * r + 8 * s + 16 * u)
    OBVIOUS
  <2>. QED
    BY <2>1
<1>4. (n \div 8) % 4 = q
  <2>1. n \div 8 = q + 4 * (r + 2 * s + 4 * u)
    OBVIOUS
  <2>. QED
    BY <2>1
<1>5. (n \div 32) % 2 = r
  <2>1. n \div 32 = r + 2 * (s + 2 * u)
    OBVIOUS
  <2>. QED
    BY <2>1
<1>6. (n \div 64) % 2 = s
  <2>1. n \div 64 = s + 2 * u
    OBVIOUS
  <2>. QED
    BY <2>1
<1>7. (n \div 128) % 2 = u
  <2>1. n \div 128 = u
    OBVIOUS
  <2>. QED
    BY <2>1
<1>. QED
  BY <1>1, <1>2, <1>3, <1>4, <1>5, <1>6, <1>7

\* The wills of a CONNECT, and what its flags tell.
WillsOf(v) == [topic : Text, payload : Binary, qos : 0 .. 2, retain : BOOLEAN,
               properties : PropertiesOf(v)]

\* Every bit of the flags of a CONNECT says what it was set for.
LEMMA FlagsOfConnect ==
  ASSUME NEW v, NEW p \in Connects(v)
  PROVE  LET n == ConnectFlags(p)
         IN  /\ n \in Nat /\ n \in Byte
             /\ Bit(n, 2) = p.clean
             /\ Bit(n, 4) = (p.will # <<>>)
             /\ Bit(n, 64) = (p.password # <<>>)
             /\ Bit(n, 128) = (p.username # <<>>)
             /\ p.will # <<>> => (n \div 8) % 4 = p.will[1].qos /\ Bit(n, 32) = p.will[1].retain
<1>1. p.clean \in BOOLEAN /\ p.will \in Option(WillsOf(v))
  BY DEF Connects, WillsOf
<1> DEFINE c == IF p.clean THEN 1 ELSE 0
           w == IF p.will # <<>> THEN 1 ELSE 0
           q == IF p.will # <<>> THEN p.will[1].qos ELSE 0
           r == IF p.will # <<>> THEN IF p.will[1].retain THEN 1 ELSE 0 ELSE 0
           s == IF p.password # <<>> THEN 1 ELSE 0
           u == IF p.username # <<>> THEN 1 ELSE 0
           n == ConnectFlags(p)
           m == 2 * c + 4 * w + 8 * q + 32 * r + 64 * s + 128 * u
<1>2. p.will # <<>> => p.will[1].qos \in 0 .. 2 /\ p.will[1].retain \in BOOLEAN
  BY <1>1 DEF Option, WillsOf
<1>3. /\ c \in 0 .. 1 /\ w \in 0 .. 1 /\ q \in 0 .. 2 /\ r \in 0 .. 1 /\ s \in 0 .. 1 /\ u \in 0 .. 1
  BY <1>2
<1>4. n = m
  <2>1. CASE p.will = <<>>
    BY <1>1, <2>1 DEF ConnectFlags, Flag
  <2>2. CASE p.will # <<>>
    <3>1. /\ Flag(p.clean, 2) = 2 * c /\ Flag(p.username # <<>>, 128) = 128 * u
          /\ Flag(p.password # <<>>, 64) = 64 * s /\ w = 1
          /\ p.will[1].qos = q /\ Flag(p.will[1].retain, 32) = 32 * r
      BY <1>1, <1>2, <2>2 DEF Flag
    <3>2. n = Flag(p.clean, 2) + Flag(p.username # <<>>, 128) + Flag(p.password # <<>>, 64)
              + (4 + 8 * p.will[1].qos + Flag(p.will[1].retain, 32))
      BY <2>2 DEF ConnectFlags
    <3> HIDE DEF c, w, q, r, s, u, n
    <3>. QED
      BY <1>3, <3>1, <3>2
  <2>. QED
    BY <2>1, <2>2
<1>5. /\ p.clean = (c = 1) /\ (p.will # <<>>) = (w = 1) /\ (p.password # <<>>) = (s = 1)
      /\ (p.username # <<>>) = (u = 1)
      /\ p.will # <<>> => p.will[1].qos = q /\ p.will[1].retain = (r = 1)
  BY <1>1, <1>2
<1> HIDE DEF c, w, q, r, s, u, n
<1>6. /\ n \in 0 .. 255
      /\ (n \div 2) % 2 = c /\ (n \div 4) % 2 = w /\ (n \div 8) % 4 = q
      /\ (n \div 32) % 2 = r /\ (n \div 64) % 2 = s /\ (n \div 128) % 2 = u
  BY <1>3, <1>4, BitsOfConnect
<1>7. n \in Nat /\ n \in Byte
  BY <1>6 DEF Byte
<1>8. Bit(n, 2) = p.clean /\ Bit(n, 4) = (p.will # <<>>)
  BY <1>5, <1>6 DEF Bit
<1>9. Bit(n, 64) = (p.password # <<>>) /\ Bit(n, 128) = (p.username # <<>>)
  BY <1>5, <1>6 DEF Bit
<1>10. p.will # <<>> => (n \div 8) % 4 = p.will[1].qos /\ Bit(n, 32) = p.will[1].retain
  BY <1>5, <1>6 DEF Bit
<1>. QED
  BY <1>7, <1>8, <1>9, <1>10 DEF n

\* Longer layouts one field at a time.
LEMMA LongLayouts ==
  /\ \A a, b, c, d, e : <<a, b, c, d, e>> = Append(<<a, b, c, d>>, e)
  /\ \A a, b, c, d, e, f : <<a, b, c, d, e, f>> = Append(<<a, b, c, d, e>>, f)
  /\ \A a, b, c, d, e, f, g : <<a, b, c, d, e, f, g>> = Append(<<a, b, c, d, e, f>>, g)
OBVIOUS

\* Seven fields one behind the other.
LEMMA SevenFields ==
  ASSUME NEW n1, NEW k1, NEW g1, NEW x1, FieldReads(k1, g1, x1),
         NEW n2, NEW k2, NEW g2, NEW x2, FieldReads(k2, g2, x2),
         NEW n3, NEW k3, NEW g3, NEW x3, FieldReads(k3, g3, x3),
         NEW n4, NEW k4, NEW g4, NEW x4, FieldReads(k4, g4, x4),
         NEW n5, NEW k5, NEW g5, NEW x5, FieldReads(k5, g5, x5),
         NEW n6, NEW k6, NEW g6, NEW x6, FieldReads(k6, g6, x6),
         NEW n7, NEW k7, NEW g7, NEW x7, FieldReads(k7, g7, x7)
  PROVE  LayoutReads(<<<<n1, k1>>, <<n2, k2>>, <<n3, k3>>, <<n4, k4>>, <<n5, k5>>, <<n6, k6>>,
                       <<n7, k7>>>>,
                     (((((g1 \o g2) \o g3) \o g4) \o g5) \o g6) \o g7,
                     AndField(n7, x7, AndField(n6, x6, AndField(n5, x5, AndField(n4, x4,
                       AndField(n3, x3, AndField(n2, x2, AndField(n1, x1, <<>>))))))))
<1> DEFINE v1 == AndField(n1, x1, <<>>)
           v2 == AndField(n2, x2, v1)
           v3 == AndField(n3, x3, v2)
           v4 == AndField(n4, x4, v3)
           v5 == AndField(n5, x5, v4)
           v6 == AndField(n6, x6, v5)
           v7 == AndField(n7, x7, v6)
           l1 == <<<<n1, k1>>>>
           l2 == Append(l1, <<n2, k2>>)
           l3 == Append(l2, <<n3, k3>>)
           l4 == Append(l3, <<n4, k4>>)
           l5 == Append(l4, <<n5, k5>>)
           l6 == Append(l5, <<n6, k6>>)
           l7 == Append(l6, <<n7, k7>>)
           e2 == g1 \o g2
           e3 == e2 \o g3
           e4 == e3 \o g4
           e5 == e4 \o g5
           e6 == e5 \o g6
           e7 == e6 \o g7
           l == <<<<n1, k1>>, <<n2, k2>>, <<n3, k3>>, <<n4, k4>>, <<n5, k5>>, <<n6, k6>>, <<n7, k7>>>>
<1>1. l = l7
  <2> DEFINE a == <<n1, k1>>
             b == <<n2, k2>>
             c == <<n3, k3>>
             d == <<n4, k4>>
             e == <<n5, k5>>
             f == <<n6, k6>>
             g == <<n7, k7>>
  <2>1. /\ l = <<a, b, c, d, e, f, g>>
        /\ l7 = Append(Append(Append(Append(Append(Append(<<a>>, b), c), d), e), f), g)
    OBVIOUS
  <2> HIDE DEF a, b, c, d, e, f, g, l, l7
  <2>. QED
    BY <2>1, Layouts, LongLayouts
<1>2. LayoutReads(l1, g1, v1)
  BY FirstReads
<1> HIDE DEF l1, v1, l
<1>3. LayoutReads(l2, e2, v2)
  BY <1>2, ReadsMore
<1> HIDE DEF l2, v2, e2
<1>4. LayoutReads(l3, e3, v3)
  BY <1>3, ReadsMore
<1> HIDE DEF l3, v3, e3
<1>5. LayoutReads(l4, e4, v4)
  BY <1>4, ReadsMore
<1> HIDE DEF l4, v4, e4
<1>6. LayoutReads(l5, e5, v5)
  BY <1>5, ReadsMore
<1> HIDE DEF l5, v5, e5
<1>7. LayoutReads(l6, e6, v6)
  BY <1>6, ReadsMore
<1> HIDE DEF l6, v6, e6
<1>8. LayoutReads(l7, e7, v7)
  BY <1>7, ReadsMore
<1> HIDE DEF l7
<1>9. LayoutReads(l, e7, v7)
  BY <1>1, <1>8
<1>. QED
  BY <1>9 DEF l, v1, v2, v3, v4, v5, v6, e2, e3, e4, e5, e6

\* The head of a CONNECT.
HeadOf(v, flags, keep) ==
    AndField("keep_alive", keep, AndField("flags", flags, AndField("level", v,
      AndField("name", MQTT, <<>>))))

\* The head of a CONNECT is read back whatever is behind it.
LEMMA HeadReads ==
  ASSUME NEW v \in {4, 5}, NEW flags \in Nat, flags \in Byte, NEW keep \in TwoBytes
  PROVE  /\ LayoutReads(ConnectHead,
                        ((EncodeString(MQTT) \o <<v>>) \o <<flags>>) \o U16(keep),
                        HeadOf(v, flags, keep))
         /\ EncodeString(MQTT) \in Seq(Nat) /\ Len(EncodeString(MQTT)) = 6
         /\ <<v>> \in Seq(Nat) /\ <<flags>> \in Seq(Nat) /\ U16(keep) \in Seq(Nat)
         /\ Len(<<v>>) = 1 /\ Len(<<flags>>) = 1 /\ Len(U16(keep)) = 2
<1> DEFINE g1 == EncodeString(MQTT)
           g2 == <<v>>
           g3 == <<flags>>
           g4 == U16(keep)
           v1 == AndField("name", MQTT, <<>>)
           v2 == AndField("level", v, v1)
           v3 == AndField("flags", flags, v2)
           v4 == AndField("keep_alive", keep, v3)
           l1 == <<<<"name", "string">>>>
           l2 == Append(l1, <<"level", "byte">>)
           l3 == Append(l2, <<"flags", "byte">>)
           l4 == Append(l3, <<"keep_alive", "u16">>)
<1>1. IsString(MQTT) /\ Len(MQTT) = 4
  <2>1. MQTT \in Seq({b \in Byte : b < 128}) /\ Len(MQTT) = 4
    BY DEF MQTT, Byte
  <2>2. 4 \in TwoBytes
    BY TwoBytesAre
  <2>. QED
    BY <2>1, <2>2 DEF IsString
<1>2. g1 \in Seq(Nat) /\ Len(g1) = 6 /\ FieldReads("string", g1, MQTT)
  <2> DEFINE m == MQTT
  <2>1. IsString(m) /\ Len(m) = 4
    BY <1>1
  <2> HIDE DEF m
  <2>2. EncodeString(m) \in Seq(Nat) /\ Len(EncodeString(m)) = 2 + Len(m)
    BY <2>1, StringFrame
  <2>3. FieldReads("string", EncodeString(m), m)
    BY <2>1, StringField
  <2>4. EncodeString(m) \in Seq(Nat) /\ Len(EncodeString(m)) = 6
        /\ FieldReads("string", EncodeString(m), m)
    BY <2>1, <2>2, <2>3
  <2>. QED
    BY <2>4 DEF m
<1>3. v \in Nat /\ v \in Byte
  BY DEF Byte
<1>4. FieldReads("byte", g2, v) /\ FieldReads("byte", g3, flags)
  BY <1>3, ByteFields
<1>5. g2 \in Seq(Nat) /\ Len(g2) = 1 /\ g3 \in Seq(Nat) /\ Len(g3) = 1
  BY <1>3
<1>6. FieldReads("u16", g4, keep) /\ g4 \in Seq(Nat) /\ Len(g4) = 2
  BY NumberField
<1>7. ConnectHead = l4
  <2> DEFINE a == <<"name", "string">>
             b == <<"level", "byte">>
             c == <<"flags", "byte">>
             d == <<"keep_alive", "u16">>
  <2>1. ConnectHead = <<a, b, c, d>> /\ l4 = Append(Append(Append(<<a>>, b), c), d)
    BY DEF ConnectHead
  <2> HIDE DEF a, b, c, d, l4
  <2>. QED
    BY <2>1, Layouts
<1> HIDE DEF g1, g2, g3, g4
<1>8. LayoutReads(l1, g1, v1)
  BY <1>2, FirstReads
<1> HIDE DEF l1, v1
<1>9. LayoutReads(l2, g1 \o g2, v2)
  BY <1>4, <1>8, ReadsMore
<1> HIDE DEF l2, v2
<1>10. LayoutReads(l3, (g1 \o g2) \o g3, v3)
  BY <1>4, <1>9, ReadsMore
<1> HIDE DEF l3, v3
<1>11. LayoutReads(l4, ((g1 \o g2) \o g3) \o g4, v4)
  BY <1>6, <1>10, ReadsMore
<1> HIDE DEF l4
<1>12. LayoutReads(ConnectHead, ((g1 \o g2) \o g3) \o g4, v4)
  BY <1>7, <1>11
<1>. QED
  BY <1>2, <1>5, <1>6, <1>12 DEF HeadOf, g1, g2, g3, g4, v1, v2, v3

\* A CONNECT as it is put together from its flags, its keep-alive and the fields behind them.
ConnectTail(v, flags) == IF v = 5 THEN ConnectTailV5(flags) ELSE ConnectTailV3(flags)
When(flags, b, x) == IF Bit(flags, b) THEN <<x>> ELSE <<>>
KnownQoS(n) == IF n = 3 THEN 0 ELSE n
WillOf(flags, f) ==
    [topic |-> f.topic, payload |-> f.payload, qos |-> KnownQoS((flags \div 8) % 4),
     retain |-> Bit(flags, 32), properties |-> f.will_properties]
ConnectOf(flags, keep, f) ==
    [clean |-> Bit(flags, 2), keep_alive |-> keep, client_id |-> f.client_id,
     properties |-> f.properties, will |-> When(flags, 4, WillOf(flags, f)),
     username |-> When(flags, 128, f.username), password |-> When(flags, 64, f.password)]

\* What the head of a CONNECT tells.
LEMMA HeadTells ==
  ASSUME NEW v, NEW flags, NEW keep
  PROVE  LET h == HeadOf(v, flags, keep)
         IN  h.level = v /\ h.flags = flags /\ h.keep_alive = keep
BY DEF HeadOf, AndField, Merge

\* The head of a CONNECT as bytes.
ConnectHeadBytes(v, flags, keep) == ((EncodeString(MQTT) \o <<v>>) \o <<flags>>) \o U16(keep)

\* A CONNECT is decoded in the version its head has, from the fields of its tail.
LEMMA ConnectReads ==
  ASSUME NEW v \in {4, 5}, NEW flags \in Nat, flags \in Byte, NEW keep \in TwoBytes,
         NEW tail, NEW f, LayoutEnds(ConnectTail(v, flags), tail, f)
  PROVE  DecodeConnect(v, ConnectHeadBytes(v, flags, keep) \o tail)
           = Ok(ConnectOf(flags, keep, f), Len(ConnectHeadBytes(v, flags, keep)) + Len(tail))
<1> DEFINE head == ConnectHeadBytes(v, flags, keep)
           d == head \o tail
           hv == HeadOf(v, flags, keep)
           h == Ok(hv, Len(head))
           t == Ok(f, Len(tail))
           layout(n) == IF v = 5 THEN ConnectTailV5(n) ELSE ConnectTailV3(n)
           connect(x, y) ==
             [clean |-> Bit(x.flags, 2), keep_alive |-> x.keep_alive, client_id |-> y.client_id,
              properties |-> y.properties, will |-> When(x.flags, 4, WillOf(x.flags, y)),
              username |-> When(x.flags, 128, y.username),
              password |-> When(x.flags, 64, y.password)]
           whole(x, y) ==
             IF y.ok THEN Ok(connect(x.value, y.value), x.used + y.used) ELSE Fail
           behind(x) ==
             IF ~x.ok THEN Fail
             ELSE IF x.value.level # v THEN Fail
             ELSE whole(x, ReadAll(layout(x.value.flags), From(d, x.used + 1)))
<1>1. LayoutReads(ConnectHead, head, hv)
  BY HeadReads DEF ConnectHeadBytes
<1> HIDE DEF head
<1>2. head \in Seq(Nat) /\ tail \in Seq(Nat)
  BY <1>1 DEF LayoutReads, LayoutEnds
<1>3. ReadAll(ConnectHead, d) = h
  <2>1. FieldsRead(ConnectHead, d, h)
    BY <1>1, <1>2 DEF LayoutReads
  <2>2. Len(ConnectHead) \in Nat
    BY DEF ConnectHead
  <2>. QED
    BY <2>1, <2>2, ReadAllIs
<1>4. From(d, Len(head) + 1) = tail
  BY <1>2, NatParts
<1>5. ReadAll(ConnectTail(v, flags), tail) = t
  BY AllOfEnds
<1>6. h.ok /\ h.value = hv /\ h.used = Len(head) /\ t.ok /\ t.value = f /\ t.used = Len(tail)
  BY DEF Ok
<1>7. hv.level = v /\ hv.flags = flags /\ hv.keep_alive = keep
  BY HeadTells
<1>8. DecodeConnect(v, d) = behind(ReadAll(ConnectHead, d))
  <2> HIDE DEF d
  <2>. QED
    BY DEF DecodeConnect, When, KnownQoS, WillOf
<1> HIDE DEF h, t, hv
<1>9. behind(h) = whole(h, t)
  <2>1. h.value.level = v /\ layout(h.value.flags) = ConnectTail(v, flags)
    BY <1>6, <1>7 DEF ConnectTail
  <2>2. ReadAll(layout(h.value.flags), From(d, h.used + 1)) = t
    BY <1>4, <1>5, <1>6, <2>1
  <2> HIDE DEF whole, layout, d
  <2>. QED
    BY <1>6, <2>1, <2>2
<1>10. whole(h, t) = Ok(ConnectOf(flags, keep, f), Len(head) + Len(tail))
  <2>1. connect(h.value, t.value) = ConnectOf(flags, keep, f)
    BY <1>6, <1>7 DEF ConnectOf
  <2> HIDE DEF connect
  <2>. QED
    BY <1>6, <2>1
<1> HIDE DEF behind, whole
<1>. QED
  BY <1>3, <1>8, <1>9, <1>10 DEF d, head

\* What is there of an option, and a field that is only there when the option is.
Present(o) == IF o = <<>> THEN <<>> ELSE o[1]
KindIf(o, kind) == IF o # <<>> THEN kind ELSE "absent"

\* A name or a password that may be missing.
LEMMA OptionField ==
  ASSUME NEW o \in Option(Text)
  PROVE  /\ FieldReads(KindIf(o, "string"), EncodeOption(o), Present(o))
         /\ EncodeOption(o) \in Seq(Nat)
         /\ Len(EncodeOption(o)) \in Nat /\ Len(EncodeOption(o)) <= StringLimit
         /\ o # <<>> => o = <<Present(o)>>
<1>1. CASE o = <<>>
  <2>1. KindIf(o, "string") = "absent" /\ EncodeOption(o) = <<>> /\ Present(o) = <<>>
    BY <1>1 DEF KindIf, EncodeOption, Present
  <2>2. <<>> \in Seq(Nat) /\ Len(<<>>) = 0
    OBVIOUS
  <2>3. FieldReads(KindIf(o, "string"), EncodeOption(o), Present(o))
    BY <2>1, NoBytes
  <2>4. EncodeOption(o) \in Seq(Nat) /\ Len(EncodeOption(o)) \in Nat
        /\ Len(EncodeOption(o)) <= StringLimit
    BY <2>1, <2>2, Room
  <2>. QED
    BY <1>1, <2>3, <2>4
<1>2. CASE o # <<>>
  <2>1. PICK s \in Text : o = <<s>>
    BY <1>2 DEF Option
  <2>2. KindIf(o, "string") = "string" /\ EncodeOption(o) = EncodeString(s) /\ Present(o) = s
    BY <2>1 DEF KindIf, EncodeOption, Present
  <2>. QED
    BY <2>1, <2>2, TextField
<1>. QED
  BY <1>1, <1>2

\* The properties, the topic and the payload of a will that may be missing.
WillProperties(v, o) == IF v = 5 /\ o # <<>> THEN EncodeProperties(o[1].properties) ELSE <<>>
WillTopic(o) == IF o # <<>> THEN EncodeString(o[1].topic) ELSE <<>>
WillPayload(o) == IF o # <<>> THEN EncodeString(o[1].payload) ELSE <<>>
WillField(o, name) == IF o # <<>> THEN o[1][name] ELSE <<>>

\* The fields of a will are read back, and are absent when there is none.
LEMMA WillFields ==
  ASSUME Width, NEW v \in {4, 5}, NEW o \in Option(WillsOf(v))
  PROVE  /\ FieldReads(IF v = 5 THEN KindIf(o, "properties") ELSE "absent", WillProperties(v, o),
                       WillField(o, "properties"))
         /\ FieldReads(KindIf(o, "string"), WillTopic(o), WillField(o, "topic"))
         /\ FieldReads(KindIf(o, "binary"), WillPayload(o), WillField(o, "payload"))
         /\ WillProperties(v, o) \in Seq(Nat) /\ Len(WillProperties(v, o)) \in Nat
         /\ Len(WillProperties(v, o)) <= LongestProperties
         /\ WillTopic(o) \in Seq(Nat) /\ Len(WillTopic(o)) \in Nat /\ Len(WillTopic(o)) <= StringLimit
         /\ WillPayload(o) \in Seq(Nat) /\ Len(WillPayload(o)) \in Nat
         /\ Len(WillPayload(o)) <= StringLimit
         /\ v = 4 => WillProperties(v, o) = <<>>
<1> DEFINE kind == IF v = 5 THEN KindIf(o, "properties") ELSE "absent"
<1>0. <<>> \in Seq(Nat) /\ Len(<<>>) = 0
  OBVIOUS
<1>1. CASE o = <<>>
  <2>1. /\ KindIf(o, "string") = "absent" /\ KindIf(o, "binary") = "absent" /\ kind = "absent"
        /\ WillProperties(v, o) = <<>> /\ WillTopic(o) = <<>> /\ WillPayload(o) = <<>>
        /\ WillField(o, "properties") = <<>> /\ WillField(o, "topic") = <<>>
        /\ WillField(o, "payload") = <<>>
    BY <1>1 DEF KindIf, WillProperties, WillTopic, WillPayload, WillField
  <2> HIDE DEF kind
  <2>2. /\ FieldReads(kind, WillProperties(v, o), WillField(o, "properties"))
        /\ FieldReads(KindIf(o, "string"), WillTopic(o), WillField(o, "topic"))
        /\ FieldReads(KindIf(o, "binary"), WillPayload(o), WillField(o, "payload"))
    BY <2>1, NoBytes
  <2>3. /\ WillProperties(v, o) \in Seq(Nat) /\ Len(WillProperties(v, o)) \in Nat
        /\ Len(WillProperties(v, o)) <= LongestProperties
        /\ WillTopic(o) \in Seq(Nat) /\ Len(WillTopic(o)) \in Nat /\ Len(WillTopic(o)) <= StringLimit
        /\ WillPayload(o) \in Seq(Nat) /\ Len(WillPayload(o)) \in Nat
        /\ Len(WillPayload(o)) <= StringLimit
    BY <1>0, <2>1, Room
  <2>. QED
    BY <2>1, <2>2, <2>3 DEF kind
<1>2. CASE o # <<>>
  <2>1. PICK w \in WillsOf(v) : o = <<w>>
    BY <1>2 DEF Option
  <2>2. w.topic \in Text /\ w.payload \in Binary /\ w.properties \in PropertiesOf(v)
    BY DEF WillsOf
  <2>3. /\ KindIf(o, "string") = "string" /\ KindIf(o, "binary") = "binary"
        /\ WillTopic(o) = EncodeString(w.topic) /\ WillPayload(o) = EncodeString(w.payload)
        /\ WillField(o, "properties") = w.properties /\ WillField(o, "topic") = w.topic
        /\ WillField(o, "payload") = w.payload
    BY <2>1 DEF KindIf, WillTopic, WillPayload, WillField
  <2>4. /\ FieldReads(KindIf(o, "string"), WillTopic(o), WillField(o, "topic"))
        /\ WillTopic(o) \in Seq(Nat) /\ Len(WillTopic(o)) \in Nat /\ Len(WillTopic(o)) <= StringLimit
    BY <2>2, <2>3, TextField
  <2>5. /\ FieldReads(KindIf(o, "binary"), WillPayload(o), WillField(o, "payload"))
        /\ WillPayload(o) \in Seq(Nat) /\ Len(WillPayload(o)) \in Nat
        /\ Len(WillPayload(o)) <= StringLimit
    BY <2>2, <2>3, BytesField
  <2>6. /\ FieldReads(kind, WillProperties(v, o), WillField(o, "properties"))
        /\ WillProperties(v, o) \in Seq(Nat) /\ Len(WillProperties(v, o)) \in Nat
        /\ Len(WillProperties(v, o)) <= LongestProperties
        /\ v = 4 => WillProperties(v, o) = <<>>
    <3>1. CASE v = 5
      <4>1. kind = "properties" /\ WillProperties(v, o) = EncodeProperties(w.properties)
            /\ w.properties \in Properties
        BY <2>1, <2>2, <3>1 DEF KindIf, WillProperties, PropertiesOf
      <4> HIDE DEF kind
      <4>. QED
        BY <2>3, <3>1, <4>1, PropertiesRoom
    <3>2. CASE v = 4
      <4>1. kind = "absent" /\ WillProperties(v, o) = <<>> /\ w.properties = <<>>
        BY <2>1, <2>2, <3>2 DEF WillProperties, PropertiesOf
      <4> HIDE DEF kind
      <4>2. FieldReads(kind, WillProperties(v, o), WillField(o, "properties"))
        BY <2>3, <4>1, NoBytes
      <4>. QED
        BY <1>0, <4>1, <4>2, Room
    <3>. QED
      BY <3>1, <3>2
  <2>. QED
    BY <2>4, <2>5, <2>6
<1>. QED
  BY <1>1, <1>2

\* The properties of a CONNECT, that version 3.1.1 does not have.
ConnectProperties(v, p) == IF v = 5 THEN EncodeProperties(p.properties) ELSE <<>>

\* So are the properties of a CONNECT, which version 3.1.1 does not have.
LEMMA ConnectPropertiesField ==
  ASSUME Width, NEW v \in {4, 5}, NEW p, p.properties \in PropertiesOf(v)
  PROVE  /\ FieldReads(IF v = 5 THEN "properties" ELSE "absent", ConnectProperties(v, p), p.properties)
         /\ ConnectProperties(v, p) \in Seq(Nat) /\ Len(ConnectProperties(v, p)) \in Nat
         /\ Len(ConnectProperties(v, p)) <= LongestProperties
<1>1. CASE v = 5
  <2>1. ConnectProperties(v, p) = EncodeProperties(p.properties) /\ p.properties \in Properties
    BY <1>1 DEF ConnectProperties, PropertiesOf
  <2>. QED
    BY <1>1, <2>1, PropertiesRoom
<1>2. CASE v = 4
  <2>1. ConnectProperties(v, p) = <<>> /\ p.properties = <<>>
    BY <1>2 DEF ConnectProperties, PropertiesOf
  <2>2. <<>> \in Seq(Nat) /\ Len(<<>>) = 0
    OBVIOUS
  <2>3. FieldReads("absent", ConnectProperties(v, p), p.properties)
    BY <2>1, NoBytes
  <2>4. ConnectProperties(v, p) \in Seq(Nat) /\ Len(ConnectProperties(v, p)) \in Nat
        /\ Len(ConnectProperties(v, p)) <= LongestProperties
    BY <2>1, <2>2, Room
  <2>. QED
    BY <1>2, <2>3, <2>4
<1>. QED
  BY <1>1, <1>2

\* The tail of a CONNECT as bytes, and as what is read of it.
TailOf(p) ==
    AndField("password", Present(p.password), AndField("username", Present(p.username),
      AndField("payload", WillField(p.will, "payload"), AndField("topic", WillField(p.will, "topic"),
        AndField("will_properties", WillField(p.will, "properties"),
          AndField("client_id", p.client_id, AndField("properties", p.properties, <<>>)))))))
TailBytes(v, p) ==
    (((((ConnectProperties(v, p) \o EncodeString(p.client_id)) \o WillProperties(v, p.will))
        \o WillTopic(p.will)) \o WillPayload(p.will)) \o EncodeOption(p.username))
    \o EncodeOption(p.password)

\* The fields of a CONNECT.
LEMMA FieldsOfConnect ==
  ASSUME NEW v, NEW p \in Connects(v)
  PROVE  /\ p.type = "CONNECT" /\ p.clean \in BOOLEAN /\ p.keep_alive \in KeepAlive
         /\ p.client_id \in Text /\ p.properties \in PropertiesOf(v)
         /\ p.username \in Option(Text) /\ p.password \in Option(Text)
         /\ p.will \in Option(WillsOf(v))
         /\ p = [type |-> "CONNECT", clean |-> p.clean, keep_alive |-> p.keep_alive,
                 client_id |-> p.client_id, properties |-> p.properties,
                 username |-> p.username, password |-> p.password, will |-> p.will]
BY DEF Connects, WillsOf

\* The tail of a CONNECT is read back by the layout that its flags select.
LEMMA TailReads ==
  ASSUME Width, NEW v \in {4, 5}, NEW p \in Connects(v)
  PROVE  /\ LayoutReads(ConnectTail(v, ConnectFlags(p)), TailBytes(v, p), TailOf(p))
         /\ TailBytes(v, p) \in Seq(Nat) /\ Len(TailBytes(v, p)) \in Nat
         /\ Len(TailBytes(v, p)) <= 2 * LongestProperties + 5 * StringLimit
<1> DEFINE g1 == ConnectProperties(v, p)
           g2 == EncodeString(p.client_id)
           g3 == WillProperties(v, p.will)
           g4 == WillTopic(p.will)
           g5 == WillPayload(p.will)
           g6 == EncodeOption(p.username)
           g7 == EncodeOption(p.password)
           k1 == IF v = 5 THEN "properties" ELSE "absent"
           k3 == IF v = 5 THEN KindIf(p.will, "properties") ELSE "absent"
           k4 == KindIf(p.will, "string")
           k5 == KindIf(p.will, "binary")
           k6 == KindIf(p.username, "string")
           k7 == KindIf(p.password, "string")
           n == ConnectFlags(p)
           layout == <<<<"properties", k1>>, <<"client_id", "string">>, <<"will_properties", k3>>,
                       <<"topic", k4>>, <<"payload", k5>>, <<"username", k6>>, <<"password", k7>>>>
           t == (((((g1 \o g2) \o g3) \o g4) \o g5) \o g6) \o g7
<1>1. ConnectTail(v, n) = layout
  <2>1. /\ Bit(n, 4) = (p.will # <<>>) /\ Bit(n, 64) = (p.password # <<>>)
        /\ Bit(n, 128) = (p.username # <<>>)
    BY FlagsOfConnect
  <2> HIDE DEF n
  <2>2. /\ (IF Bit(n, 4) THEN "string" ELSE "absent") = k4
        /\ (IF Bit(n, 4) THEN "binary" ELSE "absent") = k5
        /\ (IF Bit(n, 4) THEN "properties" ELSE "absent") = KindIf(p.will, "properties")
        /\ (IF Bit(n, 128) THEN "string" ELSE "absent") = k6
        /\ (IF Bit(n, 64) THEN "string" ELSE "absent") = k7
    BY <2>1 DEF KindIf
  <2>3. CASE v = 5
    <3>1. k1 = "properties" /\ k3 = KindIf(p.will, "properties")
      BY <2>3
    <3> HIDE DEF k1, k3, k4, k5, k6, k7
    <3>. QED
      BY <2>2, <2>3, <3>1 DEF ConnectTail, ConnectTailV5
  <2>4. CASE v = 4
    <3>1. k1 = "absent" /\ k3 = "absent"
      BY <2>4
    <3> HIDE DEF k1, k3, k4, k5, k6, k7
    <3>. QED
      BY <2>2, <2>4, <3>1 DEF ConnectTail, ConnectTailV3
  <2>. QED
    BY <2>3, <2>4
<1>2. /\ p.client_id \in Text /\ p.properties \in PropertiesOf(v)
      /\ p.username \in Option(Text) /\ p.password \in Option(Text)
      /\ p.will \in Option(WillsOf(v))
  BY FieldsOfConnect
<1>3. /\ FieldReads(k1, g1, p.properties)
      /\ g1 \in Seq(Nat) /\ Len(g1) \in Nat /\ Len(g1) <= LongestProperties
  BY <1>2, ConnectPropertiesField
<1>4. /\ FieldReads("string", g2, p.client_id)
      /\ g2 \in Seq(Nat) /\ Len(g2) \in Nat /\ Len(g2) <= StringLimit
  BY <1>2, TextField
<1> DEFINE o == p.will
<1>5. o \in Option(WillsOf(v))
  BY <1>2
<1> HIDE DEF o
<1>6. /\ FieldReads(k3, g3, WillField(p.will, "properties"))
      /\ FieldReads(k4, g4, WillField(p.will, "topic"))
      /\ FieldReads(k5, g5, WillField(p.will, "payload"))
      /\ g3 \in Seq(Nat) /\ Len(g3) \in Nat /\ Len(g3) <= LongestProperties
      /\ g4 \in Seq(Nat) /\ Len(g4) \in Nat /\ Len(g4) <= StringLimit
      /\ g5 \in Seq(Nat) /\ Len(g5) \in Nat /\ Len(g5) <= StringLimit
  <2>1. /\ FieldReads(IF v = 5 THEN KindIf(o, "properties") ELSE "absent", WillProperties(v, o),
                      WillField(o, "properties"))
        /\ FieldReads(KindIf(o, "string"), WillTopic(o), WillField(o, "topic"))
        /\ FieldReads(KindIf(o, "binary"), WillPayload(o), WillField(o, "payload"))
        /\ WillProperties(v, o) \in Seq(Nat) /\ Len(WillProperties(v, o)) \in Nat
        /\ Len(WillProperties(v, o)) <= LongestProperties
        /\ WillTopic(o) \in Seq(Nat) /\ Len(WillTopic(o)) \in Nat /\ Len(WillTopic(o)) <= StringLimit
        /\ WillPayload(o) \in Seq(Nat) /\ Len(WillPayload(o)) \in Nat
        /\ Len(WillPayload(o)) <= StringLimit
    BY <1>5, WillFields
  <2>. QED
    BY <2>1 DEF o
<1>7. /\ FieldReads(k6, g6, Present(p.username))
      /\ g6 \in Seq(Nat) /\ Len(g6) \in Nat /\ Len(g6) <= StringLimit
  BY <1>2, OptionField
<1>8. /\ FieldReads(k7, g7, Present(p.password))
      /\ g7 \in Seq(Nat) /\ Len(g7) \in Nat /\ Len(g7) <= StringLimit
  BY <1>2, OptionField
<1> HIDE DEF g1, g2, g3, g4, g5, g6, g7, k1, k3, k4, k5, k6, k7, n
<1>9. LayoutReads(layout, t, TailOf(p))
  <2> DEFINE x3 == WillField(p.will, "properties")
             x4 == WillField(p.will, "topic")
             x5 == WillField(p.will, "payload")
             x6 == Present(p.username)
             x7 == Present(p.password)
             x2 == p.client_id
             x1 == p.properties
  <2>1. /\ FieldReads(k1, g1, x1) /\ FieldReads("string", g2, x2) /\ FieldReads(k3, g3, x3)
        /\ FieldReads(k4, g4, x4) /\ FieldReads(k5, g5, x5) /\ FieldReads(k6, g6, x6)
        /\ FieldReads(k7, g7, x7)
    BY <1>3, <1>4, <1>6, <1>7, <1>8
  <2> HIDE DEF x1, x2, x3, x4, x5, x6, x7
  <2>2. LayoutReads(layout, t,
                    AndField("password", x7, AndField("username", x6, AndField("payload", x5,
                      AndField("topic", x4, AndField("will_properties", x3,
                        AndField("client_id", x2, AndField("properties", x1, <<>>))))))))
    BY <2>1, SevenFields
  <2>. QED
    BY <2>2 DEF TailOf, x1, x2, x3, x4, x5, x6, x7
<1>10. t \in Seq(Nat) /\ Len(t) = (((((Len(g1) + Len(g2)) + Len(g3)) + Len(g4)) + Len(g5)) + Len(g6)) + Len(g7)
  BY <1>3, <1>4, <1>6, <1>7, <1>8, NatParts
<1>11. Len(t) \in Nat /\ Len(t) <= 2 * LongestProperties + 5 * StringLimit
  <2> DEFINE m1 == Len(g1)
             m2 == Len(g2)
             m3 == Len(g3)
             m4 == Len(g4)
             m5 == Len(g5)
             m6 == Len(g6)
             m7 == Len(g7)
             m == Len(t)
  <2>1. /\ m = (((((m1 + m2) + m3) + m4) + m5) + m6) + m7
        /\ m1 \in Nat /\ m1 <= LongestProperties /\ m2 \in Nat /\ m2 <= StringLimit
        /\ m3 \in Nat /\ m3 <= LongestProperties /\ m4 \in Nat /\ m4 <= StringLimit
        /\ m5 \in Nat /\ m5 <= StringLimit /\ m6 \in Nat /\ m6 <= StringLimit
        /\ m7 \in Nat /\ m7 <= StringLimit
    BY <1>3, <1>4, <1>6, <1>7, <1>8, <1>10
  <2> HIDE DEF m1, m2, m3, m4, m5, m6, m7, m
  <2>2. m \in Nat /\ m <= 2 * LongestProperties + 5 * StringLimit
    BY <2>1, Room
  <2>. QED
    BY <2>2 DEF m
<1>12. TailBytes(v, p) = t
  BY DEF TailBytes, g1, g2, g3, g4, g5, g6, g7
<1> HIDE DEF t, layout
<1>. QED
  BY <1>1, <1>9, <1>10, <1>11, <1>12 DEF n

\* What the tail of a CONNECT tells.
LEMMA TailTells ==
  ASSUME NEW p
  PROVE  LET f == TailOf(p)
         IN  /\ f.properties = p.properties /\ f.client_id = p.client_id
             /\ f.will_properties = WillField(p.will, "properties")
             /\ f.topic = WillField(p.will, "topic") /\ f.payload = WillField(p.will, "payload")
             /\ f.username = Present(p.username) /\ f.password = Present(p.password)
<1> DEFINE a == WillField(p.will, "properties")
           b == WillField(p.will, "topic")
           c == WillField(p.will, "payload")
           d == Present(p.username)
           e == Present(p.password)
           f == TailOf(p)
<1>1. f = AndField("password", e, AndField("username", d,
            AndField("payload", c, AndField("topic", b,
              AndField("will_properties", a,
                AndField("client_id", p.client_id, AndField("properties", p.properties, <<>>)))))))
  BY DEF TailOf
<1> HIDE DEF a, b, c, d, e, f
<1>2. /\ f.properties = p.properties /\ f.client_id = p.client_id /\ f.will_properties = a
      /\ f.topic = b /\ f.payload = c /\ f.username = d /\ f.password = e
  BY <1>1 DEF AndField, Merge
<1>. QED
  BY <1>2 DEF a, b, c, d, e, f

\* The parts of a CONNECT, put together again.
LEMMA ConnectTogether ==
  ASSUME NEW v, NEW p \in Connects(v)
  PROVE  Merge([type |-> "CONNECT"], ConnectOf(ConnectFlags(p), p.keep_alive, TailOf(p))) = p
<1> DEFINE n == ConnectFlags(p)
           f == TailOf(p)
           o == p.will
<1>1. /\ p.clean \in BOOLEAN
      /\ p.username \in Option(Text) /\ p.password \in Option(Text) /\ o \in Option(WillsOf(v))
      /\ p = [type |-> "CONNECT", clean |-> p.clean, keep_alive |-> p.keep_alive,
              client_id |-> p.client_id, properties |-> p.properties,
              username |-> p.username, password |-> p.password, will |-> o]
  BY FieldsOfConnect
<1>2. /\ Bit(n, 2) = p.clean /\ Bit(n, 4) = (o # <<>>)
      /\ Bit(n, 64) = (p.password # <<>>) /\ Bit(n, 128) = (p.username # <<>>)
      /\ o # <<>> => (n \div 8) % 4 = o[1].qos /\ Bit(n, 32) = o[1].retain
  BY FlagsOfConnect
<1>3. /\ f.properties = p.properties /\ f.client_id = p.client_id
      /\ f.will_properties = WillField(o, "properties")
      /\ f.topic = WillField(o, "topic") /\ f.payload = WillField(o, "payload")
      /\ f.username = Present(p.username) /\ f.password = Present(p.password)
  BY TailTells
<1> HIDE DEF n, f
<1>4. When(n, 128, f.username) = p.username
  <2>1. p.username # <<>> => p.username = <<Present(p.username)>>
    BY <1>1, OptionField
  <2>2. CASE p.username = <<>>
    BY <1>2, <2>2 DEF When
  <2>3. CASE p.username # <<>>
    <3>1. Bit(n, 128) /\ f.username = Present(p.username)
      BY <1>2, <1>3, <2>3
    <3>. QED
      BY <2>1, <2>3, <3>1 DEF When
  <2>. QED
    BY <2>2, <2>3
<1>5. When(n, 64, f.password) = p.password
  <2>1. p.password # <<>> => p.password = <<Present(p.password)>>
    BY <1>1, OptionField
  <2>2. CASE p.password = <<>>
    BY <1>2, <2>2 DEF When
  <2>3. CASE p.password # <<>>
    <3>1. Bit(n, 64) /\ f.password = Present(p.password)
      BY <1>2, <1>3, <2>3
    <3>. QED
      BY <2>1, <2>3, <3>1 DEF When
  <2>. QED
    BY <2>2, <2>3
<1>6. When(n, 4, WillOf(n, f)) = o
  <2>1. CASE o = <<>>
    BY <1>2, <2>1 DEF When
  <2>2. CASE o # <<>>
    <3> HIDE DEF o
    <3>1. PICK w \in WillsOf(v) : o = <<w>>
      BY <1>1, <2>2 DEF Option
    <3>2. /\ w = [topic |-> w.topic, payload |-> w.payload, qos |-> w.qos, retain |-> w.retain,
                  properties |-> w.properties]
          /\ w.qos \in 0 .. 2
      BY DEF WillsOf
    <3>3. o[1] = w
      BY <3>1
    <3>4. /\ f.topic = w.topic /\ f.payload = w.payload /\ f.will_properties = w.properties
          /\ KnownQoS((n \div 8) % 4) = w.qos /\ Bit(n, 32) = w.retain
      BY <1>2, <1>3, <2>2, <3>2, <3>3 DEF WillField, KnownQoS
    <3>5. WillOf(n, f) = w
      BY <3>2, <3>4 DEF WillOf
    <3>. QED
      BY <1>2, <2>2, <3>1, <3>5 DEF When
  <2>. QED
    BY <2>1, <2>2
<1> DEFINE c == ConnectOf(n, p.keep_alive, f)
<1>7. c = [clean |-> p.clean, keep_alive |-> p.keep_alive, client_id |-> p.client_id,
           properties |-> p.properties, will |-> p.will, username |-> p.username,
           password |-> p.password]
  BY <1>2, <1>3, <1>4, <1>5, <1>6 DEF ConnectOf
<1> HIDE DEF c
<1>8. Merge([type |-> "CONNECT"], c) = p
  BY <1>1, <1>7 DEF Merge
<1>. QED
  BY <1>8 DEF c, n, f

\* Eight groups of bytes, bracketed from behind.
Regrouped(h, a, b, c, d, e, f, g) ==
    ((((h \o a) \o b) \o ((c \o d) \o e)) \o f) \o g
      = h \o ((((((a \o b) \o c) \o d) \o e) \o f) \o g)

\* The brackets do not matter there.
LEMMA Regroup ==
  ASSUME NEW h \in Seq(Nat), NEW a \in Seq(Nat), NEW b \in Seq(Nat), NEW c \in Seq(Nat),
         NEW d \in Seq(Nat), NEW e \in Seq(Nat), NEW f \in Seq(Nat), NEW g \in Seq(Nat)
  PROVE  Regrouped(h, a, b, c, d, e, f, g)
<1> DEFINE P == Seq(Nat)
           cat(u, v) == u \o v
<1>1. h \in P /\ a \in P /\ b \in P /\ c \in P /\ d \in P /\ e \in P /\ f \in P /\ g \in P
  OBVIOUS
<1>2. \A u, v \in P : cat(u, v) \in P
  BY NatParts
<1>3. \A u, v, w \in P : cat(cat(u, v), w) = cat(u, cat(v, w))
  BY Brackets
<1> HIDE DEF P, cat
<1> DEFINE t2 == cat(a, b)
           t3 == cat(t2, c)
           t4 == cat(t3, d)
           t5 == cat(t4, e)
           t6 == cat(t5, f)
           x == cat(cat(h, a), b)
           y == cat(c, d)
<1>4. x = cat(h, t2) /\ x \in P /\ t2 \in P /\ y \in P
  BY <1>1, <1>2, <1>3
<1>5. cat(x, cat(y, e)) = cat(cat(cat(x, c), d), e)
  <2> HIDE DEF x
  <2>. QED
    BY <1>1, <1>2, <1>3, <1>4
<1> HIDE DEF x, t2
<1>6. cat(x, c) = cat(h, t3) /\ t3 \in P
  BY <1>1, <1>2, <1>3, <1>4
<1> HIDE DEF t3
<1>7. cat(cat(x, c), d) = cat(h, t4) /\ t4 \in P
  BY <1>1, <1>2, <1>3, <1>6
<1> HIDE DEF t4
<1>8. cat(cat(cat(x, c), d), e) = cat(h, t5) /\ t5 \in P
  BY <1>1, <1>2, <1>3, <1>7
<1> HIDE DEF t5
<1>9. cat(cat(cat(x, cat(y, e)), f), g) = cat(h, cat(t6, g))
  BY <1>1, <1>2, <1>3, <1>5, <1>8
<1>. QED
  BY <1>9 DEF x, y, t2, t3, t4, t5, cat, Regrouped

\* The bytes of a will, or none.
LEMMA WillBytes ==
  ASSUME Width, NEW v \in {4, 5}, NEW o \in Option(WillsOf(v))
  PROVE  (WillProperties(v, o) \o WillTopic(o)) \o WillPayload(o)
           = IF o = <<>> THEN <<>>
             ELSE IF v = 5
             THEN (EncodeProperties(o[1].properties) \o EncodeString(o[1].topic))
                  \o EncodeString(o[1].payload)
             ELSE EncodeString(o[1].topic) \o EncodeString(o[1].payload)
<1> DEFINE g3 == WillProperties(v, o)
           g4 == WillTopic(o)
           g5 == WillPayload(o)
           none == <<>>
<1>1. g3 \in Seq(Nat) /\ g4 \in Seq(Nat) /\ g5 \in Seq(Nat) /\ (v = 4 => g3 = none)
  BY WillFields
<1>2. none \in Seq(Nat)
  OBVIOUS
<1>3. CASE o = <<>>
  <2>1. g3 = none /\ g4 = none /\ g5 = none
    BY <1>3 DEF WillProperties, WillTopic, WillPayload
  <2> HIDE DEF g3, g4, g5, none
  <2>2. (g3 \o g4) \o g5 = none
    <3>1. none \o none = none
      BY <1>2, ConcatEmptySeq DEF none
    <3>. QED
      BY <2>1, <3>1
  <2>. QED
    BY <1>3, <2>2 DEF g3, g4, g5, none
<1>4. CASE o # <<>> /\ v = 5
  BY <1>4 DEF WillProperties, WillTopic, WillPayload
<1>5. CASE o # <<>> /\ v = 4
  <2>1. g3 = none /\ g4 = EncodeString(o[1].topic) /\ g5 = EncodeString(o[1].payload)
    BY <1>1, <1>5 DEF WillTopic, WillPayload
  <2> HIDE DEF g3, g4, g5, none
  <2>2. none \o g4 = g4
    BY <1>1, ConcatEmptySeq DEF none
  <2>3. (g3 \o g4) \o g5 = EncodeString(o[1].topic) \o EncodeString(o[1].payload)
    BY <2>1, <2>2
  <2>. QED
    BY <1>5, <2>3 DEF g3, g4, g5
<1>. QED
  BY <1>3, <1>4, <1>5

\* The head of the CONNECT p.
HeadBytes(v, p) == ConnectHeadBytes(v, ConnectFlags(p), p.keep_alive)

\* The body of a CONNECT is its head and its tail.
LEMMA ConnectBody ==
  ASSUME Width, NEW v \in {4, 5}, NEW p \in Connects(v)
  PROVE  /\ (IF v = 5 THEN EncodeConnectV5(p) ELSE EncodeConnectV3(p))
              = HeadBytes(v, p) \o TailBytes(v, p)
         /\ HeadBytes(v, p) \in Seq(Nat) /\ Len(HeadBytes(v, p)) = 10
<1> DEFINE m == EncodeString(MQTT)
           n == ConnectFlags(p)
           one == <<v>>
           two == <<n>>
           k == U16(p.keep_alive)
           h == HeadBytes(v, p)
           o == p.will
           g1 == ConnectProperties(v, p)
           g2 == EncodeString(p.client_id)
           g3 == WillProperties(v, o)
           g4 == WillTopic(o)
           g5 == WillPayload(o)
           g6 == EncodeOption(p.username)
           g7 == EncodeOption(p.password)
           w == (g3 \o g4) \o g5
           E == IF v = 5 THEN EncodeConnectV5(p) ELSE EncodeConnectV3(p)
<1>1. /\ p.client_id \in Text /\ p.properties \in PropertiesOf(v)
      /\ p.username \in Option(Text) /\ p.password \in Option(Text)
      /\ o \in Option(WillsOf(v)) /\ p.keep_alive \in TwoBytes
  BY FieldsOfConnect, NumberAssumption
<1>2. n \in Nat /\ n \in Byte
  BY FlagsOfConnect
<1>3. /\ m \in Seq(Nat) /\ Len(m) = 6 /\ one \in Seq(Nat) /\ two \in Seq(Nat) /\ k \in Seq(Nat)
      /\ Len(one) = 1 /\ Len(two) = 1 /\ Len(k) = 2
  BY <1>1, <1>2, HeadReads
<1>4. g1 \in Seq(Nat)
  BY <1>1, ConnectPropertiesField
<1>5. g2 \in Seq(Nat)
  BY <1>1, TextField
<1>6. g3 \in Seq(Nat) /\ g4 \in Seq(Nat) /\ g5 \in Seq(Nat)
  BY <1>1, WillFields
<1>7. g6 \in Seq(Nat) /\ g7 \in Seq(Nat)
  BY <1>1, OptionField
<1>8. m \o <<v, n>> = (m \o one) \o two
  <2>1. <<v, n>> = one \o two
    BY TwoBytesApart
  <2> HIDE DEF m, one, two, n
  <2>2. (m \o one) \o two = m \o (one \o two)
    BY <1>3, Brackets, Zenon
  <2>. QED
    BY <2>1, <2>2
<1>9. h = ((m \o one) \o two) \o k
  BY DEF HeadBytes, ConnectHeadBytes
<1>10. h \in Seq(Nat) /\ Len(h) = 10
  <2> HIDE DEF m, one, two, k
  <2> DEFINE a == m \o one
             b == a \o two
  <2>1. a \in Seq(Nat) /\ Len(a) = 6 + 1
    BY <1>3, NatParts, ZenonT(30)
  <2> HIDE DEF a
  <2>2. b \in Seq(Nat) /\ Len(b) = (6 + 1) + 1
    BY <1>3, <2>1, NatParts
  <2> HIDE DEF b
  <2>3. b \o k \in Seq(Nat) /\ Len(b \o k) = ((6 + 1) + 1) + 2
    BY <1>3, <2>2, NatParts
  <2>4. h = b \o k
    BY <1>9 DEF a, b
  <2> HIDE DEF h
  <2>. QED
    BY <2>3, <2>4
<1>11. E = ((((h \o g1) \o g2) \o w) \o g6) \o g7
  <2>1. CASE v = 5
    <3>1. w = IF o = <<>> THEN <<>>
              ELSE (EncodeProperties(o[1].properties) \o EncodeString(o[1].topic))
                   \o EncodeString(o[1].payload)
      BY <1>1, <2>1, WillBytes
    <3>2. E = ((((((m \o <<5, n>>) \o k) \o g1) \o g2)
                \o (IF o = <<>> THEN <<>>
                    ELSE (EncodeProperties(o[1].properties) \o EncodeString(o[1].topic))
                         \o EncodeString(o[1].payload))) \o g6) \o g7
      BY <2>1 DEF EncodeConnectV5, ConnectProperties
    <3>3. (m \o <<5, n>>) \o k = h
      BY <1>8, <1>9, <2>1
    <3> HIDE DEF E, m, n, k, h, g1, g2, g3, g4, g5, g6, g7, w
    <3>. QED
      BY <3>1, <3>2, <3>3
  <2>2. CASE v = 4
    <3>1. w = IF o = <<>> THEN <<>> ELSE EncodeString(o[1].topic) \o EncodeString(o[1].payload)
      <4>1. v # 5
        BY <2>2
      <4>2. w = IF o = <<>> THEN <<>>
                ELSE IF v = 5
                THEN (EncodeProperties(o[1].properties) \o EncodeString(o[1].topic))
                     \o EncodeString(o[1].payload)
                ELSE EncodeString(o[1].topic) \o EncodeString(o[1].payload)
        BY <1>1, WillBytes
      <4> HIDE DEF w, o
      <4>. QED
        BY <4>1, <4>2
    <3>2. E = (((((m \o <<4, n>>) \o k) \o g2)
                \o (IF o = <<>> THEN <<>>
                    ELSE EncodeString(o[1].topic) \o EncodeString(o[1].payload))) \o g6) \o g7
      BY <2>2 DEF EncodeConnectV3
    <3>3. (m \o <<4, n>>) \o k = h
      BY <1>8, <1>9, <2>2
    <3>4. h \o g1 = h
      <4>1. g1 = <<>>
        BY <2>2 DEF ConnectProperties
      <4> HIDE DEF h, g1
      <4>. QED
        BY <1>10, <4>1, ConcatEmptySeq
    <3> HIDE DEF E, m, n, k, h, g1, g2, g3, g4, g5, g6, g7, w
    <3>. QED
      BY <3>1, <3>2, <3>3, <3>4
  <2>. QED
    BY <2>1, <2>2
<1>12. E = h \o ((((((g1 \o g2) \o g3) \o g4) \o g5) \o g6) \o g7)
  <2>1. w = (g3 \o g4) \o g5
    OBVIOUS
  <2> HIDE DEF E, h, g1, g2, g3, g4, g5, g6, g7, w
  <2>2. Regrouped(h, g1, g2, g3, g4, g5, g6, g7)
    <3>1. h \in Seq(Nat)
      BY <1>10
    <3>. QED
      BY <1>4, <1>5, <1>6, <1>7, <3>1, Regroup
  <2>. QED
    BY <1>11, <2>1, <2>2 DEF Regrouped
<1>. QED
  BY <1>10, <1>12 DEF TailBytes

\* Three groups of bytes behind a name and a level.
Levelled(m, v, a, b, c) == (((m \o <<v>>) \o a) \o b) \o c

\* The byte behind the name tells the version, whatever follows.
LEMMA LevelByte ==
  ASSUME NEW v \in Nat, NEW m \in Seq(Nat), Len(m) = 6,
         NEW a \in Seq(Nat), NEW b \in Seq(Nat), NEW c \in Seq(Nat)
  PROVE  Levelled(m, v, a, b, c)[7] = v
<1> DEFINE one == <<v>>
           x == m \o one
           y == x \o a
           z == y \o b
<1>1. one \in Seq(Nat) /\ Len(one) = 1 /\ one[1] = v
  OBVIOUS
<1> HIDE DEF one
<1>2. x \in Seq(Nat) /\ Len(x) = 7 /\ x[7] = v
  <2>1. x \in Seq(Nat) /\ Len(x) = Len(m) + Len(one)
    BY <1>1, NatParts
  <2>2. \A i \in 1 .. Len(m) + Len(one) : x[i] = IF i <= Len(m) THEN m[i] ELSE one[i - Len(m)]
    BY <1>1, ConcatProperties
  <2> HIDE DEF x
  <2>3. x[7] = one[7 - 6]
    BY <1>1, <2>2
  <2>4. 7 - 6 = 1
    OBVIOUS
  <2>5. x[7] = v
    BY <1>1, <2>3, <2>4, Zenon
  <2>. QED
    BY <1>1, <2>1, <2>5
<1>3. ASSUME NEW s \in Seq(Nat), Len(s) \in Nat, 7 <= Len(s), s[7] = v, NEW t \in Seq(Nat)
      PROVE  s \o t \in Seq(Nat) /\ 7 <= Len(s \o t) /\ Len(s \o t) \in Nat /\ (s \o t)[7] = v
  <2>1. s \o t \in Seq(Nat) /\ Len(s \o t) = Len(s) + Len(t) /\ Len(t) \in Nat
    BY NatParts
  <2>2. \A i \in 1 .. Len(s) + Len(t) : (s \o t)[i] = IF i <= Len(s) THEN s[i] ELSE t[i - Len(s)]
    BY ConcatProperties
  <2>. QED
    BY <1>3, <2>1, <2>2
<1>4. Len(x) \in Nat /\ 7 <= Len(x)
  BY <1>2
<1> HIDE DEF x
<1>5. y \in Seq(Nat) /\ 7 <= Len(y) /\ Len(y) \in Nat /\ y[7] = v
  BY <1>2, <1>3, <1>4
<1> HIDE DEF y
<1>6. z \in Seq(Nat) /\ 7 <= Len(z) /\ Len(z) \in Nat /\ z[7] = v
  BY <1>3, <1>5
<1> HIDE DEF z
<1>7. (z \o c)[7] = v
  BY <1>3, <1>6
<1>8. Levelled(m, v, a, b, c) = z \o c
  BY DEF z, y, x, one, Levelled
<1>. QED
  BY <1>7, <1>8

\* A CONNECT is decoded in its version, that its first bytes tell.
LEMMA ConnectBack ==
  ASSUME Width, NEW v \in {4, 5}, NEW p \in Connects(v)
  PROVE  /\ Survives(v, p, Encode(v, p))
         /\ FirstVersion(Encode(v, p)) = v
         /\ DecodeFirst(Encode(v, p)) = Ok(p, Len(Encode(v, p)))
<1> DEFINE h == HeadBytes(v, p)
           t == TailBytes(v, p)
           n == ConnectFlags(p)
           body == h \o t
           s == Frame(v, p, body)
           c == ConnectOf(n, p.keep_alive, TailOf(p))
           type == PacketTypes[s[1] \div 16]
           header == [type |-> type]
           read(x) == IF x.ok THEN Ok(Merge(header, x.value), Len(s)) ELSE Fail
<1>1. p.type = "CONNECT" /\ p.keep_alive \in TwoBytes
  BY FieldsOfConnect, NumberAssumption
<1>2. n \in Nat /\ n \in Byte
  BY FlagsOfConnect
<1>3. /\ LayoutReads(ConnectTail(v, n), t, TailOf(p))
      /\ t \in Seq(Nat) /\ Len(t) \in Nat /\ Len(t) <= 2 * LongestProperties + 5 * StringLimit
  BY TailReads
<1>4. h \in Seq(Nat) /\ Len(h) = 10
      /\ (IF v = 5 THEN EncodeConnectV5(p) ELSE EncodeConnectV3(p)) = body
  BY ConnectBody
<1>5. Encode(v, p) = s
  <2>1. (IF v = 5 THEN BodyV5(p) ELSE BodyV3(p)) = body
    <3> HIDE DEF body
    <3>1. BodyV5(p) = EncodeConnectV5(p) /\ BodyV3(p) = EncodeConnectV3(p)
      BY <1>1 DEF BodyV3, BodyV5, Acks, Pings
    <3>. QED
      BY <1>4, <3>1
  <2> HIDE DEF body
  <2>. QED
    BY <2>1 DEF Encode
<1>6. DecodeConnect(v, body) = Ok(c, Len(h) + Len(t))
  <2>1. LayoutEnds(ConnectTail(v, n), t, TailOf(p))
    BY <1>3, ReadsEnd
  <2>2. h = ConnectHeadBytes(v, n, p.keep_alive)
    BY DEF HeadBytes
  <2> DEFINE k == p.keep_alive
             f == TailOf(p)
  <2>3. k \in TwoBytes /\ LayoutEnds(ConnectTail(v, n), t, f) /\ h = ConnectHeadBytes(v, n, k)
    BY <1>1, <2>1, <2>2
  <2> HIDE DEF h, t, n, k, f
  <2>4. DecodeConnect(v, h \o t) = Ok(ConnectOf(n, k, f), Len(h) + Len(t))
    BY <1>2, <2>3, ConnectReads
  <2>. QED
    BY <2>4 DEF k, f
<1>7. Merge([type |-> "CONNECT"], c) = p
  BY ConnectTogether
<1> HIDE DEF h, t, c, n
<1>8. body \in Seq(Nat) /\ Len(body) < LengthLimit /\ Len(body) \in Nat /\ 8 <= Len(body)
  <2>1. body \in Seq(Nat) /\ Len(body) = 10 + Len(t)
    BY <1>3, <1>4, NatParts
  <2> DEFINE j == Len(body)
             k == Len(t)
  <2>2. j = 10 + k /\ k \in Nat /\ k <= 2 * LongestProperties + 5 * StringLimit
    BY <1>3, <2>1
  <2> HIDE DEF j, k
  <2>3. j < LengthLimit /\ j \in Nat /\ 8 <= j
    BY <2>2, Room
  <2>. QED
    BY <2>1, <2>3 DEF j
<1>9. HeaderFlags(v, p) = 0
  BY <1>1 DEF HeaderFlags
<1>10. s[1] = 16 /\ BodyOf(s) = body
  <2>1. p.type = PacketTypes[1] /\ 1 \in 1 .. 15
    BY <1>1 DEF PacketTypes
  <2>2. TypeNumber(p.type) = 1
    BY <2>1, TypeCode
  <2> HIDE DEF body
  <2>3. s[1] = 16 * 1 + 0 /\ BodyOf(s) = body
    BY <1>8, <1>9, <2>2, FrameBack
  <2>. QED
    BY <2>3
<1> HIDE DEF s
<1>11. type = "CONNECT"
  <2>1. s[1] \div 16 = 1
    BY <1>10
  <2>. QED
    BY <2>1 DEF PacketTypes
<1> DEFINE r == DecodeConnect(v, BodyOf(s))
<1>12. r.ok /\ r.value = c
  BY <1>6, <1>10 DEF Ok
<1>13. Decode(v, s) = read(r)
  <2> DEFINE q == (s[1] \div 2) % 4
  <2> HIDE DEF q
  <2>. QED
    BY <1>11 DEF Decode, q
<1> HIDE DEF r
<1>14. Decode(v, s) = Ok(p, Len(s))
  <2>1. header = [type |-> "CONNECT"]
    BY <1>11
  <2> HIDE DEF header
  <2>. QED
    BY <1>7, <1>12, <1>13, <2>1
<1>15. FirstVersion(s) = v
  <2> DEFINE m == EncodeString(MQTT)
             a == <<n>>
             k == U16(p.keep_alive)
  <2>1. m \in Seq(Nat) /\ Len(m) = 6 /\ a \in Seq(Nat) /\ k \in Seq(Nat)
    BY <1>1, <1>2, HeadReads
  <2>2. body = Levelled(m, v, a, k, t)
    BY DEF HeadBytes, ConnectHeadBytes, Levelled, h, n
  <2>3. v \in Nat
    OBVIOUS
  <2> HIDE DEF m, a, k, body
  <2>4. Levelled(m, v, a, k, t)[7] = v
    BY <1>3, <2>1, <2>3, LevelByte
  <2>. QED
    BY <1>10, <2>2, <2>4 DEF FirstVersion
<1>16. DecodeFirst(s) = Decode(v, s)
  <2> HIDE DEF body
  <2>. QED
    BY <1>8, <1>10, <1>15 DEF DecodeFirst
<1>. QED
  BY <1>5, <1>14, <1>15, <1>16 DEF Survives

-----------------------------------------------------------------------------
(* From one side to the other *)

\* The messages of a packet can be encoded again.
Carries(p) == \A m \in MessagesOf(p) : m.topic \in Text /\ m.payload \in Binary

\* Bytes that the receiver takes for the packet p.
Goes(v, p, s) == Decode(v, s).ok /\ Decode(v, s).value = p /\ Carries(p)

\* A packet that survives goes, as long as its messages can be encoded again.
LEMMA SurvivorGoes ==
  ASSUME NEW v, NEW p, NEW s, Survives(v, p, s), Carries(p)
  PROVE  Goes(v, p, s)
BY DEF Survives, Goes, Ok

\* Most packets carry no message.
LEMMA CarriesNothing ==
  ASSUME NEW p, p.type \notin {"PUBLISH", "CONNECT"}
  PROVE  Carries(p)
BY DEF Carries, MessagesOf

\* A PUBLISH carries its topic and its payload.
LEMMA PublishGoes ==
  ASSUME Width, NEW v \in {4, 5}, NEW qos \in 0 .. 2, NEW p \in Publishes(v, qos)
  PROVE  Goes(v, p, Encode(v, p))
<1>1. Carries(p)
  <2>1. p.type = "PUBLISH" /\ p.topic \in Text /\ p.payload \in Binary
    <3>1. CASE v = 4
      BY <3>1 DEF Publishes
    <3>2. CASE v = 5
      BY <3>2 DEF Publishes
    <3>. QED
      BY <3>1, <3>2
  <2>. QED
    BY <2>1 DEF Carries, MessagesOf
<1>2. Survives(v, p, Encode(v, p))
  BY PublishV3Back, PublishV5Back
<1>. QED
  BY <1>1, <1>2, SurvivorGoes

\* A CONNECT carries the message of its will.
LEMMA ConnectGoes ==
  ASSUME Width, NEW v \in {4, 5}, NEW p \in Connects(v)
  PROVE  /\ DecodeFirst(Encode(v, p)).ok /\ DecodeFirst(Encode(v, p)).value = p
         /\ FirstVersion(Encode(v, p)) = v /\ Carries(p)
<1>1. FirstVersion(Encode(v, p)) = v /\ DecodeFirst(Encode(v, p)) = Ok(p, Len(Encode(v, p)))
  BY ConnectBack
<1>2. DecodeFirst(Encode(v, p)).ok /\ DecodeFirst(Encode(v, p)).value = p
  BY <1>1 DEF Ok
<1>3. Carries(p)
  <2>1. p.type = "CONNECT" /\ p.will \in Option(WillsOf(v))
    BY FieldsOfConnect
  <2>2. p.will # <<>> => p.will[1].topic \in Text /\ p.will[1].payload \in Binary
    BY <2>1 DEF Option, WillsOf
  <2>. QED
    BY <2>1, <2>2 DEF Carries, MessagesOf
<1>. QED
  BY <1>1, <1>2, <1>3

\* What a client sends behind its CONNECT, and what the broker sends.
LEMMA OthersGo ==
  ASSUME Width, NEW v \in {4, 5}
  PROVE  /\ \A p \in ConnAcks(v) \union AcksOf(v, Acks) \union Subscribes(v) \union Unsubscribes(v)
                     \union SubAcks(v) : Goes(v, p, Encode(v, p))
         /\ v = 4 => \A p \in AcksOf(4, {"UNSUBACK"}) : Goes(4, p, Encode(4, p))
         /\ v = 5 => \A p \in EndsV5 : Goes(5, p, Encode(5, p))
         /\ \A type \in Pings : Goes(v, [type |-> type], Encode(v, [type |-> type]))
         /\ v = 4 => Goes(4, [type |-> "DISCONNECT"], Encode(4, [type |-> "DISCONNECT"]))
<1>1. ASSUME NEW p \in ConnAcks(v)
      PROVE  Goes(v, p, Encode(v, p))
  <2>1. p.type \notin {"PUBLISH", "CONNECT"}
    BY DEF ConnAcks
  <2>2. Survives(v, p, Encode(v, p))
    BY ConnAckV3Back, ConnAckV5Back
  <2>. QED
    BY <2>1, <2>2, CarriesNothing, SurvivorGoes
<1>2. ASSUME NEW p \in AcksOf(v, Acks)
      PROVE  Goes(v, p, Encode(v, p))
  <2>1. p.type \notin {"PUBLISH", "CONNECT"}
    BY DEF AcksOf, Acks
  <2>2. Survives(v, p, Encode(v, p))
    <3>1. CASE v = 4
      <4>1. p \in AcksOf(4, Acks \union {"UNSUBACK"})
        BY <3>1 DEF AcksOf
      <4>. QED
        BY <3>1, <4>1, AckV3Back
    <3>2. CASE v = 5
      BY <3>2, AckV5Back
    <3>. QED
      BY <3>1, <3>2
  <2>. QED
    BY <2>1, <2>2, CarriesNothing, SurvivorGoes
<1>3. ASSUME NEW p \in Subscribes(v)
      PROVE  Goes(v, p, Encode(v, p))
  <2>1. p.type \notin {"PUBLISH", "CONNECT"}
    BY DEF Subscribes
  <2>2. Survives(v, p, Encode(v, p))
    BY SubscribeV3Back, SubscribeV5Back
  <2>. QED
    BY <2>1, <2>2, CarriesNothing, SurvivorGoes
<1>4. ASSUME NEW p \in Unsubscribes(v)
      PROVE  Goes(v, p, Encode(v, p))
  <2>1. p.type \notin {"PUBLISH", "CONNECT"}
    BY DEF Unsubscribes
  <2>2. Survives(v, p, Encode(v, p))
    BY UnsubscribeV3Back, UnsubscribeV5Back
  <2>. QED
    BY <2>1, <2>2, CarriesNothing, SurvivorGoes
<1>5. ASSUME NEW p \in SubAcks(v)
      PROVE  Goes(v, p, Encode(v, p))
  <2>1. p.type \notin {"PUBLISH", "CONNECT"}
    BY DEF SubAcks
  <2>2. Survives(v, p, Encode(v, p))
    BY SubAckV3Back, SubAckV5Back
  <2>. QED
    BY <2>1, <2>2, CarriesNothing, SurvivorGoes
<1>6. ASSUME NEW p \in AcksOf(4, {"UNSUBACK"})
      PROVE  Goes(4, p, Encode(4, p))
  <2>1. p.type \notin {"PUBLISH", "CONNECT"} /\ p \in AcksOf(4, Acks \union {"UNSUBACK"})
    BY DEF AcksOf
  <2>. QED
    BY <2>1, AckV3Back, CarriesNothing, SurvivorGoes
<1>7. ASSUME NEW p \in EndsV5
      PROVE  Goes(5, p, Encode(5, p))
  <2>1. p.type \notin {"PUBLISH", "CONNECT"}
    BY DEF EndsV5
  <2>2. \/ p \in [type : {"DISCONNECT"}, reason_code : ReasonCode, properties : Properties]
        \/ p \in [type : {"AUTH"}, reason_code : ReasonCode, properties : Properties]
    BY DEF EndsV5
  <2>. QED
    BY <2>1, <2>2, DisconnectV5Back, AuthV5Back, CarriesNothing, SurvivorGoes
<1>8. ASSUME NEW type \in Pings \union {"DISCONNECT"}, type = "DISCONNECT" => v = 4
      PROVE  Goes(v, [type |-> type], Encode(v, [type |-> type]))
  <2> DEFINE p == [type |-> type]
  <2>1. p.type \notin {"PUBLISH", "CONNECT"}
    BY DEF Pings
  <2>2. Survives(v, p, Encode(v, p))
    BY <1>8, EmptyBack
  <2> HIDE DEF p
  <2>3. Goes(v, p, Encode(v, p))
    BY <2>1, <2>2, CarriesNothing, SurvivorGoes
  <2>. QED
    BY <2>3 DEF p
<1>9. v = 4 => Goes(4, [type |-> "DISCONNECT"], Encode(4, [type |-> "DISCONNECT"]))
  BY <1>8
<1>10. \A type \in Pings : Goes(v, [type |-> type], Encode(v, [type |-> type]))
  BY <1>8 DEF Pings
<1>. QED
  BY <1>1, <1>2, <1>3, <1>4, <1>5, <1>6, <1>7, <1>9, <1>10

\* The short forms of version 5.0.
LEMMA ShortGo ==
  ASSUME Width
  PROVE  /\ \A p \in AcksOf(5, Acks) : p.reason_code = 0 /\ p.properties = <<>> =>
              Goes(5, p, Frame(5, p, U16(p.packet_id)))
         /\ \A p \in EndsV5 : p.type = "DISCONNECT" /\ p.reason_code = 0 /\ p.properties = <<>> =>
              Goes(5, p, Frame(5, p, <<>>))
<1>1. ASSUME NEW p \in AcksOf(5, Acks), p.reason_code = 0, p.properties = <<>>
      PROVE  Goes(5, p, Frame(5, p, U16(p.packet_id)))
  <2>1. p.type \notin {"PUBLISH", "CONNECT"}
    BY DEF AcksOf, Acks
  <2>. QED
    BY <1>1, <2>1, ShortAckBack, CarriesNothing, SurvivorGoes
<1>2. ASSUME NEW p \in EndsV5, p.type = "DISCONNECT", p.reason_code = 0, p.properties = <<>>
      PROVE  Goes(5, p, Frame(5, p, <<>>))
  <2>1. p.type \notin {"PUBLISH", "CONNECT"}
    BY <1>2
  <2>. QED
    BY <1>2, <2>1, ShortDisconnectBack, CarriesNothing, SurvivorGoes
<1>. QED
  BY <1>1, <1>2

\* What is forwarded is decoded as a PUBLISH of version 3.1.1 with QoS 0.
LEMMA ForwardGoes ==
  ASSUME Width, NEW m, m.topic \in Text, m.payload \in Binary, NEW retain \in BOOLEAN
  PROVE  LET r == Decode(4, Encode(4, Forwarded(m, retain)))
         IN  r.ok /\ r.value = Forwarded(m, retain)
<1> DEFINE p == Forwarded(m, retain)
<1>1. p \in Publishes(4, 0)
  BY DEF Publishes, Forwarded
<1> HIDE DEF p
<1>2. 0 \in 0 .. 2 /\ 4 \in {4, 5}
  OBVIOUS
<1>3. Goes(4, p, Encode(4, p))
  BY <1>1, <1>2, PublishGoes
<1>. QED
  BY <1>3 DEF Goes, p

-----------------------------------------------------------------------------
(* The invariant *)

\* Versions, and which of the two the broker takes a connection to have.
VersionsInv ==
    /\ version \in {4, 5} /\ known \in {0, version}
    /\ subscriber \in SubscriberVersion
    /\ by \in {"client", "broker"}

\* What is under way: the CONNECT, or a packet in the version that both sides know.
SentInv == stage = "sent" =>
    IF known = 0
    THEN by = "client" /\ packet \in Connects(version) /\ wire = Encode(version, packet)
    ELSE Goes(version, packet, wire)

\* What has been read, and may be forwarded.
ReadInv == stage = "read" => known = version /\ got.ok /\ got.value = packet /\ Carries(packet)

\* A message of the packet that was read is under way to the subscriber.
ForwardedInv == stage = "forwarded" =>
    \E m \in MessagesOf(packet) : \E retain \in BOOLEAN :
      /\ m.topic \in Text /\ m.payload \in Binary
      /\ wire = Encode(4, Forwarded(m, retain))

WayInv == VersionsInv /\ SentInv /\ ReadInv /\ ForwardedInv

\* No connection has a packet at first.
LEMMA WayInit == Init => WayInv
BY VersionAssumption DEF Init, WayInv, VersionsInv, SentInv, ReadInv, ForwardedInv

\* A packet that goes may be sent on a connection whose version is known.
LEMMA SendKeeps ==
  ASSUME WayInv, known # 0, NEW who \in {"client", "broker"}, NEW p, NEW s, Goes(version, p, s),
         Send(who, p, s)
  PROVE  WayInv'
<1>1. /\ packet' = p /\ by' = who /\ wire' = s /\ stage' = "sent"
      /\ version' = version /\ known' = known /\ subscriber' = subscriber
  BY DEF Send
<1>2. VersionsInv'
  BY <1>1 DEF WayInv, VersionsInv
<1>3. SentInv'
  <2>1. Goes(version, p, s)
    OBVIOUS
  <2>2. Goes(version', packet', wire')
    BY <1>1, <2>1
  <2>3. known' # 0
    BY <1>1
  <2>. QED
    BY <2>2, <2>3 DEF SentInv
<1>4. ReadInv' /\ ForwardedInv'
  BY <1>1 DEF ReadInv, ForwardedInv
<1>. QED
  BY <1>2, <1>3, <1>4 DEF WayInv

\* Every step keeps to that.
LEMMA WayNext ==
  ASSUME Width
  PROVE  WayInv /\ [Next]_vars => WayInv'
<1> SUFFICES ASSUME WayInv, [Next]_vars PROVE WayInv'
  OBVIOUS
<1>0. version \in {4, 5} /\ known \in {0, version} /\ (known # 0 => known = version)
  BY DEF WayInv, VersionsInv
<1>1. CASE ClientConnects
  <2>1. PICK p \in Connects(version) : known = 0 /\ Send("client", p, Encode(version, p))
    BY <1>1 DEF ClientConnects
  <2>2. /\ packet' = p /\ by' = "client" /\ wire' = Encode(version, p) /\ stage' = "sent"
        /\ version' = version /\ known' = 0 /\ subscriber' = subscriber
    BY <2>1 DEF Send
  <2>3. VersionsInv'
    BY <2>1, <2>2 DEF WayInv, VersionsInv
  <2>4. SentInv'
    <3>1. packet' \in Connects(version') /\ wire' = Encode(version', packet')
      BY <2>1, <2>2
    <3>. QED
      BY <2>2, <3>1 DEF SentInv
  <2>5. ReadInv' /\ ForwardedInv'
    BY <2>2 DEF ReadInv, ForwardedInv
  <2>. QED
    BY <2>3, <2>4, <2>5 DEF WayInv
<1>2. CASE ClientPublishes
  <2>0. PICK qos \in 0 .. 2 : known # 0 /\ \E p \in Publishes(version, qos) :
          Send("client", p, Encode(version, p))
    BY <1>2 DEF ClientPublishes
  <2>1. PICK p \in Publishes(version, qos) : Send("client", p, Encode(version, p))
    BY <2>0
  <2>2. Goes(version, p, Encode(version, p))
    BY <1>0, PublishGoes
  <2>. QED
    BY <2>0, <2>1, <2>2, SendKeeps
<1>3. CASE ClientSends
  <2>0. known # 0
    BY <1>3 DEF ClientSends
  <2>1. CASE \E p \in AcksOf(version, Acks) \union Subscribes(version) \union Unsubscribes(version) :
               Send("client", p, Encode(version, p))
    <3>1. PICK p \in AcksOf(version, Acks) \union Subscribes(version) \union Unsubscribes(version) :
            Send("client", p, Encode(version, p))
      BY <2>1
    <3>2. Goes(version, p, Encode(version, p))
      BY <1>0, OthersGo
    <3>. QED
      BY <2>0, <3>1, <3>2, SendKeeps
  <2>2. CASE Send("client", [type |-> "PINGREQ"], Encode(version, [type |-> "PINGREQ"]))
    <3>1. "PINGREQ" \in Pings
      BY DEF Pings
    <3>2. Goes(version, [type |-> "PINGREQ"], Encode(version, [type |-> "PINGREQ"]))
      BY <1>0, <3>1, OthersGo
    <3>. QED
      BY <2>0, <2>2, <3>2, SendKeeps
  <2>3. CASE version = 4 /\ Send("client", [type |-> "DISCONNECT"], Encode(4, [type |-> "DISCONNECT"]))
    <3>1. Goes(4, [type |-> "DISCONNECT"], Encode(4, [type |-> "DISCONNECT"]))
      BY <1>0, <2>3, OthersGo
    <3>. QED
      BY <2>0, <2>3, <3>1, SendKeeps
  <2>4. CASE version = 5 /\ \E p \in EndsV5 : Send("client", p, Encode(5, p))
    <3>1. PICK p \in EndsV5 : Send("client", p, Encode(5, p))
      BY <2>4
    <3>2. Goes(5, p, Encode(5, p))
      BY <1>0, <2>4, OthersGo
    <3>. QED
      BY <2>0, <2>4, <3>1, <3>2, SendKeeps
  <2>. QED
    BY <1>3, <2>1, <2>2, <2>3, <2>4 DEF ClientSends
<1>4. CASE ClientSendsShort
  <2>0. known # 0 /\ version = 5
    BY <1>0, <1>4 DEF ClientSendsShort
  <2>1. CASE \E p \in AcksOf(5, Acks) :
               /\ p.reason_code = 0 /\ p.properties = <<>>
               /\ Send("client", p, Frame(5, p, U16(p.packet_id)))
    <3>1. PICK p \in AcksOf(5, Acks) :
            /\ p.reason_code = 0 /\ p.properties = <<>>
            /\ Send("client", p, Frame(5, p, U16(p.packet_id)))
      BY <2>1
    <3>2. Goes(5, p, Frame(5, p, U16(p.packet_id)))
      BY <3>1, ShortGo
    <3>. QED
      BY <2>0, <3>1, <3>2, SendKeeps
  <2>2. CASE \E p \in EndsV5 :
               /\ p.type = "DISCONNECT" /\ p.reason_code = 0 /\ p.properties = <<>>
               /\ Send("client", p, Frame(5, p, <<>>))
    <3>1. PICK p \in EndsV5 :
            /\ p.type = "DISCONNECT" /\ p.reason_code = 0 /\ p.properties = <<>>
            /\ Send("client", p, Frame(5, p, <<>>))
      BY <2>2
    <3>2. Goes(5, p, Frame(5, p, <<>>))
      BY <3>1, ShortGo
    <3>. QED
      BY <2>0, <3>1, <3>2, SendKeeps
  <2>. QED
    BY <1>4, <2>1, <2>2 DEF ClientSendsShort
<1>5. CASE BrokerSends
  <2>0. known # 0 /\ known = version
    BY <1>0, <1>5 DEF BrokerSends
  <2>1. CASE \E p \in ConnAcks(known) \union AcksOf(known, Acks \ {"PUBREL"}) \union SubAcks(known) :
               Send("broker", p, Encode(known, p))
    <3>1. PICK p \in ConnAcks(known) \union AcksOf(known, Acks \ {"PUBREL"}) \union SubAcks(known) :
            Send("broker", p, Encode(known, p))
      BY <2>1
    <3>2. p \in ConnAcks(version) \union AcksOf(version, Acks) \union SubAcks(version)
      <4>1. AcksOf(version, Acks \ {"PUBREL"}) \subseteq AcksOf(version, Acks)
        BY DEF AcksOf
      <4>. QED
        BY <2>0, <4>1
    <3>3. Goes(version, p, Encode(version, p))
      BY <1>0, <3>2, OthersGo
    <3>. QED
      BY <2>0, <3>1, <3>3, SendKeeps
  <2>2. CASE known = 4 /\ \E p \in AcksOf(4, {"UNSUBACK"}) : Send("broker", p, Encode(4, p))
    <3>1. PICK p \in AcksOf(4, {"UNSUBACK"}) : Send("broker", p, Encode(4, p))
      BY <2>2
    <3>2. Goes(4, p, Encode(4, p))
      BY <1>0, <2>0, <2>2, OthersGo
    <3>. QED
      BY <2>0, <2>2, <3>1, <3>2, SendKeeps
  <2>3. CASE Send("broker", [type |-> "PINGRESP"], Encode(known, [type |-> "PINGRESP"]))
    <3>1. "PINGRESP" \in Pings
      BY DEF Pings
    <3>2. Goes(version, [type |-> "PINGRESP"], Encode(version, [type |-> "PINGRESP"]))
      BY <1>0, <3>1, OthersGo
    <3>. QED
      BY <2>0, <2>3, <3>2, SendKeeps
  <2>. QED
    BY <1>5, <2>1, <2>2, <2>3 DEF BrokerSends
<1>6. CASE BrokerReads
  <2>1. /\ stage = "sent" /\ stage' = "read"
        /\ version' = version /\ subscriber' = subscriber /\ packet' = packet /\ by' = by
        /\ got' = IF known = 0 THEN DecodeFirst(wire) ELSE Decode(known, wire)
        /\ known' = IF known = 0 /\ got'.ok THEN FirstVersion(wire) ELSE known
    BY <1>6 DEF BrokerReads
  <2>2. known' = version /\ got'.ok /\ got'.value = packet /\ Carries(packet)
    <3>1. CASE known = 0
      <4>1. packet \in Connects(version) /\ wire = Encode(version, packet)
        BY <2>1, <3>1 DEF WayInv, SentInv
      <4>2. /\ DecodeFirst(wire).ok /\ DecodeFirst(wire).value = packet
            /\ FirstVersion(wire) = version /\ Carries(packet)
        BY <1>0, <4>1, ConnectGoes
      <4>. QED
        BY <2>1, <3>1, <4>2
    <3>2. CASE known # 0
      <4>1. Goes(version, packet, wire) /\ known = version
        BY <1>0, <2>1, <3>2 DEF WayInv, SentInv
      <4>. QED
        BY <2>1, <3>2, <4>1 DEF Goes
    <3>. QED
      BY <3>1, <3>2
  <2>3. VersionsInv'
    BY <2>1, <2>2 DEF WayInv, VersionsInv
  <2>4. ReadInv'
    <3>1. Carries(packet')
      BY <2>1, <2>2
    <3>. QED
      BY <2>1, <2>2, <3>1 DEF ReadInv
  <2>5. SentInv' /\ ForwardedInv'
    BY <2>1 DEF SentInv, ForwardedInv
  <2>. QED
    BY <2>3, <2>4, <2>5 DEF WayInv
<1>7. CASE ClientReads
  <2>1. /\ stage = "sent" /\ by = "broker" /\ stage' = "read"
        /\ version' = version /\ subscriber' = subscriber /\ packet' = packet /\ by' = by
        /\ known' = known /\ got' = Decode(version, wire)
    BY <1>7 DEF ClientReads
  <2>2. known = version /\ Goes(version, packet, wire)
    BY <1>0, <2>1 DEF WayInv, SentInv
  <2>3. VersionsInv'
    BY <2>1 DEF WayInv, VersionsInv
  <2>4. ReadInv'
    <3>1. got'.ok /\ got'.value = packet' /\ Carries(packet')
      BY <2>1, <2>2 DEF Goes
    <3>. QED
      BY <2>1, <2>2, <3>1 DEF ReadInv
  <2>5. SentInv' /\ ForwardedInv'
    BY <2>1 DEF SentInv, ForwardedInv
  <2>. QED
    BY <2>3, <2>4, <2>5 DEF WayInv
<1>8. CASE SubscriberReads
  <2>1. /\ stage' = "delivered" /\ version' = version /\ subscriber' = subscriber
        /\ known' = known /\ by' = by
    BY <1>8 DEF SubscriberReads
  <2>. QED
    BY <2>1 DEF WayInv, VersionsInv, SentInv, ReadInv, ForwardedInv
<1>9. CASE Done
  <2>1. /\ stage' = "idle" /\ version' = version /\ subscriber' = subscriber
        /\ known' = known /\ by' = "client"
    BY <1>9 DEF Done
  <2>. QED
    BY <2>1 DEF WayInv, VersionsInv, SentInv, ReadInv, ForwardedInv
<1>10. ASSUME NEW retain \in BOOLEAN, Forward(retain)
       PROVE  WayInv'
  <2>1. /\ stage = "read" /\ stage' = "forwarded" /\ version' = version /\ subscriber' = subscriber
        /\ known' = known /\ by' = by /\ packet' = packet
    BY <1>10 DEF Forward
  <2>2. PICK m \in MessagesOf(got.value) : wire' = Encode(4, Forwarded(m, retain))
    BY <1>10 DEF Forward
  <2>3. got.value = packet /\ Carries(packet)
    BY <2>1 DEF WayInv, ReadInv
  <2>4. m \in MessagesOf(packet') /\ m.topic \in Text /\ m.payload \in Binary
    BY <2>1, <2>2, <2>3 DEF Carries
  <2>5. ForwardedInv'
    BY <2>2, <2>4 DEF ForwardedInv
  <2>. QED
    BY <2>1, <2>5 DEF WayInv, VersionsInv, SentInv, ReadInv
<1>11. CASE UNCHANGED vars
  <2>1. /\ stage' = stage /\ version' = version /\ subscriber' = subscriber /\ wire' = wire
        /\ known' = known /\ by' = by /\ packet' = packet /\ got' = got
    BY <1>11 DEF vars
  <2>2. VersionsInv' /\ ReadInv'
    BY <2>1 DEF WayInv, VersionsInv, ReadInv
  <2>3. SentInv'
    BY <2>1 DEF WayInv, SentInv
  <2>4. ForwardedInv'
    BY <2>1 DEF WayInv, ForwardedInv
  <2>. QED
    BY <2>2, <2>3, <2>4 DEF WayInv
<1>. QED
  BY <1>1, <1>2, <1>3, <1>4, <1>5, <1>6, <1>7, <1>8, <1>9, <1>10, <1>11 DEF Next

\* The invariant holds in every state.
THEOREM WayAlways ==
  ASSUME Width
  PROVE  Spec => []WayInv
BY WayInit, WayNext, PTL DEF Spec

\* Whatever one side encodes, with any strings, payloads, numbers and properties that have
\* an encoding, the other side decodes to the same packet in the version of the client.
THEOREM PacketsSurviveAlways ==
  ASSUME Width
  PROVE  Spec => []PacketsSurvive
<1>1. WayInv => PacketsSurvive
  BY DEF WayInv, ReadInv, PacketsSurvive
<1>. QED
  BY <1>1, WayAlways, PTL

\* A subscriber of version 3.1.1 gets the topic and the payload of the message with QoS 0;
\* one of version 5.0 does not, which the run about its own version shows.
THEOREM DeliveredIntactAlways ==
  ASSUME Width, SubscriberVersion \subseteq {4}
  PROVE  Spec => []DeliveredIntact
<1>1. Init => DeliveredIntact
  BY DEF Init, DeliveredIntact
<1>2. WayInv /\ DeliveredIntact /\ [Next]_vars => DeliveredIntact'
  <2> SUFFICES ASSUME WayInv, DeliveredIntact, [Next]_vars, stage' = "delivered"
               PROVE  DeliveredIntact'
    BY DEF DeliveredIntact
  <2>1. CASE SubscriberReads
    <3>1. stage = "forwarded" /\ packet' = packet /\ got' = Decode(subscriber, wire)
      BY <2>1 DEF SubscriberReads
    <3>2. subscriber = 4
      BY DEF WayInv, VersionsInv
    <3>3. PICK m \in MessagesOf(packet), retain \in BOOLEAN :
            /\ m.topic \in Text /\ m.payload \in Binary
            /\ wire = Encode(4, Forwarded(m, retain))
      BY <3>1 DEF WayInv, ForwardedInv
    <3>4. got'.ok /\ got'.value = Forwarded(m, retain)
      BY <3>1, <3>2, <3>3, ForwardGoes
    <3>5. /\ got'.value.topic = m.topic /\ got'.value.payload = m.payload /\ got'.value.qos = 0
          /\ m \in MessagesOf(packet')
      BY <3>1, <3>4 DEF Forwarded
    <3>. QED
      BY <3>4, <3>5 DEF DeliveredIntact
  <2>2. CASE UNCHANGED vars
    <3>1. stage' = stage /\ got' = got /\ packet' = packet
      BY <2>2 DEF vars
    <3>. QED
      BY <3>1 DEF DeliveredIntact
  <2>3. CASE Next /\ ~SubscriberReads
    BY <2>3 DEF Next, ClientConnects, ClientPublishes, ClientSends, ClientSendsShort, BrokerSends,
                Send, BrokerReads, ClientReads, Done, Forward
  <2>. QED
    BY <2>1, <2>2, <2>3
<1>. QED
  BY <1>1, <1>2, WayAlways, PTL DEF Spec
=============================================================================
