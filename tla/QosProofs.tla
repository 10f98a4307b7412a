------------------------------ MODULE QosProofs ------------------------------
(***************************************************************************)
(* Theorems about Qos, for any number of messages, connections and packet  *)
(* identifiers.                                                            *)
(***************************************************************************)
EXTENDS Qos, Induction, SequenceTheorems

-----------------------------------------------------------------------------
(* What is sent again *)

\* A finite set of numbers can be put in order.
LEMMA OrderExists ==
  ASSUME NEW n \in Nat, NEW S \in SUBSET (1 .. n)
  PROVE  /\ Cardinality(S) \in Nat
         /\ \E s \in [1 .. Cardinality(S) -> S] : \A i, j \in DOMAIN s : i < j => s[i] < s[j]
<1> DEFINE Ordered(s) == \A i, j \in DOMAIN s : i < j => s[i] < s[j]
           Has(T) == IsFiniteSet(T) /\ \E s \in [1 .. Cardinality(T) -> T] : Ordered(s)
           G == {k \in Nat : \A T \in SUBSET (1 .. k) : Has(T)}
<1>1. 0 \in G
  <2>1. ASSUME NEW T \in SUBSET (1 .. 0) PROVE Has(T)
    <3>0. T = {}
      OBVIOUS
    <3>1. IsFiniteSet(T) /\ Cardinality(T) = 0
      BY <3>0, FS_EmptySet
    <3>2. <<>> \in [1 .. 0 -> T] /\ Ordered(<<>>)
      OBVIOUS
    <3>. QED
      BY <3>1, <3>2
  <2>. QED
    BY <2>1
<1>2. ASSUME NEW k \in Nat, k \in G PROVE k + 1 \in G
  <2>1. ASSUME NEW T \in SUBSET (1 .. k + 1) PROVE Has(T)
    <3>1. CASE k + 1 \notin T
      <4>1. T \in SUBSET (1 .. k)
        BY <3>1
      <4>. QED
        BY <1>2, <4>1
    <3>2. CASE k + 1 \in T
      <4> DEFINE U == T \ {k + 1}
                 c == Cardinality(U)
      <4>1. U \in SUBSET (1 .. k)
        OBVIOUS
      <4>2. Has(U)
        <5> HIDE DEF U, Has
        <5>. QED
          BY <1>2, <4>1
      <4>3. c \in Nat /\ IsFiniteSet(T) /\ Cardinality(T) = c + 1
        <5>1. T = U \union {k + 1} /\ k + 1 \notin U
          BY <3>2
        <5>2. IsFiniteSet(U)
          BY <4>2
        <5> HIDE DEF U
        <5>. QED
          BY <5>1, <5>2, FS_AddElement, FS_CardinalityType
      <4>4. PICK s \in [1 .. c -> U] : Ordered(s)
        BY <4>2
      <4> DEFINE t == [i \in 1 .. c + 1 |-> IF i <= c THEN s[i] ELSE k + 1]
      <4>5. \A i \in 1 .. c : s[i] \in U /\ s[i] \in 1 .. k
        BY <4>1, <4>4
      <4> HIDE DEF c
      <4>6. \A i \in 1 .. c + 1 : t[i] \in T
        <5>1. U \subseteq T
          OBVIOUS
        <5> HIDE DEF U
        <5>2. ASSUME NEW i \in 1 .. c + 1 PROVE t[i] \in T
          <6>1. CASE i <= c
            <7>1. i \in 1 .. c
              BY <4>3, <6>1
            <7>. QED
              BY <4>5, <5>1, <6>1, <7>1
          <6>2. CASE ~(i <= c)
            BY <3>2, <6>2
          <6>. QED
            BY <6>1, <6>2
        <5>. QED
          BY <5>2
      <4>7. Ordered(t)
        <5> SUFFICES ASSUME NEW i \in 1 .. c + 1, NEW j \in 1 .. c + 1, i < j PROVE t[i] < t[j]
          OBVIOUS
        <5>0. i \in 1 .. c
          BY <4>3
        <5>1. i \in 1 .. c /\ t[i] = s[i] /\ s[i] \in 1 .. k
          BY <4>5, <5>0
        <5>2. CASE j <= c
          <6>1. j \in 1 .. c /\ t[j] = s[j]
            BY <4>3, <5>2
          <6>. QED
            BY <4>4, <5>1, <6>1
        <5>3. CASE ~(j <= c)
          BY <4>3, <5>1, <5>3
        <5>. QED
          BY <5>2, <5>3
      <4>8. t \in [1 .. Cardinality(T) -> T]
        BY <4>3, <4>6
      <4> HIDE DEF t
      <4>. QED
        BY <4>3, <4>7, <4>8
    <3>. QED
      BY <3>1, <3>2
  <2>. QED
    BY <2>1
<1>3. n \in G
  <2> HIDE DEF G
  <2>. QED
    BY <1>1, <1>2, NaturalInduction
<1>. QED
  BY <1>3, FS_CardinalityType

\* InOrder names each member of a set of messages once, in order.
LEMMA InOrderCorrect ==
  ASSUME NEW S \in SUBSET Msg
  PROVE  /\ Cardinality(S) \in Nat
         /\ InOrder(S) \in [1 .. Cardinality(S) -> S]
         /\ \A i, j \in 1 .. Cardinality(S) : i < j => InOrder(S)[i] < InOrder(S)[j]
         /\ \A m \in S : \E i \in 1 .. Cardinality(S) : InOrder(S)[i] = m
<1> DEFINE k == Cardinality(S)
           s == InOrder(S)
<1>1. k \in Nat /\ \E f \in [1 .. k -> S] : \A i, j \in DOMAIN f : i < j => f[i] < f[j]
  BY OrderExists, BoundAssumption DEF Msg
<1>2. s \in [1 .. k -> S] /\ \A i, j \in DOMAIN s : i < j => s[i] < s[j]
  BY <1>1 DEF InOrder
<1>3. IsFiniteSet(S) /\ IsFiniteSet(1 .. k) /\ Cardinality(1 .. k) = k
  <2>1. IsFiniteSet(1 .. MaxMsg)
    BY BoundAssumption, FS_Interval
  <2>2. IsFiniteSet(S)
    BY <2>1, FS_Subset DEF Msg
  <2>. QED
    BY <1>1, <2>2, FS_Interval
<1>4. s \in Injection(1 .. k, S)
  <2>1. \A i, j \in 1 .. k : s[i] = s[j] => i = j
    <3>1. S \subseteq Int
      BY BoundAssumption DEF Msg
    <3>. HIDE DEF s, k
    <3>2. ASSUME NEW i \in 1 .. k, NEW j \in 1 .. k, s[i] = s[j] PROVE i = j
      <4>1. s[i] \in Int /\ s[j] \in Int /\ DOMAIN s = 1 .. k
        BY <1>2, <3>1
      <4>2. i < j => s[i] < s[j]
        BY <1>2, <4>1
      <4>3. j < i => s[j] < s[i]
        BY <1>2, <4>1
      <4>. QED
        BY <1>1, <3>2, <4>1, <4>2, <4>3
    <3>. QED
      BY <3>2
  <2>. QED
    <3> HIDE DEF s, k
    <3>1. IsInjective(s)
      BY <1>2, <2>1 DEF IsInjective
    <3>. QED
      BY <1>2, <3>1 DEF Injection
<1>5. s \in Surjection(1 .. k, S)
  BY <1>3, <1>4, FS_Injection
<1>. QED
  BY <1>1, <1>2, <1>5 DEF Surjection

\* What is sent again is PUBLISH or PUBREL, one packet for each message that
\* has not been answered, in their order.
LEMMA ResendCorrect ==
  ASSUME TypeOK
  PROVE  /\ Resend \in Seq(Packet)
         /\ \A i \in 1 .. Len(Resend) :
              LET m == InOrder(Unanswered)[i]
              IN  /\ m \in Unanswered
                  /\ Resend[i] = IF phase[m] = "sent" THEN Publish(m, id[m]) ELSE PubRel(id[m])
         /\ \A i, j \in 1 .. Len(Resend) :
              i < j => InOrder(Unanswered)[i] < InOrder(Unanswered)[j]
         /\ \A m \in Unanswered : \E i \in 1 .. Len(Resend) : InOrder(Unanswered)[i] = m
<1> DEFINE k == Cardinality(Unanswered)
           s == InOrder(Unanswered)
<1>1. Unanswered \subseteq Msg
  BY DEF Unanswered
<1>2. k \in Nat /\ s \in [1 .. k -> Unanswered]
  BY <1>1, InOrderCorrect
<1>3. /\ \A i, j \in 1 .. k : i < j => s[i] < s[j]
      /\ \A m \in Unanswered : \E i \in 1 .. k : s[i] = m
  BY <1>1, InOrderCorrect
<1>4. \A i \in 1 .. k : s[i] \in Unanswered
  BY <1>2
<1>5. \A m \in Unanswered : Publish(m, id[m]) \in Packet /\ PubRel(id[m]) \in Packet
  BY <1>1 DEF TypeOK, Publish, PubRel, Packet
<1>6. Resend \in [1 .. k -> Packet]
  BY <1>4, <1>5 DEF Resend
<1>7. Resend \in Seq(Packet) /\ Len(Resend) = k
  BY <1>2, <1>6
<1>8. \A i \in 1 .. k :
        Resend[i] = IF phase[s[i]] = "sent" THEN Publish(s[i], id[s[i]]) ELSE PubRel(id[s[i]])
  BY <1>2 DEF Resend
<1> HIDE DEF s, k
<1>9. /\ \A i \in 1 .. Len(Resend) :
           /\ s[i] \in Unanswered
           /\ Resend[i] = IF phase[s[i]] = "sent" THEN Publish(s[i], id[s[i]])
                          ELSE PubRel(id[s[i]])
      /\ \A i, j \in 1 .. Len(Resend) : i < j => s[i] < s[j]
      /\ \A m \in Unanswered : \E i \in 1 .. Len(Resend) : s[i] = m
  BY <1>3, <1>4, <1>7, <1>8
<1>. QED
  BY <1>7, <1>9 DEF s

-----------------------------------------------------------------------------
(* Types *)

\* A connection that has not been made holds nothing and has no task.
Unmade ==
    /\ \A c \in Conn : conn < c => up[c] = <<>> /\ task[c] = "none"
    /\ linked => conn > 0

TypeInv == TypeOK /\ Unmade

\* The identifiers in use are identifiers, and never 0.
LEMMA Identifiers ==
  ASSUME TypeOK
  PROVE  /\ NextPacketId \in PacketId \ {0}
         /\ LeastFreeId \subseteq PacketId \ {0}
         /\ (NextPacketId + 1) % IdLimit \in PacketId
<1>1. NextPacketId \in PacketId \ {0}
  BY IdAssumption DEF TypeOK, NextPacketId, PacketId
<1>2. LeastFreeId \subseteq PacketId \ {0}
  BY IdAssumption DEF LeastFreeId, FreeIds, PacketId
<1>3. \A x \in Nat : x % IdLimit \in 0 .. IdLimit - 1
  BY IdAssumption
<1>4. NextPacketId + 1 \in Nat
  BY <1>1, IdAssumption DEF PacketId
<1>. QED
  BY <1>1, <1>2, <1>3, <1>4 DEF PacketId

\* The types hold before the client connects.
LEMMA InitTypes == Init => TypeInv
<1> SUFFICES ASSUME Init PROVE TypeInv
  OBVIOUS
<1>1. 0 \in PacketId /\ 1 \in PacketId
  BY IdAssumption DEF PacketId
<1>2. 0 \in 0 .. MaxConn
  BY BoundAssumption
<1>3. version \in {"v3", "v5"}
  BY DEF Init
<1>4. TypeOK
  <2>1. /\ phase \in [Msg -> {"fresh", "sent", "received", "done", "refused"}]
        /\ id \in [Msg -> PacketId] /\ sends \in [Msg -> Nat]
    BY <1>1 DEF Init
  <2>2. up \in [Conn -> Seq(Packet)] /\ down \in Seq(Answer)
    BY DEF Init
  <2>3. /\ task \in [Conn -> {"none", "read", "write", "ended"}]
        /\ reply \in [Conn -> Answer \union {NoAnswer}]
        /\ \A c \in Conn : task[c] = "write" <=> reply[c] # NoAnswer
    BY DEF Init
  <2>4. channel \in Seq(Msg) /\ routed \in Seq(Msg)
    BY DEF Init
  <2>5. \A m \in Msg : phase[m] = "sent" /\ qos[m] > 0 => id[m] # 0
    BY DEF Init
  <2>. QED
    BY <1>1, <1>2, <1>3, <2>1, <2>2, <2>3, <2>4, <2>5 DEF Init, TypeOK
<1>5. Unmade
  BY DEF Init, Unmade
<1>. QED
  BY <1>4, <1>5 DEF TypeInv

\* A new connection starts with what the client sends again.
LEMMA ConnectTypes == TypeInv /\ Connect => TypeInv'
<1> SUFFICES ASSUME TypeInv, Connect PROVE TypeInv'
  OBVIOUS
<1> USE DEF TypeInv
<1>1. conn + 1 \in Conn /\ conn + 1 \in 0 .. MaxConn /\ conn \in Nat
  BY BoundAssumption DEF TypeOK, Connect, Conn
<1>2. up' \in [Conn -> Seq(Packet)]
  BY ResendCorrect DEF TypeOK, Connect
<1>3. reply[conn + 1] = NoAnswer
  BY <1>1 DEF TypeOK, Unmade
<1>4. sends' \in [Msg -> Nat]
  BY DEF TypeOK, Connect
<1>5. TypeOK'
  BY <1>1, <1>2, <1>3, <1>4 DEF TypeOK, Connect
<1>6. Unmade'
  BY <1>1 DEF TypeOK, Unmade, Connect, Conn
<1>. QED
  BY <1>5, <1>6

\* A message that is submitted gets a packet id of the range.
LEMMA SubmitTypes == TypeInv /\ (\E m \in Msg : Submit(m)) => TypeInv'
<1> SUFFICES ASSUME TypeInv, NEW m \in Msg, Submit(m) PROVE TypeInv'
  OBVIOUS
<1> USE DEF TypeInv
<1>1. PICK i \in IF qos[m] = 0 THEN {0}
                 ELSE IF client = "retry" THEN LeastFreeId ELSE {NextPacketId} :
         /\ id' = [id EXCEPT ![m] = i]
         /\ up' = [up EXCEPT ![conn] = Append(@, Publish(m, i))]
  BY DEF Submit
<1>2. i \in PacketId /\ (qos[m] > 0 => i # 0)
  BY <1>1, Identifiers, IdAssumption DEF TypeOK, PacketId
<1>3. conn \in Conn
  BY DEF TypeOK, Unmade, Submit, Conn
<1>4. Publish(m, i) \in Packet
  BY <1>2 DEF Publish, Packet
<1>5. up' \in [Conn -> Seq(Packet)]
  BY <1>1, <1>3, <1>4 DEF TypeOK
<1>6. pid' \in PacketId
  BY Identifiers DEF TypeOK, Submit
<1>7. id' \in [Msg -> PacketId]
  BY <1>1, <1>2 DEF TypeOK
<1>8. phase' \in [Msg -> {"fresh", "sent", "received", "done", "refused"}]
      /\ sends' \in [Msg -> Nat]
  BY DEF TypeOK, Submit
<1>9. \A n \in Msg : phase'[n] = "sent" /\ qos'[n] > 0 => id'[n] # 0
  BY <1>1, <1>2 DEF TypeOK, Submit
<1>10. TypeOK'
  BY <1>5, <1>6, <1>7, <1>8, <1>9 DEF TypeOK, Submit, broker
<1>11. Unmade'
  BY <1>1, <1>3 DEF TypeOK, Unmade, Submit, broker, Conn
<1>. QED
  BY <1>10, <1>11

\* An answer that is received moves its message on, or is ignored.
LEMMA ReceiveTypes == TypeInv /\ Receive => TypeInv'
<1> SUFFICES ASSUME TypeInv, Receive PROVE TypeInv'
  OBVIOUS
<1> USE DEF TypeInv
<1>1. conn \in Conn
  BY DEF TypeOK, Unmade, Receive, Conn
<1>2. Head(down) \in Answer /\ Tail(down) \in Seq(Answer)
  BY HeadTailProperties DEF TypeOK, Receive
<1>3. PubRel(Head(down).id) \in Packet
  BY <1>2 DEF PubRel, Packet, Answer
<1>4. up' \in [Conn -> Seq(Packet)]
  BY <1>1, <1>3 DEF TypeOK, Receive
<1>5. \A m \in Msg : phase'[m] = phase[m] \/ phase'[m] \in {"refused", "received", "done"}
  BY DEF TypeOK, Receive
<1>6. phase' \in [Msg -> {"fresh", "sent", "received", "done", "refused"}]
  BY DEF TypeOK, Receive
<1>7. TypeOK'
  BY <1>2, <1>4, <1>5, <1>6 DEF TypeOK, Receive, broker
<1>8. Unmade'
  BY <1>1 DEF TypeOK, Unmade, Receive, broker, Conn
<1>. QED
  BY <1>7, <1>8

\* A connection that ends, in order or not, loses what was under way.
LEMMA LeaveTypes == TypeInv /\ (Leave \/ Lose) => TypeInv'
<1> SUFFICES ASSUME TypeInv, Leave \/ Lose PROVE TypeInv'
  OBVIOUS
<1> USE DEF TypeInv
<1>1. conn \in Conn
  BY DEF TypeOK, Unmade, Leave, Lose, Conn
<1>2. down' \in Seq(Answer)
  <2>1. down' = down \/ down' = <<>>
    BY DEF Leave, Lose
  <2>. QED
    BY <2>1, EmptySeq DEF TypeOK
<1>3. up' \in [Conn -> Seq(Packet)]
  <2>1. CASE Leave
    <3>1. Goodbye \in Packet
      BY IdAssumption DEF Goodbye, Packet, PacketId
    <3>. QED
      BY <1>1, <2>1, <3>1 DEF TypeOK, Leave
  <2>2. CASE Lose
    <3>1. PICK n \in 0 .. Len(up[conn]) : up' = [up EXCEPT ![conn] = SubSeq(@, 1, n)]
      BY <2>2 DEF Lose
    <3>2. up[conn] \in Seq(Packet)
      BY <1>1 DEF TypeOK
    <3>3. n \in Int /\ \A i \in 1 .. n : up[conn][i] \in Packet
      BY <3>1, <3>2, ElementOfSeq
    <3>4. SubSeq(up[conn], 1, n) \in Seq(Packet)
      BY <3>3, SubSeqProperties
    <3>. QED
      BY <1>1, <3>1, <3>4 DEF TypeOK
  <2>. QED
    BY <2>1, <2>2
<1>4. TypeOK'
  BY <1>2, <1>3 DEF TypeOK, Leave, Lose, broker
<1>5. Unmade'
  <2>1. conn' = conn /\ linked' = FALSE /\ task' = task /\ conn \in Int
    BY DEF Leave, Lose, broker, TypeOK
  <2>2. \A c \in Conn : c # conn => up'[c] = up[c]
    BY DEF Leave, Lose, TypeOK
  <2>. QED
    BY <2>1, <2>2 DEF Unmade, Conn
<1>. QED
  BY <1>4, <1>5

\* What process_packet answers is an answer, or none.
LEMMA ReplyType ==
  ASSUME TypeOK, NEW p \in Packet
  PROVE  ReplyTo(p) \in Answer \union {NoAnswer}
<1>1. \A type \in {"PUBACK", "PUBREC", "REFUSED", "PUBCOMP"} : Answered(type, p.id) \in Answer
  BY DEF Answered, Answer, Packet
<1>. QED
  BY <1>1 DEF ReplyTo

\* A packet that the broker handles leaves a reply of the right type, or none.
LEMMA ProcessTypes == ASSUME NEW c \in Conn PROVE TypeInv /\ Process(c) => TypeInv'
<1> SUFFICES ASSUME TypeInv, Process(c) PROVE TypeInv'
  OBVIOUS
<1> USE DEF TypeInv
<1> DEFINE p == Head(up[c])
<1>1. p \in Packet /\ Tail(up[c]) \in Seq(Packet)
  BY HeadTailProperties DEF TypeOK, Process
<1>2. ReplyTo(p) \in Answer \union {NoAnswer}
  BY <1>1, ReplyType
<1>3. up' \in [Conn -> Seq(Packet)]
  BY <1>1 DEF TypeOK, Process
<1>4. channel' \in Seq(Msg)
  <2>1. p.type = "PUBLISH" /\ p.msg \in allowed => Append(channel, p.msg) \in Seq(Msg)
    BY <1>1, AppendProperties DEF TypeOK, Packet
  <2>. QED
    BY <2>1 DEF TypeOK, Process
<1> HIDE DEF p
<1>5. reply' = [reply EXCEPT ![c] = ReplyTo(p)]
      /\ task' = [task EXCEPT ![c] = IF ReplyTo(p) = NoAnswer THEN "read" ELSE "write"]
  BY DEF Process, p
<1>6. /\ task' \in [Conn -> {"none", "read", "write", "ended"}]
      /\ reply' \in [Conn -> Answer \union {NoAnswer}]
      /\ \A d \in Conn : task'[d] = "write" <=> reply'[d] # NoAnswer
  BY <1>2, <1>5 DEF TypeOK
<1>7. TypeOK'
  BY <1>3, <1>4, <1>6 DEF TypeOK, Process, peer
<1>8. Unmade'
  <2>1. ~(conn < c)
    BY DEF Process, Unmade
  <2>2. \A d \in Conn : d # c => up'[d] = up[d] /\ task'[d] = task[d]
    BY <1>5 DEF Process, TypeOK
  <2>3. conn' = conn /\ linked' = linked
    BY DEF Process, peer
  <2>. QED
    BY <2>1, <2>2, <2>3 DEF Unmade
<1>. QED
  BY <1>7, <1>8

\* A reply that is written, or dropped with the connection, is an answer.
LEMMA WriteTypes == ASSUME NEW c \in Conn PROVE TypeInv /\ Write(c) => TypeInv'
<1> SUFFICES ASSUME TypeInv, Write(c) PROVE TypeInv'
  OBVIOUS
<1> USE DEF TypeInv
<1>1. reply[c] \in Answer
  BY DEF TypeOK, Write
<1>2. down' \in Seq(Answer)
  <2>1. Append(down, reply[c]) \in Seq(Answer) /\ down \in Seq(Answer)
    BY <1>1, AppendProperties DEF TypeOK
  <2>2. down' = Append(down, reply[c]) \/ down' = down
    BY DEF Write
  <2>. QED
    BY <2>1, <2>2
<1>3. task'[c] \in {"read", "ended"} /\ \A d \in Conn : d # c => task'[d] = task[d]
  BY DEF TypeOK, Write
<1>4. task' \in [Conn -> {"none", "read", "write", "ended"}]
  BY DEF TypeOK, Write
<1>5. /\ reply' \in [Conn -> Answer \union {NoAnswer}]
      /\ \A d \in Conn : task'[d] = "write" <=> reply'[d] # NoAnswer
  BY <1>3 DEF TypeOK, Write
<1>6. TypeOK'
  BY <1>2, <1>4, <1>5 DEF TypeOK, Write, peer
<1>7. Unmade'
  <2>1. conn' = conn /\ linked' = linked /\ up' = up
    BY DEF Write, peer
  <2>2. ~(conn < c)
    BY DEF Write, Unmade
  <2>. QED
    BY <1>3, <2>1, <2>2 DEF Unmade
<1>. QED
  BY <1>6, <1>7

\* Every step keeps the types.
LEMMA StepTypes == TypeInv /\ [Next]_vars => TypeInv'
<1> SUFFICES ASSUME TypeInv, [Next]_vars PROVE TypeInv'
  OBVIOUS
<1>1. ASSUME NEW c \in Conn, EndOfStream(c) PROVE TypeInv'
  <2>1. TypeOK'
    BY <1>1 DEF TypeInv, TypeOK, EndOfStream, peer
  <2>2. Unmade'
    BY <1>1 DEF TypeInv, TypeOK, Unmade, EndOfStream, peer
  <2>. QED
    BY <2>1, <2>2 DEF TypeInv
<1>2. CASE Route
  <2>1. channel' \in Seq(Msg) /\ routed' \in Seq(Msg)
    BY <1>2, HeadTailProperties, AppendProperties DEF TypeInv, TypeOK, Route
  <2>2. TypeOK'
    BY <1>2, <2>1 DEF TypeInv, TypeOK, Route, peer
  <2>3. Unmade'
    BY <1>2 DEF TypeInv, Unmade, Route, peer
  <2>. QED
    BY <2>2, <2>3 DEF TypeInv
<1>3. CASE UNCHANGED vars
  <2>1. TypeOK'
    BY <1>3 DEF TypeInv, TypeOK, vars, peer, broker
  <2>2. Unmade'
    BY <1>3 DEF TypeInv, Unmade, vars, peer, broker
  <2>. QED
    BY <2>1, <2>2 DEF TypeInv
<1>. QED
  BY <1>1, <1>2, <1>3, ConnectTypes, SubmitTypes, ReceiveTypes, LeaveTypes, ProcessTypes,
     WriteTypes DEF Next

\* Every state of the publisher, of the connections' tasks and of the router is
\* of its kind: in particular a message of QoS 1 or 2 is never sent with the
\* packet identifier 0, though next_packet_id wraps.
THEOREM TypeCorrect == Spec => []TypeOK
<1>1. TypeInv => TypeOK
  BY DEF TypeInv
<1>. QED
  BY <1>1, InitTypes, StepTypes, PTL DEF Spec

-----------------------------------------------------------------------------
(* What the publisher knows of its messages *)

Waiting(m) == phase[m] \in {"sent", "received"}

\* Messages are sent one after the other, and only those of QoS 1 and 2, which
\* have an identifier, wait for an answer.  The command-line client makes one
\* connection, and pub sends one message.
PhaseInv ==
    /\ conn = 0 => \A m \in Msg : phase[m] = "fresh"
    /\ client # "retry" => conn <= 1
    /\ client = "pub" => \A m \in Msg : phase[m] # "fresh" => m = 1
    /\ \A m, n \in Msg : n < m /\ phase[m] # "fresh" => phase[n] # "fresh"
    /\ \A m \in Msg : phase[m] \in {"sent", "received", "refused"} => qos[m] > 0
    /\ \A m \in Msg : Waiting(m) => id[m] # 0
    /\ \A m \in Msg : phase[m] = "fresh" => sends[m] = 0

\* An answer changes what is known of waiting messages only.
LEMMA ReceiveEffect ==
  ASSUME TypeInv, Receive
  PROVE  \A m \in Msg :
           \/ phase'[m] = phase[m]
           \/ /\ m \in AnsweredBy(Head(down)) /\ client # "shell"
              /\ phase'[m] = CASE Head(down).type = "REFUSED" -> "refused"
                               [] Head(down).type = "PUBREC" -> "received"
                               [] OTHER -> "done"
BY DEF TypeInv, TypeOK, Receive

\* Every step keeps what the phase of a message says of it.
LEMMA StepPhase == TypeInv /\ PhaseInv /\ [Next]_vars => PhaseInv'
<1> SUFFICES ASSUME TypeInv, PhaseInv, [Next]_vars PROVE PhaseInv'
  OBVIOUS
<1>1. CASE UNCHANGED peer
  BY <1>1 DEF PhaseInv, Waiting, peer
<1>2. CASE Connect
  <2>1. UNCHANGED <<client, qos, phase, id>> /\ conn' = conn + 1 /\ conn \in Nat
    BY <1>2 DEF Connect, TypeInv, TypeOK
  <2>2. client # "retry" => conn' <= 1
    BY <1>2, <2>1 DEF Connect
  <2>3. \A m \in Msg : phase[m] = "fresh" => sends'[m] = 0
    BY <1>2 DEF Connect, PhaseInv, TypeInv, TypeOK
  <2>. QED
    BY <2>1, <2>2, <2>3 DEF PhaseInv, Waiting
<1>3. ASSUME NEW m \in Msg, Submit(m) PROVE PhaseInv'
  <2>1. /\ UNCHANGED <<client, qos, conn>> /\ conn # 0
        /\ phase' = [phase EXCEPT ![m] = IF qos[m] = 0 THEN "done" ELSE "sent"]
        /\ sends' = [sends EXCEPT ![m] = 1]
        /\ phase[m] = "fresh" /\ \A n \in 1 .. m - 1 : phase[n] # "fresh"
        /\ client = "pub" => m = 1
    BY <1>3 DEF Submit, TypeInv, Unmade, TypeOK
  <2>2. \A n \in Msg : n # m => id'[n] = id[n]
    BY <1>3 DEF Submit, TypeInv, TypeOK
  <2>3. qos[m] > 0 => id'[m] # 0
    <3>1. TypeOK'
      BY <1>3, SubmitTypes DEF TypeInv
    <3>. QED
      BY <2>1, <3>1 DEF TypeOK, TypeInv
  <2>4. phase \in [Msg -> {"fresh", "sent", "received", "done", "refused"}]
        /\ sends \in [Msg -> Nat] /\ qos \in [Msg -> 0 .. 2]
    BY DEF TypeInv, TypeOK
  <2>5. \A n, k \in Msg : n < k /\ phase'[k] # "fresh" => phase'[n] # "fresh"
    <3>1. ASSUME NEW n \in Msg, n < m PROVE phase[n] # "fresh"
      <4>1. n \in 1 .. m - 1
        BY <3>1, BoundAssumption DEF Msg
      <4>. QED
        BY <2>1, <4>1
    <3>. QED
      BY <2>1, <2>4, <3>1 DEF PhaseInv
  <2>6. \A n \in Msg : phase'[n] \in {"sent", "received", "refused"} => qos[n] > 0
    BY <2>1, <2>4 DEF PhaseInv
  <2>7. \A n \in Msg : Waiting(n)' => id'[n] # 0
    BY <2>1, <2>2, <2>3, <2>4 DEF PhaseInv, Waiting
  <2>8. \A n \in Msg : phase'[n] = "fresh" => sends'[n] = 0
    BY <2>1, <2>4 DEF PhaseInv
  <2>. QED
    BY <2>1, <2>4, <2>5, <2>6, <2>7, <2>8 DEF PhaseInv
<1>4. CASE Receive
  <2>1. UNCHANGED <<client, qos, conn, id, sends>>
    BY <1>4 DEF Receive
  <2>2. \A m \in Msg : \/ phase'[m] = phase[m]
                       \/ Waiting(m) /\ phase'[m] \in {"refused", "received", "done"}
    <3>1. ASSUME NEW m \in Msg, phase'[m] # phase[m]
          PROVE  Waiting(m) /\ phase'[m] \in {"refused", "received", "done"}
      <4>1. m \in AnsweredBy(Head(down))
        BY <1>4, <3>1, ReceiveEffect
      <4>2. phase'[m] = CASE Head(down).type = "REFUSED" -> "refused"
                          [] Head(down).type = "PUBREC" -> "received"
                          [] OTHER -> "done"
        BY <1>4, <3>1, ReceiveEffect
      <4>. QED
        BY <4>1, <4>2 DEF AnsweredBy, Waiting
    <3>. QED
      BY <3>1 DEF Waiting
  <2>. QED
    BY <2>1, <2>2 DEF PhaseInv, Waiting
<1>5. CASE Leave \/ Lose
  BY <1>5 DEF Leave, Lose, PhaseInv, Waiting
<1>6. CASE \E c \in Conn : Process(c) \/ Write(c) \/ EndOfStream(c)
  <2>1. UNCHANGED peer
    BY <1>6 DEF Process, Write, EndOfStream
  <2>. QED
    BY <1>1, <2>1
<1>7. CASE Route
  BY <1>1, <1>7 DEF Route
<1>8. CASE UNCHANGED vars
  BY <1>1, <1>8 DEF vars
<1>. QED
  BY <1>2, <1>3, <1>4, <1>5, <1>6, <1>7, <1>8 DEF Next

-----------------------------------------------------------------------------
(* What has been passed to the router *)

IsAccepted(m) == \E i \in DOMAIN Accepted : Accepted[i] = m

\* A packet that a task passes to the router when it decodes it.
Passes(p) == p.type = "PUBLISH" /\ p.msg \in allowed

\* The router leaves Accepted as it is; only a task that decodes a PUBLISH that
\* is allowed adds to it.
LEMMA AcceptedStep ==
  ASSUME TypeInv, [Next]_vars
  PROVE  /\ Accepted \in Seq(Msg) /\ Accepted' \in Seq(Msg)
         /\ \/ Accepted' = Accepted
            \/ \E c \in Conn :
                 /\ Process(c) /\ Passes(Head(up[c])) /\ Head(up[c]).msg \in Msg
                 /\ Accepted' = Append(Accepted, Head(up[c]).msg)
<1>0. routed \in Seq(Msg) /\ channel \in Seq(Msg)
  BY DEF TypeInv, TypeOK
<1>1. Accepted \in Seq(Msg)
  BY <1>0, ConcatProperties DEF Accepted
<1>2. routed' \in Seq(Msg) /\ channel' \in Seq(Msg)
  BY StepTypes DEF TypeInv, TypeOK
<1>3. Accepted' \in Seq(Msg)
  BY <1>2, ConcatProperties DEF Accepted
<1>4. CASE Route
  <2> DEFINE a == routed \o channel
             b == routed' \o channel'
  <2>1. /\ channel # <<>> /\ routed' = Append(routed, Head(channel))
        /\ channel' = Tail(channel)
    BY <1>4 DEF Route
  <2>2. /\ Head(channel) \in Msg /\ Len(Tail(channel)) = Len(channel) - 1
        /\ \A i \in 1 .. Len(channel) - 1 : Tail(channel)[i] = channel[i + 1]
    BY <1>0, <2>1, HeadTailProperties
  <2>3. /\ Len(routed') = Len(routed) + 1 /\ routed'[Len(routed) + 1] = Head(channel)
        /\ \A i \in 1 .. Len(routed) : routed'[i] = routed[i]
    BY <1>0, <2>1, <2>2, AppendProperties
  <2>4. Head(channel) = channel[1] /\ Len(routed) \in Nat /\ Len(channel) \in Nat
        /\ Len(channel) # 0
    BY <1>0, <2>1
  <2>5. /\ Len(a) = Len(routed) + Len(channel)
        /\ \A i \in 1 .. Len(routed) + Len(channel) :
             a[i] = IF i <= Len(routed) THEN routed[i] ELSE channel[i - Len(routed)]
    BY <1>0, ConcatProperties
  <2>6. /\ Len(b) = Len(routed') + Len(channel')
        /\ \A i \in 1 .. Len(routed') + Len(channel') :
             b[i] = IF i <= Len(routed') THEN routed'[i] ELSE channel'[i - Len(routed')]
    BY <1>2, ConcatProperties
  <2>7. Len(a) = Len(b)
    BY <2>1, <2>2, <2>3, <2>4, <2>5, <2>6
  <2>8. ASSUME NEW i \in 1 .. Len(a) PROVE a[i] = b[i]
    <3> HIDE DEF a, b
    <3>1. i \in 1 .. Len(routed) + Len(channel) /\ i \in 1 .. Len(routed') + Len(channel')
      BY <2>5, <2>6, <2>7
    <3>2. CASE i <= Len(routed)
      BY <2>3, <2>4, <2>5, <2>6, <3>1, <3>2
    <3>3. CASE i = Len(routed) + 1
      BY <2>3, <2>4, <2>5, <2>6, <3>1, <3>3
    <3>4. CASE i > Len(routed) + 1
      <4>1. a[i] = channel[i - Len(routed)]
        BY <2>4, <2>5, <3>1, <3>4
      <4>2. b[i] = Tail(channel)[i - (Len(routed) + 1)]
        <5>1. ~(i <= Len(routed')) /\ i - Len(routed') = i - (Len(routed) + 1)
          BY <2>3, <2>4, <3>1, <3>4
        <5>2. b[i] = channel'[i - Len(routed')]
          BY <2>6, <3>1, <5>1
        <5>. QED
          BY <2>1, <5>1, <5>2
      <4>3. i - (Len(routed) + 1) \in 1 .. Len(channel) - 1
        BY <2>4, <3>1, <3>4
      <4>4. (i - (Len(routed) + 1)) + 1 = i - Len(routed)
        BY <2>4, <3>1
      <4>. QED
        BY <2>2, <4>1, <4>2, <4>3, <4>4
    <3>. QED
      BY <2>4, <3>1, <3>2, <3>3, <3>4
  <2>9. a \in Seq(Msg) /\ b \in Seq(Msg)
    BY <1>1, <1>3 DEF Accepted
  <2>10. a = b
    <3> HIDE DEF a, b
    <3>. QED
      BY <2>7, <2>8, <2>9, SeqEqual
  <2>. QED
    BY <1>1, <1>3, <2>10 DEF Accepted
<1>5. ASSUME NEW c \in Conn, Process(c), Passes(Head(up[c]))
      PROVE  /\ Head(up[c]).msg \in Msg
             /\ Accepted' = Append(Accepted, Head(up[c]).msg)
  <2> DEFINE m == Head(up[c]).msg
  <2>1. m \in Msg
    BY <1>5 DEF Passes, TypeInv, TypeOK
  <2>2. channel' = Append(channel, m) /\ routed' = routed
    BY <1>5 DEF Process, Passes
  <2> HIDE DEF m
  <2>3. Append(channel, m) = channel \o <<m>> /\ <<m>> \in Seq(Msg)
    BY <1>0, <2>1, AppendIsConcat
  <2>4. Append(Accepted, m) = Accepted \o <<m>>
    BY <1>1, <2>1, AppendIsConcat
  <2>5. routed \o (channel \o <<m>>) = (routed \o channel) \o <<m>>
    BY <1>0, <2>3, ConcatAssociative
  <2>6. Accepted' = Append(Accepted, m)
    BY <2>2, <2>3, <2>4, <2>5 DEF Accepted
  <2>. QED
    BY <2>1, <2>6 DEF m
<1>6. ASSUME NEW c \in Conn, Process(c), ~Passes(Head(up[c])) PROVE Accepted' = Accepted
  BY <1>6 DEF Process, Passes, Accepted
<1>7. ASSUME ~Route, ~(\E c \in Conn : Process(c)) PROVE Accepted' = Accepted
  <2>1. UNCHANGED <<channel, routed>>
    BY <1>7 DEF Next, vars, broker, Connect, Receive, Leave, Lose, Submit, Write, EndOfStream
  <2>. QED
    BY <2>1 DEF Accepted
<1>. QED
  BY <1>1, <1>3, <1>4, <1>5, <1>6, <1>7

\* What has been passed to the router stays so.
LEMMA AcceptedGrows ==
  ASSUME TypeInv, [Next]_vars
  PROVE  /\ Len(Accepted) \in Nat /\ DOMAIN Accepted = 1 .. Len(Accepted)
         /\ Len(Accepted') \in Nat /\ DOMAIN Accepted' = 1 .. Len(Accepted')
         /\ Len(Accepted) <= Len(Accepted')
         /\ \A i \in 1 .. Len(Accepted) : Accepted'[i] = Accepted[i]
         /\ \A m \in Msg : IsAccepted(m) => IsAccepted(m)'
<1>1. Accepted \in Seq(Msg) /\ Accepted' \in Seq(Msg)
  BY AcceptedStep
<1>2. /\ Len(Accepted) \in Nat /\ DOMAIN Accepted = 1 .. Len(Accepted)
      /\ Len(Accepted') \in Nat /\ DOMAIN Accepted' = 1 .. Len(Accepted')
  BY <1>1, LenProperties
<1>3. Len(Accepted) <= Len(Accepted') /\ \A i \in 1 .. Len(Accepted) : Accepted'[i] = Accepted[i]
  <2>1. CASE Accepted' = Accepted
    BY <1>2, <2>1
  <2>2. ASSUME NEW m \in Msg, Accepted' = Append(Accepted, m)
        PROVE  /\ Len(Accepted) <= Len(Accepted')
               /\ \A i \in 1 .. Len(Accepted) : Accepted'[i] = Accepted[i]
    BY <1>1, <1>2, <2>2, AppendProperties
  <2>. QED
    BY <2>1, <2>2, AcceptedStep
<1>4. ASSUME NEW m \in Msg, IsAccepted(m) PROVE IsAccepted(m)'
  <2>1. PICK i \in 1 .. Len(Accepted) : Accepted[i] = m
    BY <1>2, <1>4 DEF IsAccepted
  <2>2. i \in 1 .. Len(Accepted') /\ Accepted'[i] = m
    BY <1>2, <1>3, <2>1
  <2>. QED
    BY <1>2, <2>2 DEF IsAccepted
<1>. QED
  BY <1>2, <1>3, <1>4

\* A PUBLISH that is allowed is passed on when it is decoded.
LEMMA DecodedAccepted ==
  ASSUME TypeInv, NEW c \in Conn, NEW m \in Msg,
         Process(c), Head(up[c]).type = "PUBLISH", Head(up[c]).msg = m, m \in allowed
  PROVE  IsAccepted(m)'
<1>1. channel' = Append(channel, m) /\ routed' = routed
  BY DEF Process
<1>2. /\ Append(channel, m) = channel \o <<m>> /\ <<m>> \in Seq(Msg)
      /\ routed \in Seq(Msg) /\ channel \in Seq(Msg)
  BY AppendIsConcat DEF TypeInv, TypeOK
<1>3. Accepted' = Append(Accepted, m) /\ Accepted \in Seq(Msg)
  BY <1>1, <1>2, ConcatAssociative, AppendIsConcat, ConcatProperties DEF Accepted
<1>4. /\ Len(Accepted') = Len(Accepted) + 1 /\ Accepted' \in Seq(Msg)
      /\ Accepted'[Len(Accepted) + 1] = m
  BY <1>3, AppendProperties
<1>5. Len(Accepted) + 1 \in DOMAIN Accepted'
  BY <1>3, <1>4, LenProperties
<1>. QED
  BY <1>4, <1>5 DEF IsAccepted

-----------------------------------------------------------------------------
(* The packets of a connection *)

\* Packets are received in a sequence of packets.
LEMMA UpType ==
  ASSUME TypeOK, NEW c \in Conn
  PROVE  /\ up[c] \in Seq(Packet)
         /\ Len(up[c]) \in Nat /\ DOMAIN up[c] = 1 .. Len(up[c])
         /\ \A i \in DOMAIN up[c] : up[c][i] \in Packet
<1>1. up[c] \in Seq(Packet)
  BY DEF TypeOK
<1>. QED
  BY <1>1, LenProperties, ElementOfSeq

\* How a step may change what a connection holds.
LEMMA StepUp ==
  ASSUME TypeInv, [Next]_vars, NEW c \in Conn
  PROVE  \/ up'[c] = up[c]
         \/ \E m \in Msg, i \in PacketId :
              Submit(m) /\ c = conn /\ id'[m] = i /\ up'[c] = Append(up[c], Publish(m, i))
         \/ \E p \in Packet :
              /\ Receive \/ Leave
              /\ c = conn /\ p.type # "PUBLISH" /\ up'[c] = Append(up[c], p)
         \/ Process(c) /\ up[c] # <<>> /\ up'[c] = Tail(up[c])
         \/ \E n \in 0 .. Len(up[c]) : Lose /\ c = conn /\ up'[c] = SubSeq(up[c], 1, n)
         \/ Connect /\ c = conn + 1 /\ up[c] = <<>> /\ up'[c] = Resend
<1>1. up \in [Conn -> Seq(Packet)] /\ id \in [Msg -> PacketId] /\ conn \in Int
  BY DEF TypeInv, TypeOK
<1>2. CASE Connect
  <2>1. c = conn + 1 => up[c] = <<>>
    BY <1>1 DEF TypeInv, Unmade, Conn
  <2>. QED
    BY <1>1, <1>2, <2>1 DEF Connect
<1>3. ASSUME NEW m \in Msg, Submit(m), c = conn
      PROVE  \E i \in PacketId : id'[m] = i /\ up'[c] = Append(up[c], Publish(m, i))
  <2>1. PICK i \in IF qos[m] = 0 THEN {0}
                   ELSE IF client = "retry" THEN LeastFreeId ELSE {NextPacketId} :
           /\ id' = [id EXCEPT ![m] = i]
           /\ up' = [up EXCEPT ![conn] = Append(@, Publish(m, i))]
    BY <1>3 DEF Submit
  <2>2. i \in PacketId
    <3>1. 0 \in PacketId
      BY IdAssumption DEF PacketId
    <3>2. NextPacketId \in PacketId /\ LeastFreeId \subseteq PacketId
      BY Identifiers DEF TypeInv
    <3>3. i = 0 \/ i \in LeastFreeId \/ i = NextPacketId
      BY <2>1
    <3>. QED
      BY <3>1, <3>2, <3>3
  <2>. QED
    BY <1>1, <1>3, <2>1, <2>2
<1>4. ASSUME NEW m \in Msg, Submit(m), c # conn PROVE up'[c] = up[c]
  BY <1>1, <1>4 DEF Submit
<1>5. CASE Receive
  <2>1. Head(down) \in Answer
    BY <1>5, HeadTailProperties DEF TypeInv, TypeOK, Receive
  <2>2. PubRel(Head(down).id) \in Packet /\ PubRel(Head(down).id).type # "PUBLISH"
    BY <2>1 DEF PubRel, Packet, Answer
  <2>3. up' = [up EXCEPT ![conn] = Append(@, PubRel(Head(down).id))] \/ up' = up
    BY <1>5 DEF Receive
  <2>. QED
    BY <1>1, <1>5, <2>2, <2>3
<1>6. CASE Leave
  <2>1. Goodbye \in Packet /\ Goodbye.type # "PUBLISH"
    BY IdAssumption DEF Goodbye, Packet, PacketId
  <2>. QED
    BY <1>1, <1>6, <2>1 DEF Leave
<1>7. CASE Lose
  BY <1>1, <1>7 DEF Lose
<1>8. ASSUME NEW d \in Conn, Process(d)
      PROVE  \/ up'[c] = up[c]
             \/ c = d /\ up'[c] = Tail(up[c])
  BY <1>1, <1>8 DEF Process
<1>9. CASE Route \/ UNCHANGED vars \/ \E d \in Conn : Write(d) \/ EndOfStream(d)
  BY <1>9 DEF Route, vars, Write, EndOfStream
<1>10. Process(c) => up[c] # <<>>
  BY DEF Process
<1>. QED
  BY <1>2, <1>3, <1>4, <1>5, <1>6, <1>7, <1>8, <1>9, <1>10 DEF Next

IsPublish(p, m) == p.type = "PUBLISH" /\ p.msg = m

\* A connection holds PUBLISH of messages that have been sent, and of each at
\* most one.
PacketInv ==
    \A c \in Conn :
        /\ \A i \in DOMAIN up[c] : up[c][i].type = "PUBLISH" =>
             up[c][i].msg \in Msg /\ phase[up[c][i].msg] # "fresh"
        /\ \A i, j \in DOMAIN up[c] : \A m \in Msg :
             IsPublish(up[c][i], m) /\ IsPublish(up[c][j], m) => i = j

\* A message that has been sent never becomes fresh again.
LEMMA StaysSent ==
  ASSUME TypeInv, [Next]_vars, NEW m \in Msg, phase[m] # "fresh"
  PROVE  phase'[m] # "fresh"
<1>1. CASE Receive
  <2>1. \/ phase'[m] = phase[m]
        \/ phase'[m] = CASE Head(down).type = "REFUSED" -> "refused"
                         [] Head(down).type = "PUBREC" -> "received"
                         [] OTHER -> "done"
    BY <1>1, ReceiveEffect
  <2>. QED
    BY <2>1
<1>2. ASSUME NEW n \in Msg, Submit(n) PROVE phase'[m] # "fresh"
  BY <1>2 DEF Submit, TypeInv, TypeOK
<1>3. CASE ~Receive /\ ~(\E n \in Msg : Submit(n))
  BY <1>3 DEF Next, vars, peer, Connect, Leave, Lose, Process, Write, EndOfStream, Route
<1>. QED
  BY <1>1, <1>2, <1>3

\* The elements of a sequence that is appended to, cut at its end or whose head
\* is taken.
LEMMA Appended ==
  ASSUME NEW s \in Seq(Packet), NEW p \in Packet
  PROVE  /\ DOMAIN Append(s, p) = 1 .. Len(s) + 1 /\ Len(s) \in Nat
         /\ DOMAIN s = 1 .. Len(s)
         /\ \A i \in DOMAIN s : Append(s, p)[i] = s[i]
         /\ Append(s, p)[Len(s) + 1] = p
BY AppendProperties, LenProperties

\* The rest of a sequence of packets, position by position.
LEMMA Tailed ==
  ASSUME NEW s \in Seq(Packet), s # <<>>
  PROVE  /\ DOMAIN Tail(s) = 1 .. Len(s) - 1 /\ Len(s) \in Nat \ {0}
         /\ DOMAIN s = 1 .. Len(s)
         /\ \A i \in DOMAIN Tail(s) : i + 1 \in DOMAIN s /\ Tail(s)[i] = s[i + 1]
         /\ Head(s) = s[1] /\ 1 \in DOMAIN s /\ Head(s) \in Packet
<1>1. /\ Tail(s) \in Seq(Packet) /\ Len(Tail(s)) = Len(s) - 1 /\ Head(s) \in Packet
      /\ \A i \in 1 .. Len(Tail(s)) : Tail(s)[i] = s[i + 1]
  BY HeadTailProperties
<1>2. DOMAIN s = 1 .. Len(s) /\ Len(s) \in Nat \ {0} /\ DOMAIN Tail(s) = 1 .. Len(Tail(s))
  BY <1>1, LenProperties, EmptySeq
<1>3. Head(s) = s[1]
  OBVIOUS
<1>. QED
  BY <1>1, <1>2, <1>3

\* The front of a sequence of packets, position by position.
LEMMA Cut ==
  ASSUME NEW s \in Seq(Packet), NEW n \in 0 .. Len(s)
  PROVE  /\ DOMAIN SubSeq(s, 1, n) = 1 .. n /\ 1 .. n \subseteq DOMAIN s
         /\ \A i \in 1 .. n : SubSeq(s, 1, n)[i] = s[i]
<1>1. Len(s) \in Nat /\ DOMAIN s = 1 .. Len(s) /\ n \in Nat
  BY LenProperties
<1>2. \A i \in 1 .. n : s[i] \in Packet
  BY <1>1, ElementOfSeq
<1>3. /\ SubSeq(s, 1, n) \in Seq(Packet)
      /\ Len(SubSeq(s, 1, n)) = IF 1 <= n THEN n - 1 + 1 ELSE 0
      /\ \A i \in 1 .. n - 1 + 1 : SubSeq(s, 1, n)[i] = s[1 + i - 1]
  BY <1>1, <1>2, SubSeqProperties
<1>4. Len(SubSeq(s, 1, n)) = n /\ \A i \in 1 .. n : SubSeq(s, 1, n)[i] = s[i]
  BY <1>1, <1>3
<1>. QED
  BY <1>1, <1>3, <1>4, LenProperties

\* Every step keeps PacketInv: what is in a stream was submitted, and once.
LEMMA StepPacket == TypeInv /\ PhaseInv /\ PacketInv /\ [Next]_vars => PacketInv'
<1> SUFFICES ASSUME TypeInv, PhaseInv, PacketInv, [Next]_vars, NEW c \in Conn
    PROVE  /\ \A i \in DOMAIN up'[c] : up'[c][i].type = "PUBLISH" =>
                up'[c][i].msg \in Msg /\ phase'[up'[c][i].msg] # "fresh"
           /\ \A i, j \in DOMAIN up'[c] : \A m \in Msg :
                IsPublish(up'[c][i], m) /\ IsPublish(up'[c][j], m) => i = j
  BY DEF PacketInv, IsPublish
<1>0. up[c] \in Seq(Packet) /\ Len(up[c]) \in Nat /\ DOMAIN up[c] = 1 .. Len(up[c])
  BY UpType DEF TypeInv
<1>1. \A i \in DOMAIN up[c] : up[c][i].type = "PUBLISH" =>
        /\ up[c][i].msg \in Msg /\ phase[up[c][i].msg] # "fresh"
        /\ phase'[up[c][i].msg] # "fresh"
  BY StaysSent DEF PacketInv
<1>2. \A i, j \in DOMAIN up[c] : \A m \in Msg :
        IsPublish(up[c][i], m) /\ IsPublish(up[c][j], m) => i = j
  BY DEF PacketInv
<1>3. CASE up'[c] = up[c]
  BY <1>1, <1>2, <1>3
<1>4. ASSUME NEW n \in Msg, NEW i \in PacketId, Submit(n), up'[c] = Append(up[c], Publish(n, i))
      PROVE  /\ \A k \in DOMAIN up'[c] : up'[c][k].type = "PUBLISH" =>
                  up'[c][k].msg \in Msg /\ phase'[up'[c][k].msg] # "fresh"
             /\ \A k, j \in DOMAIN up'[c] : \A m \in Msg :
                  IsPublish(up'[c][k], m) /\ IsPublish(up'[c][j], m) => k = j
  <2>1. Publish(n, i) \in Packet
    BY <1>4 DEF Publish, Packet
  <2>2. /\ DOMAIN up'[c] = 1 .. Len(up[c]) + 1
        /\ \A k \in DOMAIN up[c] : up'[c][k] = up[c][k]
        /\ up'[c][Len(up[c]) + 1] = Publish(n, i)
    BY <1>0, <1>4, <2>1, Appended
  <2>3. phase[n] = "fresh" /\ phase'[n] # "fresh"
    BY <1>4 DEF Submit, TypeInv, TypeOK
  <2>4. \A k \in DOMAIN up'[c] : k \in DOMAIN up[c] \/ k = Len(up[c]) + 1
    BY <1>0, <2>2
  <2>5. \A k \in DOMAIN up[c] : ~IsPublish(up[c][k], n)
    BY <1>1, <2>3 DEF IsPublish
  <2>6. Publish(n, i).type = "PUBLISH" /\ Publish(n, i).msg = n
    BY DEF Publish
  <2>. QED
    BY <1>1, <1>2, <2>2, <2>3, <2>4, <2>5, <2>6 DEF IsPublish
<1>5. ASSUME NEW p \in Packet, p.type # "PUBLISH", up'[c] = Append(up[c], p)
      PROVE  /\ \A k \in DOMAIN up'[c] : up'[c][k].type = "PUBLISH" =>
                  up'[c][k].msg \in Msg /\ phase'[up'[c][k].msg] # "fresh"
             /\ \A k, j \in DOMAIN up'[c] : \A m \in Msg :
                  IsPublish(up'[c][k], m) /\ IsPublish(up'[c][j], m) => k = j
  <2>1. /\ DOMAIN up'[c] = 1 .. Len(up[c]) + 1
        /\ \A k \in DOMAIN up[c] : up'[c][k] = up[c][k]
        /\ up'[c][Len(up[c]) + 1] = p
    BY <1>0, <1>5, Appended
  <2>2. \A k \in DOMAIN up'[c] : k \in DOMAIN up[c] \/ k = Len(up[c]) + 1
    BY <1>0, <2>1
  <2>. QED
    BY <1>1, <1>2, <1>5, <2>1, <2>2 DEF IsPublish
<1>6. CASE up[c] # <<>> /\ up'[c] = Tail(up[c])
  <2>1. \A k \in DOMAIN up'[c] :
          k \in Int /\ k + 1 \in DOMAIN up[c] /\ up'[c][k] = up[c][k + 1]
    BY <1>0, <1>6, Tailed
  <2>2. ASSUME NEW k \in DOMAIN up'[c], NEW j \in DOMAIN up'[c], NEW m \in Msg,
               IsPublish(up'[c][k], m), IsPublish(up'[c][j], m)
        PROVE  k = j
    <3>1. k + 1 = j + 1
      BY <1>2, <2>1, <2>2
    <3>. QED
      BY <2>1, <3>1
  <2>. QED
    BY <1>1, <2>1, <2>2
<1>7. ASSUME NEW n \in 0 .. Len(up[c]), up'[c] = SubSeq(up[c], 1, n)
      PROVE  /\ \A k \in DOMAIN up'[c] : up'[c][k].type = "PUBLISH" =>
                  up'[c][k].msg \in Msg /\ phase'[up'[c][k].msg] # "fresh"
             /\ \A k, j \in DOMAIN up'[c] : \A m \in Msg :
                  IsPublish(up'[c][k], m) /\ IsPublish(up'[c][j], m) => k = j
  <2>1. \A k \in DOMAIN up'[c] : k \in DOMAIN up[c] /\ up'[c][k] = up[c][k]
    BY <1>0, <1>7, Cut
  <2>. QED
    BY <1>1, <1>2, <2>1
<1>8. CASE Connect /\ up'[c] = Resend
  <2> DEFINE s == InOrder(Unanswered)
  <2>1. Resend \in Seq(Packet)
    BY ResendCorrect DEF TypeInv
  <2>2. /\ \A i \in 1 .. Len(Resend) :
             /\ s[i] \in Unanswered
             /\ Resend[i] = IF phase[s[i]] = "sent" THEN Publish(s[i], id[s[i]])
                            ELSE PubRel(id[s[i]])
        /\ \A i, j \in 1 .. Len(Resend) : i < j => s[i] < s[j]
    BY ResendCorrect DEF TypeInv
  <2>3. DOMAIN up'[c] = 1 .. Len(Resend) /\ Len(Resend) \in Nat
    BY <1>8, <2>1, LenProperties
  <2> HIDE DEF s
  <2>4. \A i \in DOMAIN up'[c] : up'[c][i].type = "PUBLISH" =>
          up'[c][i].msg = s[i] /\ s[i] \in Msg /\ phase[s[i]] = "sent"
    BY <1>8, <2>2, <2>3 DEF Publish, PubRel, Unanswered
  <2>5. phase' = phase
    BY <1>8 DEF Connect
  <2>6. ASSUME NEW k \in DOMAIN up'[c], NEW j \in DOMAIN up'[c], NEW m \in Msg,
               IsPublish(up'[c][k], m), IsPublish(up'[c][j], m)
        PROVE  k = j
    <3>1. s[k] = m /\ s[j] = m /\ m \in Int
      BY <2>4, <2>6, BoundAssumption DEF IsPublish, Msg
    <3>. QED
      BY <2>2, <2>3, <3>1
  <2>. QED
    BY <2>4, <2>5, <2>6
<1>. QED
  BY <1>3, <1>4, <1>5, <1>6, <1>7, <1>8, StepUp

-----------------------------------------------------------------------------
(* The handshakes on the connection that is up *)

\* What a publisher may have on its way: a message that is waiting for its
\* first answer, or one of QoS 0, which has no identifier; PUBREL for a message
\* that has been received.
FittingPackets ==
    {p \in Packet :
       \/ /\ p.type = "PUBLISH" /\ p.msg \in Msg /\ qos[p.msg] > 0
          /\ p.id = id[p.msg] /\ phase[p.msg] = "sent"
       \/ p.type = "PUBLISH" /\ p.msg \in Msg /\ qos[p.msg] = 0 /\ p.id = 0
       \/ p.type = "PUBREL" /\ \E m \in Msg : phase[m] = "received" /\ id[m] = p.id
       \/ p.type = "DISCONNECT" /\ p.id = 0}

\* The answers to them: each is about a message that is waiting for it, and
\* says the truth.
FittingAnswers ==
    {a \in Answer : \E m \in Msg :
       /\ id[m] = a.id
       /\ \/ a.type \in {"PUBACK", "PUBREC"} /\ phase[m] = "sent" /\ IsAccepted(m)
          \/ a.type = "REFUSED" /\ phase[m] = "sent" /\ m \notin allowed
          \/ a.type = "PUBCOMP" /\ phase[m] = "received"}

DistinctIds == \A m, n \in Msg : Waiting(m) /\ Waiting(n) /\ id[m] = id[n] => m = n

Matched ==
    /\ \A i \in DOMAIN up[conn] : up[conn][i] \in FittingPackets
    /\ \A i \in DOMAIN down : down[i] \in FittingAnswers
    /\ reply[conn] # NoAnswer => reply[conn] \in FittingAnswers

\* A message has one packet or answer on its way, or none.
Single ==
    /\ \A i, j \in DOMAIN up[conn] :
         up[conn][i].id = up[conn][j].id => i = j \/ up[conn][i].id = 0
    /\ \A i, j \in DOMAIN down : down[i].id = down[j].id => i = j
    /\ \A i \in DOMAIN up[conn], j \in DOMAIN down : up[conn][i].id # down[j].id
    /\ reply[conn] # NoAnswer =>
         /\ \A i \in DOMAIN up[conn] : up[conn][i].id # reply[conn].id
         /\ \A i \in DOMAIN down : down[i].id # reply[conn].id

HandshakeInv == client # "shell" => DistinctIds /\ (linked => Matched /\ Single)

\* What fits goes on fitting while no message changes.
LEMMA FitsKept ==
  ASSUME TypeInv, [Next]_vars, UNCHANGED <<qos, phase, id, allowed>>
  PROVE  FittingPackets \subseteq FittingPackets' /\ FittingAnswers \subseteq FittingAnswers'
<1>1. FittingPackets' = FittingPackets
  BY DEF FittingPackets
<1>2. ASSUME NEW a \in FittingAnswers PROVE a \in FittingAnswers'
  <2>1. PICK m \in Msg :
       /\ id[m] = a.id
       /\ \/ a.type \in {"PUBACK", "PUBREC"} /\ phase[m] = "sent" /\ IsAccepted(m)
          \/ a.type = "REFUSED" /\ phase[m] = "sent" /\ m \notin allowed
          \/ a.type = "PUBCOMP" /\ phase[m] = "received"
    BY <1>2 DEF FittingAnswers
  <2>2. IsAccepted(m) => IsAccepted(m)'
    BY AcceptedGrows
  <2>. QED
    BY <1>2, <2>1, <2>2 DEF FittingAnswers
<1>. QED
  BY <1>1, <1>2

\* An answer that fits is about a message with an identifier.
LEMMA AnswerIsAboutOne ==
  ASSUME TypeInv, PhaseInv, NEW a \in FittingAnswers
  PROVE  a.id # 0 /\ \E m \in Msg : id[m] = a.id /\ Waiting(m)
BY DEF FittingAnswers, PhaseInv, Waiting

\* Actions that leave the latest connection as it is.
LEMMA HandshakeFrame ==
  ASSUME TypeInv, HandshakeInv, [Next]_vars,
         UNCHANGED <<client, qos, phase, id, allowed, conn, linked, down>>,
         linked => up'[conn] = up[conn] /\ reply'[conn] = reply[conn]
  PROVE  HandshakeInv'
<1> SUFFICES ASSUME client # "shell" PROVE HandshakeInv'
  BY DEF HandshakeInv
<1>1. DistinctIds'
  BY DEF HandshakeInv, DistinctIds, Waiting
<1>2. ASSUME linked PROVE Matched'
  BY <1>2, FitsKept DEF HandshakeInv, Matched
<1>3. ASSUME linked PROVE Single'
  BY <1>3 DEF HandshakeInv, Single
<1>. QED
  BY <1>1, <1>2, <1>3 DEF HandshakeInv

\* A new connection: what has not been answered is sent again.
LEMMA ConnectHandshake ==
  TypeInv /\ PhaseInv /\ HandshakeInv /\ Connect => HandshakeInv'
<1> SUFFICES ASSUME TypeInv, PhaseInv, HandshakeInv, Connect, client # "shell"
             PROVE  HandshakeInv'
  BY DEF HandshakeInv, Connect
<1> DEFINE s == InOrder(Unanswered)
<1>1. UNCHANGED <<client, qos, phase, id, allowed>> /\ conn' = conn + 1 /\ down' = <<>>
  BY DEF Connect
<1>2. DistinctIds'
  BY <1>1 DEF HandshakeInv, DistinctIds, Waiting
<1>3. conn' \in Conn /\ up'[conn'] = Resend /\ reply'[conn'] = NoAnswer
  <2>1. conn + 1 \in Conn /\ conn < conn + 1
    BY BoundAssumption DEF Connect, TypeInv, TypeOK, Conn
  <2>2. reply[conn + 1] = NoAnswer
    BY <2>1 DEF TypeInv, TypeOK, Unmade
  <2>. QED
    BY <1>1, <2>1, <2>2 DEF Connect, TypeInv, TypeOK
<1>4. Resend \in Seq(Packet)
  BY ResendCorrect DEF TypeInv
<1>5. /\ \A i \in 1 .. Len(Resend) :
           /\ s[i] \in Unanswered
           /\ Resend[i] = IF phase[s[i]] = "sent" THEN Publish(s[i], id[s[i]])
                          ELSE PubRel(id[s[i]])
      /\ \A i, j \in 1 .. Len(Resend) : i < j => s[i] < s[j]
  BY ResendCorrect DEF TypeInv
<1>6. /\ Len(Resend) \in Nat /\ DOMAIN Resend = 1 .. Len(Resend)
      /\ \A i \in 1 .. Len(Resend) : Resend[i] \in Packet
  BY <1>4, LenProperties, ElementOfSeq
<1> HIDE DEF s
<1>7. Matched'
  <2>1. ASSUME NEW i \in 1 .. Len(Resend) PROVE Resend[i] \in FittingPackets'
    <3>1. s[i] \in Msg /\ qos[s[i]] > 0 /\ phase[s[i]] \in {"sent", "received"}
      BY <1>5 DEF Unanswered
    <3>2. CASE phase[s[i]] = "sent"
      BY <1>1, <1>5, <1>6, <3>1, <3>2 DEF FittingPackets, Publish
    <3>3. CASE phase[s[i]] = "received"
      BY <1>1, <1>5, <1>6, <3>1, <3>3 DEF FittingPackets, PubRel
    <3>. QED
      BY <3>1, <3>2, <3>3
  <2>. QED
    BY <1>1, <1>3, <1>6, <2>1 DEF Matched
<1>8. Single'
  <2>1. ASSUME NEW i \in 1 .. Len(Resend), NEW j \in 1 .. Len(Resend),
               Resend[i].id = Resend[j].id
        PROVE  i = j
    <3>1. /\ s[i] \in Msg /\ Waiting(s[i]) /\ s[j] \in Msg /\ Waiting(s[j])
      BY <1>5 DEF Unanswered, Waiting
    <3>2. \A l \in 1 .. Len(Resend) : Resend[l].id = id[s[l]]
      <4>1. \A m \in Msg : Publish(m, id[m]).id = id[m] /\ PubRel(id[m]).id = id[m]
        BY DEF Publish, PubRel
      <4>. QED
        BY <1>5, <4>1 DEF Unanswered
    <3>3. DistinctIds
      BY DEF HandshakeInv
    <3>4. id[s[i]] = id[s[j]]
      BY <2>1, <3>2
    <3>5. s[i] = s[j]
      BY <3>1, <3>3, <3>4 DEF DistinctIds
    <3>6. s[i] \in Int
      BY <3>1, BoundAssumption DEF Msg
    <3>. QED
      BY <1>5, <1>6, <3>5, <3>6
  <2>. QED
    BY <1>1, <1>3, <1>6, <2>1 DEF Single
<1>. QED
  BY <1>2, <1>7, <1>8 DEF HandshakeInv

\* The next message takes an identifier that no waiting message has.
LEMMA SubmitHandshake ==
  ASSUME NEW m \in Msg
  PROVE  TypeInv /\ PhaseInv /\ PacketInv /\ HandshakeInv /\ Submit(m) => HandshakeInv'
<1> SUFFICES ASSUME TypeInv, PhaseInv, PacketInv, HandshakeInv, Submit(m), client # "shell"
             PROVE  HandshakeInv'
  BY DEF HandshakeInv, Submit
<1>1. PICK i \in IF qos[m] = 0 THEN {0}
                 ELSE IF client = "retry" THEN LeastFreeId ELSE {NextPacketId} :
         /\ id' = [id EXCEPT ![m] = i]
         /\ up' = [up EXCEPT ![conn] = Append(@, Publish(m, i))]
  BY DEF Submit
<1>2. i \in PacketId /\ (qos[m] > 0 => i # 0) /\ (qos[m] = 0 => i = 0)
  BY <1>1, Identifiers, IdAssumption DEF TypeInv, TypeOK, PacketId
<1>3. conn \in Conn /\ linked
  BY DEF TypeInv, TypeOK, Unmade, Submit, Conn
<1>4. /\ UNCHANGED <<client, qos, allowed, conn, linked, down, reply, channel, routed>>
      /\ phase[m] = "fresh"
      /\ client # "retry" => client = "pub" /\ m = 1
  BY ClientAssumption DEF Submit, broker, TypeInv, TypeOK
<1>5. /\ phase'[m] = IF qos[m] = 0 THEN "done" ELSE "sent"
      /\ id'[m] = i
      /\ \A n \in Msg : n # m => phase'[n] = phase[n] /\ id'[n] = id[n]
  BY <1>1 DEF Submit, TypeInv, TypeOK
<1>6. \A n \in Msg : Waiting(n) => n # m /\ id[n] # i
  <2>1. ASSUME NEW n \in Msg, Waiting(n) PROVE n # m /\ id[n] # i
    <3>1. n # m /\ id[n] # 0
      BY <1>4, <2>1 DEF Waiting, PhaseInv
    <3>2. CASE qos[m] = 0
      BY <1>2, <3>1, <3>2
    <3>3. CASE qos[m] # 0 /\ client = "retry"
      BY <1>1, <2>1, <3>1, <3>3 DEF LeastFreeId, FreeIds, Waiting
    <3>4. CASE client # "retry"
      BY <1>4, <2>1, <3>1, <3>4 DEF PhaseInv, Waiting
    <3>. QED
      BY <3>1, <3>2, <3>3, <3>4
  <2>. QED
    BY <2>1
<1>7. DistinctIds'
  BY <1>5, <1>6 DEF HandshakeInv, DistinctIds, Waiting
<1>8. Accepted' = Accepted
  BY <1>4 DEF Accepted
<1>9. FittingAnswers \subseteq FittingAnswers'
  <2>1. ASSUME NEW a \in FittingAnswers PROVE a \in FittingAnswers'
    <3>1. PICK n \in Msg :
         /\ id[n] = a.id
         /\ \/ a.type \in {"PUBACK", "PUBREC"} /\ phase[n] = "sent" /\ IsAccepted(n)
            \/ a.type = "REFUSED" /\ phase[n] = "sent" /\ n \notin allowed
            \/ a.type = "PUBCOMP" /\ phase[n] = "received"
      BY <2>1 DEF FittingAnswers
    <3>2. phase'[n] = phase[n] /\ id'[n] = id[n] /\ a \in Answer /\ allowed' = allowed
      BY <1>4, <1>5, <2>1, <3>1 DEF FittingAnswers
    <3>3. IsAccepted(n) <=> IsAccepted(n)'
      BY <1>8 DEF IsAccepted
    <3>. QED
      BY <3>1, <3>2, <3>3 DEF FittingAnswers
  <2>. QED
    BY <2>1
<1>10. FittingPackets \subseteq FittingPackets'
  <2>1. ASSUME NEW p \in FittingPackets PROVE p \in FittingPackets'
    <3>1. CASE p.type = "PUBLISH" /\ qos[p.msg] = 0
      BY <1>4, <2>1, <3>1 DEF FittingPackets
    <3>2. CASE p.type = "PUBLISH" /\ qos[p.msg] # 0
      <4>1. p \in Packet /\ p.msg \in Msg /\ p.msg # m /\ qos[p.msg] > 0 /\ p.id = id[p.msg]
            /\ phase[p.msg] = "sent"
        BY <1>4, <2>1, <3>2 DEF FittingPackets
      <4>. QED
        BY <1>4, <1>5, <3>2, <4>1 DEF FittingPackets
    <3>3. CASE p.type = "PUBREL"
      <4>1. PICK n \in Msg : phase[n] = "received" /\ id[n] = p.id
        BY <2>1, <3>3 DEF FittingPackets
      <4>2. phase'[n] = "received" /\ id'[n] = p.id
        BY <1>4, <1>5, <4>1
      <4>. QED
        BY <2>1, <3>3, <4>2 DEF FittingPackets
    <3>4. CASE p.type = "DISCONNECT"
      BY <2>1, <3>4 DEF FittingPackets
    <3>. QED
      BY <2>1, <3>1, <3>2, <3>3, <3>4 DEF FittingPackets
  <2>. QED
    BY <2>1
<1>11. Publish(m, i) \in FittingPackets' /\ Publish(m, i).id = i /\ Publish(m, i) \in Packet
  <2>1. Publish(m, i) \in Packet
    BY <1>2 DEF Publish, Packet
  <2>2. CASE qos[m] = 0
    BY <1>2, <1>4, <2>1, <2>2 DEF FittingPackets, Publish
  <2>3. CASE qos[m] # 0
    <3>1. qos[m] \in 0 .. 2 /\ qos[m] > 0
      BY <2>3 DEF TypeInv, TypeOK
    <3>. QED
      BY <1>4, <1>5, <2>1, <3>1 DEF FittingPackets, Publish
  <2>. QED
    BY <2>1, <2>2, <2>3 DEF Publish
<1>12. up[conn] \in Seq(Packet)
  BY <1>3 DEF TypeInv, TypeOK
<1>13. /\ up'[conn] = Append(up[conn], Publish(m, i))
       /\ DOMAIN up'[conn] = 1 .. Len(up[conn]) + 1
       /\ DOMAIN up[conn] = 1 .. Len(up[conn]) /\ Len(up[conn]) \in Nat
       /\ \A k \in DOMAIN up[conn] : up'[conn][k] = up[conn][k]
       /\ up'[conn][Len(up[conn]) + 1] = Publish(m, i)
  <2>1. up'[conn] = Append(up[conn], Publish(m, i))
    BY <1>1, <1>3 DEF TypeInv, TypeOK
  <2>. QED
    BY <1>11, <1>12, <2>1, Appended
<1>14. \A k \in DOMAIN up'[conn] : k \in DOMAIN up[conn] \/ k = Len(up[conn]) + 1
  BY <1>13
<1>15. Matched /\ Single
  BY <1>3 DEF HandshakeInv
<1>16. Matched'
  BY <1>4, <1>9, <1>10, <1>11, <1>13, <1>14, <1>15 DEF Matched
<1>17. /\ \A k \in DOMAIN up[conn] : up[conn][k].id = i => i = 0
       /\ \A k \in DOMAIN down : down[k].id # i
       /\ reply[conn] # NoAnswer => reply[conn].id # i
  <2>1. \A a \in FittingAnswers : a.id # i
    BY <1>6, AnswerIsAboutOne
  <2>2. \A p \in FittingPackets : p.id = i => i = 0
    BY <1>6 DEF FittingPackets, Waiting
  <2>. QED
    BY <1>15, <2>1, <2>2 DEF Matched
<1>18. Single'
  BY <1>4, <1>11, <1>13, <1>14, <1>15, <1>17 DEF Single
<1>. QED
  BY <1>7, <1>16, <1>18 DEF HandshakeInv

\* An answer that arrives is about one message, the only one that changes; and
\* PUBREL is sent when no other packet or answer has its identifier.
LEMMA ReceiveHandshake ==
  TypeInv /\ PhaseInv /\ HandshakeInv /\ Receive => HandshakeInv'
<1> SUFFICES ASSUME TypeInv, PhaseInv, HandshakeInv, Receive, client # "shell"
             PROVE  HandshakeInv'
  BY DEF HandshakeInv, Receive
<1> DEFINE a == Head(down)
<1>1. /\ UNCHANGED <<client, qos, allowed, id, conn, linked, reply, channel, routed>>
      /\ down # <<>> /\ down' = Tail(down) /\ linked /\ conn \in Conn
  BY DEF Receive, broker, TypeInv, TypeOK, Unmade, Conn
<1>2. DistinctIds /\ Matched /\ Single
  BY <1>1 DEF HandshakeInv
<1>3. down \in Seq(Answer) /\ up[conn] \in Seq(Packet)
  BY <1>1 DEF TypeInv, TypeOK
<1>4. /\ DOMAIN down = 1 .. Len(down) /\ 1 \in DOMAIN down /\ a = down[1]
      /\ \A j \in DOMAIN down' : j \in Int /\ j + 1 \in DOMAIN down /\ j + 1 # 1
                                 /\ down'[j] = down[j + 1]
  <2>1. /\ Tail(down) \in Seq(Answer) /\ Len(Tail(down)) = Len(down) - 1
        /\ \A j \in 1 .. Len(Tail(down)) : Tail(down)[j] = down[j + 1]
    BY <1>1, <1>3, HeadTailProperties
  <2>2. /\ DOMAIN down = 1 .. Len(down) /\ Len(down) \in Nat \ {0}
        /\ DOMAIN down' = 1 .. Len(down) - 1
    BY <1>1, <1>3, <2>1, LenProperties, EmptySeq
  <2>3. a = down[1]
    BY <1>3
  <2>. QED
    BY <1>1, <2>1, <2>2, <2>3
<1>5. a \in FittingAnswers
  BY <1>2, <1>4 DEF Matched
<1>6. PICK w \in Msg : id[w] = a.id /\ Waiting(w)
  BY <1>5, AnswerIsAboutOne
<1>7. a.id # 0 /\ a.id \in PacketId
  BY <1>5, AnswerIsAboutOne DEF FittingAnswers, Answer
<1> HIDE DEF a
<1>8. \A m \in Msg : m # w => phase'[m] = phase[m]
  <2>1. ASSUME NEW m \in Msg, m # w PROVE m \notin AnsweredBy(a)
    BY <1>2, <1>6, <2>1 DEF AnsweredBy, DistinctIds, Waiting
  <2>. QED
    BY <2>1, ReceiveEffect DEF a
<1>9. /\ Waiting(w)' => phase'[w] \in {"sent", "received"}
      /\ phase'[w] = IF a.type = "REFUSED" THEN "refused"
                     ELSE IF a.type = "PUBREC" THEN "received" ELSE "done"
  <2>1. w \in AnsweredBy(a)
    BY <1>6 DEF AnsweredBy, Waiting
  <2>2. phase'[w] = CASE a.type = "REFUSED" -> "refused"
                      [] a.type = "PUBREC" -> "received"
                      [] OTHER -> "done"
    BY <2>1 DEF Receive, TypeInv, TypeOK, a
  <2>. QED
    BY <2>2 DEF Waiting
<1>10. \A m \in Msg : Waiting(m)' => Waiting(m)
  BY <1>6, <1>8 DEF Waiting
<1>11. DistinctIds'
  BY <1>1, <1>2, <1>10 DEF DistinctIds
<1>12. Accepted' = Accepted
  BY <1>1 DEF Accepted
<1>13. ASSUME NEW b \in FittingAnswers, b.id # a.id PROVE b \in FittingAnswers'
  <2>1. PICK n \in Msg :
         /\ id[n] = b.id
         /\ \/ b.type \in {"PUBACK", "PUBREC"} /\ phase[n] = "sent" /\ IsAccepted(n)
            \/ b.type = "REFUSED" /\ phase[n] = "sent" /\ n \notin allowed
            \/ b.type = "PUBCOMP" /\ phase[n] = "received"
    BY DEF FittingAnswers
  <2>2. n # w /\ phase'[n] = phase[n] /\ id'[n] = id[n] /\ b \in Answer /\ allowed' = allowed
    BY <1>1, <1>6, <1>8, <1>13, <2>1 DEF FittingAnswers
  <2>3. IsAccepted(n) <=> IsAccepted(n)'
    BY <1>12 DEF IsAccepted
  <2>. QED
    BY <2>1, <2>2, <2>3 DEF FittingAnswers
<1>14. ASSUME NEW p \in FittingPackets, p.id # a.id PROVE p \in FittingPackets'
  <2>0. p \in Packet /\ p.type \in {"PUBLISH", "PUBREL", "DISCONNECT"}
    BY DEF FittingPackets
  <2>1. CASE p.type = "PUBLISH" /\ qos[p.msg] = 0
    BY <1>1, <2>1 DEF FittingPackets
  <2>2. CASE p.type = "PUBLISH" /\ qos[p.msg] # 0
    <3>1. /\ p.msg \in Msg /\ qos[p.msg] > 0 /\ p.id = id[p.msg]
          /\ phase[p.msg] = "sent"
      BY <2>2 DEF FittingPackets
    <3>2. p.msg # w
      BY <1>6, <1>14, <3>1
    <3>. QED
      BY <1>1, <1>8, <2>0, <2>2, <3>1, <3>2 DEF FittingPackets
  <2>3. CASE p.type = "PUBREL"
    <3>1. PICK n \in Msg : phase[n] = "received" /\ id[n] = p.id
      BY <2>3 DEF FittingPackets
    <3>2. n # w
      BY <1>6, <1>14, <3>1
    <3>. QED
      BY <1>1, <1>8, <2>0, <2>3, <3>1, <3>2 DEF FittingPackets
  <2>4. CASE p.type = "DISCONNECT"
    BY <2>4 DEF FittingPackets
  <2>. QED
    BY <2>0, <2>1, <2>2, <2>3, <2>4
<1>15. \A i \in DOMAIN up[conn] : up[conn][i].id # a.id
  BY <1>2, <1>4 DEF Single
<1>16. \A j \in DOMAIN down' : down'[j].id # a.id
  BY <1>2, <1>4 DEF Single
<1>17. reply[conn] # NoAnswer => reply[conn].id # a.id
  BY <1>2, <1>4 DEF Single
<1>18. \A j \in DOMAIN down' : down'[j] \in FittingAnswers'
  BY <1>2, <1>4, <1>13, <1>16 DEF Matched
<1>19. reply[conn] # NoAnswer => reply[conn] \in FittingAnswers'
  BY <1>2, <1>13, <1>17 DEF Matched
<1>20. \A i \in DOMAIN up[conn] : up[conn][i] \in FittingPackets'
  BY <1>2, <1>14, <1>15 DEF Matched
<1>21. \A i, j \in DOMAIN down' : down'[i].id = down'[j].id => i = j
  <2>1. ASSUME NEW i \in DOMAIN down', NEW j \in DOMAIN down', down'[i].id = down'[j].id
        PROVE  i = j
    <3>1. i + 1 = j + 1 /\ i \in Int /\ j \in Int
      BY <1>2, <1>4, <2>1 DEF Single
    <3>. QED
      BY <3>1
  <2>. QED
    BY <2>1
<1>22. CASE up' = up
  <2>1. Matched'
    BY <1>1, <1>18, <1>19, <1>20, <1>22 DEF Matched
  <2>2. Single'
    BY <1>1, <1>2, <1>4, <1>21, <1>22 DEF Single
  <2>. QED
    BY <1>11, <2>1, <2>2 DEF HandshakeInv
<1>23. CASE a.type = "PUBREC" /\ up' = [up EXCEPT ![conn] = Append(@, PubRel(a.id))]
  <2>1. PubRel(a.id) \in Packet /\ PubRel(a.id).type = "PUBREL" /\ PubRel(a.id).id = a.id
    BY <1>7 DEF PubRel, Packet
  <2>2. PubRel(a.id) \in FittingPackets'
    BY <1>1, <1>6, <1>9, <1>23, <2>1 DEF FittingPackets
  <2>3. /\ up'[conn] = Append(up[conn], PubRel(a.id))
        /\ DOMAIN up'[conn] = 1 .. Len(up[conn]) + 1
        /\ DOMAIN up[conn] = 1 .. Len(up[conn]) /\ Len(up[conn]) \in Nat
        /\ \A k \in DOMAIN up[conn] : up'[conn][k] = up[conn][k]
        /\ up'[conn][Len(up[conn]) + 1] = PubRel(a.id)
    <3>1. up'[conn] = Append(up[conn], PubRel(a.id))
      BY <1>1, <1>23 DEF TypeInv, TypeOK
    <3>. QED
      BY <1>3, <2>1, <3>1, Appended
  <2>4. \A k \in DOMAIN up'[conn] : k \in DOMAIN up[conn] \/ k = Len(up[conn]) + 1
    BY <2>3
  <2>5. Matched'
    BY <1>1, <1>18, <1>19, <1>20, <2>2, <2>3, <2>4 DEF Matched
  <2>6. \A i, j \in DOMAIN up'[conn] :
          up'[conn][i].id = up'[conn][j].id => i = j \/ up'[conn][i].id = 0
    BY <1>2, <1>15, <2>1, <2>3, <2>4 DEF Single
  <2>7. \A i \in DOMAIN up'[conn], j \in DOMAIN down' : up'[conn][i].id # down'[j].id
    BY <1>2, <1>4, <1>16, <2>1, <2>3, <2>4 DEF Single
  <2>8. reply[conn] # NoAnswer =>
          /\ \A i \in DOMAIN up'[conn] : up'[conn][i].id # reply[conn].id
          /\ \A j \in DOMAIN down' : down'[j].id # reply[conn].id
    BY <1>2, <1>4, <1>17, <2>1, <2>3, <2>4 DEF Single
  <2>9. Single'
    BY <1>1, <1>21, <2>6, <2>7, <2>8 DEF Single
  <2>. QED
    BY <1>11, <2>5, <2>9 DEF HandshakeInv
<1>. QED
  BY <1>22, <1>23 DEF Receive, a

\* A task decodes a packet and forms the answer that fits.
LEMMA ProcessHandshake ==
  ASSUME NEW c \in Conn
  PROVE  TypeInv /\ PhaseInv /\ HandshakeInv /\ Process(c) => HandshakeInv'
<1> SUFFICES ASSUME TypeInv, PhaseInv, HandshakeInv, Process(c), client # "shell"
             PROVE  HandshakeInv'
  BY DEF HandshakeInv, Process, peer
<1> DEFINE p == Head(up[c])
<1>0. [Next]_vars
  BY DEF Next
<1>1. UNCHANGED <<client, version, qos, allowed, phase, id, conn, linked, down>>
  BY DEF Process, peer
<1>2. CASE ~(c = conn /\ linked)
  <2>1. linked => up'[conn] = up[conn] /\ reply'[conn] = reply[conn]
    BY <1>2 DEF Process, TypeInv, TypeOK, Unmade, Conn
  <2>. QED
    BY <1>0, <1>1, <2>1, HandshakeFrame
<1>3. CASE c = conn /\ linked
  <2>1. DistinctIds /\ Matched /\ Single
    BY <1>3 DEF HandshakeInv
  <2>2. up[c] \in Seq(Packet) /\ up[c] # <<>> /\ reply[c] = NoAnswer
    BY DEF Process, TypeInv, TypeOK
  <2>3. /\ 1 \in DOMAIN up[c] /\ p = up[c][1] /\ p \in Packet /\ up'[c] = Tail(up[c])
        /\ \A i \in DOMAIN up'[c] : i \in Int /\ i + 1 \in DOMAIN up[c] /\ i + 1 # 1
                                    /\ up'[c][i] = up[c][i + 1]
    <3>1. up'[c] = Tail(up[c])
      BY DEF Process, TypeInv, TypeOK
    <3>2. /\ DOMAIN Tail(up[c]) = 1 .. Len(up[c]) - 1 /\ Len(up[c]) \in Nat \ {0}
          /\ \A i \in DOMAIN Tail(up[c]) : i + 1 \in DOMAIN up[c] /\ Tail(up[c])[i] = up[c][i + 1]
          /\ p = up[c][1] /\ 1 \in DOMAIN up[c] /\ p \in Packet
      BY <2>2, Tailed
    <3>. QED
      BY <3>1, <3>2
  <2>4. p \in FittingPackets
    BY <1>3, <2>1, <2>3 DEF Matched
  <2>5. reply'[c] = ReplyTo(p)
    BY DEF Process, TypeInv, TypeOK
  <2> HIDE DEF p
  <2>6. ASSUME ReplyTo(p) # NoAnswer
        PROVE  ReplyTo(p).id = p.id /\ p.id # 0 /\ ReplyTo(p) \in FittingAnswers'
    <3>1. ReplyTo(p) \in Answer
      BY <2>3, <2>6, ReplyType DEF TypeInv
    <3>2. CASE p.type = "PUBREL"
      <4>1. PICK m \in Msg : phase[m] = "received" /\ id[m] = p.id
        BY <2>4, <3>2 DEF FittingPackets
      <4>2. ReplyTo(p) = Answered("PUBCOMP", p.id)
        BY <3>2 DEF ReplyTo
      <4>3. ReplyTo(p).type = "PUBCOMP" /\ ReplyTo(p).id = p.id
        BY <4>2 DEF Answered
      <4>4. p.id # 0
        BY <4>1 DEF PhaseInv, Waiting
      <4>. QED
        BY <1>1, <3>1, <4>1, <4>3, <4>4 DEF FittingAnswers
    <3>3. CASE p.type = "PUBLISH" /\ qos[p.msg] > 0
      <4>1. p.msg \in Msg /\ p.id = id[p.msg] /\ phase[p.msg] = "sent" /\ p.id # 0
        BY <2>4, <3>3 DEF FittingPackets, PhaseInv, Waiting
      <4>2. CASE p.msg \in allowed
        <5>1. ReplyTo(p) = Answered(IF qos[p.msg] = 1 THEN "PUBACK" ELSE "PUBREC", p.id)
          BY <3>3, <4>2 DEF ReplyTo
        <5>2. ReplyTo(p).type \in {"PUBACK", "PUBREC"} /\ ReplyTo(p).id = p.id
          BY <5>1 DEF Answered
        <5>3. PICK m \in Msg : m = p.msg
          BY <4>1
        <5>4. IsAccepted(m)'
          BY <3>3, <4>2, <5>3, DecodedAccepted DEF p
        <5>. QED
          BY <1>1, <3>1, <4>1, <5>2, <5>3, <5>4 DEF FittingAnswers
      <4>3. CASE p.msg \notin allowed
        <5>1. ReplyTo(p) = Answered("REFUSED", p.id)
          BY <2>6, <3>3, <4>3 DEF ReplyTo
        <5>2. ReplyTo(p).type = "REFUSED" /\ ReplyTo(p).id = p.id
          BY <5>1 DEF Answered
        <5>. QED
          BY <1>1, <3>1, <4>1, <4>3, <5>2 DEF FittingAnswers
      <4>. QED
        BY <4>2, <4>3
    <3>. QED
      BY <2>6, <3>2, <3>3 DEF ReplyTo
  <2>7. FittingPackets \subseteq FittingPackets' /\ FittingAnswers \subseteq FittingAnswers'
    BY <1>0, <1>1, FitsKept
  <2>8. Matched'
    BY <1>1, <1>3, <2>1, <2>3, <2>5, <2>6, <2>7 DEF Matched
  <2>9. \A i, j \in DOMAIN up'[c] : up'[c][i].id = up'[c][j].id => i = j \/ up'[c][i].id = 0
    <3>1. ASSUME NEW i \in DOMAIN up'[c], NEW j \in DOMAIN up'[c],
                 up'[c][i].id = up'[c][j].id, up'[c][i].id # 0
          PROVE  i = j
      <4>1. i + 1 = j + 1 /\ i \in Int /\ j \in Int
        BY <1>3, <2>1, <2>3, <3>1 DEF Single
      <4>. QED
        BY <4>1
    <3>. QED
      BY <3>1
  <2>10. \A i \in DOMAIN up'[c] : up'[c][i].id = p.id => p.id = 0
    BY <1>3, <2>1, <2>3 DEF Single
  <2>11. \A j \in DOMAIN down : down[j].id # p.id
    BY <1>3, <2>1, <2>3 DEF Single
  <2>12. \A i \in DOMAIN up'[c], j \in DOMAIN down : up'[c][i].id # down[j].id
    BY <1>3, <2>1, <2>3 DEF Single
  <2>13. Single'
    BY <1>1, <1>3, <2>1, <2>5, <2>6, <2>9, <2>10, <2>11, <2>12 DEF Single
  <2>14. DistinctIds'
    BY <1>1, <2>1 DEF DistinctIds, Waiting
  <2>. QED
    BY <2>8, <2>13, <2>14 DEF HandshakeInv
<1>. QED
  BY <1>2, <1>3

\* An answer is written.
LEMMA WriteHandshake ==
  ASSUME NEW c \in Conn
  PROVE  TypeInv /\ HandshakeInv /\ Write(c) => HandshakeInv'
<1> SUFFICES ASSUME TypeInv, HandshakeInv, Write(c), client # "shell" PROVE HandshakeInv'
  BY DEF HandshakeInv, Write, peer
<1>0. [Next]_vars
  BY DEF Next
<1>1. UNCHANGED <<client, qos, allowed, phase, id, conn, linked, up>>
  BY DEF Write, peer
<1>2. CASE ~(c = conn /\ linked)
  <2>1. down' = down /\ (linked => up'[conn] = up[conn] /\ reply'[conn] = reply[conn])
    BY <1>2 DEF Write, peer, TypeInv, TypeOK, Unmade, Conn
  <2>. QED
    BY <1>0, <1>1, <2>1, HandshakeFrame
<1>3. CASE c = conn /\ linked
  <2>1. DistinctIds /\ Matched /\ Single
    BY <1>3 DEF HandshakeInv
  <2>2. reply[conn] # NoAnswer /\ reply[conn] \in Answer /\ down \in Seq(Answer)
    BY <1>3 DEF Write, TypeInv, TypeOK
  <2>3. reply'[conn] = NoAnswer /\ down' = Append(down, reply[conn])
    BY <1>3 DEF Write, TypeInv, TypeOK
  <2>4. /\ DOMAIN down = 1 .. Len(down) /\ Len(down) \in Nat
        /\ DOMAIN down' = 1 .. Len(down) + 1
        /\ \A i \in DOMAIN down : down'[i] = down[i]
        /\ down'[Len(down) + 1] = reply[conn]
    BY <2>2, <2>3, AppendProperties, LenProperties
  <2>5. \A i \in DOMAIN down' : i \in DOMAIN down \/ i = Len(down) + 1
    BY <2>4
  <2>6. FittingPackets \subseteq FittingPackets' /\ FittingAnswers \subseteq FittingAnswers'
    BY <1>0, <1>1, FitsKept
  <2>7. Matched'
    BY <1>1, <2>1, <2>2, <2>3, <2>4, <2>5, <2>6 DEF Matched
  <2>8. Single'
    BY <1>1, <2>1, <2>2, <2>3, <2>4, <2>5 DEF Single
  <2>9. DistinctIds'
    BY <1>1, <2>1 DEF DistinctIds, Waiting
  <2>. QED
    BY <2>7, <2>8, <2>9 DEF HandshakeInv
<1>. QED
  BY <1>2, <1>3

\* Every step keeps the packet ids of unfinished handshakes distinct and matched.
LEMMA StepHandshake ==
  TypeInv /\ PhaseInv /\ PacketInv /\ HandshakeInv /\ [Next]_vars => HandshakeInv'
<1> SUFFICES ASSUME TypeInv, PhaseInv, PacketInv, HandshakeInv, [Next]_vars PROVE HandshakeInv'
  OBVIOUS
<1>1. CASE Leave \/ Lose
  BY <1>1 DEF Leave, Lose, HandshakeInv, DistinctIds, Waiting
<1>2. CASE Route \/ UNCHANGED vars \/ \E c \in Conn : EndOfStream(c)
  <2>1. UNCHANGED <<peer, up, down, reply>>
    BY <1>2 DEF Route, vars, broker, EndOfStream
  <2>2. UNCHANGED <<client, qos, phase, id, allowed, conn, linked, down>>
    BY <2>1 DEF peer
  <2>. QED
    BY <2>1, <2>2, HandshakeFrame
<1>. QED
  BY <1>1, <1>2, ConnectHandshake, SubmitHandshake, ReceiveHandshake, ProcessHandshake,
     WriteHandshake DEF Next

-----------------------------------------------------------------------------
(* What is acknowledged has been accepted *)

\* Only what is allowed is passed to the router; what the publisher knows to be
\* received has been, and what is refused is not allowed.
AcceptInv ==
    /\ \A i \in DOMAIN Accepted : Accepted[i] \in allowed
    /\ \A m \in Msg : qos[m] > 0 /\ phase[m] \in {"received", "done"} => IsAccepted(m)
    /\ \A m \in Msg : phase[m] = "refused" => m \notin allowed

\* Every step keeps AcceptInv: an answer is given for what has been accepted.
LEMMA StepAccept ==
  TypeInv /\ PhaseInv /\ HandshakeInv /\ AcceptInv /\ [Next]_vars => AcceptInv'
<1> SUFFICES ASSUME TypeInv, PhaseInv, HandshakeInv, AcceptInv, [Next]_vars PROVE AcceptInv'
  OBVIOUS
<1>1. allowed' = allowed /\ qos' = qos
  BY DEF Next, vars, peer, Connect, Receive, Leave, Lose, Submit, Process, Write, EndOfStream, Route
<1>2. \A i \in DOMAIN Accepted' : Accepted'[i] \in allowed
  <2>1. CASE Accepted' = Accepted
    BY <2>1 DEF AcceptInv
  <2>2. ASSUME NEW m \in allowed, m \in Msg, Accepted' = Append(Accepted, m)
        PROVE  \A i \in DOMAIN Accepted' : Accepted'[i] \in allowed
    <3>1. /\ Accepted \in Seq(Msg) /\ Accepted' \in Seq(Msg)
      BY AcceptedStep
    <3>2. /\ DOMAIN Accepted = 1 .. Len(Accepted) /\ Len(Accepted) \in Nat
          /\ DOMAIN Accepted' = 1 .. Len(Accepted')
      BY <3>1, LenProperties
    <3>3. /\ Len(Accepted') = Len(Accepted) + 1 /\ Accepted'[Len(Accepted) + 1] = m
          /\ \A i \in 1 .. Len(Accepted) : Accepted'[i] = Accepted[i]
      BY <2>2, <3>1, AppendProperties
    <3>. QED
      BY <2>2, <3>2, <3>3 DEF AcceptInv
  <2>. QED
    BY <2>1, <2>2, AcceptedStep DEF Passes
<1>3. \A m \in Msg : IsAccepted(m) => IsAccepted(m)'
  BY AcceptedGrows
<1>4. CASE Receive
  <2> DEFINE a == Head(down)
  <2>1. ASSUME NEW m \in Msg, phase'[m] # phase[m]
        PROVE  /\ phase'[m] = "refused" => m \notin allowed
               /\ phase'[m] # "refused" => IsAccepted(m)
    <3>1. /\ m \in AnsweredBy(a) /\ client # "shell"
          /\ phase'[m] = CASE a.type = "REFUSED" -> "refused"
                           [] a.type = "PUBREC" -> "received"
                           [] OTHER -> "done"
      BY <1>4, <2>1, ReceiveEffect
    <3>2. DistinctIds /\ Matched
      BY <1>4, <3>1 DEF HandshakeInv, Receive
    <3>3. down \in Seq(Answer) /\ down # <<>>
      BY <1>4 DEF Receive, TypeInv, TypeOK
    <3>4. 1 \in DOMAIN down /\ a = down[1]
      BY <3>3
    <3>5. a \in FittingAnswers
      BY <3>2, <3>4 DEF Matched
    <3> HIDE DEF a
    <3>6. PICK w \in Msg :
         /\ id[w] = a.id
         /\ \/ a.type \in {"PUBACK", "PUBREC"} /\ phase[w] = "sent" /\ IsAccepted(w)
            \/ a.type = "REFUSED" /\ phase[w] = "sent" /\ w \notin allowed
            \/ a.type = "PUBCOMP" /\ phase[w] = "received"
      BY <3>5 DEF FittingAnswers
    <3>7. w = m
      BY <3>1, <3>2, <3>6 DEF AnsweredBy, DistinctIds, Waiting
    <3>8. CASE a.type \in {"PUBACK", "PUBREC"}
      BY <3>1, <3>6, <3>7, <3>8
    <3>9. CASE a.type = "REFUSED"
      BY <3>1, <3>6, <3>7, <3>9
    <3>10. CASE a.type = "PUBCOMP"
      <4>1. IsAccepted(m)
        BY <3>6, <3>7, <3>10 DEF AcceptInv, PhaseInv
      <4>. QED
        BY <3>1, <3>10, <4>1
    <3>. QED
      BY <3>6, <3>8, <3>9, <3>10
  <2>2. \A m \in Msg : phase'[m] = "refused" => m \notin allowed
    BY <2>1 DEF AcceptInv
  <2>3. ASSUME NEW m \in Msg, qos[m] > 0, phase'[m] \in {"received", "done"}
        PROVE  IsAccepted(m)'
    <3>1. IsAccepted(m)
      BY <2>1, <2>3 DEF AcceptInv
    <3>. QED
      BY <1>3, <3>1
  <2>. QED
    BY <1>1, <1>2, <2>2, <2>3 DEF AcceptInv
<1>5. ASSUME NEW n \in Msg, Submit(n) PROVE AcceptInv'
  <2>1. phase' = [phase EXCEPT ![n] = IF qos[n] = 0 THEN "done" ELSE "sent"]
    BY <1>5 DEF Submit
  <2>2. \A m \in Msg : phase'[m] = "refused" => phase[m] = "refused"
    BY <2>1 DEF TypeInv, TypeOK
  <2>3. \A m \in Msg : qos[m] > 0 /\ phase'[m] \in {"received", "done"} =>
          phase[m] \in {"received", "done"}
    BY <2>1 DEF TypeInv, TypeOK
  <2>. QED
    BY <1>1, <1>2, <1>3, <2>2, <2>3 DEF AcceptInv
<1>6. CASE phase' = phase
  BY <1>1, <1>2, <1>3, <1>6 DEF AcceptInv
<1>. QED
  BY <1>4, <1>5, <1>6
     DEF Next, vars, peer, Connect, Leave, Lose, Process, Write, EndOfStream, Route

\* The invariants of the handshake hold before the client connects.
LEMMA InitInvariants == Init => PhaseInv /\ PacketInv /\ HandshakeInv /\ AcceptInv
<1> SUFFICES ASSUME Init PROVE PhaseInv /\ PacketInv /\ HandshakeInv /\ AcceptInv
  OBVIOUS
<1>1. PhaseInv
  BY DEF Init, PhaseInv, Waiting
<1>2. PacketInv
  BY DEF Init, PacketInv
<1>3. HandshakeInv
  BY DEF Init, HandshakeInv, DistinctIds, Waiting
<1>4. DOMAIN Accepted = {}
  BY DEF Init, Accepted
<1>5. AcceptInv
  BY <1>4 DEF Init, AcceptInv
<1>. QED
  BY <1>1, <1>2, <1>3, <1>5

\* Of a publisher that knows what it has sent: what it has seen acknowledged,
\* also over a later connection and under an identifier that was used before,
\* has been passed to the router, and what it has seen refused never was.
THEOREM AcknowledgedAlways == Spec => []AcknowledgedIsAccepted
<1> DEFINE Inv == TypeInv /\ PhaseInv /\ PacketInv /\ HandshakeInv /\ AcceptInv
<1>1. Init => Inv
  BY InitTypes, InitInvariants
<1>2. Inv /\ [Next]_vars => Inv'
  BY StepTypes, StepPhase, StepPacket, StepHandshake, StepAccept
<1>3. Inv => AcknowledgedIsAccepted
  BY DEF AcceptInv, AcknowledgedIsAccepted, Places, IsAccepted
<1>. QED
  BY <1>1, <1>2, <1>3, PTL DEF Spec

-----------------------------------------------------------------------------
(* The broker duplicates nothing *)

InFlight(c, m) == \E i \in DOMAIN up[c] : IsPublish(up[c][i], m)
Flying(m) == {c \in Conn : InFlight(c, m)}

\* What has been accepted and what is still to be decoded is no more than what
\* has been sent.
CountInv ==
    \A m \in Msg : Cardinality(Places(m)) + Cardinality(Flying(m)) <= sends[m]

\* Where a PUBLISH that a connection holds comes from.
LEMMA PublishOrigin ==
  ASSUME TypeInv, [Next]_vars, NEW c \in Conn, NEW m \in Msg, InFlight(c, m)'
  PROVE  \/ InFlight(c, m)
         \/ Submit(m) /\ c = conn
         \/ Connect /\ c = conn + 1 /\ phase[m] = "sent" /\ qos[m] > 0
<1>0. up[c] \in Seq(Packet) /\ Len(up[c]) \in Nat /\ DOMAIN up[c] = 1 .. Len(up[c])
  BY UpType DEF TypeInv
<1>1. PICK j \in DOMAIN up'[c] : IsPublish(up'[c][j], m)
  BY DEF InFlight, IsPublish
<1>2. CASE up'[c] = up[c]
  BY <1>1, <1>2 DEF InFlight
<1>3. ASSUME NEW n \in Msg, NEW i \in PacketId,
             Submit(n), c = conn, up'[c] = Append(up[c], Publish(n, i))
      PROVE  InFlight(c, m) \/ (Submit(m) /\ c = conn)
  <2>1. Publish(n, i) \in Packet /\ Publish(n, i).msg = n
    BY DEF Publish, Packet
  <2>2. /\ DOMAIN up'[c] = 1 .. Len(up[c]) + 1
        /\ \A k \in DOMAIN up[c] : up'[c][k] = up[c][k]
        /\ up'[c][Len(up[c]) + 1] = Publish(n, i)
    BY <1>0, <1>3, <2>1, Appended
  <2>3. CASE j \in DOMAIN up[c]
    BY <1>1, <2>2, <2>3 DEF InFlight
  <2>4. CASE j = Len(up[c]) + 1
    <3>1. n = m
      BY <1>1, <2>1, <2>2, <2>4 DEF IsPublish
    <3>. QED
      BY <1>3, <3>1
  <2>. QED
    BY <1>0, <2>2, <2>3, <2>4
<1>4. ASSUME NEW p \in Packet, p.type # "PUBLISH", up'[c] = Append(up[c], p)
      PROVE  InFlight(c, m)
  <2>1. /\ DOMAIN up'[c] = 1 .. Len(up[c]) + 1
        /\ \A k \in DOMAIN up[c] : up'[c][k] = up[c][k]
        /\ up'[c][Len(up[c]) + 1] = p
    BY <1>0, <1>4, Appended
  <2>2. j \in DOMAIN up[c]
    BY <1>0, <1>1, <1>4, <2>1 DEF IsPublish
  <2>. QED
    BY <1>1, <2>1, <2>2 DEF InFlight
<1>5. ASSUME up[c] # <<>>, up'[c] = Tail(up[c]) PROVE InFlight(c, m)
  <2>1. j + 1 \in DOMAIN up[c] /\ up'[c][j] = up[c][j + 1]
    BY <1>0, <1>1, <1>5, Tailed
  <2>. QED
    BY <1>1, <2>1 DEF InFlight
<1>6. ASSUME NEW n \in 0 .. Len(up[c]), up'[c] = SubSeq(up[c], 1, n) PROVE InFlight(c, m)
  <2>1. j \in DOMAIN up[c] /\ up'[c][j] = up[c][j]
    BY <1>0, <1>1, <1>6, Cut
  <2>. QED
    BY <1>1, <2>1 DEF InFlight
<1>7. ASSUME Connect, up'[c] = Resend PROVE phase[m] = "sent" /\ qos[m] > 0
  <2> DEFINE s == InOrder(Unanswered)
  <2>1. /\ Resend \in Seq(Packet)
        /\ \A i \in 1 .. Len(Resend) :
             /\ s[i] \in Unanswered
             /\ Resend[i] = IF phase[s[i]] = "sent" THEN Publish(s[i], id[s[i]])
                            ELSE PubRel(id[s[i]])
    BY ResendCorrect DEF TypeInv
  <2>2. j \in 1 .. Len(Resend)
    BY <1>1, <1>7, <2>1, LenProperties
  <2> HIDE DEF s
  <2>3. Resend[j].type = "PUBLISH" /\ Resend[j].msg = m
    BY <1>1, <1>7 DEF IsPublish
  <2>4. phase[s[j]] = "sent"
    <3>1. phase[s[j]] # "sent" => Resend[j] = PubRel(id[s[j]])
      BY <2>1, <2>2
    <3>2. PubRel(id[s[j]]).type = "PUBREL"
      BY DEF PubRel
    <3>. QED
      BY <2>3, <3>1, <3>2
  <2>5. s[j] = m
    <3>1. Resend[j] = Publish(s[j], id[s[j]])
      BY <2>1, <2>2, <2>4
    <3>2. Publish(s[j], id[s[j]]).msg = s[j]
      BY DEF Publish
    <3>. QED
      BY <2>3, <3>1, <3>2
  <2>. QED
    BY <2>1, <2>2, <2>4, <2>5 DEF Unanswered
<1>. QED
  BY <1>2, <1>3, <1>4, <1>5, <1>6, <1>7, StepUp

\* A task that decodes a PUBLISH holds no other one of the same message.
LEMMA DecodedOnce ==
  ASSUME TypeInv, PacketInv, NEW c \in Conn, NEW m \in Msg,
         Process(c), IsPublish(Head(up[c]), m)
  PROVE  InFlight(c, m) /\ ~InFlight(c, m)'
<1>1. up[c] \in Seq(Packet) /\ up[c] # <<>>
  BY UpType DEF TypeInv, Process
<1>2. up'[c] = Tail(up[c])
  BY DEF Process, TypeInv, TypeOK
<1>3. /\ 1 \in DOMAIN up[c] /\ Head(up[c]) = up[c][1]
      /\ \A i \in DOMAIN up'[c] : i \in 1 .. Len(up[c]) - 1
                                  /\ i + 1 \in DOMAIN up[c] /\ up'[c][i] = up[c][i + 1]
  BY <1>1, <1>2, Tailed
<1>4. InFlight(c, m)
  BY <1>3 DEF InFlight
<1>5. ASSUME NEW j \in DOMAIN up'[c], IsPublish(up'[c][j], m) PROVE FALSE
  <2>1. IsPublish(up[c][j + 1], m) /\ IsPublish(up[c][1], m)
    BY <1>3, <1>5
  <2>2. j + 1 = 1
    BY <1>3, <2>1 DEF PacketInv
  <2>. QED
    BY <1>3, <2>2
<1>. QED
  BY <1>4, <1>5 DEF InFlight, IsPublish

\* A message has finitely many places in a sequence, and finitely many
\* connections hold it.
LEMMA CountsFinite ==
  ASSUME NEW s \in Seq(Msg), NEW m, NEW S \in SUBSET Conn
  PROVE  /\ IsFiniteSet({i \in DOMAIN s : s[i] = m}) /\ IsFiniteSet(S)
         /\ Cardinality({i \in DOMAIN s : s[i] = m}) \in Nat /\ Cardinality(S) \in Nat
<1> DEFINE T == {i \in DOMAIN s : s[i] = m}
<1>1. Len(s) \in Int /\ T \in SUBSET (1 .. Len(s))
  BY LenProperties
<1>2. IsFiniteSet(1 .. Len(s))
  BY <1>1, FS_Interval
<1> HIDE DEF T
<1>3. IsFiniteSet(T)
  BY <1>1, <1>2, FS_Subset
<1>4. IsFiniteSet(Conn)
  BY BoundAssumption, FS_Interval DEF Conn
<1>5. IsFiniteSet(S)
  BY <1>4, FS_Subset
<1>6. Cardinality(T) \in Nat /\ Cardinality(S) \in Nat
  BY <1>3, <1>5, FS_CardinalityType
<1>. QED
  BY <1>3, <1>5, <1>6 DEF T

\* Every step keeps CountInv: each time a message is accepted, it was sent once
\* for that.
LEMMA StepCount ==
  TypeInv /\ PhaseInv /\ PacketInv /\ CountInv /\ [Next]_vars => CountInv'
<1> SUFFICES ASSUME TypeInv, PhaseInv, PacketInv, CountInv, [Next]_vars, NEW m \in Msg
    PROVE  (Cardinality(Places(m)) + Cardinality(Flying(m)) <= sends[m])'
  BY DEF CountInv
<1>1. /\ IsFiniteSet(Places(m)) /\ IsFiniteSet(Flying(m))
      /\ Cardinality(Places(m)) \in Nat /\ Cardinality(Flying(m)) \in Nat
  <2>1. Accepted \in Seq(Msg) /\ Flying(m) \in SUBSET Conn
    BY AcceptedStep DEF Flying
  <2>. QED
    BY <2>1, CountsFinite DEF Places
<1>2. /\ Cardinality(Places(m)) + Cardinality(Flying(m)) <= sends[m]
      /\ sends[m] \in Nat /\ sends'[m] \in Nat
  BY StepTypes DEF CountInv, TypeInv, TypeOK
<1>4. /\ IsFiniteSet(Places(m)') /\ IsFiniteSet(Flying(m)')
      /\ Cardinality(Places(m)') \in Nat /\ Cardinality(Flying(m)') \in Nat
  <2>1. Accepted' \in Seq(Msg) /\ Flying(m)' \in SUBSET Conn
    BY AcceptedStep DEF Flying
  <2>. QED
    BY <2>1, CountsFinite DEF Places
<1>5. ASSUME Accepted' = Accepted PROVE Places(m)' = Places(m)
  BY <1>5 DEF Places
<1>6. ASSUME NEW S, IsFiniteSet(S), Flying(m)' \subseteq S
      PROVE  Cardinality(Flying(m)') <= Cardinality(S) /\ Cardinality(S) \in Nat
  BY <1>6, FS_Subset, FS_CardinalityType
<1>7. CASE Submit(m)
  <2>1. sends[m] = 0 /\ sends'[m] = 1 /\ conn \in Conn
    BY <1>7 DEF Submit, PhaseInv, TypeInv, TypeOK, Unmade, Conn
  <2>2. Cardinality(Flying(m)) = 0 /\ Cardinality(Places(m)) = 0
    BY <1>1, <1>2, <2>1
  <2>3. Flying(m) = {}
    BY <1>1, <2>2, FS_EmptySet
  <2>4. Flying(m)' \subseteq {conn}
    BY <1>7, <2>3, PublishOrigin DEF Flying, Submit, Connect
  <2>5. Cardinality({conn}) = 1 /\ IsFiniteSet({conn})
    BY FS_Singleton
  <2>6. Cardinality(Flying(m)') <= 1
    BY <1>6, <2>4, <2>5
  <2>7. Places(m)' = Places(m)
    BY <1>5, <1>7 DEF Submit, broker, Accepted
  <2>. QED
    BY <1>4, <2>1, <2>2, <2>6, <2>7
<1>8. CASE Connect
  <2>1. Places(m)' = Places(m)
    BY <1>5, <1>8 DEF Connect, Accepted
  <2>2. CASE phase[m] = "sent" /\ qos[m] > 0
    <3>1. sends'[m] = sends[m] + 1
      BY <1>8, <2>2 DEF Connect
    <3>2. Flying(m)' \subseteq Flying(m) \union {conn + 1}
      <4>1. ASSUME NEW c \in Conn, InFlight(c, m)' PROVE InFlight(c, m) \/ c = conn + 1
        <5>1. ~Submit(m)
          BY <1>8 DEF Submit, Connect
        <5>. QED
          BY <4>1, <5>1, PublishOrigin
      <4>. QED
        BY <4>1 DEF Flying
    <3>3. /\ IsFiniteSet(Flying(m) \union {conn + 1})
          /\ Cardinality(Flying(m) \union {conn + 1}) <= Cardinality(Flying(m)) + 1
      BY <1>1, FS_AddElement
    <3>4. Cardinality(Flying(m)') <= Cardinality(Flying(m) \union {conn + 1})
          /\ Cardinality(Flying(m) \union {conn + 1}) \in Nat
      BY <1>6, <3>2, <3>3
    <3>. QED
      BY <1>1, <1>2, <1>4, <2>1, <3>1, <3>3, <3>4
  <2>3. CASE ~(phase[m] = "sent" /\ qos[m] > 0)
    <3>1. sends'[m] = sends[m]
      BY <1>2, <1>8, <2>3 DEF Connect
    <3>2. Flying(m)' \subseteq Flying(m)
      BY <1>8, <2>3, PublishOrigin DEF Flying, Submit, Connect
    <3>. QED
      BY <1>1, <1>2, <1>4, <1>6, <2>1, <3>1, <3>2
  <2>. QED
    BY <2>2, <2>3
<1>9. CASE ~Submit(m) /\ ~Connect
  <2>1. Flying(m)' \subseteq Flying(m)
    BY <1>9, PublishOrigin DEF Flying
  <2>2. sends'[m] = sends[m]
    BY <1>9 DEF Next, vars, peer, Submit, Receive, Leave, Lose, Process, Write, EndOfStream,
                Route, TypeInv, TypeOK
  <2>3. CASE Places(m)' = Places(m)
    BY <1>1, <1>2, <1>4, <1>6, <2>1, <2>2, <2>3
  <2>4. ASSUME Places(m)' # Places(m)
        PROVE  /\ Cardinality(Places(m)') = Cardinality(Places(m)) + 1
               /\ Cardinality(Flying(m)') <= Cardinality(Flying(m)) - 1
    <3>1. Accepted' # Accepted
      BY <1>5, <2>4
    <3>2. PICK c \in Conn :
                 /\ Process(c) /\ Passes(Head(up[c])) /\ Head(up[c]).msg \in Msg
                 /\ Accepted' = Append(Accepted, Head(up[c]).msg)
      BY <3>1, AcceptedStep
    <3> DEFINE n == Head(up[c]).msg
    <3>3. Accepted \in Seq(Msg) /\ Accepted' \in Seq(Msg)
      BY AcceptedStep
    <3>4. /\ DOMAIN Accepted = 1 .. Len(Accepted) /\ Len(Accepted) \in Nat
          /\ DOMAIN Accepted' = 1 .. Len(Accepted) + 1
          /\ \A i \in DOMAIN Accepted : Accepted'[i] = Accepted[i]
          /\ Accepted'[Len(Accepted) + 1] = n
      BY <3>2, <3>3, AppendProperties, LenProperties
    <3> HIDE DEF n
    <3>5. n = m
      <4>1. n # m => Places(m)' = Places(m)
        BY <3>4 DEF Places
      <4>. QED
        BY <2>4, <4>1
    <3>6. Places(m)' = Places(m) \union {Len(Accepted) + 1} /\ Len(Accepted) + 1 \notin Places(m)
      BY <3>4, <3>5 DEF Places
    <3>7. Cardinality(Places(m)') = Cardinality(Places(m)) + 1
      BY <1>1, <3>6, FS_AddElement
    <3>8. IsPublish(Head(up[c]), m)
      BY <3>2, <3>5 DEF n, Passes, IsPublish
    <3>9. InFlight(c, m) /\ ~InFlight(c, m)'
      BY <3>2, <3>8, DecodedOnce
    <3>10. c \in Flying(m) /\ Flying(m)' \subseteq Flying(m) \ {c}
      BY <2>1, <3>9 DEF Flying
    <3>11. /\ IsFiniteSet(Flying(m) \ {c})
           /\ Cardinality(Flying(m) \ {c}) = Cardinality(Flying(m)) - 1
      BY <1>1, <3>10, FS_RemoveElement
    <3>. QED
      BY <1>6, <3>7, <3>10, <3>11
  <2>. QED
    BY <1>1, <1>2, <1>4, <2>2, <2>3, <2>4
<1>. QED
  BY <1>7, <1>8, <1>9

\* Nothing has been accepted or is in flight at first.
LEMMA InitCount == Init => CountInv
<1> SUFFICES ASSUME Init, NEW m \in Msg
    PROVE  Cardinality(Places(m)) + Cardinality(Flying(m)) <= sends[m]
  BY DEF CountInv
<1>1. Places(m) = {}
  BY DEF Init, Places, Accepted
<1>2. Flying(m) = {}
  BY DEF Init, Flying, InFlight
<1>. QED
  BY <1>1, <1>2, FS_EmptySet DEF Init

\* The broker itself duplicates nothing: whatever connections a publisher has
\* lost while their tasks were still decoding, a message reaches the router at
\* most as often as it has been sent.
THEOREM NoMoreThanSentAlways == Spec => []NoMoreThanSent
<1> DEFINE Inv == TypeInv /\ PhaseInv /\ PacketInv /\ HandshakeInv /\ AcceptInv /\ CountInv
<1>1. Init => Inv
  BY InitTypes, InitInvariants, InitCount
<1>2. Inv /\ [Next]_vars => Inv'
  BY StepTypes, StepPhase, StepPacket, StepHandshake, StepAccept, StepCount
<1>3. Inv => NoMoreThanSent
  <2> SUFFICES ASSUME TypeInv, CountInv, NEW m \in Msg
      PROVE  Cardinality(Places(m)) <= sends[m]
    BY DEF NoMoreThanSent
  <2>1. Accepted \in Seq(Msg) /\ Flying(m) \in SUBSET Conn
    BY ConcatProperties DEF Flying, Accepted, TypeInv, TypeOK
  <2>2. Cardinality(Places(m)) \in Nat /\ Cardinality(Flying(m)) \in Nat
    BY <2>1, CountsFinite DEF Places
  <2>. QED
    BY <2>2 DEF CountInv, TypeInv, TypeOK
<1>. QED
  BY <1>1, <1>2, <1>3, PTL DEF Spec

-----------------------------------------------------------------------------
(* The order of what has been accepted *)

\* Messages that reach the router before a later one does: those that are sent
\* again, or that are sent over one connection.
Reliable == {m \in Msg : m \in allowed /\ (qos[m] > 0 \/ client # "retry")}

\* Before a message was accepted for the first time, all earlier ones were.
AcceptedOrder ==
    \A k \in DOMAIN Accepted : \A m \in Reliable : m < Accepted[k] =>
        \E i \in DOMAIN Accepted :
            Accepted[i] = m /\ \A j \in 1 .. i : Accepted[j] # Accepted[k]

\* Before a PUBLISH is decoded, all earlier messages will have been accepted.
FlightOrder ==
    \A c \in Conn : \A k \in DOMAIN up[c] : \A m \in Reliable :
        up[c][k].type = "PUBLISH" /\ m < up[c][k].msg =>
            IsAccepted(m) \/ \E l \in 1 .. k - 1 : IsPublish(up[c][l], m)

\* Before the next message is sent, all earlier ones are on their way.
LinkOrder ==
    linked => \A m \in Reliable : phase[m] # "fresh" => IsAccepted(m) \/ InFlight(conn, m)

OrderInv == AcceptedOrder /\ FlightOrder /\ LinkOrder

\* Which messages are reliable never changes.
LEMMA ReliableConstant ==
  ASSUME [Next]_vars
  PROVE  Reliable' = Reliable /\ allowed' = allowed
BY DEF Reliable, Next, vars, peer, Connect, Receive, Leave, Lose, Submit, Process, Write,
       EndOfStream, Route

\* When a connection is made, a reliable message that has been sent has been
\* accepted or is sent again.
LEMMA SentAgain ==
  ASSUME TypeInv, PhaseInv, AcceptInv, Connect, NEW m \in Reliable, phase[m] # "fresh"
  PROVE  \/ IsAccepted(m)
         \/ phase[m] = "sent" /\ m \in Unanswered
<1>1. m \in Msg /\ m \in allowed /\ phase[m] \in {"sent", "received", "done", "refused"}
  BY DEF Reliable, TypeInv, TypeOK
<1>2. qos[m] > 0
  BY <1>1 DEF Connect, PhaseInv, Reliable
<1>. QED
  BY <1>1, <1>2 DEF AcceptInv, Unanswered

\* What is accepted next comes after what was accepted before it, by FlightOrder.
LEMMA AcceptedOrderStep ==
  ASSUME TypeInv, PacketInv, OrderInv, [Next]_vars
  PROVE  AcceptedOrder'
<1>1. Reliable' = Reliable
  BY ReliableConstant
<1>2. Accepted \in Seq(Msg) /\ Accepted' \in Seq(Msg)
  BY AcceptedStep
<1>3. CASE Accepted' = Accepted
  BY <1>1, <1>3 DEF OrderInv, AcceptedOrder
<1>4. ASSUME NEW c \in Conn, Process(c), Passes(Head(up[c])), Head(up[c]).msg \in Msg,
             Accepted' = Append(Accepted, Head(up[c]).msg)
      PROVE  AcceptedOrder'
  <2> DEFINE n == Head(up[c]).msg
             L == Len(Accepted)
  <2>1. /\ DOMAIN Accepted = 1 .. L /\ L \in Nat
        /\ DOMAIN Accepted' = 1 .. L + 1
        /\ \A i \in 1 .. L : Accepted'[i] = Accepted[i]
        /\ Accepted'[L + 1] = n
    BY <1>2, <1>4, AppendProperties, LenProperties
  <2>2. up[c] \in Seq(Packet) /\ up[c] # <<>>
    BY <1>4, UpType DEF TypeInv, Process
  <2>3. 1 \in DOMAIN up[c] /\ Head(up[c]) = up[c][1] /\ up[c][1].type = "PUBLISH"
    BY <1>4, <2>2, Tailed DEF Passes
  <2>4. \A m \in Reliable : m < n => IsAccepted(m)
    BY <2>3 DEF OrderInv, FlightOrder
  <2> HIDE DEF n, L
  <2>5. ASSUME NEW k \in 1 .. L + 1, NEW m \in Reliable, m < Accepted'[k]
        PROVE  \E i \in 1 .. L : Accepted[i] = m /\ \A j \in 1 .. i : Accepted[j] # Accepted'[k]
    <3>1. CASE \E h \in 1 .. L : Accepted[h] = Accepted'[k]
      <4>1. PICK h \in 1 .. L : Accepted[h] = Accepted'[k]
        BY <3>1
      <4>. QED
        BY <2>1, <2>5, <4>1 DEF OrderInv, AcceptedOrder
    <3>2. CASE ~(\E h \in 1 .. L : Accepted[h] = Accepted'[k])
      <4>1. k = L + 1
        BY <2>1, <3>2
      <4>2. IsAccepted(m)
        BY <2>1, <2>4, <2>5, <4>1
      <4>3. PICK i \in 1 .. L : Accepted[i] = m
        BY <2>1, <4>2 DEF IsAccepted
      <4>4. \A j \in 1 .. i : j \in 1 .. L
        BY <2>1
      <4>. QED
        BY <3>2, <4>3, <4>4
    <3>. QED
      BY <3>1, <3>2
  <2>6. ASSUME NEW k \in 1 .. L + 1, NEW m \in Reliable, m < Accepted'[k]
        PROVE  \E i \in 1 .. L + 1 :
                 Accepted'[i] = m /\ \A j \in 1 .. i : Accepted'[j] # Accepted'[k]
    <3>1. PICK i \in 1 .. L : Accepted[i] = m /\ \A j \in 1 .. i : Accepted[j] # Accepted'[k]
      BY <2>5, <2>6
    <3>2. i \in 1 .. L + 1 /\ \A j \in 1 .. i : j \in 1 .. L
      BY <2>1
    <3>. QED
      BY <2>1, <3>1, <3>2
  <2>. QED
    BY <1>1, <2>1, <2>6 DEF AcceptedOrder
<1>. QED
  BY <1>3, <1>4, AcceptedStep

\* While the client is linked, a reliable message that it has sent has been
\* accepted or is in the stream of this connection.
LEMMA LinkOrderStep ==
  ASSUME TypeInv, PhaseInv, PacketInv, AcceptInv, OrderInv, [Next]_vars
  PROVE  LinkOrder'
<1> SUFFICES ASSUME linked', NEW m \in Reliable, phase'[m] # "fresh"
             PROVE  IsAccepted(m)' \/ InFlight(conn, m)'
  BY ReliableConstant DEF LinkOrder, InFlight, IsAccepted
<1>0. m \in Msg /\ m \in allowed
  BY DEF Reliable
<1>1. IsAccepted(m) => IsAccepted(m)'
  BY <1>0, AcceptedGrows
<1>2. CASE Connect
  <2>1. phase[m] # "fresh" /\ conn' = conn + 1 /\ conn + 1 \in Conn
    BY <1>2, BoundAssumption DEF Connect, TypeInv, TypeOK, Conn
  <2>2. CASE phase[m] = "sent" /\ m \in Unanswered
    <3>1. PICK i \in 1 .. Len(Resend) : InOrder(Unanswered)[i] = m
      BY <2>2, ResendCorrect DEF TypeInv
    <3>2. Resend[i] = Publish(m, id[m]) /\ Resend \in Seq(Packet)
      BY <2>2, <3>1, ResendCorrect DEF TypeInv
    <3>3. up'[conn'] = Resend
      BY <1>2, <2>1 DEF Connect, TypeInv, TypeOK
    <3>4. i \in DOMAIN up'[conn'] /\ IsPublish(up'[conn'][i], m)
      BY <3>1, <3>2, <3>3, LenProperties DEF IsPublish, Publish
    <3>. QED
      BY <3>4 DEF InFlight, IsPublish
  <2>. QED
    BY <1>1, <1>2, <2>1, <2>2, SentAgain
<1>3. CASE Submit(m)
  <2>1. conn' = conn /\ conn \in Conn
    BY <1>3 DEF Submit, TypeInv, TypeOK, Unmade, Conn
  <2>2. PICK i \in PacketId : up'[conn] = Append(up[conn], Publish(m, i))
    <3>1. PICK i \in IF qos[m] = 0 THEN {0}
                     ELSE IF client = "retry" THEN LeastFreeId ELSE {NextPacketId} :
             up' = [up EXCEPT ![conn] = Append(@, Publish(m, i))]
      BY <1>3 DEF Submit
    <3>2. i \in PacketId
      BY <3>1, Identifiers, IdAssumption DEF TypeInv, TypeOK, PacketId
    <3>. QED
      BY <2>1, <3>1, <3>2 DEF TypeInv, TypeOK
  <2>3. Publish(m, i) \in Packet /\ up[conn] \in Seq(Packet)
    BY <1>0, <2>1 DEF Publish, Packet, TypeInv, TypeOK
  <2>4. /\ Len(up[conn]) + 1 \in DOMAIN up'[conn]
        /\ up'[conn][Len(up[conn]) + 1] = Publish(m, i)
    BY <2>2, <2>3, Appended
  <2>. QED
    BY <2>1, <2>4 DEF InFlight, IsPublish, Publish
<1>4. CASE ~Connect /\ ~Submit(m)
  <2>1. linked /\ conn' = conn /\ conn \in Conn
    <3>1. linked /\ conn' = conn
      BY <1>4 DEF Next, vars, peer, Receive, Leave, Lose, Submit, Process, Write, EndOfStream,
                  Route
    <3>. QED
      BY <3>1 DEF TypeInv, TypeOK, Unmade, Conn
  <2>2. phase[m] # "fresh"
    <3>1. CASE Receive
      BY <1>0, <3>1, ReceiveEffect DEF AnsweredBy
    <3>2. ASSUME NEW n \in Msg, Submit(n) PROVE phase[m] # "fresh"
      <4>1. n # m /\ phase'[m] = phase[m]
        BY <1>0, <1>4, <3>2 DEF Submit, TypeInv, TypeOK
      <4>. QED
        BY <4>1
    <3>3. CASE phase' = phase
      BY <3>3
    <3>. QED
      BY <1>4, <3>1, <3>2, <3>3
         DEF Next, vars, peer, Leave, Lose, Process, Write, EndOfStream, Route
  <2>3. CASE IsAccepted(m)
    BY <1>1, <2>3
  <2>4. CASE InFlight(conn, m)
    <3>1. PICK k \in DOMAIN up[conn] : IsPublish(up[conn][k], m)
      BY <2>4 DEF InFlight
    <3>2. up[conn] \in Seq(Packet) /\ Len(up[conn]) \in Nat /\ DOMAIN up[conn] = 1 .. Len(up[conn])
      BY <2>1, UpType DEF TypeInv
    <3>3. CASE up'[conn] = up[conn]
      BY <2>1, <3>1, <3>3 DEF InFlight, IsPublish
    <3>4. ASSUME NEW p \in Packet, up'[conn] = Append(up[conn], p) PROVE InFlight(conn, m)'
      <4>1. k \in DOMAIN up'[conn] /\ up'[conn][k] = up[conn][k]
        BY <3>1, <3>2, <3>4, Appended
      <4>. QED
        BY <2>1, <3>1, <4>1 DEF InFlight, IsPublish
    <3>5. CASE Process(conn) /\ up[conn] # <<>> /\ up'[conn] = Tail(up[conn])
      <4>1. /\ DOMAIN up'[conn] = 1 .. Len(up[conn]) - 1
            /\ \A i \in DOMAIN up'[conn] : up'[conn][i] = up[conn][i + 1]
            /\ Head(up[conn]) = up[conn][1]
        BY <3>2, <3>5, Tailed
      <4>2. CASE k = 1
        BY <1>0, <2>1, <3>1, <3>5, <4>1, <4>2, DecodedAccepted DEF IsPublish
      <4>3. CASE k # 1
        <5>1. k - 1 \in DOMAIN up'[conn] /\ (k - 1) + 1 = k
          BY <3>1, <3>2, <4>1, <4>3
        <5>2. IsPublish(up'[conn][k - 1], m)
          BY <3>1, <4>1, <5>1
        <5>. QED
          BY <2>1, <5>1, <5>2 DEF InFlight, IsPublish
      <4>. QED
        BY <4>2, <4>3
    <3>6. \A n \in Msg, i \in PacketId : Publish(n, i) \in Packet
      BY DEF Publish, Packet
    <3>7. ~Lose
      BY DEF Lose
    <3>. QED
      BY <1>4, <2>1, <3>3, <3>4, <3>5, <3>6, <3>7, StepUp
  <2>. QED
    BY <2>1, <2>2, <2>3, <2>4 DEF OrderInv, LinkOrder
<1>. QED
  BY <1>2, <1>3, <1>4

\* A reliable message is never behind a later one in a stream unless it has been
\* accepted.
LEMMA FlightOrderStep ==
  ASSUME TypeInv, PhaseInv, PacketInv, AcceptInv, OrderInv, [Next]_vars
  PROVE  FlightOrder'
<1> SUFFICES ASSUME NEW c \in Conn, NEW k \in DOMAIN up'[c], NEW m \in Reliable,
                    up'[c][k].type = "PUBLISH", m < up'[c][k].msg
             PROVE  IsAccepted(m)' \/ \E l \in 1 .. k - 1 : IsPublish(up'[c][l], m)
  BY ReliableConstant DEF FlightOrder, IsPublish, IsAccepted
<1>0. m \in Msg /\ m \in allowed
  BY DEF Reliable
<1>1. IsAccepted(m) => IsAccepted(m)'
  BY <1>0, AcceptedGrows
<1>2. up[c] \in Seq(Packet) /\ Len(up[c]) \in Nat /\ DOMAIN up[c] = 1 .. Len(up[c])
  BY UpType DEF TypeInv
<1>3. ASSUME NEW h \in DOMAIN up[c], up[c][h] = up'[c][k]
      PROVE  IsAccepted(m)' \/ \E l \in 1 .. h - 1 : IsPublish(up[c][l], m)
  BY <1>1, <1>3 DEF OrderInv, FlightOrder
<1>4. ASSUME k \in DOMAIN up[c], \A l \in 1 .. k : up'[c][l] = up[c][l]
      PROVE  IsAccepted(m)' \/ \E l \in 1 .. k - 1 : IsPublish(up'[c][l], m)
  <2>1. k \in 1 .. k /\ \A l \in 1 .. k - 1 : l \in 1 .. k
    BY <1>2, <1>4
  <2>. QED
    BY <1>3, <1>4, <2>1
<1>5. CASE up'[c] = up[c]
  BY <1>4, <1>5
<1>6. ASSUME NEW p \in Packet, up'[c] = Append(up[c], p), k \in DOMAIN up[c]
      PROVE  IsAccepted(m)' \/ \E l \in 1 .. k - 1 : IsPublish(up'[c][l], m)
  <2>1. \A l \in DOMAIN up[c] : up'[c][l] = up[c][l]
    BY <1>2, <1>6, Appended
  <2>2. \A l \in 1 .. k : l \in DOMAIN up[c]
    BY <1>2, <1>6
  <2>. QED
    BY <1>4, <1>6, <2>1, <2>2
<1>7. ASSUME NEW p \in Packet, up'[c] = Append(up[c], p), k \notin DOMAIN up[c]
      PROVE  k = Len(up[c]) + 1 /\ up'[c][k] = p /\ \A l \in 1 .. k - 1 : up'[c][l] = up[c][l]
  <2>1. /\ DOMAIN up'[c] = 1 .. Len(up[c]) + 1
        /\ \A l \in DOMAIN up[c] : up'[c][l] = up[c][l]
        /\ up'[c][Len(up[c]) + 1] = p
    BY <1>2, <1>7, Appended
  <2>. QED
    BY <1>2, <1>7, <2>1
<1>8. ASSUME NEW n \in Msg, NEW i \in PacketId, Submit(n), c = conn,
             up'[c] = Append(up[c], Publish(n, i))
      PROVE  IsAccepted(m)' \/ \E l \in 1 .. k - 1 : IsPublish(up'[c][l], m)
  <2>1. Publish(n, i) \in Packet /\ Publish(n, i).msg = n
    BY DEF Publish, Packet
  <2>2. CASE k \notin DOMAIN up[c]
    <3>1. /\ k = Len(up[c]) + 1 /\ up'[c][k] = Publish(n, i)
          /\ \A l \in 1 .. k - 1 : up'[c][l] = up[c][l]
      BY <1>7, <1>8, <2>1, <2>2
    <3>2. m < n /\ m \in 1 .. n - 1
      BY <1>0, <2>1, <3>1, BoundAssumption DEF Msg
    <3>3. linked /\ phase[m] # "fresh"
      BY <1>8, <3>2 DEF Submit
    <3>4. CASE InFlight(conn, m)
      <4>1. PICK l \in DOMAIN up[c] : IsPublish(up[c][l], m)
        BY <1>8, <3>4 DEF InFlight
      <4>2. l \in 1 .. k - 1
        BY <1>2, <3>1
      <4>. QED
        BY <3>1, <4>1, <4>2
    <3>. QED
      BY <1>1, <3>3, <3>4 DEF OrderInv, LinkOrder
  <2>. QED
    BY <1>6, <1>8, <2>1, <2>2
<1>9. ASSUME NEW p \in Packet, p.type # "PUBLISH", up'[c] = Append(up[c], p)
      PROVE  IsAccepted(m)' \/ \E l \in 1 .. k - 1 : IsPublish(up'[c][l], m)
  BY <1>6, <1>7, <1>9
<1>10. ASSUME Process(c), up[c] # <<>>, up'[c] = Tail(up[c])
       PROVE  IsAccepted(m)' \/ \E l \in 1 .. k - 1 : IsPublish(up'[c][l], m)
  <2>1. /\ DOMAIN up'[c] = 1 .. Len(up[c]) - 1
        /\ \A i \in DOMAIN up'[c] : i + 1 \in DOMAIN up[c] /\ up'[c][i] = up[c][i + 1]
        /\ Head(up[c]) = up[c][1]
    BY <1>2, <1>10, Tailed
  <2>2. k + 1 \in DOMAIN up[c] /\ up[c][k + 1] = up'[c][k] /\ k \in Int /\ (k + 1) - 1 = k
    BY <1>2, <2>1
  <2>3. CASE \E l \in 1 .. k : IsPublish(up[c][l], m)
    <3>1. PICK l \in 1 .. k : IsPublish(up[c][l], m)
      BY <2>3
    <3>2. CASE l = 1
      BY <1>0, <1>10, <2>1, <3>1, <3>2, DecodedAccepted DEF IsPublish
    <3>3. CASE l # 1
      <4>1. l - 1 \in 1 .. k - 1 /\ l - 1 \in DOMAIN up'[c] /\ (l - 1) + 1 = l
        BY <1>2, <2>1, <2>2, <3>3
      <4>2. up'[c][l - 1] = up[c][l]
        BY <2>1, <4>1
      <4>. QED
        BY <3>1, <4>1, <4>2
    <3>. QED
      BY <3>2, <3>3
  <2>. QED
    BY <1>3, <2>2, <2>3
<1>11. ASSUME NEW n \in 0 .. Len(up[c]), up'[c] = SubSeq(up[c], 1, n)
       PROVE  IsAccepted(m)' \/ \E l \in 1 .. k - 1 : IsPublish(up'[c][l], m)
  <2>1. /\ DOMAIN up'[c] = 1 .. n /\ 1 .. n \subseteq DOMAIN up[c]
        /\ \A i \in 1 .. n : up'[c][i] = up[c][i]
    BY <1>2, <1>11, Cut
  <2>2. k \in DOMAIN up[c] /\ \A l \in 1 .. k : up'[c][l] = up[c][l]
    BY <1>2, <2>1
  <2>. QED
    BY <1>4, <2>2
<1>12. ASSUME Connect, up'[c] = Resend
       PROVE  IsAccepted(m)' \/ \E l \in 1 .. k - 1 : IsPublish(up'[c][l], m)
  <2> DEFINE s == InOrder(Unanswered)
  <2>1. /\ Resend \in Seq(Packet)
        /\ \A i \in 1 .. Len(Resend) :
             /\ s[i] \in Unanswered
             /\ Resend[i] = IF phase[s[i]] = "sent" THEN Publish(s[i], id[s[i]])
                            ELSE PubRel(id[s[i]])
        /\ \A i, j \in 1 .. Len(Resend) : i < j => s[i] < s[j]
        /\ \A n \in Unanswered : \E i \in 1 .. Len(Resend) : s[i] = n
    BY ResendCorrect DEF TypeInv
  <2>2. k \in 1 .. Len(Resend) /\ Len(Resend) \in Nat
    BY <1>12, <2>1, LenProperties
  <2> HIDE DEF s
  <2>3. s[k] \in Msg /\ phase[s[k]] \in {"sent", "received"} /\ m < s[k]
    <3>1. s[k] \in Msg /\ phase[s[k]] \in {"sent", "received"}
      BY <2>1, <2>2 DEF Unanswered
    <3>2. phase[s[k]] # "sent" => Resend[k] = PubRel(id[s[k]])
      BY <2>1, <2>2
    <3>3. PubRel(id[s[k]]).type = "PUBREL" /\ Publish(s[k], id[s[k]]).msg = s[k]
      BY DEF PubRel, Publish
    <3>4. Resend[k] = Publish(s[k], id[s[k]])
      BY <1>12, <2>1, <2>2, <3>2, <3>3
    <3>. QED
      BY <1>12, <3>1, <3>3, <3>4
  <2>4. phase[m] # "fresh"
    BY <1>0, <2>3 DEF PhaseInv
  <2>5. CASE phase[m] = "sent" /\ m \in Unanswered
    <3>1. PICK l \in 1 .. Len(Resend) : s[l] = m
      BY <2>1, <2>5
    <3>2. l < k
      <4>1. m \in Int /\ s[k] \in Int
        BY <1>0, <2>3, BoundAssumption DEF Msg
      <4>. QED
        BY <2>1, <2>2, <2>3, <3>1, <4>1
    <3>3. IsPublish(up'[c][l], m)
      <4>1. up'[c][l] = Publish(m, id[m])
        BY <1>12, <2>1, <2>5, <3>1
      <4>. QED
        BY <4>1 DEF IsPublish, Publish
    <3>. QED
      BY <2>2, <3>2, <3>3
  <2>. QED
    BY <1>1, <1>12, <2>4, <2>5, SentAgain
<1>. QED
  BY <1>5, <1>8, <1>9, <1>10, <1>11, <1>12, StepUp

\* What comes before a message in the order of sending has been routed before
\* it: by the order of what has been accepted, of which the routed messages are
\* the first.
LEMMA RoutedInOrder ==
  ASSUME TypeInv, AcceptedOrder
  PROVE  FirstInOrder
<1> SUFFICES ASSUME NEW n \in ToSet(routed), NEW m \in allowed, m < n,
                    qos[m] > 0 \/ client # "retry"
             PROVE  \E i \in DOMAIN routed :
                      routed[i] = m /\ \A j \in 1 .. i : routed[j] # n
  BY DEF FirstInOrder
<1>1. routed \in Seq(Msg) /\ channel \in Seq(Msg) /\ m \in Reliable
  BY DEF TypeInv, TypeOK, Reliable
<1>2. /\ Len(routed) \in Nat /\ Len(channel) \in Nat /\ DOMAIN routed = 1 .. Len(routed)
      /\ DOMAIN Accepted = 1 .. Len(routed) + Len(channel)
      /\ \A i \in DOMAIN routed : Accepted[i] = routed[i]
  BY <1>1, LenProperties, ConcatProperties DEF Accepted
<1>3. PICK k \in DOMAIN routed : routed[k] = n
  BY DEF ToSet
<1>4. k \in DOMAIN Accepted /\ Accepted[k] = n
  BY <1>2, <1>3
<1>5. PICK i \in DOMAIN Accepted : Accepted[i] = m /\ \A j \in 1 .. i : Accepted[j] # n
  BY <1>1, <1>4 DEF AcceptedOrder
<1>6. i < k /\ i \in DOMAIN routed /\ \A j \in 1 .. i : j \in DOMAIN routed
  BY <1>2, <1>3, <1>4, <1>5
<1>. QED
  BY <1>2, <1>5, <1>6

\* Nothing is out of order at first.
LEMMA InitOrder == Init => OrderInv
<1> SUFFICES ASSUME Init PROVE OrderInv
  OBVIOUS
<1>1. DOMAIN Accepted = {}
  BY DEF Init, Accepted
<1>2. \A c \in Conn : DOMAIN up[c] = {}
  BY DEF Init
<1>3. ~linked
  BY DEF Init
<1>. QED
  BY <1>1, <1>2, <1>3 DEF OrderInv, AcceptedOrder, FlightOrder, LinkOrder

\* Messages are routed for the first time in the order of their sending, and
\* none is skipped, though the tasks of lost connections go on decoding what
\* they hold while the next connection is served.
THEOREM FirstInOrderAlways == Spec => []FirstInOrder
<1> DEFINE Inv == TypeInv /\ PhaseInv /\ PacketInv /\ HandshakeInv /\ AcceptInv /\ OrderInv
<1>1. Init => Inv
  BY InitTypes, InitInvariants, InitOrder
<1>2. Inv /\ [Next]_vars => Inv'
  BY StepTypes, StepPhase, StepPacket, StepHandshake, StepAccept, AcceptedOrderStep,
     FlightOrderStep, LinkOrderStep DEF OrderInv
<1>3. Inv => FirstInOrder
  BY RoutedInOrder DEF OrderInv
<1>. QED
  BY <1>1, <1>2, <1>3, PTL DEF Spec
=============================================================================
