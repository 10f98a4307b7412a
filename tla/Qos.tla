--------------------------------- MODULE Qos ---------------------------------
(***************************************************************************)
(* The QoS handshakes of one publisher.  Its messages go to the broker     *)
(* over one connection after the other; a connection's task passes each    *)
(* PUBLISH to the router and answers by QoS.  The broker remembers no      *)
(* packet identifiers, so what a publisher sends again is routed again,    *)
(* and a task whose peer has gone works through what it had received while *)
(* the next connection is served.                                          *)
(*                                                                         *)
(* The publisher is the command-line client (mqtt-client/src/main.rs): its *)
(* command pub or its shell, which never send again nor answer a PUBREC;   *)
(* or a client that keeps its session and sends again, when it reconnects, *)
(* what has not been answered, as MQTT has it ("retry", not part of this   *)
(* repository).  CONNACK says that no session is present, always; that     *)
(* client sends again all the same.                                        *)
(***************************************************************************)
EXTENDS Integers, Sequences, SequencesExt, FiniteSets

CONSTANTS
    Client,     \* kinds of publishers: a subset of {"pub", "shell", "retry"}
    IdLimit,    \* packet identifiers are below it (65536)
    MaxMsg,     \* bound: messages a publisher sends
    MaxDenied,  \* bound: messages among them that are not allowed
    MaxConn     \* bound: connections it makes

ASSUME ClientAssumption == Client \subseteq {"pub", "shell", "retry"}
ASSUME IdAssumption == IdLimit \in Nat \ {0, 1}
ASSUME BoundAssumption == MaxMsg \in Nat /\ MaxConn \in Nat \ {0}

\* A message is its number in the order in which they are sent.
Msg == 1 .. MaxMsg
Conn == 1 .. MaxConn
PacketId == 0 .. IdLimit - 1

VARIABLES
    client,    \* the kind of publisher
    version,   \* its protocol version
    qos,       \* the QoS of its messages
    allowed,   \* the messages whose topics authorize_publish allows
    phase,     \* what the publisher knows of each message
    id,        \* the identifier of each message it has sent
    pid,       \* PID, the client's counter
    conn,      \* the publisher's latest connection
    linked,    \* which it believes to be up
    up,        \* packets received and not yet processed, by connection
    down,      \* answers on their way, on the latest connection
    task,      \* each connection's task in the broker
    reply,     \* the answer it is about to write
    channel,   \* Publish messages for the router
    routed,    \* those it has taken
    sends      \* history: how often each message has been sent

peer == <<client, version, qos, allowed, phase, id, pid, conn, linked, sends>>
broker == <<task, reply, channel, routed>>
vars == <<peer, up, down, broker>>

Packet == [type : {"PUBLISH", "PUBREL", "DISCONNECT"}, id : PacketId, msg : Msg \union {0}]
Answer == [type : {"PUBACK", "PUBREC", "REFUSED", "PUBCOMP"}, id : PacketId]
NoAnswer == [type |-> "none", id |-> 0]

\* Every state is of its kind; a message that was sent has an identifier when
\* its QoS asks for one.
TypeOK ==
    /\ client \in Client /\ version \in {"v3", "v5"}
    /\ qos \in [Msg -> 0 .. 2] /\ allowed \subseteq Msg
    /\ phase \in [Msg -> {"fresh", "sent", "received", "done", "refused"}]
    /\ id \in [Msg -> PacketId] /\ pid \in PacketId
    /\ conn \in 0 .. MaxConn /\ linked \in BOOLEAN
    /\ up \in [Conn -> Seq(Packet)] /\ down \in Seq(Answer)
    /\ task \in [Conn -> {"none", "read", "write", "ended"}]
    /\ reply \in [Conn -> Answer \union {NoAnswer}]
    /\ \A c \in Conn : task[c] = "write" <=> reply[c] # NoAnswer
    /\ channel \in Seq(Msg) /\ routed \in Seq(Msg)
    /\ sends \in [Msg -> Nat]
    /\ \A m \in Msg : phase[m] = "sent" /\ qos[m] > 0 => id[m] # 0

Init ==
    /\ client \in Client
    /\ version \in IF client = "retry" THEN {"v3", "v5"} ELSE {"v3"}
    /\ qos \in [Msg -> 0 .. 2]
    /\ allowed \in {s \in SUBSET Msg : Cardinality(Msg \ s) <= MaxDenied}
    /\ phase = [m \in Msg |-> "fresh"] /\ id = [m \in Msg |-> 0] /\ pid = 1
    /\ conn = 0 /\ linked = FALSE
    /\ up = [c \in Conn |-> <<>>] /\ down = <<>>
    /\ task = [c \in Conn |-> "none"] /\ reply = [c \in Conn |-> NoAnswer]
    /\ channel = <<>> /\ routed = <<>>
    /\ sends = [m \in Msg |-> 0]

-----------------------------------------------------------------------------
(* The publisher *)

Publish(m, i) == [type |-> "PUBLISH", id |-> i, msg |-> m]
PubRel(i) == [type |-> "PUBREL", id |-> i, msg |-> 0]
Goodbye == [type |-> "DISCONNECT", id |-> 0, msg |-> 0]

\* Mutant: 0 is used after the counter has wrapped.
NextPacketIdRaw == pid

\* next_packet_id: the counter wraps, and 0 is passed over.
NextPacketId == IF pid = 0 THEN 1 ELSE pid

\* Identifiers that a publisher which awaits its answers may use.  It takes the
\* least, so that identifiers are used again as soon as they can be.
FreeIds == 1 .. IdLimit - 1 \ {id[m] : m \in {n \in Msg : phase[n] \in {"sent", "received"}}}
LeastFreeId == {i \in FreeIds : \A j \in FreeIds : i <= j}

\* What has not been answered is sent again, in the order of its first sending.
Unanswered == {m \in Msg : phase[m] \in {"sent", "received"} /\ qos[m] > 0}
InOrder(set) == CHOOSE s \in [1 .. Cardinality(set) -> set] :
                    \A i, j \in DOMAIN s : i < j => s[i] < s[j]
Resend == [i \in 1 .. Cardinality(Unanswered) |->
             LET m == InOrder(Unanswered)[i]
             IN  IF phase[m] = "sent" THEN Publish(m, id[m]) ELSE PubRel(id[m])]

\* A connection is made and its CONNECT accepted.  The command-line client
\* makes one, a client that retries another one when it has lost the last.
Connect ==
    /\ ~linked /\ conn < MaxConn
    /\ client = "retry" \/ conn = 0
    /\ conn' = conn + 1 /\ linked' = TRUE
    /\ up' = [up EXCEPT ![conn + 1] = Resend]
    /\ down' = <<>>
    /\ task' = [task EXCEPT ![conn + 1] = "read"]
    /\ sends' = [m \in Msg |->
                   sends[m] + IF qos[m] > 0 /\ phase[m] = "sent" THEN 1 ELSE 0]
    /\ UNCHANGED <<client, version, qos, allowed, phase, id, pid, reply, channel, routed>>

\* The next message is sent; the command pub sends one.  Nothing is awaited of
\* a message of QoS 0.
Submit(m) ==
    /\ linked /\ phase[m] = "fresh"
    /\ \A n \in 1 .. m - 1 : phase[n] # "fresh"
    /\ client = "pub" => m = 1
    /\ \E i \in IF qos[m] = 0 THEN {0}
                ELSE IF client = "retry" THEN LeastFreeId ELSE {NextPacketId} :
         /\ id' = [id EXCEPT ![m] = i]
         /\ up' = [up EXCEPT ![conn] = Append(@, Publish(m, i))]
    /\ pid' = IF client = "retry" \/ qos[m] = 0 THEN pid ELSE (NextPacketId + 1) % IdLimit
    /\ phase' = [phase EXCEPT ![m] = IF qos[m] = 0 THEN "done" ELSE "sent"]
    /\ sends' = [sends EXCEPT ![m] = 1]
    /\ UNCHANGED <<client, version, qos, allowed, conn, linked, down, broker>>

\* The message an answer is about: the one that is using its identifier.
AnsweredBy(a) == {m \in Msg : id[m] = a.id /\ phase[m] \in {"sent", "received"}}

\* An answer arrives.  The shell only drops it, the command pub reads one
\* when its QoS is 1; a client that retries follows the protocol, and answers
\* PUBREC.
Receive ==
    /\ linked /\ down # <<>>
    /\ client = "pub" => qos[1] = 1
    /\ LET a == Head(down)
       IN  /\ phase' = IF client = "shell" THEN phase
                       ELSE [m \in Msg |->
                               IF m \notin AnsweredBy(a) THEN phase[m]
                               ELSE CASE a.type = "REFUSED" -> "refused"
                                      [] a.type = "PUBREC" -> "received"
                                      [] OTHER -> "done"]
           /\ up' = IF client = "retry" /\ a.type = "PUBREC"
                    THEN [up EXCEPT ![conn] = Append(@, PubRel(a.id))] ELSE up
    /\ down' = Tail(down)
    /\ UNCHANGED <<client, version, qos, allowed, id, pid, conn, linked, sends, broker>>

\* The command-line client says goodbye and exits: the shell at any time, pub
\* when it has sent its message and, for QoS 1, read an answer.
Leave ==
    /\ linked /\ client # "retry"
    /\ client = "pub" => phase[1] = IF qos[1] = 2 THEN "sent" ELSE "done"
    /\ up' = [up EXCEPT ![conn] = Append(@, Goodbye)]
    /\ linked' = FALSE
    /\ UNCHANGED <<client, version, qos, allowed, phase, id, pid, conn, sends, down, broker>>

\* The connection breaks: the last packets sent may never arrive, and answers
\* are lost.  A client that retries does not lose its last connection.
Lose ==
    /\ linked
    /\ client = "retry" => conn < MaxConn
    /\ linked' = FALSE
    /\ \E n \in 0 .. Len(up[conn]) : up' = [up EXCEPT ![conn] = SubSeq(@, 1, n)]
    /\ down' = <<>>
    /\ UNCHANGED <<client, version, qos, allowed, phase, id, pid, conn, sends, broker>>

-----------------------------------------------------------------------------
(* The tasks of its connections, and the router *)

Answered(type, i) == [type |-> type, id |-> i]

\* Mutant: a denied message is answered like any other.
ReplyToBlind(p) ==
    CASE p.type = "PUBREL" -> Answered("PUBCOMP", p.id)
      [] p.type = "PUBLISH" /\ qos[p.msg] > 0 ->
            Answered(IF qos[p.msg] = 1 THEN "PUBACK" ELSE "PUBREC", p.id)
      [] OTHER -> NoAnswer

\* Mutant: PUBREL is taken like PUBCOMP, which needs no answer.
ReplyToNoPubComp(p) ==
    IF p.type # "PUBLISH" \/ qos[p.msg] = 0 THEN NoAnswer
    ELSE IF p.msg \notin allowed
         THEN IF version = "v5" THEN Answered("REFUSED", p.id) ELSE NoAnswer
         ELSE Answered(IF qos[p.msg] = 1 THEN "PUBACK" ELSE "PUBREC", p.id)

\* What process_packet answers.  Version 3.1.1 has no word for a message that
\* is not allowed: it is dropped in silence.
ReplyTo(p) ==
    CASE p.type = "PUBREL" -> Answered("PUBCOMP", p.id)
      [] p.type = "PUBLISH" /\ qos[p.msg] > 0 /\ p.msg \in allowed ->
            Answered(IF qos[p.msg] = 1 THEN "PUBACK" ELSE "PUBREC", p.id)
      [] p.type = "PUBLISH" /\ qos[p.msg] > 0 /\ p.msg \notin allowed /\ version = "v5" ->
            Answered("REFUSED", p.id)
      [] OTHER -> NoAnswer

\* A task decodes the next packet, passes an allowed PUBLISH to the router and
\* forms its answer.
Process(c) ==
    /\ task[c] = "read" /\ up[c] # <<>>
    /\ LET p == Head(up[c])
       IN  /\ channel' = IF p.type = "PUBLISH" /\ p.msg \in allowed
                         THEN Append(channel, p.msg) ELSE channel
           /\ reply' = [reply EXCEPT ![c] = ReplyTo(p)]
           /\ task' = [task EXCEPT ![c] = IF ReplyTo(p) = NoAnswer THEN "read" ELSE "write"]
    /\ up' = [up EXCEPT ![c] = Tail(@)]
    /\ UNCHANGED <<peer, down, routed>>

\* The answer is written.  If the peer has gone that may fail, which ends the
\* task, or not yet, and the answer is lost.
Write(c) ==
    /\ task[c] = "write"
    /\ reply' = [reply EXCEPT ![c] = NoAnswer]
    /\ \/ /\ c = conn /\ linked
          /\ down' = Append(down, reply[c])
          /\ task' = [task EXCEPT ![c] = "read"]
       \/ /\ ~(c = conn /\ linked)
          /\ task' \in {[task EXCEPT ![c] = s] : s \in {"read", "ended"}}
          /\ UNCHANGED down
    /\ UNCHANGED <<peer, up, channel, routed>>

\* A task that has processed all its peer has left reads the end of the stream.
EndOfStream(c) ==
    /\ task[c] = "read" /\ up[c] = <<>> /\ ~(c = conn /\ linked)
    /\ task' = [task EXCEPT ![c] = "ended"]
    /\ UNCHANGED <<peer, up, down, reply, channel, routed>>

\* Mutant: the router leaves what it forwards in the channel.
RouteKeeps ==
    /\ channel # <<>>
    /\ routed' = Append(routed, Head(channel))
    /\ UNCHANGED <<peer, up, down, task, reply, channel>>

\* Mutant: the router takes the newest message.
RouteNewest ==
    /\ channel # <<>>
    /\ routed' = Append(routed, Last(channel))
    /\ channel' = Front(channel)
    /\ UNCHANGED <<peer, up, down, task, reply>>

\* The router takes the next message and forwards it.
Route ==
    /\ channel # <<>>
    /\ routed' = Append(routed, Head(channel))
    /\ channel' = Tail(channel)
    /\ UNCHANGED <<peer, up, down, task, reply>>

Next ==
    \/ Connect \/ Receive \/ Leave \/ Lose
    \/ \E m \in Msg : Submit(m)
    \/ \E c \in Conn : Process(c) \/ Write(c) \/ EndOfStream(c)
    \/ Route

Spec == Init /\ [][Next]_vars

\* Tasks and the router run when they can; a client that retries reads its
\* answers and reconnects.  Nothing is assumed of the end of a lost connection.
Fairness ==
    /\ \A c \in Conn : WF_vars(Process(c)) /\ WF_vars(Write(c))
    /\ WF_vars(Route)
    /\ WF_vars(client = "retry" /\ Receive)
    /\ WF_vars(client = "retry" /\ Connect)

FairSpec == Spec /\ Fairness

-----------------------------------------------------------------------------
(* Properties *)

\* What has been passed to the router, in order.
Accepted == routed \o channel
Places(m) == {i \in DOMAIN Accepted : Accepted[i] = m}

\* An answer is never given in advance nor to the wrong message: what a
\* publisher knows to be received has been passed to the router, over whatever
\* connection, and what is refused has not.
AcknowledgedIsAccepted ==
    \A m \in Msg :
        /\ qos[m] > 0 /\ phase[m] \in {"received", "done"} => Places(m) # {}
        /\ phase[m] = "refused" => Places(m) = {}

\* Messages are routed for the first time in the order of their sending, and
\* none is skipped, though older connections are still being read: what comes
\* before a routed message has been routed before, unless it was of QoS 0 and
\* may have been lost or overtaken by a newer connection.
FirstInOrder ==
    \A n \in ToSet(routed), m \in allowed :
        m < n /\ (qos[m] > 0 \/ client # "retry") =>
            \E i \in DOMAIN routed :
                routed[i] = m /\ \A j \in 1 .. i : routed[j] # n

\* The broker itself duplicates nothing: a message is passed to the router at
\* most as often as the publisher has sent it, hence once for QoS 0.
NoMoreThanSent == \A m \in Msg : Cardinality(Places(m)) <= sends[m]

\* However often connections are lost, a publisher that sends again gets every
\* message through, QoS 2 with its second handshake, and the router takes it;
\* except for what version 3.1.1 drops in silence.
CompletedInTheEnd ==
    \A m \in Msg :
        client = "retry" /\ phase[m] = "sent" /\ (m \in allowed \/ version = "v5") ~>
            IF m \in allowed THEN phase[m] = "done" /\ m \in ToSet(routed)
            ELSE phase[m] = "refused"
=============================================================================
