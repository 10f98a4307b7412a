------------------------------ MODULE Framing ------------------------------
(***************************************************************************)
(* From a byte stream to packets.  The bytes a peer sends reach the broker *)
(* in pieces of any size; a connection appends each piece to a buffer and  *)
(* decodes packets from its front: first a CONNECT, by                     *)
(* decode_first_packet, then the rest, by decode_packet of the protocol    *)
(* version (mqtt-core/src/v3/codec.rs and v5/codec.rs, which frame in the  *)
(* same way).  A connection over TCP reads once for its CONNECT, one over  *)
(* a WebSocket until the CONNECT is complete.                              *)
(*                                                                         *)
(* A byte is a number below 2 * Base, and its high bit says that it is at  *)
(* least Base (128 in the code).  The first byte of a packet is its kind,  *)
(* and its body is zeros, a byte that is no kind: peers send well-formed   *)
(* packets, and the decoding of their bodies is not modelled, nor is the   *)
(* error of a CONNECT of version 5 over TCP (Broker has that one).         *)
(***************************************************************************)
EXTENDS RemainingLength

CONSTANTS
    Via,              \* transports: a subset of {"tcp", "ws"}
    Kind,             \* kinds of packets, CONNECT among them
    ConnectLength,    \* remaining lengths of the CONNECTs peers send
    OtherLength,      \* and of their other packets
    MaxPacketSize,    \* MAX_PACKET_SIZE
    MaxPackets        \* bound: packets a peer sends

CONNECT == 1

ASSUME KindAssumption == CONNECT \in Kind /\ Kind \subseteq 1 .. 2 * Base - 1
ASSUME LimitAssumption == MaxPacketSize \in Nat
\* Only lengths that have an encoding are sent.
ASSUME LengthAssumption ==
    /\ ConnectLength \union OtherLength \subseteq Nat
    /\ \A n \in ConnectLength \union OtherLength : Len(EncodeLength(n)) <= MaxLengthBytes

VARIABLES
    via,      \* the transport of the connection
    sent,     \* the packets the peer has sent
    stream,   \* bytes on their way
    eof,      \* the peer has closed its side
    buf,      \* framed_buf
    decoded,  \* packets the connection has decoded
    phase     \* "connect", "first", "open", "closed" or "failed"

streamVars == <<via, sent, stream, eof, buf, decoded, phase>>

Packet == [kind : Kind, len : ConnectLength \union OtherLength]

StreamInit ==
    /\ via \in Via
    /\ sent = <<>> /\ stream = <<>> /\ eof = FALSE
    /\ buf = <<>> /\ decoded = <<>> /\ phase = "connect"

-----------------------------------------------------------------------------
(* Frames *)

FrameOf(p) == <<p.kind>> \o EncodeLength(p.len) \o [i \in 1 .. p.len |-> 0]

\* total_len, of a buffer that has a length.
Total(s) == LET d == DecodeLength(Tail(s)) IN 1 + d.bytes + d.value

\* decode_packet returns an error: the bytes of a length that have not all
\* arrived are an error like those of a length that is too long.
Malformed(s) ==
    /\ s # <<>>
    /\ \/ s[1] \notin Kind
       \/ /\ Len(s) >= 2
          /\ HasLength(Tail(s)) => Total(s) > MaxPacketSize

\* Mutant: asks for one byte more than the packet has.
CompleteLate(s) == Len(s) >= 2 /\ ~Malformed(s) /\ Len(s) > Total(s)

\* decode_packet returns a packet.
Complete(s) == Len(s) >= 2 /\ ~Malformed(s) /\ Len(s) >= Total(s)

\* decode_first_packet returns an error: it looks at the length first, and at
\* the rest when all of the packet is there.
FirstMalformed(s) ==
    /\ Len(s) >= 2
    /\ HasLength(Tail(s)) => Len(s) >= Total(s) /\ Malformed(s)

\* decode_first_packet returns None.
FirstIncomplete(s) == Len(s) < 2 \/ (HasLength(Tail(s)) /\ Len(s) < Total(s))

\* Mutant: the bytes of the length are not counted.
ConsumeShort ==
    /\ decoded' = Append(decoded, [kind |-> buf[1], len |-> DecodeLength(Tail(buf)).value])
    /\ buf' = SubSeq(buf, DecodeLength(Tail(buf)).value + 2, Len(buf))

\* The packet at the front of the buffer is taken out of it.
Consume ==
    /\ decoded' = Append(decoded, [kind |-> buf[1], len |-> DecodeLength(Tail(buf)).value])
    /\ buf' = SubSeq(buf, Total(buf) + 1, Len(buf))

-----------------------------------------------------------------------------
(* The peer *)

\* A CONNECT and then other packets, without waiting for answers.
SendPacket(p) ==
    /\ ~eof /\ Len(sent) < MaxPackets
    /\ (sent = <<>>) = (p.kind = CONNECT)
    /\ p.len \in IF p.kind = CONNECT THEN ConnectLength ELSE OtherLength
    /\ sent' = Append(sent, p)
    /\ stream' = stream \o FrameOf(p)
    /\ UNCHANGED <<via, eof, buf, decoded, phase>>

Finish ==
    /\ ~eof
    /\ eof' = TRUE
    /\ UNCHANGED <<via, sent, stream, buf, decoded, phase>>

-----------------------------------------------------------------------------
(* The connection *)

\* A read returns some of the bytes that have arrived.
Receive(n) ==
    /\ n \in 1 .. Len(stream)
    /\ buf' = buf \o SubSeq(stream, 1, n)
    /\ stream' = SubSeq(stream, n + 1, Len(stream))

\* The read for a CONNECT.
ReadFirst(n) ==
    /\ phase = "connect"
    /\ Receive(n)
    /\ phase' = "first"
    /\ UNCHANGED <<via, sent, eof, decoded>>

\* A CONNECT is accepted and its bytes are consumed.
Accept ==
    /\ phase = "first" /\ ~FirstMalformed(buf) /\ ~FirstIncomplete(buf)
    /\ Consume
    /\ phase' = "open"
    /\ UNCHANGED <<via, sent, stream, eof>>

\* A WebSocket waits for another frame; over TCP the connection is given up.
AwaitFirst ==
    /\ phase = "first" /\ FirstIncomplete(buf)
    /\ phase' = IF via = "ws" THEN "connect" ELSE "closed"
    /\ UNCHANGED <<via, sent, stream, eof, buf, decoded>>

FirstFails ==
    /\ phase = "first" /\ FirstMalformed(buf)
    /\ phase' = "failed"
    /\ UNCHANGED <<via, sent, stream, eof, buf, decoded>>

\* One turn of the packet loop.
NextPacket ==
    /\ phase = "open" /\ Complete(buf)
    /\ Consume
    /\ UNCHANGED <<via, sent, stream, eof, phase>>

ReadMore(n) ==
    /\ phase = "open" /\ ~Malformed(buf) /\ ~Complete(buf)
    /\ Receive(n)
    /\ UNCHANGED <<via, sent, eof, decoded, phase>>

DecodeError ==
    /\ phase = "open" /\ Malformed(buf)
    /\ phase' = "failed"
    /\ UNCHANGED <<via, sent, stream, eof, buf, decoded>>

\* The stream ends, with a close of the socket or a Close frame, while the
\* connection waits for more of it.
End ==
    /\ eof /\ stream = <<>>
    /\ phase = "connect" \/ (phase = "open" /\ ~Malformed(buf) /\ ~Complete(buf))
    /\ phase' = "closed"
    /\ UNCHANGED <<via, sent, stream, eof, buf, decoded>>

Connection ==
    \/ \E n \in 1 .. Len(stream) : ReadFirst(n) \/ ReadMore(n)
    \/ Accept \/ AwaitFirst \/ FirstFails \/ NextPacket \/ DecodeError \/ End

StreamNext ==
    \/ \E p \in Packet : SendPacket(p)
    \/ Finish
    \/ Connection

StreamSpec == StreamInit /\ [][StreamNext]_streamVars

\* The task of a connection is polled whenever its socket has something.
FairStreamSpec == StreamSpec /\ WF_streamVars(Connection)

-----------------------------------------------------------------------------
(* Properties *)

\* The length of p fits one byte, and p is not too large.
Short(p) == p.len < Base /\ 2 + p.len <= MaxPacketSize

\* However the stream is cut, the packets decoded are the packets sent, in
\* order, and what is buffered or on its way is exactly the rest
\* (framed_buf.advance, server.rs:375, and read_buf.split_to, server.rs:367).
StreamIntact ==
    /\ IsPrefix(decoded, sent)
    /\ buf \o stream =
         FlattenSeq([i \in 1 .. Len(sent) - Len(decoded) |-> FrameOf(sent[Len(decoded) + i])])

\* A decoder accepts every packet that is not too large, wherever the stream is
\* cut: Doc/article.md:57 says that the decoder returns None while there is too
\* little data, and mqtt-web/src/api.rs:416 that a connection then waits.
SplitPacketsDecode ==
    phase = "failed" => \E i \in DOMAIN sent : Len(FrameOf(sent[i])) > MaxPacketSize

\* Every packet is decoded in the end, unless the CONNECT is given up or the
\* decoder fails: no packet waits in the buffer for one that comes after it
\* (the loop decodes before it reads, server.rs:371-396), and a stream that
\* ends leaves none behind.  The decoder fails only if a packet of two or more
\* length bytes, or a packet that is too large, was sent (v3/codec.rs:21-32).
PacketsDecoded ==
    \A i \in 1 .. MaxPackets :
        Len(sent) >= i ~>
            \/ Len(decoded) >= i
            \/ phase = "failed" /\ \E j \in DOMAIN sent : ~Short(sent[j])
            \/ phase = "closed" /\ decoded = <<>>
=============================================================================
