------------------------------- MODULE Codec -------------------------------
(***************************************************************************)
(* The packets of MQTT 3.1.1 and 5.0 as bytes (mqtt-core/src/v3/codec.rs,  *)
(* v5/codec.rs, v5/properties.rs, common.rs), and the way of a message     *)
(* through the broker: a client encodes its packets in its own version,    *)
(* the broker learns the version from the CONNECT, decodes, and forwards   *)
(* what was published, and wills, to a subscriber, which decodes in its    *)
(* own version.  What the broker answers is decoded by the client.         *)
(*                                                                         *)
(* A packet is a record of its fields, as the types of the code are.  Its  *)
(* encoder is an operator of its own; its decoder is given by its layout,  *)
(* the fields in the order and of the kind in which the code reads them,   *)
(* so that the two are as independent of each other as they are there.     *)
(* Framing is about packets that arrive in pieces.                         *)
(***************************************************************************)
EXTENDS RemainingLength

CONSTANTS
    Version,              \* versions of the client: a subset of {4, 5}
    SubscriberVersion,    \* versions of the subscriber
    Text,                 \* strings, as sequences of bytes
    Binary,               \* payloads, as sequences of bytes
    Number,               \* packet ids
    KeepAlive,            \* keep-alive times
    Properties            \* lists of properties: pairs of an id and a value

\* The lengths of the code: seven bits a byte, in four bytes at most.
Width == Base = 128 /\ MaxLengthBytes = 4

ASSUME VersionAssumption == Version \subseteq {4, 5} /\ SubscriberVersion \subseteq {4, 5}

VARIABLES
    version,       \* of the client
    known,         \* the version the broker has detected, or 0
    subscriber,    \* version of the subscriber
    packet,        \* what was sent last, or Nothing
    by,            \* who sent it: "client" or "broker"
    wire,          \* its bytes, or those of the forwarded message
    got,           \* what the receiver has decoded
    stage          \* "idle", "sent", "read", "forwarded" or "delivered"

vars == <<version, known, subscriber, packet, by, wire, got, stage>>

-----------------------------------------------------------------------------
(* Numbers, strings and properties *)

U16(n) == <<n \div 256, n % 256>>
U32(n) == U16(n \div 65536) \o U16(n % 65536)
NumberOf(bytes) ==
    LET sum[i \in 0 .. Len(bytes)] == IF i = 0 THEN 0 ELSE sum[i - 1] * 256 + bytes[i]
    IN  sum[Len(bytes)]
From(d, i) == SubSeq(d, i, Len(d))
Bit(flags, b) == (flags \div b) % 2 = 1
Flag(on, b) == IF on THEN b ELSE 0

\* What reading the front of some bytes returns: an error, or a value and how
\* many bytes it took.
Fail == [ok |-> FALSE, value |-> <<>>, used |-> 0]
Ok(value, used) == [ok |-> TRUE, value |-> value, used |-> used]

\* A value as an option, that is there; a value and one that was read behind it.
Some(r) == IF r.ok THEN Ok(<<r.value>>, r.used) ELSE Fail
Pair(r, next) ==
    IF r.ok /\ next.ok THEN Ok(<<r.value, next.value>>, r.used + next.used) ELSE Fail

\* The items read one behind the other from position start, until one is no item, or
\* ends at or behind the position end; item gives the one at a position.  An item has
\* a byte at least, so that there are no more than end of them.
ReadItems(item, start, end) ==
    LET push(acc, r) ==
            IF r.ok THEN Ok(Append(acc.value, r.value), acc.used + r.used) ELSE Fail
        over(acc) == ~acc.ok \/ acc.used >= end
        turn(acc) == IF over(acc) THEN acc ELSE push(acc, item[acc.used])
        after[i \in 0 .. end] == IF i = 0 THEN Ok(<<>>, start) ELSE turn(after[i - 1])
    IN  after[CHOOSE i \in 0 .. end : over(after[i])]

EncodeString(s) == U16(Len(s)) \o s

DecodeBinary(d) ==
    LET end == 2 + NumberOf(SubSeq(d, 1, 2))
    IN  IF Len(d) >= 2 /\ Len(d) >= end THEN Ok(SubSeq(d, 3, end), end) ELSE Fail

\* Text is ASCII here; a byte with its high bit set is taken for invalid UTF-8.
DecodeString(d) ==
    LET text(r) == IF \A i \in DOMAIN r.value : r.value[i] < 128 THEN r ELSE Fail
    IN  text(DecodeBinary(d))

\* The type of a property's value, by its id.
PropertyKind(id) ==
    CASE id \in {1, 23, 25, 36, 37, 40, 41, 42} -> "byte"
      [] id \in {19, 33, 34, 35} -> "u16"
      [] id \in {2, 17, 24, 39} -> "u32"
      [] id = 11 -> "varint"
      [] id \in {9, 22} -> "binary"
      [] id \in {3, 8, 18, 21, 26, 28, 31} -> "string"
      [] id = 38 -> "pair"
      [] OTHER -> "unknown"

EncodeValue(kind, v) ==
    CASE kind = "byte" -> v
      [] kind = "u16" -> U16(v[1])
      [] kind = "u32" -> U32(v[1])
      [] kind = "varint" -> EncodeLength(v[1])
      [] kind \in {"binary", "string"} -> EncodeString(v)
      [] kind = "pair" -> EncodeString(v[1]) \o EncodeString(v[2])

EncodeProperty(p) == <<p[1]>> \o EncodeValue(PropertyKind(p[1]), p[2])

EncodeProperties(ps) ==
    LET body == FlattenSeq([i \in DOMAIN ps |-> EncodeProperty(ps[i])])
    IN  EncodeLength(Len(body)) \o body

\* A value at the front of d, of which the first `room` bytes are properties.
DecodeValue(kind, d, room) ==
    LET number(n) == IF room >= n THEN Ok(<<NumberOf(SubSeq(d, 1, n))>>, n) ELSE Fail
        length(n) == Ok(<<n.value>>, n.bytes)
        pair(key) == Pair(key, DecodeString(From(d, key.used + 1)))
    IN  CASE kind = "byte" -> number(1)
          [] kind = "u16" -> number(2)
          [] kind = "u32" -> number(4)
          [] kind = "varint" -> IF HasLength(d) THEN length(DecodeLength(d)) ELSE Fail
          [] kind = "binary" -> DecodeBinary(SubSeq(d, 1, room))
          [] kind = "string" -> DecodeString(d)
          [] kind = "pair" -> pair(DecodeString(d))
          [] OTHER -> Fail

\* Properties end where their length says, whatever the last value took.
DecodeProperties(d) ==
    LET property(id, v) == IF v.ok THEN Ok(<<id, v.value>>, 1 + v.used) ELSE Fail
        at(pos, end) == property(d[pos + 1],
                            DecodeValue(PropertyKind(d[pos + 1]), From(d, pos + 2), end - pos - 1))
        until(end, r) == IF r.ok THEN Ok(r.value, end) ELSE Fail
        items(start, end) ==
            until(end, ReadItems([pos \in 0 .. Len(d) - 1 |-> at(pos, end)], start, end))
        list(n) == IF Len(d) >= n.bytes + n.value THEN items(n.bytes, n.bytes + n.value) ELSE Fail
    IN  IF d = <<>> THEN Ok(<<>>, 0)
        ELSE IF HasLength(d) THEN list(DecodeLength(d))
        ELSE Fail

\* The strings and byte sequences that have an encoding.
Byte == 0 .. 255
TwoBytes == {n \in Nat : n <= 65535}
IsString(s) == s \in Seq({b \in Byte : b < 128}) /\ Len(s) \in TwoBytes
IsBinary(s) == s \in Seq(Byte) /\ Len(s) \in TwoBytes

\* The values of a property of some kind; the bounds are those of u8, u16, u32 and of
\* a number of seven bits a byte.
IsValue(kind, v) ==
    CASE kind = "byte" -> v = <<v[1]>> /\ v[1] \in Byte
      [] kind = "u16" -> v = <<v[1]>> /\ v[1] \in TwoBytes
      [] kind = "u32" -> v = <<v[1]>> /\ v[1] \in Nat /\ v[1] \div 65536 \in TwoBytes
      [] kind = "varint" -> v = <<v[1]>> /\ v[1] \in Nat /\ Len(EncodeLength(v[1])) <= MaxLengthBytes
      [] kind = "binary" -> IsBinary(v)
      [] kind = "string" -> IsString(v)
      [] kind = "pair" -> v = <<v[1], v[2]>> /\ IsString(v[1]) /\ IsString(v[2])
      [] OTHER -> FALSE

ASSUME TextAssumption == \A s \in Text : IsString(s)
ASSUME BinaryAssumption == \A s \in Binary : IsBinary(s)
ASSUME NumberAssumption == Number \subseteq TwoBytes /\ KeepAlive \subseteq TwoBytes
\* With properties of at most 64 MiB the length of every packet has an encoding.
LongestProperties == 67108864
ASSUME PropertiesAssumption == \A ps \in Properties :
    /\ ps \in Seq({ps[i] : i \in DOMAIN ps})
    /\ \A i \in DOMAIN ps : ps[i] = <<ps[i][1], ps[i][2]>>
                             /\ IsValue(PropertyKind(ps[i][1]), ps[i][2])
    /\ Len(EncodeProperties(ps)) <= LongestProperties

-----------------------------------------------------------------------------
(* Lists at the end of a packet *)

EncodeFilterV3(f) == EncodeString(f.path) \o <<f.qos>>

DecodeFilterV3(d) ==
    LET filter(path, qos) ==
            IF path.ok /\ Len(d) > path.used /\ qos <= 2
            THEN Ok([path |-> path.value, qos |-> qos], path.used + 1) ELSE Fail
        options(path) == filter(path, d[path.used + 1] % 4)
    IN  options(DecodeString(d))

EncodeFilterV5(f) ==
    EncodeString(f.path)
    \o <<f.qos + Flag(f.no_local, 4) + Flag(f.retain_as_published, 8) + 16 * f.retain_handling>>

\* A retain handling of 3 is taken for 0.
DecodeFilterV5(d) ==
    LET handling(n) == IF n = 3 THEN 0 ELSE n
        filter(path, options) ==
            IF path.ok /\ Len(d) > path.used /\ options % 4 <= 2
            THEN Ok([path |-> path.value, qos |-> options % 4, no_local |-> Bit(options, 4),
                     retain_as_published |-> Bit(options, 8),
                     retain_handling |-> handling((options \div 16) % 4)], path.used + 1)
            ELSE Fail
        behind(path) == filter(path, d[path.used + 1])
    IN  behind(DecodeString(d))

EncodeList(list, Encode(_)) == FlattenSeq([i \in DOMAIN list |-> Encode(list[i])])

\* Items up to the end of the packet.
DecodeList(d, Decode(_)) ==
    ReadItems([pos \in 0 .. Len(d) - 1 |-> Decode(From(d, pos + 1))], 0, Len(d))

-----------------------------------------------------------------------------
(* Fields *)

ReasonCode == {0, 1, 2, 4, 16, 17, 24, 25} \union 128 .. 162
ReturnCode == 0 .. 5
SubAckCode == {0, 1, 2, 128}

Known(d, Codes) == IF d # <<>> /\ d[1] \in Codes THEN Ok(d[1], 1) ELSE Fail
OnlyKnown(d, Codes) ==
    LET codes[i \in 0 .. Len(d)] ==
            IF i = 0 THEN <<>>
            ELSE codes[i - 1] \o (IF d[i] \in Codes THEN <<d[i]>> ELSE <<>>)
    IN  Ok(codes[Len(d)], Len(d))
ReadU16(d) == IF Len(d) >= 2 THEN Ok(NumberOf(SubSeq(d, 1, 2)), 2) ELSE Fail

\* The end of the packet stands for success, and so does an unknown code.
ReasonOrSuccess(d) ==
    IF d = <<>> THEN Ok(0, 0) ELSE Ok(IF d[1] \in ReasonCode THEN d[1] ELSE 0, 1)

\* A field of some kind at the front of the bytes d.
Read(kind, d) ==
    CASE kind = "absent" -> Ok(<<>>, 0)
      [] kind = "byte" -> Known(d, 0 .. 255)
      [] kind = "flag" -> IF d # <<>> THEN Ok(Bit(d[1], 1), 1) ELSE Fail
      [] kind = "return" -> Known(d, ReturnCode)
      [] kind = "returns" -> OnlyKnown(d, SubAckCode)
      [] kind = "reason" -> Known(d, ReasonCode)
      [] kind = "reasons" -> OnlyKnown(d, ReasonCode)
      [] kind = "reason or success" -> ReasonOrSuccess(d)
      [] kind = "u16" -> ReadU16(d)
      [] kind = "id" -> Some(ReadU16(d))
      [] kind = "string" -> DecodeString(d)
      [] kind = "binary" -> DecodeBinary(d)
      [] kind = "properties" -> DecodeProperties(d)
      [] kind = "payload" -> Ok(d, Len(d))
      [] kind = "topics" -> DecodeList(d, DecodeString)
      [] kind = "filters v3" -> DecodeList(d, DecodeFilterV3)
      [] kind = "filters v5" -> DecodeList(d, DecodeFilterV5)

\* The fields of two records.
Merge(f, g) == [x \in DOMAIN f \union DOMAIN g |-> IF x \in DOMAIN f THEN f[x] ELSE g[x]]

\* The fields of a layout, pairs of a name and a kind, in their order; bytes
\* behind the last one are not looked at.
ReadAll(layout, d) ==
    LET with(acc, name, r) ==
            IF r.ok THEN Ok(Merge([x \in {name} |-> r.value], acc.value), acc.used + r.used)
            ELSE Fail
        field(acc, f) == IF acc.ok THEN with(acc, f[1], Read(f[2], From(d, acc.used + 1))) ELSE acc
        after[i \in 0 .. Len(layout)] == IF i = 0 THEN Ok(<<>>, 0) ELSE field(after[i - 1], layout[i])
    IN  after[Len(layout)]

-----------------------------------------------------------------------------
(* MQTT 3.1.1 packets *)

ConnAckV3 == <<<<"session_present", "flag">>, <<"return_code", "return">>>>
EncodeConnAckV3(p) == <<Flag(p.session_present, 1), p.return_code>>

\* An id only comes with a QoS above 0.
IdKind(qos) == <<"packet_id", IF qos > 0 THEN "id" ELSE "absent">>
EncodeId(p) == IF p.packet_id # <<>> /\ p.qos > 0 THEN U16(p.packet_id[1]) ELSE <<>>

PublishV3(qos) == <<<<"topic", "string">>, IdKind(qos), <<"payload", "payload">>>>
EncodePublishV3(p) == EncodeString(p.topic) \o EncodeId(p) \o p.payload

AckV3 == <<<<"packet_id", "u16">>>>
EncodeAckV3(p) == U16(p.packet_id)

SubscribeV3 == <<<<"packet_id", "u16">>, <<"filters", "filters v3">>>>
EncodeSubscribeV3(p) == U16(p.packet_id) \o EncodeList(p.filters, EncodeFilterV3)

SubAckV3 == <<<<"packet_id", "u16">>, <<"return_codes", "returns">>>>
EncodeSubAckV3(p) == U16(p.packet_id) \o p.return_codes

UnsubscribeV3 == <<<<"packet_id", "u16">>, <<"filters", "topics">>>>
EncodeUnsubscribeV3(p) == U16(p.packet_id) \o EncodeList(p.filters, EncodeString)

-----------------------------------------------------------------------------
(* MQTT 5.0 packets *)

ConnAckV5 == <<<<"session_present", "flag">>, <<"reason_code", "reason">>,
               <<"properties", "properties">>>>
EncodeConnAckV5(p) ==
    <<Flag(p.session_present, 1), p.reason_code>> \o EncodeProperties(p.properties)

PublishV5(qos) == <<<<"topic", "string">>, <<"properties", "properties">>, IdKind(qos),
                    <<"payload", "payload">>>>

\* Mutant of EncodePublishV5: the encoder keeps to the order of the standard.
EncodePublishV5IdFirst(p) ==
    EncodeString(p.topic) \o EncodeId(p) \o EncodeProperties(p.properties) \o p.payload

\* The properties come before the packet id.
EncodePublishV5(p) ==
    EncodeString(p.topic) \o EncodeProperties(p.properties) \o EncodeId(p) \o p.payload

AckV5 == <<<<"packet_id", "u16">>, <<"reason_code", "reason or success">>,
           <<"properties", "properties">>>>
EncodeAckV5(p) == U16(p.packet_id) \o <<p.reason_code>> \o EncodeProperties(p.properties)

SubscribeV5 == <<<<"packet_id", "u16">>, <<"properties", "properties">>,
                 <<"filters", "filters v5">>>>
EncodeSubscribeV5(p) ==
    U16(p.packet_id) \o EncodeProperties(p.properties) \o EncodeList(p.filters, EncodeFilterV5)

SubAckV5 == <<<<"packet_id", "u16">>, <<"properties", "properties">>,
              <<"reason_codes", "reasons">>>>
EncodeSubAckV5(p) == U16(p.packet_id) \o EncodeProperties(p.properties) \o p.reason_codes

UnsubscribeV5 == <<<<"packet_id", "u16">>, <<"properties", "properties">>,
                   <<"filters", "topics">>>>
EncodeUnsubscribeV5(p) ==
    U16(p.packet_id) \o EncodeProperties(p.properties) \o EncodeList(p.filters, EncodeString)

UnsubAckV5 == SubAckV5
EncodeUnsubAckV5(p) == EncodeSubAckV5(p)

DisconnectV5 == <<<<"reason_code", "reason or success">>, <<"properties", "properties">>>>
EncodeDisconnectV5(p) == <<p.reason_code>> \o EncodeProperties(p.properties)

AuthV5 == <<<<"reason_code", "reason">>, <<"properties", "properties">>>>
EncodeAuthV5(p) == <<p.reason_code>> \o EncodeProperties(p.properties)

-----------------------------------------------------------------------------
(* CONNECT *)

MQTT == <<77, 81, 84, 84>>

ConnectFlags(p) ==
    Flag(p.clean, 2) + Flag(p.username # <<>>, 128) + Flag(p.password # <<>>, 64)
    + IF p.will = <<>> THEN 0 ELSE 4 + 8 * p.will[1].qos + Flag(p.will[1].retain, 32)

EncodeOption(s) == IF s = <<>> THEN <<>> ELSE EncodeString(s[1])

EncodeConnectV3(p) ==
    EncodeString(MQTT) \o <<4, ConnectFlags(p)>> \o U16(p.keep_alive) \o EncodeString(p.client_id)
    \o (IF p.will = <<>> THEN <<>>
        ELSE EncodeString(p.will[1].topic) \o EncodeString(p.will[1].payload))
    \o EncodeOption(p.username) \o EncodeOption(p.password)

EncodeConnectV5(p) ==
    EncodeString(MQTT) \o <<5, ConnectFlags(p)>> \o U16(p.keep_alive)
    \o EncodeProperties(p.properties) \o EncodeString(p.client_id)
    \o (IF p.will = <<>> THEN <<>>
        ELSE EncodeProperties(p.will[1].properties) \o EncodeString(p.will[1].topic)
             \o EncodeString(p.will[1].payload))
    \o EncodeOption(p.username) \o EncodeOption(p.password)

ConnectHead == <<<<"name", "string">>, <<"level", "byte">>, <<"flags", "byte">>,
                 <<"keep_alive", "u16">>>>

ConnectTailV3(flags) ==
    LET when(b, kind) == IF Bit(flags, b) THEN kind ELSE "absent"
    IN  <<<<"properties", "absent">>, <<"client_id", "string">>, <<"will_properties", "absent">>,
          <<"topic", when(4, "string")>>, <<"payload", when(4, "binary")>>,
          <<"username", when(128, "string")>>, <<"password", when(64, "string")>>>>

ConnectTailV5(flags) ==
    LET when(b, kind) == IF Bit(flags, b) THEN kind ELSE "absent"
    IN  <<<<"properties", "properties">>, <<"client_id", "string">>,
          <<"will_properties", when(4, "properties")>>,
          <<"topic", when(4, "string")>>, <<"payload", when(4, "binary")>>,
          <<"username", when(128, "string")>>, <<"password", when(64, "string")>>>>

\* The name of the protocol is read and not compared, the level is; a will of
\* QoS 3 is taken for one of QoS 0.
DecodeConnect(v, d) ==
    LET when(flags, b, x) == IF Bit(flags, b) THEN <<x>> ELSE <<>>
        qos(n) == IF n = 3 THEN 0 ELSE n
        will(flags, f) ==
            [topic |-> f.topic, payload |-> f.payload, qos |-> qos((flags \div 8) % 4),
             retain |-> Bit(flags, 32), properties |-> f.will_properties]
        connect(h, f) ==
            [clean |-> Bit(h.flags, 2), keep_alive |-> h.keep_alive, client_id |-> f.client_id,
             properties |-> f.properties, will |-> when(h.flags, 4, will(h.flags, f)),
             username |-> when(h.flags, 128, f.username),
             password |-> when(h.flags, 64, f.password)]
        layout(flags) == IF v = 5 THEN ConnectTailV5(flags) ELSE ConnectTailV3(flags)
        whole(head, tail) ==
            IF tail.ok THEN Ok(connect(head.value, tail.value), head.used + tail.used) ELSE Fail
        behind(head) ==
            IF ~head.ok THEN Fail
            ELSE IF head.value.level # v THEN Fail
            ELSE whole(head, ReadAll(layout(head.value.flags), From(d, head.used + 1)))
    IN  behind(ReadAll(ConnectHead, d))

-----------------------------------------------------------------------------
(* Packets *)

PacketTypes == <<"CONNECT", "CONNACK", "PUBLISH", "PUBACK", "PUBREC", "PUBREL", "PUBCOMP",
                 "SUBSCRIBE", "SUBACK", "UNSUBSCRIBE", "UNSUBACK", "PINGREQ", "PINGRESP",
                 "DISCONNECT", "AUTH">>

Acks == {"PUBACK", "PUBREC", "PUBREL", "PUBCOMP"}
Pings == {"PINGREQ", "PINGRESP"}

BodyV3(p) ==
    CASE p.type = "CONNECT" -> EncodeConnectV3(p)
      [] p.type = "CONNACK" -> EncodeConnAckV3(p)
      [] p.type = "PUBLISH" -> EncodePublishV3(p)
      [] p.type \in Acks \union {"UNSUBACK"} -> EncodeAckV3(p)
      [] p.type = "SUBSCRIBE" -> EncodeSubscribeV3(p)
      [] p.type = "SUBACK" -> EncodeSubAckV3(p)
      [] p.type = "UNSUBSCRIBE" -> EncodeUnsubscribeV3(p)
      [] p.type \in Pings \union {"DISCONNECT"} -> <<>>

LayoutV3(type, qos) ==
    CASE type = "CONNACK" -> ConnAckV3
      [] type = "PUBLISH" -> PublishV3(qos)
      [] type \in Acks \union {"UNSUBACK"} -> AckV3
      [] type = "SUBSCRIBE" -> SubscribeV3
      [] type = "SUBACK" -> SubAckV3
      [] type = "UNSUBSCRIBE" -> UnsubscribeV3
      [] type \in Pings \union {"DISCONNECT"} -> <<>>

BodyV5(p) ==
    CASE p.type = "CONNECT" -> EncodeConnectV5(p)
      [] p.type = "CONNACK" -> EncodeConnAckV5(p)
      [] p.type = "PUBLISH" -> EncodePublishV5(p)
      [] p.type \in Acks -> EncodeAckV5(p)
      [] p.type = "SUBSCRIBE" -> EncodeSubscribeV5(p)
      [] p.type = "SUBACK" -> EncodeSubAckV5(p)
      [] p.type = "UNSUBSCRIBE" -> EncodeUnsubscribeV5(p)
      [] p.type = "UNSUBACK" -> EncodeUnsubAckV5(p)
      [] p.type \in Pings -> <<>>
      [] p.type = "DISCONNECT" -> EncodeDisconnectV5(p)
      [] p.type = "AUTH" -> EncodeAuthV5(p)

LayoutV5(type, qos) ==
    CASE type = "CONNACK" -> ConnAckV5
      [] type = "PUBLISH" -> PublishV5(qos)
      [] type \in Acks -> AckV5
      [] type = "SUBSCRIBE" -> SubscribeV5
      [] type = "SUBACK" -> SubAckV5
      [] type = "UNSUBSCRIBE" -> UnsubscribeV5
      [] type = "UNSUBACK" -> UnsubAckV5
      [] type \in Pings -> <<>>
      [] type = "DISCONNECT" -> DisconnectV5
      [] type = "AUTH" -> AuthV5

\* Version 3.1.1 marks every PUBLISH that has an id as a duplicate.
HeaderFlags(v, p) ==
    CASE p.type = "PUBLISH" ->
           2 * p.qos + Flag(p.retain, 1) + Flag(v = 4 /\ EncodeId(p) # <<>>, 8)
      [] p.type \in {"PUBREL", "SUBSCRIBE", "UNSUBSCRIBE"} -> 2
      [] OTHER -> 0

Frame(v, p, body) ==
    LET code == CHOOSE i \in DOMAIN PacketTypes : PacketTypes[i] = p.type
    IN  <<16 * code + HeaderFlags(v, p)>> \o EncodeLength(Len(body)) \o body

Encode(v, p) == Frame(v, p, IF v = 5 THEN BodyV5(p) ELSE BodyV3(p))

\* What is behind the length of a packet.
BodyOf(s) ==
    LET body(n) == SubSeq(s, 2 + n.bytes, 1 + n.bytes + n.value)
    IN  body(DecodeLength(Tail(s)))

\* The duplicate flag is ignored.
Decode(v, s) ==
    LET type == PacketTypes[s[1] \div 16]
        qos == (s[1] \div 2) % 4
        header == IF type = "PUBLISH" THEN [type |-> type, qos |-> qos, retain |-> Bit(s[1], 1)]
                  ELSE [type |-> type]
        read(r) == IF r.ok THEN Ok(Merge(header, r.value), Len(s)) ELSE Fail
        layout == IF v = 5 THEN LayoutV5(type, qos) ELSE LayoutV3(type, qos)
    IN  IF (type = "PUBLISH" /\ qos = 3) \/ (type = "AUTH" /\ v = 4) THEN Fail
        ELSE IF type = "CONNECT" THEN read(DecodeConnect(v, BodyOf(s)))
        ELSE read(ReadAll(layout, BodyOf(s)))

\* The level of the protocol, behind a name of four bytes.
FirstVersion(s) == BodyOf(s)[7]

DecodeFirst(s) ==
    IF Len(BodyOf(s)) >= 8 /\ FirstVersion(s) \in {4, 5} THEN Decode(FirstVersion(s), s) ELSE Fail

-----------------------------------------------------------------------------
(* What clients and the broker send: any packet that the types of the code *)
(* can express with the given fields, whether a handler builds it or not   *)

Option(S) == {<<>>} \union {<<x>> : x \in S}
PropertiesOf(v) == IF v = 5 THEN Properties ELSE {<<>>}

Connects(v) ==
    [type : {"CONNECT"}, clean : BOOLEAN, keep_alive : KeepAlive, client_id : Text,
     properties : PropertiesOf(v), username : Option(Text), password : Option(Text),
     will : Option([topic : Text, payload : Binary, qos : 0 .. 2, retain : BOOLEAN,
                    properties : PropertiesOf(v)])]

Publishes(v, qos) ==
    LET id == IF qos > 0 THEN {<<n>> : n \in Number} ELSE {<<>>}
    IN  IF v = 5
        THEN [type : {"PUBLISH"}, qos : {qos}, retain : BOOLEAN, topic : Text, packet_id : id,
              payload : Binary, properties : Properties]
        ELSE [type : {"PUBLISH"}, qos : {qos}, retain : BOOLEAN, topic : Text, packet_id : id,
              payload : Binary]

FiltersV3 == [path : Text, qos : 0 .. 2]
FiltersV5 == [path : Text, qos : 0 .. 2, no_local : BOOLEAN, retain_as_published : BOOLEAN,
              retain_handling : 0 .. 2]

\* Lists of one item, or of any and a second that is always the same.
UpTo2(S) == {<<x>> : x \in S} \union {<<x, CHOOSE y \in S : TRUE>> : x \in S}

Subscribes(v) ==
    IF v = 5 THEN [type : {"SUBSCRIBE"}, packet_id : Number, properties : Properties,
                   filters : UpTo2(FiltersV5)]
    ELSE [type : {"SUBSCRIBE"}, packet_id : Number, filters : UpTo2(FiltersV3)]

Unsubscribes(v) ==
    IF v = 5 THEN [type : {"UNSUBSCRIBE"}, packet_id : Number, properties : Properties,
                   filters : UpTo2(Text)]
    ELSE [type : {"UNSUBSCRIBE"}, packet_id : Number, filters : UpTo2(Text)]

ConnAcks(v) ==
    IF v = 5 THEN [type : {"CONNACK"}, session_present : BOOLEAN, reason_code : ReasonCode,
                   properties : Properties]
    ELSE [type : {"CONNACK"}, session_present : BOOLEAN, return_code : ReturnCode]

AcksOf(v, types) ==
    IF v = 5 THEN [type : types, packet_id : Number, reason_code : ReasonCode,
                   properties : Properties]
    ELSE [type : types, packet_id : Number]

SubAcks(v) ==
    IF v = 5 THEN [type : {"SUBACK", "UNSUBACK"}, packet_id : Number, properties : Properties,
                   reason_codes : UpTo2(ReasonCode)]
    ELSE [type : {"SUBACK"}, packet_id : Number, return_codes : UpTo2(SubAckCode)]

EndsV5 == [type : {"DISCONNECT", "AUTH"}, reason_code : ReasonCode, properties : Properties]

Nothing == [type |-> "nothing"]
NothingRead == Ok(Nothing, 0)

Init ==
    /\ version \in Version /\ subscriber \in SubscriberVersion
    /\ known = 0
    /\ packet = Nothing /\ by = "client"
    /\ wire = <<>> /\ got = NothingRead /\ stage = "idle"

Send(who, p, bytes) ==
    /\ stage = "idle"
    /\ packet' = p /\ by' = who
    /\ wire' = bytes
    /\ stage' = "sent"
    /\ UNCHANGED <<version, known, subscriber, got>>

ClientConnects ==
    /\ known = 0
    /\ \E p \in Connects(version) : Send("client", p, Encode(version, p))

ClientPublishes ==
    /\ known # 0
    /\ \E qos \in 0 .. 2 : \E p \in Publishes(version, qos) :
         Send("client", p, Encode(version, p))

ClientSends ==
    /\ known # 0
    /\ \/ \E p \in AcksOf(version, Acks) : Send("client", p, Encode(version, p))
       \/ \E p \in Subscribes(version) : Send("client", p, Encode(version, p))
       \/ \E p \in Unsubscribes(version) : Send("client", p, Encode(version, p))
       \/ LET p == [type |-> "PINGREQ"] IN Send("client", p, Encode(version, p))
       \/ version = 4 /\ LET p == [type |-> "DISCONNECT"] IN Send("client", p, Encode(4, p))
       \/ version = 5 /\ \E p \in EndsV5 : Send("client", p, Encode(5, p))

\* Other clients leave out a reason code of success with the properties.
ClientSendsShort ==
    /\ known = 5
    /\ \/ \E p \in AcksOf(5, Acks) :
            /\ p.reason_code = 0 /\ p.properties = <<>>
            /\ Send("client", p, Frame(5, p, U16(p.packet_id)))
       \/ \E p \in EndsV5 :
            /\ p.type = "DISCONNECT" /\ p.reason_code = 0 /\ p.properties = <<>>
            /\ Send("client", p, Frame(5, p, <<>>))

BrokerSends ==
    /\ known # 0
    /\ \/ \E p \in ConnAcks(known) : Send("broker", p, Encode(known, p))
       \/ \E p \in AcksOf(known, Acks \ {"PUBREL"}) : Send("broker", p, Encode(known, p))
       \/ \E p \in SubAcks(known) : Send("broker", p, Encode(known, p))
       \/ known = 4 /\ \E p \in AcksOf(4, {"UNSUBACK"}) : Send("broker", p, Encode(4, p))
       \/ LET p == [type |-> "PINGRESP"] IN Send("broker", p, Encode(known, p))

\* The first packet tells the broker the version of the connection.
BrokerReads ==
    /\ stage = "sent" /\ by = "client"
    /\ got' = IF known = 0 THEN DecodeFirst(wire) ELSE Decode(known, wire)
    /\ known' = IF known = 0 /\ got'.ok THEN FirstVersion(wire) ELSE known
    /\ wire' = <<>>
    /\ stage' = "read"
    /\ UNCHANGED <<version, subscriber, packet, by>>

ClientReads ==
    /\ stage = "sent" /\ by = "broker"
    /\ got' = Decode(version, wire)
    /\ wire' = <<>>
    /\ stage' = "read"
    /\ UNCHANGED <<version, known, subscriber, packet, by>>

\* The message a packet carries for others, if any.
MessagesOf(p) ==
    CASE p.type = "PUBLISH" -> {[topic |-> p.topic, payload |-> p.payload, qos |-> p.qos]}
      [] p.type = "CONNECT" /\ p.will # <<>> ->
           {[topic |-> p.will[1].topic, payload |-> p.will[1].payload, qos |-> p.will[1].qos]}
      [] OTHER -> {}

Forwarded(m, retain) ==
    [type |-> "PUBLISH", qos |-> 0, retain |-> retain, topic |-> m.topic, packet_id |-> <<>>,
     payload |-> m.payload]

\* Mutant of Forward: the QoS is that of the message.
ForwardKeepsQoS(retain) ==
    /\ stage = "read" /\ by = "client" /\ got.ok
    /\ \E m \in MessagesOf(got.value) :
         wire' = Encode(4, [Forwarded(m, retain) EXCEPT !.qos = m.qos])
    /\ stage' = "forwarded"
    /\ UNCHANGED <<version, known, subscriber, packet, by, got>>

\* To every subscriber in the format of version 3.1.1.
Forward(retain) ==
    /\ stage = "read" /\ by = "client" /\ got.ok
    /\ \E m \in MessagesOf(got.value) : wire' = Encode(4, Forwarded(m, retain))
    /\ stage' = "forwarded"
    /\ UNCHANGED <<version, known, subscriber, packet, by, got>>

SubscriberReads ==
    /\ stage = "forwarded"
    /\ got' = Decode(subscriber, wire)
    /\ wire' = <<>>
    /\ stage' = "delivered"
    /\ UNCHANGED <<version, known, subscriber, packet, by>>

Done ==
    /\ stage \in {"read", "delivered"}
    /\ stage' = "idle"
    /\ packet' = Nothing /\ by' = "client" /\ got' = NothingRead
    /\ UNCHANGED <<version, known, subscriber, wire>>

Next ==
    \/ ClientConnects \/ ClientPublishes \/ ClientSends \/ ClientSendsShort
    \/ BrokerSends
    \/ BrokerReads \/ ClientReads \/ SubscriberReads \/ Done
    \/ \E retain \in BOOLEAN : Forward(retain)

Spec == Init /\ [][Next]_vars

-----------------------------------------------------------------------------
\* Whatever one side encodes, in full or in a short form, the other side
\* decodes to the same packet, field by field; the broker does so in the version
\* the client speaks, which it learns from the CONNECT.
PacketsSurvive == stage = "read" =>
    known = version /\ got.ok /\ got.value = packet

\* What a subscriber gets of a PUBLISH or a will is the topic and the payload
\* that its publisher sent, with QoS 0, whatever QoS it was published with.
DeliveredIntact == stage = "delivered" =>
    /\ got.ok
    /\ \E m \in MessagesOf(packet) :
         got.value.topic = m.topic /\ got.value.payload = m.payload /\ got.value.qos = 0
=============================================================================
