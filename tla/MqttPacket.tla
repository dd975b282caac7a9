----------------------------- MODULE MqttPacket -----------------------------
(***************************************************************************)
(* The packets of the MQTT client, Middlewares/MQTT/MQTTPacket: how they   *)
(* are written into a buffer and read from one.  A buffer is a sequence of *)
(* bytes.  An MQTTString that may be NULL is a sequence of at most one     *)
(* string.  A serializer that refuses (MQTTPACKET_BUFFER_TOO_SHORT)      *)
(* returns the empty sequence.                                             *)
(***************************************************************************)
EXTENDS Integers, Sequences, SequencesExt

CONNECT == 1
CONNACK == 2
PUBLISH == 3
PUBACK == 4
PUBREC == 5
PUBREL == 6
PUBCOMP == 7
SUBSCRIBE == 8
SUBACK == 9
------------------------------------------------------------------------------
\* Seven bits a byte, the lowest first; the top bit says that more follow.
MQTTPacket_encode(length) ==
    LET digits[n \in Nat] == IF n < 128 THEN <<n>> ELSE <<128 + (n % 128)>> \o digits[n \div 128]
    IN digits[length]

\* MQTTPacket_decode returns how many bytes it looked at, five for a fifth byte.
DecodedBytes(buf) ==
    LET last == {i \in 1..4 : i <= Len(buf) /\ buf[i] < 128}
    IN IF last = {} THEN 5 ELSE CHOOSE i \in last : \A j \in last : i <= j

DecodedLength(buf) ==
    LET Digit(i) == IF i <= DecodedBytes(buf) /\ i <= Len(buf) THEN buf[i] % 128 ELSE 0
    IN Digit(1) + 128 * (Digit(2) + 128 * (Digit(3) + 128 * Digit(4)))

\* The room a packet needs; rem_len counts the header byte when it is compared.
MQTTPacket_len(rem_len) ==
    LET n == rem_len + 1
    IN n + IF n < 128 THEN 1 ELSE IF n < 16384 THEN 2 ELSE IF n < 2097151 THEN 3 ELSE 4

HeaderByte(type, dup, qos, retain) == 16 * type + 8 * dup + 2 * qos + retain
Type(header) == header \div 16
Dup(header) == (header \div 8) % 2

Qos(header) == (header \div 2) % 4
Retain(header) == header % 2

writeInt(n) == <<n \div 256, n % 256>>

\* Fault: the bytes are taken in the other order.
readIntSwapped(buf) == 256 * buf[2] + buf[1]

readInt(buf) == 256 * buf[1] + buf[2]
writeMQTTString(s) == writeInt(Len(s)) \o s
Rest(buf, n) == SubSeq(buf, n + 1, Len(buf))

\* Header, declared length and what follows, if the buffer is large enough.
Serialized(buflen, header, rem_len, rest) ==
    IF MQTTPacket_len(rem_len) > buflen THEN <<>>
    ELSE <<header>> \o MQTTPacket_encode(rem_len) \o rest
------------------------------------------------------------------------------
\* Fault: the packet id of QoS 1 and 2 is not counted.
publishLengthNoId(m) == 2 + Len(m.topic) + Len(m.payload)

MQTTSerialize_publishLength(m) ==
    2 + Len(m.topic) + Len(m.payload) + IF m.qos > 0 THEN 2 ELSE 0

MQTTSerialize_publish(buflen, m) ==
    Serialized(buflen, HeaderByte(PUBLISH, m.dup, m.qos, m.retained), MQTTSerialize_publishLength(m),
        writeMQTTString(m.topic) \o (IF m.qos > 0 THEN writeInt(m.id) ELSE <<>>) \o m.payload)

\* Of a whole packet; rc is 1 for success.  A topic that does not fit into the
\* packet leaves rc as MQTTPacket_decodeBuf set it.
MQTTDeserialize_publish(buf) ==
    LET n == DecodedBytes(Tail(buf))
        data == SubSeq(buf, n + 2, n + 1 + DecodedLength(Tail(buf)))
        topic == readInt(data)
        rest == Rest(data, 2 + topic)
        qos == Qos(buf[1])
        body == [topic |-> SubSeq(data, 3, 2 + topic), dup |-> Dup(buf[1]), qos |-> qos,
                 retained |-> Retain(buf[1]),
                 id |-> IF qos > 0 THEN readInt(rest) ELSE 0,
                 payload |-> IF qos > 0 THEN Rest(rest, 2) ELSE rest]
    IN IF Type(buf[1]) # PUBLISH THEN [rc |-> 0]
       ELSE IF Len(data) < 2 \/ 2 + topic > Len(data) THEN [rc |-> n]
       ELSE [rc |-> 1, message |-> body]

\* version 3 is MQIsdp (12 bytes up to the client id), version 4 is MQTT (10).
Options(o) == o.will \o o.username \o o.password

MQTTSerialize_connectLength(o) ==
    (IF o.version = 3 THEN 12 ELSE 10) + 2 + Len(o.clientID)
    + FoldSeq(LAMBDA s, n : n + 2 + Len(s), 0, Options(o))

MQTTSerialize_connect(buflen, o) ==
    LET name == IF o.version = 4 THEN <<77, 81, 84, 84>> ELSE <<77, 81, 73, 115, 100, 112>>
        flags == 2 * o.cleansession
                 + (IF o.will # <<>> THEN 4 + 8 * o.willQos + 32 * o.willRetained ELSE 0)
                 + (IF o.password # <<>> THEN 64 ELSE 0) + (IF o.username # <<>> THEN 128 ELSE 0)
    IN Serialized(buflen, HeaderByte(CONNECT, 0, 0, 0), MQTTSerialize_connectLength(o),
           writeMQTTString(name) \o <<o.version, flags>> \o writeInt(o.keepAlive)
           \o writeMQTTString(o.clientID)
           \o FoldSeq(LAMBDA s, bytes : bytes \o writeMQTTString(s), <<>>, Options(o)))

MQTTSerialize_subscribeLength(s) ==
    2 + FoldSeq(LAMBDA f, n : n + 2 + Len(f) + 1, 0, s.filters)

MQTTSerialize_subscribe(buflen, s) ==
    Serialized(buflen, HeaderByte(SUBSCRIBE, 0, 1, 0), MQTTSerialize_subscribeLength(s),
        writeInt(s.id)
        \o FoldSeq(LAMBDA f, bytes : bytes \o writeMQTTString(f) \o <<s.qos>>, <<>>, s.filters))

MQTTSerialize_ack(buflen, type, dup, id) ==
    IF buflen < 4 THEN <<>>
    ELSE <<HeaderByte(type, dup, IF type = PUBREL THEN 1 ELSE 0, 0)>> \o MQTTPacket_encode(2) \o writeInt(id)
------------------------------------------------------------------------------
\* The answers of the broker.  A packet that is too short leaves rc as it was set
\* by MQTTPacket_decodeBuf.
Body(buf) == SubSeq(buf, DecodedBytes(Tail(buf)) + 2, Len(buf))
Short(buf) == DecodedLength(Tail(buf)) < 2

MQTTDeserialize_ack(buf) ==
    IF Short(buf)
    THEN [rc |-> DecodedBytes(Tail(buf)), type |-> Type(buf[1]), dup |-> Dup(buf[1]), id |-> 0]
    ELSE [rc |-> 1, type |-> Type(buf[1]), dup |-> Dup(buf[1]), id |-> readInt(Body(buf))]

MQTTDeserialize_connack(buf) ==
    IF Type(buf[1]) # CONNACK THEN [rc |-> 0, present |-> 0, code |-> 0]
    ELSE IF Short(buf) THEN [rc |-> DecodedBytes(Tail(buf)), present |-> 0, code |-> 0]
    ELSE [rc |-> 1, present |-> Body(buf)[1] % 2, code |-> Body(buf)[2]]

\* The loop stops when count exceeds maxcount, so one code more than that is stored.
MQTTDeserialize_suback(buf, maxcount) ==
    LET codes == Rest(Body(buf), 2)
    IN IF Type(buf[1]) # SUBACK THEN [rc |-> 0, id |-> 0, granted |-> <<>>]
       ELSE IF Short(buf) THEN [rc |-> DecodedBytes(Tail(buf)), id |-> 0, granted |-> <<>>]
       ELSE IF Len(codes) > maxcount + 1
       THEN [rc |-> -1, id |-> readInt(Body(buf)), granted |-> SubSeq(codes, 1, maxcount + 1)]
       ELSE [rc |-> 1, id |-> readInt(Body(buf)), granted |-> codes]

\* MQTTPacket_read from the bytes there are: the type or -1, what is in the
\* buffer, and the bytes left.  The declared length is encoded again.
MQTTPacket_read(stream, buflen) ==
    LET n == DecodedBytes(Tail(stream))
        rem_len == DecodedLength(Tail(stream))
        start == <<stream[1]>> \o MQTTPacket_encode(rem_len)
        rest == Rest(stream, n + 1)
    IN IF rem_len + Len(start) > buflen
       THEN [type |-> -1, buf |-> start, left |-> rest]
       ELSE IF Len(rest) < rem_len
       THEN [type |-> -1, buf |-> start \o rest, left |-> <<>>]
       ELSE [type |-> Type(stream[1]), buf |-> start \o SubSeq(rest, 1, rem_len),
             left |-> Rest(rest, rem_len)]
==============================================================================
