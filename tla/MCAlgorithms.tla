---------------------------- MODULE MCAlgorithms ----------------------------
(***************************************************************************)
(* The conversions of the program against their reference definitions: the *)
(* MQTT packets, the topic filters, the calendar.  A behaviour looks at    *)
(* one input of one of them; the calendar goes on from day to day.         *)
(***************************************************************************)
EXTENDS MqttPacket, TopicMatch, RtcCalendar

CONSTANTS
    Lengths,     \* remaining lengths
    Payloads,    \* lengths of payloads and strings
    Ids,         \* packet ids
    BufLens,     \* sizes of the buffer
    MaxTopic     \* bound: characters of a filter or a name

VARIABLE input
mcVars == <<input, calendarVars>>

Bytes(n) == [i \in 1..n |-> 65 + (i % 26)]
Strings == {Bytes(n) : n \in Payloads}

Messages ==
    [topic : {Bytes(1), Bytes(3)}, payload : Strings, dup : {0, 1}, qos : 0..2,
     retained : {0, 1}, id : Ids]
ConnectOptions ==
    [version : {3, 4}, clientID : {Bytes(1), Bytes(22)}, cleansession : {0, 1}, keepAlive : {0, 300},
     willQos : {0, 1}, willRetained : {0, 1},
     will : {<<>>} \cup {<<Bytes(2), s>> : s \in Strings},
     username : {<<>>, <<<<>>>>, <<Bytes(4)>>}, password : {<<>>, <<Bytes(5)>>}]
Subscribes == [id : Ids, qos : 0..2, filters : {<<s>> : s \in Strings} \cup {<<Bytes(2), Bytes(3)>>}]

FilterChars == {"a", "b", "/", "+", "#"}
NameChars == {"a", "b", "/"}
Texts(chars) == UNION {[1..n -> chars] : n \in 1..MaxTopic}
Filters == {f \in Texts(FilterChars) : WellFormed(f)}
Names == {n \in Texts(NameChars) : \A k \in DOMAIN Levels(n) : Levels(n)[k] # <<>>}

Inputs ==
    [kind : {"length"}, value : Lengths] \cup [kind : {"publish"}, value : Messages]
    \cup [kind : {"connect"}, value : ConnectOptions] \cup [kind : {"subscribe"}, value : Subscribes]
    \cup [kind : {"topic"}, value : Filters] \cup {[kind |-> "calendar"]}

MCInit == input \in Inputs /\ CalendarInit
MCNext == input.kind = "calendar" /\ NextDay /\ UNCHANGED input
MCSpec == MCInit /\ [][MCNext]_mcVars
------------------------------------------------------------------------------
Is(kind) == input.kind = kind

\* The packet the client makes of the input, for a buffer of the size.
Written(buflen) ==
    IF Is("publish") THEN MQTTSerialize_publish(buflen, input.value)
    ELSE IF Is("connect") THEN MQTTSerialize_connect(buflen, input.value)
    ELSE MQTTSerialize_subscribe(buflen, input.value)
Needed ==
    Len(IF Is("publish") THEN MQTTSerialize_publish(1000000, input.value)
        ELSE IF Is("connect") THEN MQTTSerialize_connect(1000000, input.value)
        ELSE MQTTSerialize_subscribe(1000000, input.value))
IsPacket == input.kind \in {"publish", "connect", "subscribe"}

\* A remaining length is written in at most four bytes and read back from
\* exactly these, whatever byte follows; the room MQTTPacket_len reserves is
\* enough for it, and too much by at most one.
LengthsKept ==
    Is("length") =>
        LET n == input.value
            code == MQTTPacket_encode(n)
        IN /\ Len(code) \in 1..4
           /\ \A next \in {0, 127, 128, 255} :
                DecodedLength(Append(code, next)) = n /\ DecodedBytes(Append(code, next)) = Len(code)
           /\ MQTTPacket_len(n) - (1 + Len(code) + n) \in {0, 1}

\* A serializer stays inside the buffer and declares the length that follows, so
\* that the broker finds the next packet; it refuses only a packet that would
\* leave no byte of the buffer unused.
WrittenAsDeclared ==
    IsPacket => \A buflen \in BufLens :
        LET p == Written(buflen)
        IN IF p = <<>> THEN Needed >= buflen
           ELSE /\ Len(p) <= buflen
                /\ Len(p) = 1 + DecodedBytes(Tail(p)) + DecodedLength(Tail(p))

\* What the serialisers write is framed as it declares (LengthsKept for the length
\* field, WrittenAsDeclared for whole packets).
PacketsWritten == LengthsKept /\ WrittenAsDeclared

\* A message comes out of a packet as it went in, and MQTTPacket_read takes
\* exactly that packet out of the FIFO when another one follows.
MessageSurvives ==
    Is("publish") =>
        LET m == input.value
            p == MQTTSerialize_publish(1024, m)
            read == MQTTPacket_read(p \o <<208, 0>>, 1024)
        IN /\ read = [type |-> PUBLISH, buf |-> p, left |-> <<208, 0>>]
           /\ MQTTDeserialize_publish(read.buf) =
                [rc |-> 1, message |-> IF m.qos = 0 THEN [m EXCEPT !.id = 0] ELSE m]

\* The broker's answers, and every acknowledgement of either side, are read as
\* they are meant, for every packet id.
AnswersUnderstood ==
    Is("subscribe") =>
        LET id == input.value.id
        IN /\ \A type \in {PUBACK, PUBREC, PUBREL, PUBCOMP}, dup \in {0, 1} :
                MQTTDeserialize_ack(MQTTSerialize_ack(4, type, dup, id))
                     = [rc |-> 1, type |-> type, dup |-> dup, id |-> id]
           /\ \A code \in {0, 1, 2, 128} :
                /\ MQTTDeserialize_suback(<<144, 3>> \o writeInt(id) \o <<code>>, 1)
                     = [rc |-> 1, id |-> id, granted |-> <<code>>]
                /\ MQTTDeserialize_connack(<<32, 2, 1, code>>) = [rc |-> 1, present |-> 1, code |-> code]

\* What either side writes, the client's deserialisers read as it was meant.
PacketsRead == MessageSurvives /\ AnswersUnderstood

\* A filter matches the names it stands for, where no level is empty: a plus one
\* whole level, a number sign everything from its level on.
MatchesByLevel ==
    Is("topic") => \A n \in Names : isTopicMatched(input.value, n) <=> LevelsMatch(input.value, n)

\* MQTTDeserialize_suback stores at most maxcount codes.  It does not hold: the
\* count is compared after one too many.
GrantsFit ==
    Is("subscribe") => \A n \in 0..3 :
        Len(MQTTDeserialize_suback(<<144, 2 + n>> \o writeInt(1) \o Bytes(n), 1).granted) <= 1

\* A packet without the bytes it must have is not taken for a good one.  It does
\* not hold: rc is still the length of the length, which is 1.
ShortIsRefused ==
    Is("subscribe") =>
        /\ MQTTDeserialize_connack(<<32, 0>>).rc # 1 /\ MQTTDeserialize_ack(<<64, 0>>).rc # 1
        /\ MQTTDeserialize_publish(<<48, 2, 0, 5>>).rc # 1
=============================================================================
