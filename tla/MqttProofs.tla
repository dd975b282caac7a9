----------------------------- MODULE MqttProofs -----------------------------
(***************************************************************************)
(* SessionSound and HandlersMatch of MqttSession, for every number of      *)
(* message handlers, every range of packet ids, every bound on the packets *)
(* under way, and every network and broker the model knows.                *)
(***************************************************************************)
EXTENDS MqttSession, SequenceTheorems, TLAPS

\* What a broker sends, or what is left of it in a chunk.
Types == {"CONNACK", "SUBACK", "PUBACK", "PUBREL", "PINGRESP", "PUBLISH", "half", "rest"}
Pkts == [type : Types, id : Nat, topic : Topics \cup {"none"}, ok : BOOLEAN]

\* A queue of packets without a refused subscription.
GrantsOnly(q) == \A i \in 1..Len(q) : q[i].type = "SUBACK" => q[i].ok = TRUE

\* The packets under way.
Wire ==
  /\ fifo \in Seq(Pkts) /\ out \in Seq(Pkts)
  /\ Len(fifo) <= Room /\ Len(out) <= MaxOut /\ net_fifo_sem \in Nat
  /\ topics \subseteq Topics /\ around \in Surroundings

\* Where packets come alone, each has its read credit.
Credits == ~Merge => Len(fifo) <= net_fifo_sem

\* A broker that refuses nothing has sent no refusal.
Grants == ~Refuse => GrantsOnly(fifo) /\ GrantsOnly(out)

Control ==
  /\ main_pc \in {"connect", "connack", "subscribe", "suback", "ping", "cycle", "publish", "puback",
                  "disconnect", "restart"}
  /\ sub \in 1..4 /\ isconnected \in 0..1 /\ ping_outstanding \in 0..1
  /\ next_packetid \in 0..MAX_PACKET_ID
  /\ main_pc \in {"suback", "puback"} => next_packetid # 0
  /\ sub_temp \in Topics \cup {"none"}

\* The number of subscriptions done, and what main's buffer holds meanwhile.
Temp ==
  /\ main_pc = "connack" => sub = 1
  /\ main_pc = "subscribe" /\ sub \in {3, 4} => sub_temp = "action-sn"
  /\ main_pc = "suback" /\ sub \in {2, 3} => sub_temp = "action-sn"
  /\ main_pc = "suback" /\ sub = 4 => sub_temp = "con-sn"
  /\ InLoop => sub_temp = "con-sn"

\* Until it is connected, a session has no handlers.
Handlers ==
  /\ messageHandlers \in [1..MAX_MESSAGE_HANDLERS ->
       [filter : {"NULL", "action", "config", "sub_temp"}, callback : {"NULL", "action", "config"}]]
  /\ main_pc \in {"connect", "connack", "restart"} =>
       isconnected = 0 /\ \A i \in 1..MAX_MESSAGE_HANDLERS : messageHandlers[i].filter = "NULL"

\* The slots after g granted subscriptions: the fourth takes over the slot of the
\* second, whose filter is the buffer main has just rewritten.
Granted == IF InLoop THEN 4 ELSE IF main_pc \in {"subscribe", "suback"} THEN sub - 1 ELSE 0
FilterAt(i, g) ==
  IF i = 1 /\ g >= 1 THEN "action" ELSE IF i = 2 /\ g >= 2 THEN "sub_temp"
  ELSE IF i = 3 /\ g >= 3 THEN "config" ELSE "NULL"
CallbackAt(i, g) == IF i = 1 \/ (i = 2 /\ g < 4) THEN "action" ELSE "config"
Filled(h, g) ==
  \A i \in 1..MAX_MESSAGE_HANDLERS :
    /\ h[i].filter = FilterAt(i, g)
    /\ FilterAt(i, g) # "NULL" => h[i].callback = CallbackAt(i, g)
\* MQTT_cycle closed the session over a packet main does not hear of.
Cleared == InLoop /\ Filled(messageHandlers, 0)
Slots == ~Refuse /\ main_pc # "disconnect" => Filled(messageHandlers, Granted) \/ Cleared
-----------------------------------------------------------------------------
\* An element of a sequence over S is in S.
LEMMA ElementInSet == \A S : \A s \in Seq(S) : \A i \in 1..Len(s) : s[i] \in S
  OBVIOUS

\* The elements of two sequences put together.
LEMMA Joined ==
  \A S : \A s, t \in Seq(S) :
    /\ s \o t \in Seq(S) /\ Len(s \o t) = Len(s) + Len(t)
    /\ \A i \in 1..Len(s) : (s \o t)[i] = s[i]
    /\ \A i \in 1..Len(t) : (s \o t)[Len(s) + i] = t[i]
  OBVIOUS

\* What the assumption on the bounds says of its numbers.
LEMMA Sizes ==
  /\ MAX_PACKET_ID \in Nat /\ MAX_PACKET_ID > 0 /\ MAX_MESSAGE_HANDLERS \in Nat /\ MAX_MESSAGE_HANDLERS > 0
  /\ MaxOut \in Nat /\ MaxFifo \in Nat /\ MaxWhole \in Nat /\ Room \in Nat /\ Room > 0
  BY SizeAssumption DEF Room

\* The topics main subscribes to.
LEMMA FourTopics == Topics = {"action", "action-sn", "config", "con-sn"}
  <1>1. 1..4 = {1, 2, 3, 4}
    OBVIOUS
  <1> QED  BY <1>1 DEF Topics, Subscriptions

\* A packet of the broker is a packet.
LEMMA PacketType ==
  ASSUME NEW type \in Types, NEW id \in Nat, NEW topic \in Topics \cup {"none"}, NEW ok \in BOOLEAN
  PROVE  /\ Packet(type, id, topic, ok) \in Pkts
         /\ Packet(type, id, topic, ok).type = type /\ Packet(type, id, topic, ok).ok = ok
  BY DEF Packet, Pkts

\* A packet at the end of a queue.
LEMMA QueueAppend ==
  ASSUME NEW q \in Seq(Pkts), NEW p \in Pkts
  PROVE  /\ Append(q, p) \in Seq(Pkts) /\ Len(Append(q, p)) = Len(q) + 1
         /\ GrantsOnly(q) /\ (p.type = "SUBACK" => p.ok = TRUE) => GrantsOnly(Append(q, p))
  <1>1. /\ Append(q, p) \in Seq(Pkts) /\ Len(Append(q, p)) = Len(q) + 1 /\ Len(q) \in Nat
        /\ \A i \in 1..Len(q) : Append(q, p)[i] = q[i]
        /\ Append(q, p)[Len(q) + 1] = p
    OBVIOUS
  <1>2. ASSUME GrantsOnly(q), p.type = "SUBACK" => p.ok = TRUE,
               NEW i \in 1..Len(Append(q, p)), Append(q, p)[i].type = "SUBACK"
        PROVE  Append(q, p)[i].ok = TRUE
    <2>1. i \in 1..Len(q) \/ i = Len(q) + 1
      BY <1>1
    <2> QED  BY <1>1, <1>2, <2>1 DEF GrantsOnly
  <1> QED  BY <1>1, <1>2 DEF GrantsOnly

\* A queue of one packet that is no refusal.
LEMMA QueueOfOne ==
  ASSUME NEW p \in Pkts, p.type # "SUBACK"
  PROVE  <<p>> \in Seq(Pkts) /\ Len(<<p>>) = 1 /\ GrantsOnly(<<p>>)
  <1>1. <<p>> \in Seq(Pkts) /\ Len(<<p>>) = 1 /\ <<p>>[1] = p
    OBVIOUS
  <1> QED  BY <1>1 DEF GrantsOnly

\* The first packet of a queue, and what is behind it.
LEMMA QueueTail ==
  ASSUME NEW q \in Seq(Pkts), q # <<>>
  PROVE  /\ Head(q) \in Pkts /\ Tail(q) \in Seq(Pkts) /\ Len(Tail(q)) = Len(q) - 1
         /\ GrantsOnly(q) => GrantsOnly(Tail(q)) /\ (Head(q).type = "SUBACK" => Head(q).ok = TRUE)
  <1>1. /\ Head(q) \in Pkts /\ Tail(q) \in Seq(Pkts) /\ Len(Tail(q)) = Len(q) - 1 /\ Len(q) \in Nat
        /\ \A i \in 1..Len(Tail(q)) : Tail(q)[i] = q[i + 1]
    BY HeadTailProperties
  <1>2. Head(q) = q[1] /\ 1 \in 1..Len(q)
    OBVIOUS
  <1>3. ASSUME GrantsOnly(q), NEW i \in 1..Len(Tail(q)), Tail(q)[i].type = "SUBACK" PROVE Tail(q)[i].ok = TRUE
    <2>1. i + 1 \in 1..Len(q) /\ Tail(q)[i] = q[i + 1]
      BY <1>1
    <2> QED  BY <1>3, <2>1 DEF GrantsOnly
  <1> QED  BY <1>1, <1>2, <1>3 DEF GrantsOnly

\* The first packet of a queue replaced by one that is no refusal.
LEMMA QueueFirst ==
  ASSUME NEW q \in Seq(Pkts), q # <<>>, NEW p \in Pkts, p.type # "SUBACK"
  PROVE  LET r == [q EXCEPT ![1] = p]
         IN  r \in Seq(Pkts) /\ Len(r) = Len(q) /\ (GrantsOnly(q) => GrantsOnly(r))
  <1> DEFINE r == [q EXCEPT ![1] = p]
  <1>1. r \in Seq(Pkts) /\ Len(r) = Len(q) /\ \A i \in 1..Len(q) : r[i] = IF i = 1 THEN p ELSE q[i]
    OBVIOUS
  <1> HIDE DEF r
  <1>2. GrantsOnly(q) => GrantsOnly(r)
    BY <1>1 DEF GrantsOnly
  <1> QED  BY <1>1, <1>2 DEF r

\* The broker's answer joins the packets under way, or does not.
LEMMA AnswerJoins ==
  ASSUME Wire, NEW P, P \subseteq Pkts, Answered(P)
  PROVE  /\ out' \in Seq(Pkts) /\ Len(out') <= MaxOut
         /\ GrantsOnly(out) /\ (\A p \in P : p.type = "SUBACK" => p.ok = TRUE) => GrantsOnly(out')
  <1> USE Sizes
  <1>0. out \in Seq(Pkts) /\ Len(out) <= MaxOut /\ Len(out) \in Nat
    BY DEF Wire
  <1>1. CASE out' = out
    BY <1>0, <1>1
  <1>2. ASSUME NEW p \in P, Len(out) < MaxOut, out' = Append(out, p) PROVE
          /\ out' \in Seq(Pkts) /\ Len(out') <= MaxOut
          /\ GrantsOnly(out) /\ (p.type = "SUBACK" => p.ok = TRUE) => GrantsOnly(out')
    <2>1. p \in Pkts
      BY <1>2
    <2>2. out' \in Seq(Pkts) /\ Len(out') = Len(out) + 1
      BY <1>0, <1>2, <2>1
    <2>3. \A i \in 1..Len(out') : out'[i] = IF i = Len(out) + 1 THEN p ELSE out[i]
      BY <1>0, <1>2, <2>1
    <2>4. ASSUME GrantsOnly(out), p.type = "SUBACK" => p.ok = TRUE, NEW i \in 1..Len(out'), out'[i].type = "SUBACK"
          PROVE  out'[i].ok = TRUE
      <3>1. CASE i = Len(out) + 1
        BY <2>3, <2>4, <3>1
      <3>2. CASE i # Len(out) + 1
        <4>1. i \in 1..Len(out) /\ out'[i] = out[i]
          BY <1>0, <2>2, <2>3, <3>2
        <4> QED  BY <2>4, <4>1 DEF GrantsOnly
      <3> QED  BY <3>1, <3>2
    <2> QED  BY <1>0, <1>2, <2>2, <2>4 DEF GrantsOnly
  <1> QED  BY <1>1, <1>2 DEF Answered

\* A read takes a credit and, if there is one, a packet.
LEMMA ReadTakes ==
  ASSUME Wire, Read
  PROVE  /\ fifo' \in Seq(Pkts) /\ Len(fifo') <= Room /\ net_fifo_sem' \in Nat
         /\ Credits /\ around' = around => Credits'
         /\ GrantsOnly(fifo) => GrantsOnly(fifo')
  <1> USE Sizes
  <1>0. fifo \in Seq(Pkts) /\ Len(fifo) \in Nat /\ Len(fifo) <= Room /\ net_fifo_sem \in Nat
    BY DEF Wire
  <1>1. net_fifo_sem > 0 /\ net_fifo_sem' = net_fifo_sem - 1
    BY DEF Read
  <1>2. CASE fifo = <<>>
    <2>1. fifo' = fifo /\ Len(fifo) = 0
      BY <1>2 DEF Read
    <2> QED  BY <1>0, <1>1, <2>1 DEF Credits, Merge
  <1>3. CASE fifo # <<>>
    <2>1. fifo' = Tail(fifo)
      BY <1>3 DEF Read
    <2>2. /\ fifo' \in Seq(Pkts) /\ Len(fifo') = Len(fifo) - 1
          /\ \A i \in 1..Len(fifo') : fifo'[i] = fifo[i + 1]
      BY <1>0, <1>3, <2>1, HeadTailProperties
    <2>3. ASSUME GrantsOnly(fifo) PROVE GrantsOnly(fifo')
      <3> SUFFICES ASSUME NEW i \in 1..Len(fifo'), fifo'[i].type = "SUBACK" PROVE fifo'[i].ok = TRUE
        BY DEF GrantsOnly
      <3>1. i + 1 \in 1..Len(fifo) /\ fifo'[i] = fifo[i + 1]
        BY <1>0, <2>2
      <3> QED  BY <2>3, <3>1 DEF GrantsOnly
    <2>4. Credits /\ around' = around => Credits'
      BY <1>0, <1>1, <2>2 DEF Credits, Merge
    <2> QED  BY <1>0, <1>1, <2>2, <2>3, <2>4
  <1> QED  BY <1>2, <1>3

\* What is read, if a broker that refuses nothing sent it, is no refusal.
LEMMA ReadGrants ==
  ASSUME Wire, GrantsOnly(fifo), NextPacket.type = "SUBACK"
  PROVE  NextPacket.ok = TRUE
  <1>1. CASE fifo = <<>>
    BY <1>1 DEF NextPacket, Simple, Packet
  <1>2. CASE fifo # <<>>
    <2>1. NextPacket = fifo[1] /\ 1 \in 1..Len(fifo)
      BY <1>2 DEF NextPacket, Wire
    <2> QED  BY <2>1 DEF GrantsOnly
  <1> QED  BY <1>1, <1>2
-----------------------------------------------------------------------------
\* getNextPacketId wraps around to 1, never to 0.
LEMMA NextId == Control => getNextPacketId \in 1..MAX_PACKET_ID
  BY Sizes DEF Control, getNextPacketId

\* The packets under way when nothing but answers joins them.
LEMMA WireKept ==
  ASSUME Wire, Credits, Grants, around' = around, UNCHANGED <<fifo, net_fifo_sem>> \/ Read,
         topics' \subseteq Topics, NEW P, P \subseteq Pkts, Answered(P),
         ~Refuse => \A p \in P : p.type = "SUBACK" => p.ok = TRUE
  PROVE  Wire' /\ Credits' /\ Grants'
  <1>1. Room' = Room
    BY DEF Room, Merge
  <1>2. fifo' \in Seq(Pkts) /\ Len(fifo') <= Room /\ net_fifo_sem' \in Nat /\ Credits' /\ (GrantsOnly(fifo) => GrantsOnly(fifo'))
    <2>1. CASE Read
      BY <2>1, ReadTakes
    <2>2. CASE UNCHANGED <<fifo, net_fifo_sem>>
      BY <2>2 DEF Wire, Credits, Merge
    <2> QED  BY <2>1, <2>2
  <1>3. /\ out' \in Seq(Pkts) /\ Len(out') <= MaxOut
        /\ GrantsOnly(out) /\ (\A p \in P : p.type = "SUBACK" => p.ok = TRUE) => GrantsOnly(out')
    BY AnswerJoins
  <1>4. Wire'
    BY <1>1, <1>2, <1>3 DEF Wire
  <1>5. Grants'
    BY <1>2, <1>3 DEF Grants, Refuse
  <1> QED  BY <1>2, <1>4, <1>5

\* Every step of main, the broker and the network keeps the packets under way as they should be.
LEMMA WireStep == Wire /\ Credits /\ Grants /\ Control /\ [Next]_vars => Wire' /\ Credits' /\ Grants'
  <1> SUFFICES ASSUME Wire, Credits, Grants, Control, [Next]_vars PROVE Wire' /\ Credits' /\ Grants'
    OBVIOUS
  <1> USE Sizes
  <1>a. around' = around
    BY DEF Next, vars
  <1>t. topics \subseteq Topics
    BY DEF Wire
  <1>n. Answered({}) <=> out' = out
    BY DEF Answered
  <1>1. CASE UNCHANGED net
    BY <1>1, <1>a, <1>n, <1>t, WireKept DEF net
  <1>2. CASE Read /\ UNCHANGED <<out, topics>>
    BY <1>2, <1>a, <1>n, <1>t, WireKept
  <1>3. CASE CyclePublish
    <2>1. Read /\ topics' = topics /\ (UNCHANGED out \/ Answered({Simple("PUBREL")}))
      BY <1>3 DEF CyclePublish
    <2>2. Simple("PUBREL") \in Pkts /\ Simple("PUBREL").type # "SUBACK"
      BY PacketType DEF Simple, Types
    <2> QED  BY <1>a, <1>n, <1>t, <2>1, <2>2, WireKept
  <1>4. CASE ConnectSend
    <2> DEFINE P == {Packet("CONNACK", 0, "none", TRUE), Packet("CONNACK", 0, "none", FALSE)}
    <2>1. UNCHANGED <<fifo, net_fifo_sem>> /\ topics' = {} /\ Answered(P)
      BY <1>4 DEF ConnectSend
    <2>2. P \subseteq Pkts /\ \A p \in P : p.type # "SUBACK"
      <3>1. "CONNACK" \in Types /\ "none" \in Topics \cup {"none"} /\ 0 \in Nat /\ TRUE \in BOOLEAN /\ FALSE \in BOOLEAN
        BY DEF Types
      <3>2. /\ Packet("CONNACK", 0, "none", TRUE) \in Pkts /\ Packet("CONNACK", 0, "none", TRUE).type = "CONNACK"
            /\ Packet("CONNACK", 0, "none", FALSE) \in Pkts /\ Packet("CONNACK", 0, "none", FALSE).type = "CONNACK"
        BY <3>1, PacketType, ZenonT(40)
      <3> QED  BY <3>2
    <2> HIDE DEF P
    <2> QED  BY <1>a, <2>1, <2>2, WireKept
  <1>5. CASE SubscribeSend
    <2>0. next_packetid' \in Nat
      BY <1>5, NextId DEF SubscribeSend
    <2>1. UNCHANGED <<fifo, net_fifo_sem>>
      BY <1>5 DEF SubscribeSend
    <2>2. CASE topics' = topics \cup {Subscriptions[sub].topic} /\ Answered({Packet("SUBACK", next_packetid', "none", TRUE)})
      <3>1. topics' \subseteq Topics
        BY <1>t, <2>2 DEF Topics, Control
      <3>2. Packet("SUBACK", next_packetid', "none", TRUE) \in Pkts /\ Packet("SUBACK", next_packetid', "none", TRUE).ok = TRUE
        BY <2>0, PacketType DEF Types
      <3> QED  BY <1>a, <2>1, <2>2, <3>1, <3>2, WireKept
    <2>3. CASE Refuse /\ topics' = topics /\ Answered({Packet("SUBACK", next_packetid', "none", FALSE)})
      <3>1. Packet("SUBACK", next_packetid', "none", FALSE) \in Pkts
        BY <2>0, PacketType DEF Types
      <3> QED  BY <1>a, <1>t, <2>1, <2>3, <3>1, WireKept
    <2> QED  BY <1>5, <2>2, <2>3 DEF SubscribeSend
  <1>6. CASE Ping
    <2>1. UNCHANGED <<fifo, net_fifo_sem, topics>> /\ Answered({Simple("PINGRESP")})
      BY <1>6 DEF Ping
    <2>2. Simple("PINGRESP") \in Pkts /\ Simple("PINGRESP").type # "SUBACK"
      BY PacketType DEF Simple, Types
    <2> QED  BY <1>a, <1>t, <2>1, <2>2, WireKept
  <1>7. CASE PublishSend
    <2>0. next_packetid' \in Nat
      BY <1>7, NextId DEF PublishSend
    <2>1. UNCHANGED <<fifo, net_fifo_sem, topics>> /\ Answered({Packet("PUBACK", next_packetid', "none", TRUE)})
      BY <1>7 DEF PublishSend
    <2>2. Packet("PUBACK", next_packetid', "none", TRUE) \in Pkts /\ Packet("PUBACK", next_packetid', "none", TRUE).type # "SUBACK"
      BY <2>0, PacketType DEF Types
    <2> QED  BY <1>a, <1>t, <2>1, <2>2, WireKept
  <1>8. CASE Network
    <2>0. /\ fifo \in Seq(Pkts) /\ out \in Seq(Pkts) /\ Len(fifo) \in Nat /\ Len(out) \in Nat /\ net_fifo_sem \in Nat
          /\ Len(fifo) <= Room /\ Len(out) <= MaxOut /\ Room' = Room
      BY <1>a DEF Wire, Room, Merge
    <2>1. CASE LinkLost
      BY <1>a, <2>0, <2>1 DEF LinkLost, Wire, Credits, Grants, GrantsOnly, Merge, Refuse
    <2>2. ASSUME NEW n \in {1, 2}, Arrive(n), n = 2 => Merge PROVE Wire' /\ Credits' /\ Grants'
      <3>1. /\ n <= Len(out) /\ Len(fifo) + n <= Room /\ fifo' = fifo \o SubSeq(out, 1, n)
            /\ out' = SubSeq(out, n + 1, Len(out)) /\ net_fifo_sem' = net_fifo_sem + 1 /\ topics' = topics
        BY <2>2 DEF Arrive
      <3>2. \A i \in 1..Len(out) : out[i] \in Pkts
        BY <2>0, ElementInSet, Zenon
      <3>3. /\ SubSeq(out, 1, n) \in Seq(Pkts) /\ Len(SubSeq(out, 1, n)) = n
            /\ \A i \in 1..n : SubSeq(out, 1, n)[i] = out[i]
        <4>1. \A i \in 1..n : out[i] \in Pkts
          BY <2>0, <3>1, <3>2
        <4> QED  BY <4>1, SubSeqProperties
      <3>4. /\ out' \in Seq(Pkts) /\ Len(out') = Len(out) - n
            /\ \A i \in 1..(Len(out) - n) : out'[i] = out[n + i]
        <4>1. \A i \in (n + 1)..Len(out) : out[i] \in Pkts
          BY <2>0, <3>1, <3>2
        <4>2. /\ out' \in Seq(Pkts) /\ Len(out') = IF n + 1 <= Len(out) THEN Len(out) - (n + 1) + 1 ELSE 0
              /\ \A i \in 1..(Len(out) - (n + 1) + 1) : out'[i] = out[(n + 1) + i - 1]
          BY <2>0, <3>1, <4>1, SubSeqProperties
        <4> QED  BY <2>0, <3>1, <4>2
      <3>5. /\ fifo' \in Seq(Pkts) /\ Len(fifo') = Len(fifo) + n
            /\ \A i \in 1..Len(fifo) : fifo'[i] = fifo[i]
            /\ \A i \in 1..n : fifo'[Len(fifo) + i] = out[i]
        BY <2>0, <3>1, <3>3, Joined
      <3>6. Wire'
        BY <1>a, <1>t, <2>0, <3>1, <3>4, <3>5 DEF Wire
      <3>7. Credits'
        BY <1>a, <2>0, <2>2, <3>1, <3>5 DEF Credits, Merge
      <3>8. ASSUME GrantsOnly(fifo), GrantsOnly(out) PROVE GrantsOnly(fifo') /\ GrantsOnly(out')
        <4>1. ASSUME NEW i \in 1..Len(out'), out'[i].type = "SUBACK" PROVE out'[i].ok = TRUE
          <5>1. n + i \in 1..Len(out) /\ out'[i] = out[n + i]
            BY <2>0, <3>1, <3>4, SMTT(30)
          <5> QED  BY <3>8, <4>1, <5>1 DEF GrantsOnly
        <4>2. ASSUME NEW i \in 1..Len(fifo'), fifo'[i].type = "SUBACK" PROVE fifo'[i].ok = TRUE
          <5>1. CASE i \in 1..Len(fifo)
            BY <3>5, <3>8, <4>2, <5>1 DEF GrantsOnly
          <5>2. CASE i \notin 1..Len(fifo)
            <6>1. i - Len(fifo) \in 1..n /\ i - Len(fifo) \in 1..Len(out) /\ i = Len(fifo) + (i - Len(fifo))
              BY <2>0, <3>1, <3>5, <5>2
            <6>2. fifo'[i] = out[i - Len(fifo)]
              BY <3>5, <6>1
            <6> QED  BY <3>8, <4>2, <6>1, <6>2 DEF GrantsOnly
          <5> QED  BY <5>1, <5>2
        <4> QED  BY <4>1, <4>2 DEF GrantsOnly
      <3> QED  BY <1>a, <3>6, <3>7, <3>8 DEF Grants, Refuse
    <2>3. CASE ArriveOver \/ ArriveCut \/ ArriveInTwo
      <3>0. out # <<>> /\ topics' = topics /\ net_fifo_sem' \in Nat
        BY <2>0, <2>3 DEF ArriveOver, ArriveCut, ArriveInTwo
      <3>1. /\ Simple("half") \in Pkts /\ Simple("half").type # "SUBACK"
            /\ Simple("rest") \in Pkts /\ Simple("rest").type # "SUBACK"
        BY PacketType DEF Simple, Types
      <3>2. /\ Head(out) \in Pkts /\ Tail(out) \in Seq(Pkts) /\ Len(Tail(out)) = Len(out) - 1
            /\ GrantsOnly(out) => GrantsOnly(Tail(out)) /\ (Head(out).type = "SUBACK" => Head(out).ok = TRUE)
        BY <2>0, <3>0, QueueTail
      <3>3. CASE ArriveOver
        <4>1. fifo' = <<Simple("rest")>> /\ out' = Tail(out) /\ net_fifo_sem' = net_fifo_sem + 1
          BY <3>3 DEF ArriveOver
        <4>2. fifo' \in Seq(Pkts) /\ Len(fifo') = 1 /\ GrantsOnly(fifo')
          BY <3>1, <4>1, QueueOfOne
        <4>3. Wire' /\ Credits'
          BY <1>a, <1>t, <2>0, <3>0, <3>2, <4>1, <4>2, Sizes DEF Wire, Credits, Merge
        <4> QED  BY <1>a, <3>2, <4>1, <4>2, <4>3 DEF Grants, Refuse
      <3>4. CASE ArriveCut
        <4>1. /\ fifo' = Append(fifo, Simple("half")) /\ out' = [out EXCEPT ![1] = Simple("rest")]
              /\ net_fifo_sem' = net_fifo_sem + 1 /\ Len(fifo) < Room
          BY <3>4 DEF ArriveCut
        <4>2. fifo' \in Seq(Pkts) /\ Len(fifo') = Len(fifo) + 1 /\ (GrantsOnly(fifo) => GrantsOnly(fifo'))
          BY <2>0, <3>1, <4>1, QueueAppend
        <4>3. out' \in Seq(Pkts) /\ Len(out') = Len(out) /\ (GrantsOnly(out) => GrantsOnly(out'))
          BY <2>0, <3>0, <3>1, <4>1, QueueFirst
        <4>4. Wire' /\ Credits'
          BY <1>a, <1>t, <2>0, <3>0, <4>1, <4>2, <4>3, Sizes DEF Wire, Credits, Merge
        <4> QED  BY <1>a, <4>2, <4>3, <4>4 DEF Grants, Refuse
      <3>5. CASE ArriveInTwo
        <4>1. /\ fifo' = Append(fifo, Head(out)) /\ out' = Tail(out)
              /\ net_fifo_sem' = net_fifo_sem + 2 /\ Len(fifo) < Room
          BY <3>5 DEF ArriveInTwo
        <4>2. /\ fifo' \in Seq(Pkts) /\ Len(fifo') = Len(fifo) + 1
              /\ GrantsOnly(fifo) /\ (Head(out).type = "SUBACK" => Head(out).ok = TRUE) => GrantsOnly(fifo')
          BY <2>0, <3>2, <4>1, QueueAppend
        <4>3. Wire' /\ Credits'
          BY <1>a, <1>t, <2>0, <3>0, <3>2, <4>1, <4>2, Sizes DEF Wire, Credits, Merge
        <4> QED  BY <1>a, <3>2, <4>1, <4>2, <4>3 DEF Grants, Refuse
      <3> QED  BY <2>3, <3>3, <3>4, <3>5
    <2>4. ASSUME NEW t \in Topics, BrokerPublish(t) PROVE Wire' /\ Credits' /\ Grants'
      <3>1. /\ Len(out) < MaxOut /\ out' = Append(out, Packet("PUBLISH", 0, t, TRUE))
            /\ UNCHANGED <<fifo, net_fifo_sem, topics>>
        BY <2>0, <2>4 DEF BrokerPublish
      <3>2. Packet("PUBLISH", 0, t, TRUE) \in Pkts /\ Packet("PUBLISH", 0, t, TRUE).type # "SUBACK"
        BY PacketType DEF Types
      <3>3. Answered({Packet("PUBLISH", 0, t, TRUE)})
        BY <3>1 DEF Answered
      <3> QED  BY <1>a, <1>t, <3>1, <3>2, <3>3, WireKept
    <2> QED  BY <1>8, <2>1, <2>2, <2>3, <2>4 DEF Network, Arrival
  <1>9. CASE Main
    <2>1. CASE ConnectFails \/ ConnectTimeout \/ SubscribeFails \/ AckTimeout \/ PublishFails \/ MQTTDisconnect
      BY <1>1, <2>1 DEF ConnectFails, ConnectTimeout, SubscribeFails, AckTimeout, PublishFails, MQTTDisconnect
    <2>2. CASE \/ NotDue("ping", "cycle") \/ PingFails \/ CycleNothing \/ NotDue("publish", "ping") \/ Restart
      BY <1>1, <2>2 DEF NotDue, PingFails, CycleNothing, Restart
    <2>3. CASE ConnAck \/ Skip \/ SubAck \/ PubAck
      BY <1>2, <2>3 DEF ConnAck, Skip, SubAck, PubAck
    <2>4. CASE CycleRelease \/ CyclePingResp \/ CycleIgnored \/ CycleError
      BY <1>2, <2>4 DEF CycleRelease, CyclePingResp, CycleIgnored, CycleError
    <2> QED
      BY <1>3, <1>4, <1>5, <1>6, <1>7, <1>9, <2>1, <2>2, <2>3, <2>4
         DEF Main, Connecting, Subscribing, Looping, Cycle
  <1>10. CASE UNCHANGED vars
    BY <1>1, <1>10 DEF vars
  <1> QED  BY <1>8, <1>9, <1>10 DEF Next
-----------------------------------------------------------------------------
\* MQTTCloseSession leaves no filter.
LEMMA CloseClears ==
  ASSUME Handlers, MQTTCloseSession
  PROVE  /\ isconnected' = 0 /\ ping_outstanding' = 0
         /\ messageHandlers' \in [1..MAX_MESSAGE_HANDLERS ->
              [filter : {"NULL", "action", "config", "sub_temp"}, callback : {"NULL", "action", "config"}]]
         /\ \A i \in 1..MAX_MESSAGE_HANDLERS : messageHandlers'[i].filter = "NULL"
  <1>1. messageHandlers \in [1..MAX_MESSAGE_HANDLERS ->
              [filter : {"NULL", "action", "config", "sub_temp"}, callback : {"NULL", "action", "config"}]]
    BY DEF Handlers
  <1>2. messageHandlers' = [i \in 1..MAX_MESSAGE_HANDLERS |-> [messageHandlers[i] EXCEPT !.filter = "NULL"]]
    BY <1>1 DEF MQTTCloseSession, MQTTCleanSession
  <1> QED  BY <1>1, <1>2 DEF MQTTCloseSession

\* The statement main is at and its counters.
LEMMA ControlStep ==
  ASSUME Control, Temp, Handlers, [Next]_vars
  PROVE  Control' /\ Temp'
  <1> USE Sizes, FourTopics DEF Control, Temp, InLoop
  <1>1. getNextPacketId \in 1..MAX_PACKET_ID
    BY NextId
  <1>2. CASE UNCHANGED vars
    BY <1>2 DEF vars, client
  <1>3. CASE Network
    BY <1>3 DEF Network, Arrival, LinkLost, Arrive, ArriveOver, ArriveCut, ArriveInTwo, BrokerPublish, client
  <1>4. CASE Connecting
    BY <1>4 DEF Connecting, ConnectSend, ConnectFails, ConnAck, ConnectTimeout, client
  <1>5. CASE Skip
    BY <1>5 DEF Skip, client
  <1>6. CASE SubscribeSend
    BY <1>1, <1>6 DEF SubscribeSend, Subscriptions
  <1>7. CASE SubscribeFails
    BY <1>1, <1>7, CloseClears DEF SubscribeFails, Subscriptions
  <1>8. CASE SubAck
    BY <1>8 DEF SubAck
  <1>9. CASE AckTimeout \/ MQTTDisconnect
    BY <1>9, CloseClears DEF AckTimeout, MQTTDisconnect
  <1>10. CASE NotDue("ping", "cycle") \/ NotDue("publish", "ping") \/ PingFails \/ CycleNothing \/ Restart
    BY <1>10 DEF NotDue, PingFails, CycleNothing, Restart, client
  <1>11. CASE Ping \/ CyclePingResp \/ CycleIgnored \/ PubAck
    BY <1>11 DEF Ping, CyclePingResp, CycleIgnored, PubAck, client
  <1>12. CASE CyclePublish \/ CycleRelease \/ CycleError
    BY <1>12, CloseClears DEF CyclePublish, CycleRelease, CycleError
  <1>13. CASE PublishSend
    BY <1>1, <1>13 DEF PublishSend
  <1>14. CASE PublishFails
    BY <1>1, <1>14, CloseClears DEF PublishFails, client
  <1> QED
    BY <1>2, <1>3, <1>4, <1>5, <1>6, <1>7, <1>8, <1>9, <1>10, <1>11, <1>12, <1>13, <1>14
       DEF Next, Main, Subscribing, Looping, Cycle

\* The handlers.
LEMMA HandlersStep ==
  ASSUME Control, Handlers, [Next]_vars
  PROVE  Handlers'
  <1> DEFINE R == [filter : {"NULL", "action", "config", "sub_temp"}, callback : {"NULL", "action", "config"}]
  <1>1. messageHandlers \in [1..MAX_MESSAGE_HANDLERS -> R]
    BY DEF Handlers
  <1>2. CASE /\ UNCHANGED <<isconnected, messageHandlers>>
             /\ main_pc' \in {"connect", "connack", "restart"} => main_pc \in {"connect", "connack", "restart"}
    BY <1>2 DEF Handlers
  <1>3. CASE MQTTCloseSession
    BY <1>3, CloseClears DEF Handlers
  <1>4. CASE ConnAck
    BY <1>4 DEF ConnAck, Handlers
  <1>5. CASE SubAck
    <2>1. main_pc' \notin {"connect", "connack", "restart"}
      BY <1>5 DEF SubAck
    <2>2. messageHandlers' = messageHandlers \/ \E i : messageHandlers' = [messageHandlers EXCEPT ![i] =
            [filter |-> Subscriptions[sub].pointer, callback |-> Subscriptions[sub].callback]]
      BY <1>5 DEF SubAck, MQTTSetMessageHandler
    <2>3. [filter |-> Subscriptions[sub].pointer, callback |-> Subscriptions[sub].callback] \in R
      BY DEF Control, Subscriptions
    <2> HIDE DEF R
    <2>4. messageHandlers' \in [1..MAX_MESSAGE_HANDLERS -> R]
      BY <1>1, <2>2, <2>3
    <2> QED  BY <2>1, <2>4 DEF Handlers, R
  <1>6. CASE Network \/ UNCHANGED vars
    BY <1>2, <1>6 DEF vars, client, Network, Arrival, LinkLost, Arrive, ArriveOver, ArriveCut, ArriveInTwo, BrokerPublish
  <1>7. CASE ConnectSend \/ ConnectFails \/ ConnectTimeout \/ Skip \/ SubscribeSend
    BY <1>2, <1>7 DEF ConnectSend, ConnectFails, ConnectTimeout, Skip, SubscribeSend, client
  <1>8. CASE SubscribeFails \/ AckTimeout \/ CycleError \/ MQTTDisconnect
    BY <1>3, <1>8 DEF SubscribeFails, AckTimeout, CycleError, MQTTDisconnect
  <1>9. CASE NotDue("ping", "cycle") \/ NotDue("publish", "ping") \/ PingFails \/ CycleNothing \/ Restart
    BY <1>2, <1>9 DEF NotDue, PingFails, CycleNothing, Restart, client
  <1>10. CASE Ping \/ CyclePingResp \/ CycleIgnored \/ PublishSend \/ PubAck
    BY <1>2, <1>10 DEF Ping, CyclePingResp, CycleIgnored, PublishSend, PubAck, client
  <1>11. CASE CyclePublish \/ CycleRelease \/ PublishFails
    BY <1>2, <1>3, <1>11 DEF CyclePublish, CycleRelease, PublishFails, client
  <1> QED
    BY <1>4, <1>5, <1>6, <1>7, <1>8, <1>9, <1>10, <1>11
       DEF Next, Main, Connecting, Subscribing, Looping, Cycle

\* The first of a range of slots.
LEMMA FirstOfRange ==
  ASSUME NEW a \in Nat, NEW b \in Nat, a <= b
  PROVE  (CHOOSE i \in a..b : \A j \in a..b : i <= j) = a
  OBVIOUS

\* A granted subscription fills its slot.
LEMMA SetFills ==
  ASSUME Handlers, sub \in 1..4, Filled(messageHandlers, sub - 1),
         sub \in {2, 3} => sub_temp = "action-sn", sub = 4 => sub_temp = "con-sn",
         MQTTSetMessageHandler(Subscriptions[sub].pointer, Subscriptions[sub].callback)
  PROVE  Filled(messageHandlers', sub)
  <1> USE Sizes
  <1> DEFINE M == MAX_MESSAGE_HANDLERS
             pointer == Subscriptions[sub].pointer
             callback == Subscriptions[sub].callback
             same == {i \in 1..M : messageHandlers[i].filter # "NULL" /\ Filter(messageHandlers[i].filter) = Filter(pointer)}
             free == {i \in 1..M : messageHandlers[i].filter = "NULL"}
             slot == IF same # {} THEN same ELSE free
             first == CHOOSE i \in slot : \A j \in slot : i <= j
  <1>1. DOMAIN messageHandlers = 1..M
    BY DEF Handlers
  <1>2. messageHandlers' = IF slot = {} THEN messageHandlers
          ELSE [messageHandlers EXCEPT ![first] = [filter |-> pointer, callback |-> callback]]
    BY <1>1 DEF MQTTSetMessageHandler
  <1>3. \A i \in 1..M : /\ messageHandlers[i].filter = FilterAt(i, sub - 1)
                        /\ FilterAt(i, sub - 1) # "NULL" => messageHandlers[i].callback = CallbackAt(i, sub - 1)
    BY DEF Filled
  <1>4. CASE sub \in {1, 2, 3}
    <2>1. same = {}
      BY <1>3, <1>4 DEF Filter, FilterAt, Subscriptions
    <2>2. slot = sub..M
      <3>1. free = sub..M
        BY <1>3, <1>4 DEF FilterAt
      <3> QED  BY <2>1, <3>1
    <2>3. sub <= M => first = sub
      <3> HIDE DEF slot
      <3> QED  BY <2>2, FirstOfRange
    <2>4. pointer = FilterAt(sub, sub) /\ callback = CallbackAt(sub, sub)
      BY <1>4 DEF FilterAt, CallbackAt, Subscriptions
    <2>5. \A i \in 1..M : i # sub => FilterAt(i, sub) = FilterAt(i, sub - 1) /\ CallbackAt(i, sub) = CallbackAt(i, sub - 1)
      BY <1>4 DEF FilterAt, CallbackAt
    <2> HIDE DEF slot, first, pointer, callback
    <2>6. CASE sub <= M
      <3>1. messageHandlers' = [messageHandlers EXCEPT ![sub] = [filter |-> pointer, callback |-> callback]]
        BY <1>2, <2>2, <2>3, <2>6
      <3> QED  BY <1>1, <1>3, <2>4, <2>5, <3>1 DEF Filled
    <2>7. CASE ~(sub <= M)
      <3>1. messageHandlers' = messageHandlers
        BY <1>2, <2>2, <2>7
      <3>2. \A i \in 1..M : i # sub
        BY <2>7
      <3> QED  BY <1>3, <2>5, <3>1, <3>2 DEF Filled
    <2> QED  BY <2>6, <2>7
  <1>5. CASE sub = 4
    <2>1. pointer = "sub_temp" /\ callback = "config" /\ Filter(pointer) = "con-sn"
      BY <1>5 DEF Filter, Subscriptions
    <2>2. same = {i \in 1..M : i = 2}
      BY <1>3, <1>5, <2>1 DEF Filter, FilterAt
    <2>5. \A i \in 1..M : /\ FilterAt(i, 4) = FilterAt(i, 3) /\ (i # 2 => CallbackAt(i, 4) = CallbackAt(i, 3))
                          /\ (i = 2 => FilterAt(i, 4) = "sub_temp" /\ CallbackAt(i, 4) = "config")
      BY DEF FilterAt, CallbackAt
    <2>6. CASE M >= 2
      <3>1. slot = 2..2
        BY <2>2, <2>6
      <3>2. first = 2
        <4> HIDE DEF slot
        <4> QED  BY <3>1, FirstOfRange
      <3> HIDE DEF slot, first, pointer, callback
      <3>3. messageHandlers' = [messageHandlers EXCEPT ![2] = [filter |-> "sub_temp", callback |-> "config"]]
        BY <1>2, <2>1, <3>1, <3>2
      <3> QED  BY <1>1, <1>3, <1>5, <2>5, <3>3 DEF Filled
    <2>7. CASE M = 1
      <3>1. same = {} /\ free = {}
        BY <1>3, <1>5, <2>2, <2>7 DEF FilterAt
      <3>2. messageHandlers' = messageHandlers
        BY <1>2, <3>1
      <3> QED  BY <1>3, <1>5, <2>5, <2>7, <3>2 DEF Filled
    <2> QED  BY <2>6, <2>7
  <1> QED  BY <1>4, <1>5

\* Which slots are filled follows the subscriptions main has had granted.
LEMMA SlotsStep ==
  ASSUME Wire, Grants, Control, Temp, Handlers, Slots, [Next]_vars
  PROVE  Slots'
  <1> USE DEF Control
  <1>a. Refuse' = Refuse
    BY DEF Next, vars, Refuse
  <1>0. (\A i \in 1..MAX_MESSAGE_HANDLERS : messageHandlers'[i].filter = "NULL") => Filled(messageHandlers', 0)
    BY DEF Filled, FilterAt
  <1>1. CASE /\ UNCHANGED messageHandlers /\ main_pc # "disconnect"
             /\ main_pc' # "disconnect" => Granted' = Granted /\ (InLoop => InLoop')
    BY <1>1, <1>a DEF Slots, Cleared
  <1>2. CASE main_pc' = "disconnect"
    BY <1>2 DEF Slots
  <1>3. CASE UNCHANGED <<messageHandlers, main_pc, sub>>
    <2>1. Granted' = Granted /\ InLoop' = InLoop
      BY <1>3 DEF Granted, InLoop
    <2> QED  BY <1>3, <1>a, <2>1 DEF Slots, Cleared
  <1>4. CASE Network \/ UNCHANGED vars
    BY <1>3, <1>4 DEF vars, client, Network, Arrival, LinkLost, Arrive, ArriveOver, ArriveCut, ArriveInTwo, BrokerPublish
  <1>5. CASE ConnectSend \/ ConnectFails \/ ConnectTimeout \/ SubscribeSend
    BY <1>1, <1>5 DEF ConnectSend, ConnectFails, ConnectTimeout, SubscribeSend, client, Granted, InLoop
  <1>6. CASE ConnAck
    BY <1>1, <1>6 DEF ConnAck, Granted, InLoop, Temp
  <1>7. CASE Skip
    BY <1>3, <1>7 DEF Skip, client
  <1>8. CASE SubscribeFails \/ AckTimeout \/ PublishFails \/ PingFails
    BY <1>2, <1>8 DEF SubscribeFails, AckTimeout, PublishFails, PingFails, NotDue
  <1>14. CASE CycleError
    <2>1. MQTTCloseSession /\ main_pc' \in {"disconnect", "publish"}
      BY <1>14 DEF CycleError
    <2>2. Filled(messageHandlers', 0)
      BY <1>0, <2>1, CloseClears
    <2>3. CASE main_pc' = "publish"
      BY <2>2, <2>3 DEF Slots, Cleared, InLoop
    <2> QED  BY <1>2, <2>1, <2>3
  <1>9. CASE NotDue("ping", "cycle") \/ NotDue("publish", "ping") \/ CycleNothing \/ Restart
    BY <1>1, <1>9 DEF NotDue, CycleNothing, Restart, client, Granted, InLoop
  <1>10. CASE Ping \/ CyclePingResp \/ CycleIgnored \/ PublishSend \/ PubAck
    BY <1>1, <1>10 DEF Ping, CyclePingResp, CycleIgnored, PublishSend, PubAck, client, Granted, InLoop
  <1>11. CASE CyclePublish \/ CycleRelease
    BY <1>1, <1>2, <1>11 DEF CyclePublish, CycleRelease, Granted, InLoop
  <1>12. CASE MQTTDisconnect
    <2>1. Granted' = 0 /\ MQTTCloseSession
      BY <1>12 DEF MQTTDisconnect, Granted, InLoop
    <2> QED  BY <1>0, <2>1, CloseClears DEF Slots
  <1>13. CASE SubAck
    <2> SUFFICES ASSUME ~Refuse PROVE Filled(messageHandlers', Granted')
      BY <1>a DEF Slots
    <2>1. main_pc = "suback" /\ NextPacket.type = "SUBACK"
      BY <1>13 DEF SubAck
    <2>2. NextPacket.ok = TRUE
      BY <2>1, ReadGrants DEF Grants
    <2>3. MQTTSetMessageHandler(Subscriptions[sub].pointer, Subscriptions[sub].callback)
      BY <1>13, <2>2 DEF SubAck
    <2>4. Filled(messageHandlers, sub - 1)
      BY <2>1 DEF Slots, Granted, Cleared, InLoop
    <2>5. Granted' = sub
      BY <1>13 DEF SubAck, Granted, InLoop
    <2>6. Filled(messageHandlers', sub)
      BY <2>1, <2>3, <2>4, SetFills DEF Temp
    <2> QED  BY <2>5, <2>6
  <1> QED
    BY <1>4, <1>5, <1>6, <1>7, <1>8, <1>9, <1>10, <1>11, <1>12, <1>13, <1>14
       DEF Next, Main, Connecting, Subscribing, Looping, Cycle
-----------------------------------------------------------------------------
SessionInv == Wire /\ Credits /\ Grants /\ Control /\ Temp /\ Handlers /\ Slots

\* The session invariant holds whatever the network and the broker do.
LEMMA SessionInvariant == Spec => []SessionInv
  <1>1. Init => SessionInv
    <2> SUFFICES ASSUME Init PROVE SessionInv
      OBVIOUS
    <2> USE Sizes DEF Init
    <2>1. Wire /\ Credits /\ Grants
      BY DEF Wire, Credits, Grants, GrantsOnly
    <2>2. Control /\ Temp
      BY DEF Control, Temp, InLoop
    <2>3. Handlers
      BY DEF Handlers, NoHandler
    <2>4. Slots
      BY DEF Slots, Granted, InLoop, Filled, FilterAt, NoHandler
    <2> QED  BY <2>1, <2>2, <2>3, <2>4 DEF SessionInv
  <1>2. SessionInv /\ [Next]_vars => SessionInv'
    BY WireStep, ControlStep, HandlersStep, SlotsStep DEF SessionInv
  <1> QED  BY <1>1, <1>2, PTL DEF Spec

\* However a session ended (a packet refused, an answer lost or late, a chunk
\* that is cut), MQTTConnect finds it closed and without handlers, no
\* acknowledgement is waited for with the packet id 0, and packets that come
\* alone have their read credits.
THEOREM SessionsAreSound == Spec => []SessionSound
  <1>1. SessionInv => SessionSound
    <2> SUFFICES ASSUME SessionInv PROVE SessionSound
      OBVIOUS
    <2>1. TypeOK
      BY DEF SessionInv, TypeOK, Wire, Control, Handlers
    <2>2. ConnectsAfresh
      BY DEF SessionInv, ConnectsAfresh, Handlers
    <2>3. ReadsWholeChunks
      BY DEF SessionInv, Wire, Credits, ReadsWholeChunks, ReadsWhatIsThere
    <2> QED  BY <2>1, <2>2, <2>3 DEF SessionSound
  <1> QED  BY <1>1, SessionInvariant, PTL

\* deliverMessage hands no topic to the callback of another one, and none to
\* two, whatever the number of slots, as long as the broker grants the
\* subscriptions, although two filters are one buffer of main and
\* MQTTCleanSession leaves the callbacks of earlier sessions in the slots.
THEOREM HandlersAlwaysMatch == Spec => []HandlersMatch
  <1>1. SessionInv => HandlersMatch
    <2> SUFFICES ASSUME SessionInv, InLoop, ~Refuse, NEW t \in topics
                 PROVE  /\ Callbacks(t) \subseteq {CallbackOf(t), "default"}
                        /\ \A i, j \in DOMAIN messageHandlers :
                             Filter(messageHandlers[i].filter) = t /\ Filter(messageHandlers[j].filter) = t => i = j
      BY DEF HandlersMatch
    <2> DEFINE M == MAX_MESSAGE_HANDLERS
               At(i) == IF i = 1 THEN "action" ELSE IF i = 2 THEN "con-sn" ELSE IF i = 3 THEN "config" ELSE "NULL"
    <2> USE Sizes
    <2>1. t \in {"action", "action-sn", "config", "con-sn"} /\ DOMAIN messageHandlers = 1..M /\ sub_temp = "con-sn"
      BY FourTopics DEF SessionInv, Wire, Handlers, Temp
    <2>2. Filled(messageHandlers, 4) \/ Filled(messageHandlers, 0)
      BY DEF SessionInv, Slots, Granted, Cleared, InLoop
    <2>3. \A i \in 1..M : /\ Filter(messageHandlers[i].filter) \in {At(i), "NULL"}
                          /\ Filter(messageHandlers[i].filter) # "NULL" =>
                               messageHandlers[i].callback = IF i = 1 THEN "action" ELSE "config"
      BY <2>1, <2>2 DEF Filled, FilterAt, CallbackAt, Filter
    <2>4. \A i \in 1..M : Filter(messageHandlers[i].filter) = t => messageHandlers[i].callback = CallbackOf(t)
      <3>1. CallbackOf("action") = "action" /\ CallbackOf("config") = "config" /\ CallbackOf("con-sn") = "config"
        BY DEF CallbackOf, Subscriptions
      <3> QED  BY <2>1, <2>3, <3>1
    <2>5. Callbacks(t) \subseteq {CallbackOf(t), "default"}
      <3> HIDE DEF At
      <3> QED  BY <2>1, <2>3, <2>4 DEF Callbacks
    <2>6. \A i, j \in 1..M : At(i) = t /\ At(j) = t => i = j
      BY <2>1
    <2> QED  BY <2>1, <2>3, <2>5, <2>6
  <1> QED  BY <1>1, SessionInvariant, PTL
=============================================================================
