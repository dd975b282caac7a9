----------------------------- MODULE MqttSession -----------------------------
(***************************************************************************)
(* The MQTT session of the device: main_thread_entry of main_thread.c and  *)
(* the client it drives, MQTTClient_iBox.c.  Main connects, subscribes to  *)
(* four topics, then loops: ping when due, read one packet, publish when   *)
(* due; a failure ends the session, and after ten seconds the next begins. *)
(*                                                                         *)
(* Below it is the middleware of NetBuffers and NetFifo: net_tx_write may  *)
(* refuse a packet, received bytes come in chunks, and every chunk brings  *)
(* one read credit (net_fifo_sem).  Beyond it a broker (external) answers  *)
(* some of the packets it gets, and publishes.  Packets from the broker    *)
(* are whole in a chunk, alone or with the next one, or cut in two.  A     *)
(* time-out may fall anywhere, as is_timeout (which returns the time left  *)
(* as a uint8_t, 0 for every multiple of 256 ms) lets it.                  *)
(***************************************************************************)
EXTENDS Naturals, Sequences

CONSTANTS
  MAX_PACKET_ID,         \* 65535 in the code
  MAX_MESSAGE_HANDLERS,  \* 5 in the code
  Surroundings,          \* the networks and brokers looked at, see below
  MaxOut,                \* bound: packets under way to the device
  MaxFifo, MaxWhole,     \* bounds: packets in net_rx_fifo, where chunks merge and where not
  MaxCredits             \* bound: read credits beyond which the FIFO does not overflow

ASSUME SizeAssumption ==
  /\ MAX_PACKET_ID \in Nat \ {0} /\ MAX_MESSAGE_HANDLERS \in Nat \ {0}
  /\ MaxOut \in Nat \ {0} /\ MaxFifo \in Nat \ {0} /\ MaxWhole \in Nat \ {0}
  /\ MaxCredits \in Nat
ASSUME SurroundingsAssumption == Surroundings \subseteq SUBSET {"merge", "cut", "refuse"}

VARIABLES
  main_pc,          \* the statement main is at
  sub,              \* the subscription it is at, 1 to 4
  isconnected, ping_outstanding, next_packetid,
  messageHandlers,  \* slots of [filter, callback]; "sub_temp" is a pointer to main's buffer
  sub_temp,         \* the topic in main's buffer
  fifo,             \* packets in net_rx_fifo
  net_fifo_sem,     \* read credits
  out,              \* packets the broker sent and the network has not delivered
  topics,           \* topics the broker has this device subscribed to
  around            \* what network and broker may do; chosen once

client == <<isconnected, ping_outstanding, next_packetid, messageHandlers>>
net    == <<fifo, net_fifo_sem, out, topics>>
vars == <<main_pc, sub, client, sub_temp, net, around>>

Merge == "merge" \in around    \* the network may put two packets in one chunk
Cut == "cut" \in around        \* the network may cut a packet in two chunks
Refuse == "refuse" \in around  \* the broker may refuse a subscription (0x80)
Room == IF Merge THEN MaxFifo ELSE MaxWhole

\* The four subscriptions of main_thread_entry, in order.
Subscriptions ==
  << [topic |-> "action",    pointer |-> "action",   qos |-> 0, callback |-> "action"],
     [topic |-> "action-sn", pointer |-> "sub_temp", qos |-> 2, callback |-> "action"],
     [topic |-> "config",    pointer |-> "config",   qos |-> 0, callback |-> "config"],
     [topic |-> "con-sn",    pointer |-> "sub_temp", qos |-> 1, callback |-> "config"] >>

Topics == {Subscriptions[i].topic : i \in 1..4}
QosOf(t) == Subscriptions[CHOOSE i \in 1..4 : Subscriptions[i].topic = t].qos
CallbackOf(t) == Subscriptions[CHOOSE i \in 1..4 : Subscriptions[i].topic = t].callback

\* A packet of the broker; ok: CONNACK accepts, SUBACK grants.
Packet(type, id, topic, ok) == [type |-> type, id |-> id, topic |-> topic, ok |-> ok]
Simple(type) == Packet(type, 0, "none", TRUE)
-----------------------------------------------------------------------------
(* The network and the broker. *)

\* net_tx_write took a packet: the broker answers it, or does not.
Answered(packets) ==
  \/ out' = out
  \/ Len(out) < MaxOut /\ \E p \in packets : out' = Append(out, p)

\* The link between the two is lost, and everything under way with it.
LinkLost ==
  /\ out # <<>> /\ out' = <<>>
  /\ UNCHANGED <<main_pc, sub, client, sub_temp, fifo, net_fifo_sem, topics>>

\* The rest of a cut packet follows after its first part was read.
RestAwaited == Head(out).type = "rest" /\ fifo # <<>> => fifo[Len(fifo)].type # "half"

\* A chunk with the next n packets reaches the FIFO.
Arrive(n) ==
  /\ n <= Len(out) /\ Len(fifo) + n <= Room /\ RestAwaited
  /\ fifo' = fifo \o SubSeq(out, 1, n)
  /\ out' = SubSeq(out, n + 1, Len(out))
  /\ net_fifo_sem' = net_fifo_sem + 1
  /\ UNCHANGED <<main_pc, sub, client, sub_temp, topics>>

\* A chunk finds the FIFO full: its first byte makes the ring empty, and what follows
\* that byte is all there is.  The credits of what was there stay.
\* (A chunk that fits in part is ArriveCut, with the rest lost.)
ArriveOver ==
  /\ out # <<>> /\ Len(fifo) = Room /\ RestAwaited
  /\ net_fifo_sem < MaxCredits
  /\ fifo' = <<Simple("rest")>>
  /\ out' = Tail(out)
  /\ net_fifo_sem' = net_fifo_sem + 1
  /\ UNCHANGED <<main_pc, sub, client, sub_temp, topics>>

\* A chunk with the first part of a packet, read before the rest comes.
ArriveCut ==
  /\ Cut /\ out # <<>> /\ Head(out).type # "rest" /\ Len(fifo) < Room
  /\ fifo' = Append(fifo, Simple("half"))
  /\ out' = [out EXCEPT ![1] = Simple("rest")]
  /\ net_fifo_sem' = net_fifo_sem + 1
  /\ UNCHANGED <<main_pc, sub, client, sub_temp, topics>>

\* Both parts come before anything is read: a whole packet, with two credits.
ArriveInTwo ==
  /\ Cut /\ out # <<>> /\ Head(out).type # "rest" /\ Len(fifo) < Room
  /\ net_fifo_sem < MaxCredits
  /\ fifo' = Append(fifo, Head(out))
  /\ out' = Tail(out)
  /\ net_fifo_sem' = net_fifo_sem + 2
  /\ UNCHANGED <<main_pc, sub, client, sub_temp, topics>>

BrokerPublish(t) ==
  /\ t \in topics /\ Len(out) + 1 < MaxOut
  /\ out' = Append(out, Packet("PUBLISH", 0, t, TRUE))
  /\ UNCHANGED <<main_pc, sub, client, sub_temp, fifo, net_fifo_sem, topics>>
-----------------------------------------------------------------------------
(* The client. *)

NoHandler == [filter |-> "NULL", callback |-> "NULL"]

Init ==
  /\ main_pc = "connect" /\ sub = 1
  /\ isconnected = 0 /\ ping_outstanding = 0 /\ next_packetid = 0
  /\ messageHandlers = [i \in 1..MAX_MESSAGE_HANDLERS |-> NoHandler]
  /\ sub_temp = "none"
  /\ fifo = <<>> /\ net_fifo_sem = 1      \* network_thread_init creates it with 1
  /\ out = <<>> /\ topics = {}
  /\ around \in Surroundings

getNextPacketId == IF next_packetid = MAX_PACKET_ID THEN 1 ELSE next_packetid + 1

\* readPacket with a credit: the packet, "half" of one, or nothing there (both -1).
NextPacket == IF fifo = <<>> THEN Simple("half") ELSE Head(fifo)
Read ==
  /\ net_fifo_sem > 0 /\ net_fifo_sem' = net_fifo_sem - 1
  /\ fifo' = IF fifo = <<>> THEN fifo ELSE Tail(fifo)

\* MQTTCleanSession clears the filters and leaves the callbacks.
MQTTCleanSession == messageHandlers' = [i \in DOMAIN messageHandlers |-> [messageHandlers[i] EXCEPT !.filter = "NULL"]]

\* Fault: the session is closed and the handlers are kept.
MQTTCloseSessionKeeps ==
  /\ ping_outstanding' = 0 /\ isconnected' = 0
  /\ UNCHANGED messageHandlers

\* cleansession is 1 (MQTT_init).
MQTTCloseSession ==
  /\ ping_outstanding' = 0 /\ isconnected' = 0
  /\ MQTTCleanSession

\* The topic a filter pointer points to now.
Filter(f) == IF f = "sub_temp" THEN sub_temp ELSE f

\* Fault: a slot that exists is kept as it is.
MQTTSetMessageHandlerOnce(pointer, callback) ==
  LET same == {i \in DOMAIN messageHandlers :
                 messageHandlers[i].filter # "NULL" /\ Filter(messageHandlers[i].filter) = Filter(pointer)}
      free == {i \in DOMAIN messageHandlers : messageHandlers[i].filter = "NULL"}
      First(S) == CHOOSE i \in S : \A j \in S : i <= j
  IN  messageHandlers' = IF same # {} \/ free = {} THEN messageHandlers
        ELSE [messageHandlers EXCEPT ![First(free)] = [filter |-> pointer, callback |-> callback]]

\* A slot whose filter reads the same now is taken over, else the first free one.
MQTTSetMessageHandler(pointer, callback) ==
  LET same == {i \in DOMAIN messageHandlers :
                 messageHandlers[i].filter # "NULL" /\ Filter(messageHandlers[i].filter) = Filter(pointer)}
      free == {i \in DOMAIN messageHandlers : messageHandlers[i].filter = "NULL"}
      First(S) == CHOOSE i \in S : \A j \in S : i <= j
      slot == IF same # {} THEN same ELSE free
  IN  messageHandlers' = IF slot = {} THEN messageHandlers
        ELSE [messageHandlers EXCEPT ![First(slot)] = [filter |-> pointer, callback |-> callback]]

\* deliverMessage calls every handler whose filter matches, the default one if none does.
Callbacks(t) ==
  LET matching == {messageHandlers[i].callback : i \in
                    {j \in DOMAIN messageHandlers : Filter(messageHandlers[j].filter) = t}}
  IN  IF matching = {} THEN {"default"} ELSE matching
-----------------------------------------------------------------------------
(* MQTTConnect *)

\* The connect packet; the broker starts a clean session.
ConnectSend ==
  /\ main_pc = "connect" /\ isconnected = 0
  /\ main_pc' = "connack" /\ sub' = 1
  /\ Answered({Packet("CONNACK", 0, "none", TRUE), Packet("CONNACK", 0, "none", FALSE)})
  /\ topics' = {}
  /\ UNCHANGED <<client, sub_temp, fifo, net_fifo_sem>>

\* net_tx_write refused the packet, or the session was never closed.
ConnectFails ==
  /\ main_pc = "connect"
  /\ main_pc' = "restart"
  /\ UNCHANGED <<sub, client, sub_temp, net>>

ConnAck ==
  /\ main_pc = "connack" /\ Read /\ NextPacket.type = "CONNACK"
  /\ \/ /\ NextPacket.ok
        /\ isconnected' = 1 /\ ping_outstanding' = 0
        /\ main_pc' = "subscribe"
     \/ /\ ~NextPacket.ok
        /\ main_pc' = "restart"
        /\ UNCHANGED <<isconnected, ping_outstanding>>
  /\ UNCHANGED <<sub, next_packetid, messageHandlers, sub_temp, out, topics>>

ConnectTimeout ==
  /\ main_pc = "connack"
  /\ main_pc' = "restart"
  /\ UNCHANGED <<sub, client, sub_temp, net>>

\* waitfor drops every packet of another type, a PUBLISH too.
Awaits == [connack |-> "CONNACK", suback |-> "SUBACK", puback |-> "PUBACK"]
Skip ==
  /\ main_pc \in DOMAIN Awaits /\ Read /\ NextPacket.type # Awaits[main_pc]
  /\ UNCHANGED <<main_pc, sub, client, sub_temp, out, topics>>
-----------------------------------------------------------------------------
(* MQTTSubscribe, four times, the device's own topics through sub_temp *)

\* sprintf, then the packet
SubscribeSend ==
  /\ main_pc = "subscribe" /\ isconnected = 1
  /\ sub_temp' = IF Subscriptions[sub].pointer = "sub_temp" THEN Subscriptions[sub].topic ELSE sub_temp
  /\ next_packetid' = getNextPacketId
  /\ main_pc' = "suback"
  /\ \/ topics' = topics \cup {Subscriptions[sub].topic} /\ Answered({Packet("SUBACK", next_packetid', "none", TRUE)})
     \/ Refuse /\ topics' = topics /\ Answered({Packet("SUBACK", next_packetid', "none", FALSE)})
  /\ UNCHANGED <<sub, isconnected, ping_outstanding, messageHandlers, fifo, net_fifo_sem>>

\* net_tx_write refused the packet.
SubscribeFails ==
  /\ main_pc = "subscribe" /\ isconnected = 1
  /\ sub_temp' = IF Subscriptions[sub].pointer = "sub_temp" THEN Subscriptions[sub].topic ELSE sub_temp
  /\ next_packetid' = getNextPacketId
  /\ MQTTCloseSession
  /\ main_pc' = "disconnect"
  /\ UNCHANGED <<sub, net>>

\* Refused (0x80) or granted, the call succeeds; the id is not compared.
SubAck ==
  /\ main_pc = "suback" /\ Read /\ NextPacket.type = "SUBACK"
  /\ IF NextPacket.ok
     THEN MQTTSetMessageHandler(Subscriptions[sub].pointer, Subscriptions[sub].callback)
     ELSE UNCHANGED messageHandlers
  /\ main_pc' = IF sub = 4 THEN "ping" ELSE "subscribe"
  /\ sub' = IF sub = 4 THEN 1 ELSE sub + 1
  /\ UNCHANGED <<isconnected, ping_outstanding, next_packetid, sub_temp, out, topics>>

\* MQTTSubscribe and MQTTPublish: no answer in time
AckTimeout ==
  /\ main_pc \in {"suback", "puback"}
  /\ MQTTCloseSession
  /\ main_pc' = "disconnect"
  /\ UNCHANGED <<sub, next_packetid, sub_temp, net>>
-----------------------------------------------------------------------------
(* The loop: ping, MQTT_cycle, publish, half a second of sleep *)

NotDue(from, to) ==
  /\ main_pc = from /\ main_pc' = to
  /\ UNCHANGED <<sub, client, sub_temp, net>>

\* keepalive; line 170 assigns 0 to ping_outstanding, so the next ping is sent too.
Ping ==
  /\ main_pc = "ping" /\ ping_outstanding = 0
  /\ ping_outstanding' = 0
  /\ Answered({Simple("PINGRESP")})
  /\ main_pc' = "cycle"
  /\ UNCHANGED <<sub, isconnected, next_packetid, messageHandlers, sub_temp, fifo, net_fifo_sem, topics>>

PingFails == NotDue("ping", "disconnect")

\* MQTT_cycle without a credit
CycleNothing == net_fifo_sem = 0 /\ NotDue("cycle", "publish")

\* deliverMessage gives the message to Callbacks(topic); then the answer its QoS asks for.
CyclePublish ==
  /\ main_pc = "cycle" /\ Read /\ NextPacket.type = "PUBLISH"
  /\ \/ /\ main_pc' = "publish"            \* PUBACK or PUBREC sent, or QoS 0
        /\ IF QosOf(NextPacket.topic) = 2 THEN Answered({Simple("PUBREL")}) ELSE UNCHANGED out
        /\ UNCHANGED <<isconnected, ping_outstanding, messageHandlers>>
     \/ /\ QosOf(NextPacket.topic) # 0     \* it could not be sent
        /\ MQTTCloseSession
        /\ main_pc' = "disconnect"
        /\ UNCHANGED out
  /\ UNCHANGED <<sub, next_packetid, sub_temp, topics>>

\* PUBREL is answered with PUBCOMP.
CycleRelease ==
  /\ main_pc = "cycle" /\ Read /\ NextPacket.type = "PUBREL"
  /\ \/ main_pc' = "publish" /\ UNCHANGED <<isconnected, ping_outstanding, messageHandlers>>
     \/ main_pc' = "disconnect" /\ MQTTCloseSession
  /\ UNCHANGED <<sub, next_packetid, sub_temp, out, topics>>

CyclePingResp ==
  /\ main_pc = "cycle" /\ Read /\ NextPacket.type = "PINGRESP"
  /\ ping_outstanding' = 0
  /\ main_pc' = "publish"
  /\ UNCHANGED <<sub, isconnected, next_packetid, messageHandlers, sub_temp, out, topics>>

CycleIgnored ==
  /\ main_pc = "cycle" /\ Read /\ NextPacket.type \in {"CONNACK", "SUBACK", "PUBACK", "rest"}
  /\ main_pc' = "publish"
  /\ UNCHANGED <<sub, client, sub_temp, out, topics>>

\* -1, or the rest of a packet read as one of a type the client does not know: the session
\* is closed.  Main sees only the -1; with a type it goes on, without a session.
CycleError ==
  /\ main_pc = "cycle" /\ Read /\ NextPacket.type \in {"half", "rest"}
  /\ MQTTCloseSession
  /\ main_pc' = "disconnect" \/ (NextPacket.type = "rest" /\ main_pc' = "publish")
  /\ UNCHANGED <<sub, next_packetid, sub_temp, out, topics>>

\* MQTT_msg_publish, QoS 1
PublishSend ==
  /\ main_pc = "publish" /\ isconnected = 1
  /\ next_packetid' = getNextPacketId
  /\ main_pc' = "puback"
  /\ Answered({Packet("PUBACK", next_packetid', "none", TRUE)})
  /\ UNCHANGED <<sub, isconnected, ping_outstanding, messageHandlers, sub_temp, fifo, net_fifo_sem, topics>>

\* No memory for the message, not connected, or net_tx_write refused it.
PublishFails ==
  /\ main_pc = "publish"
  /\ \/ UNCHANGED client
     \/ isconnected = 0 /\ MQTTCloseSession /\ UNCHANGED next_packetid
     \/ isconnected = 1 /\ MQTTCloseSession /\ next_packetid' = getNextPacketId
  /\ main_pc' = "disconnect"
  /\ UNCHANGED <<sub, sub_temp, net>>

PubAck ==
  /\ main_pc = "puback" /\ Read /\ NextPacket.type = "PUBACK"
  /\ main_pc' = "ping"
  /\ UNCHANGED <<sub, client, sub_temp, out, topics>>
-----------------------------------------------------------------------------
\* Fault: the session is left open.
MQTTDisconnectOnly ==
  /\ main_pc = "disconnect" /\ main_pc' = "restart"
  /\ UNCHANGED <<sub, client, sub_temp, net>>

\* The packet is sent or not; the broker does not answer it.
MQTTDisconnect ==
  /\ main_pc = "disconnect" /\ main_pc' = "restart"
  /\ MQTTCloseSession
  /\ UNCHANGED <<sub, next_packetid, sub_temp, net>>

Restart == NotDue("restart", "connect")

Connecting == ConnectSend \/ ConnectFails \/ ConnAck \/ ConnectTimeout
Subscribing == SubscribeSend \/ SubscribeFails \/ SubAck
Cycle == CycleNothing \/ CyclePublish \/ CycleRelease \/ CyclePingResp \/ CycleIgnored \/ CycleError
Looping ==
  \/ NotDue("ping", "cycle") \/ Ping \/ PingFails
  \/ Cycle
  \/ NotDue("publish", "ping") \/ PublishSend \/ PublishFails \/ PubAck
Main == Connecting \/ Skip \/ Subscribing \/ AckTimeout \/ Looping \/ MQTTDisconnect \/ Restart

Arrival == Arrive(1) \/ (Merge /\ Arrive(2)) \/ ArriveOver \/ ArriveCut \/ ArriveInTwo
Network == LinkLost \/ Arrival \/ \E t \in Topics : BrokerPublish(t)

Next == (Main \/ Network) /\ UNCHANGED around

Spec == Init /\ [][Next]_vars

(* Main runs (the network thread above it sleeps between chunks), a waitfor *)
(* ends, and the network delivers what it does not lose.                    *)
FairSpec ==
  /\ Spec
  /\ WF_vars(Main /\ UNCHANGED around)
  /\ WF_vars((ConnectTimeout \/ AckTimeout) /\ UNCHANGED around)
  /\ WF_vars(Arrive(1) /\ UNCHANGED around)
-----------------------------------------------------------------------------
(* Properties *)

InLoop == main_pc \in {"ping", "cycle", "publish", "puback"}

\* Every variable stays in its range; a packet that asks for an answer never
\* has the id 0, which MQTT forbids.
TypeOK ==
  /\ main_pc \in {"connect", "connack", "subscribe", "suback", "ping", "cycle", "publish", "puback",
                  "disconnect", "restart"}
  /\ sub \in 1..4 /\ isconnected \in 0..1 /\ ping_outstanding \in 0..1
  /\ next_packetid \in 0..MAX_PACKET_ID
  /\ main_pc \in {"suback", "puback"} => next_packetid # 0
  /\ messageHandlers \in [1..MAX_MESSAGE_HANDLERS ->
       [filter : {"NULL", "action", "config", "sub_temp"}, callback : {"NULL", "action", "config"}]]
  /\ sub_temp \in Topics \cup {"none"}
  /\ Len(fifo) <= Room /\ Len(out) <= MaxOut /\ net_fifo_sem \in Nat
  /\ topics \subseteq Topics /\ around \in Surroundings

\* When main delivers messages, no topic has two handlers and none has the
\* callback of another: an action is never taken for a configuration, nor the
\* other way round, although two of the filters are one buffer that main
\* rewrites and the slots keep the callbacks of earlier sessions.  It needs a
\* broker that grants the subscriptions: a refusal, even one that belongs to
\* another request, leaves the slot with the action callback and the
\* configuration topic.
HandlersMatch ==
  InLoop /\ ~Refuse => \A t \in topics :
    /\ Callbacks(t) \subseteq {CallbackOf(t), "default"}
    /\ \A i, j \in DOMAIN messageHandlers :
         Filter(messageHandlers[i].filter) = t /\ Filter(messageHandlers[j].filter) = t => i = j

\* A connect starts from a closed session without handlers, whichever way the
\* last one ended; else MQTTConnect would refuse to connect for ever.
ConnectsAfresh ==
  main_pc \in {"connect", "connack"} =>
    isconnected = 0 /\ \A i \in DOMAIN messageHandlers : messageHandlers[i].filter = "NULL"

\* A step that some part of the system outside the client spoils: a packet
\* refused or not answered, refused by the broker or lost, an answer that
\* takes longer than the time-out, more packets than the FIFO holds, no memory.
Trouble ==
  \/ LinkLost \/ ArriveOver \/ PingFails \/ SubscribeFails \/ (PublishFails /\ isconnected = 1)
  \/ ConnectFails /\ isconnected = 0
  \/ (ConnectSend \/ SubscribeSend \/ Ping \/ PublishSend) /\ UNCHANGED out
  \/ (ConnectSend \/ SubscribeSend) /\ ~out'[Len(out')].ok
  \/ (CyclePublish \/ CycleRelease) /\ main_pc' = "disconnect"
  \/ (ConnectTimeout \/ AckTimeout) /\ (out # <<>> \/ net_fifo_sem > 0)

\* Once nothing outside spoils it any more the session comes up and stays up,
\* whatever is left over from the sessions before.  It needs whole packets: one
\* read credit that is short leaves every later packet a chunk late.
SessionComesUp == ~Merge /\ ~Cut /\ <>[][~Trouble]_vars => <>[]InLoop

\* readPacket returns 0 only when there is nothing to read: a packet in
\* net_rx_fifo has a read credit.  It does not hold when two packets come in one
\* chunk, for the credits count chunks.
ReadsWhatIsThere == fifo # <<>> => net_fifo_sem > 0
ReadsWholeChunks == ~Merge => ReadsWhatIsThere

\* However a session ended, what is kept for the next one is in order: it starts
\* closed and without handlers (ConnectsAfresh), every packet in the FIFO has its
\* read credit if packets come alone (ReadsWholeChunks), and an acknowledgement
\* is never waited for with the packet id 0 (TypeOK).
SessionSound == TypeOK /\ ConnectsAfresh /\ ReadsWholeChunks

\* The acknowledgement taken for an answer is the answer: its packet id is
\* the one of the request.
AckIsMine == [][SubAck \/ PubAck => NextPacket.id = next_packetid]_vars

\* When the broker has the device subscribed to its own action topic and main
\* delivers messages, those messages reach the action callback.
DeviceActionsHandled ==
  main_pc = "cycle" /\ "action-sn" \in topics => Callbacks("action-sn") = {"action"}
=============================================================================
