----------------------------- MODULE LinkProofs -----------------------------
(***************************************************************************)
(* The links to the server.  WiredNet: how long DNS_run keeps the other    *)
(* threads from running, for every number of retries and every time-out.   *)
(* retry_count is static and dns_1s_tick runs on between two calls, so a   *)
(* call need not start from zero: what the call has waited is at most what *)
(* the two counters say together.  Dhcp: a client whose DHCP_run returns   *)
(* in LEASED has a lease, for every lease time, wait and number of         *)
(* retries, and however rarely the thread calls it.  Gprs: the retry       *)
(* counters stay in their ranges, whatever the modem says.                 *)
(***************************************************************************)
EXTENDS WiredNet, Dhcp, Gprs, FiniteSetTheorems, SequenceTheorems, TLAPS

USE DEF wiredVars, dnsTimer, dnsRun, result, wiredChip

\* The counters keep their ranges, and while DNS_run waits they account for the time.
Timing ==
  /\ dns_1s_tick \in 0 .. DNS_WAIT_TIME /\ retry_count \in 0 .. MAX_DNS_RETRY
  /\ queries \in 0 .. 1 + MAX_DNS_RETRY /\ elapsed \in Nat
  /\ pc = "wait" => elapsed <= retry_count * DNS_WAIT_TIME + dns_1s_tick
  /\ elapsed <= (MAX_DNS_RETRY + 1) * DNS_WAIT_TIME

\* The control: an answer comes only while DNS_run waits, a socket is open only
\* while the chip has an address.
Control ==
  /\ pc \in {"top", "dhcp", "dns", "wait", "eth"}
  /\ dns_parse_ok \in BOOLEAN /\ is_wired_link_ok \in BOOLEAN /\ dns_sip \in BOOLEAN
  /\ asked \in BOOLEAN /\ reply \in DnsReplies \cup {"none"} /\ (asked => pc = "wait" /\ reply = "none")
  /\ link \in BOOLEAN /\ sipr_set \in BOOLEAN /\ sock \in {"CLOSED", "INIT", "ESTABLISHED", "CLOSE_WAIT"}
  /\ (sock # "CLOSED" => sipr_set)
  /\ settled \in BOOLEAN

\* A wait more is a time-out more, and fewer waits take no longer.
LEMMA Waits ==
  ASSUME NEW n \in Nat, NEW m \in Nat, n <= m
  PROVE  /\ n * DNS_WAIT_TIME \in Nat
         /\ (n + 1) * DNS_WAIT_TIME = n * DNS_WAIT_TIME + DNS_WAIT_TIME
         /\ n * DNS_WAIT_TIME <= m * DNS_WAIT_TIME
  BY DnsAssumption

\* Every step keeps the account.
LEMMA TimingStep == Timing /\ [WiredNext]_wiredVars => Timing'
<1> SUFFICES ASSUME Timing, [WiredNext]_wiredVars
             PROVE  Timing'
  OBVIOUS
<1> USE DnsAssumption
<1> DEFINE spent == retry_count * DNS_WAIT_TIME
<1>0. /\ spent \in Nat
      /\ (retry_count + 1) * DNS_WAIT_TIME = spent + DNS_WAIT_TIME
      /\ spent + DNS_WAIT_TIME <= (MAX_DNS_RETRY + 1) * DNS_WAIT_TIME
      /\ (MAX_DNS_RETRY + 1) * DNS_WAIT_TIME \in Nat
  <2>1. retry_count \in Nat /\ retry_count <= MAX_DNS_RETRY
    BY DEF Timing
  <2>2. spent \in Nat /\ (retry_count + 1) * DNS_WAIT_TIME = spent + DNS_WAIT_TIME
    BY <2>1, Waits
  <2>3. retry_count + 1 \in Nat /\ MAX_DNS_RETRY + 1 \in Nat /\ retry_count + 1 <= MAX_DNS_RETRY + 1
    BY <2>1
  <2>4. (retry_count + 1) * DNS_WAIT_TIME <= (MAX_DNS_RETRY + 1) * DNS_WAIT_TIME
    BY <2>3, Waits
  <2>5. (MAX_DNS_RETRY + 1) * DNS_WAIT_TIME \in Nat
    BY <2>3, Waits
  <2> QED
    BY <2>2, <2>4, <2>5
<1>1. CASE DnsQuery
  BY <1>0, <1>1 DEF DnsQuery, Timing
<1>2. CASE DnsTimeout
  <2>1. pc' # "wait" /\ dns_1s_tick' = 0 /\ retry_count' = 0 /\ UNCHANGED <<queries, elapsed>>
    BY <1>2 DEF DnsTimeout
  <2> QED
    BY <2>1 DEF Timing
<1>3. CASE DnsRetry
  <2>1. /\ dns_1s_tick >= DNS_WAIT_TIME /\ ~(retry_count >= MAX_DNS_RETRY)
        /\ dns_1s_tick' = 0 /\ retry_count' = retry_count + 1 /\ UNCHANGED <<pc, queries, elapsed>>
    BY <1>3 DEF DnsRetry, DnsOver
  <2>2. retry_count' * DNS_WAIT_TIME + dns_1s_tick' = spent + DNS_WAIT_TIME
    BY <1>0, <2>1
  <2>3. dns_1s_tick = DNS_WAIT_TIME
    BY <2>1 DEF Timing
  <2> QED
    BY <1>0, <2>1, <2>2, <2>3 DEF Timing
<1>4. CASE DNS_time_handler
  <2>1. /\ UNCHANGED <<pc, retry_count, queries>>
        /\ dns_1s_tick' = IF dns_1s_tick < DNS_WAIT_TIME THEN dns_1s_tick + 1 ELSE DNS_WAIT_TIME
        /\ elapsed' = IF pc = "wait" THEN elapsed + 1 ELSE elapsed
        /\ pc = "wait" => dns_1s_tick < DNS_WAIT_TIME
    BY <1>4 DEF DNS_time_handler
  <2>2. retry_count' * DNS_WAIT_TIME = spent
    BY <2>1
  <2>3. CASE pc = "wait"
    BY <1>0, <2>1, <2>2, <2>3 DEF Timing
  <2>4. CASE pc # "wait"
    BY <2>1, <2>4 DEF Timing
  <2> QED
    BY <2>3, <2>4
<1>5. ASSUME UNCHANGED <<dnsTimer, queries, elapsed>>, pc' = "wait" => pc = "wait"
      PROVE  Timing'
  BY <1>5 DEF Timing
<1> QED
  BY <1>1, <1>2, <1>3, <1>4, <1>5 DEF WiredNext, Wired, Environment, Top, DhcpRun, DnsReply, ethernet_run, EthOpen,
       EthConnect, EthEstablished, EthClose, EthPass, DnsAnswer, LoseQuery, Cable, Dropped, WiredSettle

\* Every step keeps the control.
LEMMA ControlStep == Control /\ [WiredNext]_wiredVars => Control'
<1> SUFFICES ASSUME Control, [WiredNext]_wiredVars
             PROVE  Control'
  OBVIOUS
<1> USE DnsAssumption DEF Control
<1>1. CASE Top
  BY <1>1 DEF Top
<1>2. CASE DhcpRun
  BY <1>2 DEF DhcpRun
<1>3. CASE DnsQuery
  BY <1>3 DEF DnsQuery
<1>4. CASE DnsReply
  BY <1>4 DEF DnsReply, HasAddress
<1>5. CASE DnsTimeout
  BY <1>5 DEF DnsTimeout
<1>6. CASE DnsRetry
  BY <1>6 DEF DnsRetry
<1>7. CASE ethernet_run
  BY <1>7 DEF ethernet_run, EthOpen, EthConnect, EthEstablished, EthClose, EthPass
<1>8. CASE DNS_time_handler
  BY <1>8 DEF DNS_time_handler
<1>9. CASE DnsAnswer
  BY <1>9 DEF DnsAnswer
<1>10. CASE LoseQuery
  BY <1>10 DEF LoseQuery
<1>11. CASE Cable
  BY <1>11 DEF Cable
<1>12. CASE Dropped
  BY <1>12 DEF Dropped
<1>13. CASE WiredSettle
  BY <1>13 DEF WiredSettle
<1>14. CASE UNCHANGED wiredVars
  BY <1>14
<1> QED
  BY <1>1, <1>2, <1>3, <1>4, <1>5, <1>6, <1>7, <1>8, <1>9, <1>10, <1>11, <1>12, <1>13, <1>14
     DEF WiredNext, Wired, Environment

\* BlockedAtMost for every number of retries and every time-out: DNS_run, which
\* loops without a pause over every other thread (dns.c 524-560), ends after
\* MAX_DNS_RETRY + 1 waits, wherever the calls before it left its counters.
THEOREM BlockedIsBounded == WiredSpec => []BlockedAtMost
<1>1. WiredInit => Control /\ Timing
  <2>1. WiredInit => Control
    BY DEF WiredInit, Control
  <2>2. (MAX_DNS_RETRY + 1) * DNS_WAIT_TIME \in Nat
    BY DnsAssumption, Waits
  <2>3. WiredInit => Timing
    BY <2>2, DnsAssumption DEF WiredInit, Timing
  <2> QED
    BY <2>1, <2>3
<1>2. Control /\ Timing => BlockedAtMost
  BY DEF Control, Timing, BlockedAtMost, WiredTypeOK
<1> QED
  BY <1>1, <1>2, ControlStep, TimingStep, PTL DEF WiredSpec
-----------------------------------------------------------------------------
(* The DHCP client. *)

\* What is under way, and what the socket holds.
Fits(S)   == IsFiniteSet(S) /\ Cardinality(S) <= MaxWire
WireTyped == wire \subseteq Requests \cup Replies /\ Fits(wire)
RxTyped   == rx \in Seq(Replies) /\ Len(rx) <= MaxRx

\* The variables of dhcp.c, with the clock and the chip.
ClientTyped ==
  /\ dhcp_state \in {"INIT", "DISCOVER", "REQUEST", "LEASED", "REREQUEST"}
  /\ dhcp_tick_1s \in 0 .. MaxTick /\ dhcp_tick_next = DHCP_WAIT_TIME /\ dhcp_retry_count \in 0 .. MAX_DHCP_RETRY
  /\ dhcp_lease_time \in {LeaseTime, INFINITE_LEASETIME}
  /\ DHCP_allocated_ip \in Addrs \cup {None} /\ OLD_allocated_ip \in Addrs \cup {None}
  /\ DHCP_SIP \in Servers \cup {None}
  /\ (dhcp_state \in {"REQUEST", "LEASED", "REREQUEST"} => DHCP_allocated_ip # None /\ DHCP_SIP # None)
  /\ sipr \in Addrs \cup {None}
SwitchesTyped == udp \in BOOLEAN /\ ran \in BOOLEAN /\ stale \in BOOLEAN
HostsTyped ==
  /\ home \in [Servers -> Addrs] /\ lent \in [Servers -> Addrs \cup {None}] /\ left \in [Servers -> 0 .. LeaseTime]
  /\ taken \subseteq Addrs
OthersTyped == unsettled \in BOOLEAN /\ renumbered \in BOOLEAN

DhcpTyped == WireTyped /\ RxTyped /\ ClientTyped /\ SwitchesTyped /\ HostsTyped /\ OthersTyped

\* The datagrams in a socket.
In(q) == {q[i] : i \in 1 .. Len(q)}

LEMMA Kinds ==
  /\ \A m \in Requests : m.type \in {"DISCOVER", "REQUEST", "DECLINE", "RENEW"}
  /\ \A m \in Replies : m.type \in {"OFFER", "ACK", "NAK"} /\ m.ip \in Addrs /\ m.srv \in Servers
  /\ {DHCP_WAIT_TIME, LeaseTime, MAX_DHCP_RETRY, INFINITE_LEASETIME, MaxRx, MaxWire} \subseteq Nat /\ MaxTick \in Nat
  /\ MaxTick > LeaseTime
  /\ None \notin Addrs /\ None \notin Servers
  BY DhcpAssumption DEF Requests, Replies, MaxTick

\* A datagram read, and a datagram that arrives.
LEMMA Datagrams ==
  ASSUME RxTyped
  PROVE  /\ (rx # <<>> => Head(rx) \in Replies \cap In(rx) /\ Tail(rx) \in Seq(Replies)
                          /\ Len(Tail(rx)) < Len(rx) /\ In(Tail(rx)) \subseteq In(rx))
         /\ (\A m \in Replies : Append(rx, m) \in Seq(Replies) /\ Len(Append(rx, m)) = Len(rx) + 1
                                /\ In(Append(rx, m)) \subseteq In(rx) \cup {m})
         /\ <<>> \in Seq(Replies) /\ Len(<<>>) = 0 /\ In(<<>>) = {} /\ Len(rx) \in Nat
  <1> USE DEF RxTyped
  <1>1. Len(rx) \in Nat
    BY LenProperties
  <1>2. ASSUME rx # <<>>
        PROVE  /\ Head(rx) \in Replies \cap In(rx) /\ Tail(rx) \in Seq(Replies)
               /\ Len(Tail(rx)) < Len(rx) /\ In(Tail(rx)) \subseteq In(rx)
    <2>1. Len(rx) \in Nat \ {0} /\ Head(rx) = rx[1]
      BY <1>2, EmptySeq
    <2>2. /\ Head(rx) \in Replies /\ Tail(rx) \in Seq(Replies) /\ Len(Tail(rx)) = Len(rx) - 1
          /\ \A i \in 1 .. Len(Tail(rx)) : Tail(rx)[i] = rx[i + 1]
      BY <1>2, HeadTailProperties
    <2> QED  BY <2>1, <2>2 DEF In
  <1>3. ASSUME NEW m \in Replies
        PROVE  /\ Append(rx, m) \in Seq(Replies) /\ Len(Append(rx, m)) = Len(rx) + 1
               /\ In(Append(rx, m)) \subseteq In(rx) \cup {m}
    <2>1. /\ Append(rx, m) \in Seq(Replies) /\ Len(Append(rx, m)) = Len(rx) + 1
          /\ \A i \in 1 .. Len(rx) : Append(rx, m)[i] = rx[i]
          /\ Append(rx, m)[Len(rx) + 1] = m
      BY AppendProperties
    <2> QED  BY <1>1, <2>1 DEF In
  <1>4. <<>> \in Seq(Replies) /\ Len(<<>>) = 0 /\ In(<<>>) = {}
    BY EmptySeq DEF In
  <1> QED  BY <1>1, <1>2, <1>3, <1>4

\* The wire after a message is put on it, taken off it or replaced.
LEMMA RoomOnWire ==
  ASSUME NEW S, Fits(S)
  PROVE  /\ \A y : Cardinality(S) < MaxWire => Fits(S \cup {y})
         /\ \A x : Fits(S \ {x})
         /\ \A x \in S : \A y : Fits((S \ {x}) \cup {y})
  <1> USE DEF Fits
  <1>1. Cardinality(S) \in Nat /\ MaxWire \in Nat
    BY FS_CardinalityType, Kinds
  <1>2. ASSUME NEW y, Cardinality(S) < MaxWire PROVE Fits(S \cup {y})
    <2>1. /\ IsFiniteSet(S \cup {y})
          /\ Cardinality(S \cup {y}) = IF y \in S THEN Cardinality(S) ELSE Cardinality(S) + 1
      BY FS_AddElement
    <2> QED  BY <1>1, <1>2, <2>1
  <1>3. ASSUME NEW x PROVE Fits(S \ {x})
    <2>1. /\ IsFiniteSet(S \ {x})
          /\ Cardinality(S \ {x}) = IF x \in S THEN Cardinality(S) - 1 ELSE Cardinality(S)
      BY FS_RemoveElement
    <2> QED  BY <1>1, <2>1
  <1>4. ASSUME NEW x \in S, NEW y PROVE Fits((S \ {x}) \cup {y})
    <2> DEFINE T == S \ {x}
    <2>1. IsFiniteSet(T) /\ Cardinality(T) = Cardinality(S) - 1
      BY FS_RemoveElement
    <2> HIDE DEF T
    <2>2. /\ IsFiniteSet(T \cup {y})
          /\ Cardinality(T \cup {y}) = IF y \in T THEN Cardinality(T) ELSE Cardinality(T) + 1
      BY <2>1, FS_AddElement
    <2>3. Fits(T \cup {y})
      BY <1>1, <2>1, <2>2
    <2> QED  BY <2>3 DEF T
  <1> QED  BY <1>2, <1>3, <1>4

\* A message sent, and an answer in the place of its request.
LEMMA SentOnWire == WireTyped => \A m \in Requests : Send(m) => WireTyped' /\ wire' \subseteq wire \cup {m}
  <1> SUFFICES ASSUME WireTyped, NEW m \in Requests, Send(m) PROVE WireTyped' /\ wire' \subseteq wire \cup {m}
    OBVIOUS
  <1>1. Cardinality(wire) < MaxWire => Fits(wire \cup {m})
    BY RoomOnWire DEF WireTyped
  <1>2. Fits(wire') /\ wire' \in {wire, wire \cup {m}}
    BY <1>1 DEF WireTyped, Send
  <1> QED  BY <1>2 DEF WireTyped

LEMMA RepliedOnWire ==
  ASSUME WireTyped, NEW q \in wire
  PROVE  /\ wire' = wire \ {q} => WireTyped'
         /\ \A m \in Replies : wire' = (wire \ {q}) \cup {m} => WireTyped'
  BY RoomOnWire DEF WireTyped

\* What a call of DHCP_run puts on the wire: nothing or one request, no DECLINE
\* where no other host uses the addresses.
Posted == WireTyped' /\ \E m \in Requests : m.type # "DECLINE" /\ wire' \subseteq wire \cup {m}

\* Time may pass for a lease, which ends or gets shorter.
Passing ==
  /\ lent' \in [Servers -> Addrs \cup {None}] /\ left' \in [Servers -> 0 .. LeaseTime]
  /\ \A s \in Servers : lent'[s] \in {None, lent[s]} /\ (left'[s] > 0 => lent'[s] = lent[s] /\ left[s] > 0)

LEMMA Elapsed ==
  ASSUME HostsTyped
  PROVE  /\ \A n \in Nat : Elapse(n) => Passing
         /\ UNCHANGED <<lent, left>> => Passing
  <1>1. LeaseTime \in Nat
    BY Kinds
  <1>2. ASSUME UNCHANGED <<lent, left>> PROVE Passing
    BY <1>2 DEF HostsTyped, Passing
  <1>3. ASSUME NEW n \in Nat, Elapse(n), LeaseTime # INFINITE_LEASETIME PROVE Passing
    <2>1. /\ left' = [s \in Servers |-> IF left[s] > n THEN left[s] - n ELSE 0]
          /\ lent' = [s \in Servers |-> IF left'[s] > 0 THEN lent[s] ELSE None]
      BY <1>3 DEF Elapse
    <2>2. left' \in [Servers -> 0 .. LeaseTime] /\ \A s \in Servers : left'[s] > 0 => left[s] > 0
      BY <1>1, <2>1 DEF HostsTyped
    <2> QED  BY <2>1, <2>2 DEF HostsTyped, Passing
  <1> QED  BY <1>2, <1>3 DEF Elapse

\* Whatever a call of DHCP_run does, it reads at most one datagram and leaves
\* the servers alone, but for the time it takes.
RunKeeps ==
  /\ UNCHANGED <<unsettled, home, taken, renumbered>> /\ Passing
  /\ ran' = TRUE /\ udp' \in BOOLEAN /\ stale' \in BOOLEAN
  /\ RxTyped' /\ In(rx') \subseteq In(rx)
  /\ WireTyped' /\ (taken = {} => Posted)
  /\ ClientTyped'

LEMMA Reading ==
  ASSUME RxTyped, Received \/ ChipReset
  PROVE  udp' \in BOOLEAN /\ RxTyped' /\ In(rx') \subseteq In(rx)
  <1>1. Len(rx) \in Nat /\ MaxRx \in Nat /\ Len(rx) <= MaxRx
    BY Datagrams, Kinds DEF RxTyped
  <1>2. CASE Received
    <2>1. rx' = rx \/ (rx # <<>> /\ rx' = Tail(rx))
      BY <1>2 DEF Received
    <2>2. Len(Tail(rx)) \in Nat \/ rx = <<>>
      BY Datagrams, LenProperties
    <2> QED  BY <1>1, <1>2, <2>1, <2>2, Datagrams DEF RxTyped, Received
  <1>3. CASE ChipReset
    <2>1. rx' = <<>> /\ udp' = FALSE
      BY <1>3 DEF ChipReset
    <2>2. Len(rx') = 0 /\ rx' \in Seq(Replies) /\ In(rx') = {}
      BY <2>1, EmptySeq DEF In
    <2>3. RxTyped' /\ In(rx') \subseteq In(rx)
      BY <1>1, <2>2 DEF RxTyped
    <2> QED  BY <2>1, <2>3
  <1> QED  BY <1>2, <1>3

LEMMA Parsed ==
  ASSUME DhcpTyped, parseDHCPMSG
  PROVE  /\ ran' = TRUE
         /\ dhcp_lease_time' \in {LeaseTime, INFINITE_LEASETIME}
         /\ DHCP_SIP' \in Servers \cup {None}
         /\ (rx # <<>> \/ DHCP_SIP # None => DHCP_SIP' \in Servers)
         /\ \A types : Got(types) => rx # <<>>
  <1>1. rx # <<>> => Head(rx).srv \in Servers
    BY Datagrams, Kinds DEF DhcpTyped
  <1> QED  BY <1>1 DEF parseDHCPMSG, Got, DhcpTyped, ClientTyped

LEMMA Posting ==
  ASSUME DhcpTyped
  PROVE  /\ UNCHANGED wire => Posted
         /\ send_DHCP_DISCOVER => Posted
         /\ \A a \in Addrs : DHCP_SIP' \in Servers /\ send_DHCP_REQUEST(a) => Posted
         /\ DHCP_allocated_ip \in Addrs /\ DHCP_SIP' \in Servers /\ send_DHCP_DECLINE => WireTyped'
  <1> DEFINE discover == [type |-> "DISCOVER"]
  <1>1. discover \in Requests /\ discover.type = "DISCOVER"
    BY DEF Requests
  <1>2. ASSUME UNCHANGED wire PROVE Posted
    BY <1>1, <1>2 DEF Posted, DhcpTyped, WireTyped
  <1>3. ASSUME send_DHCP_DISCOVER PROVE Posted
    <2>1. Send(discover)
      BY <1>3 DEF send_DHCP_DISCOVER
    <2> QED  BY <1>1, <2>1, SentOnWire DEF Posted, DhcpTyped
  <1>4. ASSUME NEW a \in Addrs, DHCP_SIP' \in Servers, send_DHCP_REQUEST(a) PROVE Posted
    <2> DEFINE renew == [type |-> "RENEW", ip |-> a, to |-> DHCP_SIP']
               request == [type |-> "REQUEST", ip |-> a, sid |-> DHCP_SIP']
    <2>1. /\ renew \in Requests /\ renew.type = "RENEW"
          /\ request \in Requests /\ request.type = "REQUEST"
      BY <1>4 DEF Requests
    <2>2. Send(renew) \/ Send(request)
      BY <1>4 DEF send_DHCP_REQUEST
    <2> HIDE DEF renew, request
    <2> QED  BY <2>1, <2>2, SentOnWire DEF Posted, DhcpTyped
  <1>5. ASSUME DHCP_allocated_ip \in Addrs, DHCP_SIP' \in Servers, send_DHCP_DECLINE PROVE WireTyped'
    <2> DEFINE decline == [type |-> "DECLINE", ip |-> DHCP_allocated_ip, sid |-> DHCP_SIP']
    <2>1. decline \in Requests
      BY <1>5 DEF Requests
    <2>2. Send(decline)
      BY <1>5 DEF send_DHCP_DECLINE
    <2> HIDE DEF decline
    <2> QED  BY <2>1, <2>2, SentOnWire DEF DhcpTyped
  <1> QED  BY <1>2, <1>3, <1>4, <1>5

\* The counters after a reset, a retry and a call that changes nothing.
LEMMA Counters ==
  ASSUME ClientTyped
  PROVE  /\ reset_DHCP_timeout \/ UNCHANGED timing
            => dhcp_tick_1s' \in 0 .. MaxTick /\ dhcp_tick_next' = DHCP_WAIT_TIME /\ dhcp_retry_count' \in 0 .. MAX_DHCP_RETRY
         /\ dhcp_retry_count < MAX_DHCP_RETRY => dhcp_retry_count + 1 \in 0 .. MAX_DHCP_RETRY
         /\ 0 \in 0 .. MaxTick
  BY Kinds DEF ClientTyped, reset_DHCP_timeout, timing

LEMMA RunStep ==
  ASSUME DhcpTyped, DHCP_run
  PROVE  RunKeeps
  <1> DEFINE keeps == reset_DHCP_timeout \/ UNCHANGED timing
  <1>1. ClientTyped /\ RxTyped /\ dhcp_state \in {"INIT", "DISCOVER", "REQUEST", "LEASED", "REREQUEST"}
    BY DEF DhcpTyped, ClientTyped
  <1>2. /\ Posted => WireTyped'
        /\ UNCHANGED hosts => UNCHANGED <<home, taken, renumbered>> /\ Passing
        /\ \A n \in {0, 1, 2} : Elapse(n) => Passing
        /\ UNCHANGED stale => stale' \in BOOLEAN
        /\ Stale \in BOOLEAN
    BY Elapsed DEF Posted, hosts, DhcpTyped, SwitchesTyped, Stale
  <1> USE Counters, Reading, Parsed, Posting, <1>1, <1>2
  <1>3. CASE RunInit
    BY <1>3, Kinds DEF RunInit, RunKeeps, ClientTyped
  <1>4. CASE RunOffer
    <2>1. Head(rx).ip \in Addrs
      BY <1>4, Datagrams, Kinds DEF RunOffer, Got
    <2> QED  BY <1>4, <2>1, Kinds DEF RunOffer, RunKeeps, ClientTyped
  <1>5. CASE RunAssign
    <2>1. Passing
      BY <1>5 DEF RunAssign
    <2> QED  BY <1>5, <2>1, Kinds DEF RunAssign, RunKeeps, ClientTyped
  <1>6. CASE RunConflict
    BY <1>6, Kinds DEF RunConflict, RunKeeps, ClientTyped, Unique
  <1>7. CASE RunNak
    BY <1>7 DEF RunNak, RunKeeps, ClientTyped
  <1>8. CASE RunRenew
    BY <1>8, Kinds DEF RunRenew, RunKeeps, ClientTyped
  <1>9. CASE RunLeased
    BY <1>9, Kinds DEF RunLeased, RunKeeps, ClientTyped
  <1>10. CASE RunRenewed
    BY <1>10, Kinds DEF RunRenewed, RunKeeps, ClientTyped
  <1>11. CASE RunWait
    BY <1>11, Kinds DEF RunWait, Waiting, RunKeeps, ClientTyped
  <1>12. CASE RunRetry
    BY <1>12, Kinds DEF RunRetry, Waiting, RunKeeps, ClientTyped
  <1>13. CASE RunGiveUp
    BY <1>13 DEF RunGiveUp, Waiting, RunKeeps, ClientTyped
  <1> QED  BY <1>3, <1>4, <1>5, <1>6, <1>7, <1>8, <1>9, <1>10, <1>11, <1>12, <1>13 DEF DHCP_run

\* The offers of all servers.
Offers == {[type |-> "OFFER", ip |-> home[s], srv |-> s] : s \in Servers}

LEMMA OffersAreFinite == IsFiniteSet(Servers) => IsFiniteSet(Offers)
  <1> SUFFICES ASSUME IsFiniteSet(Servers) PROVE IsFiniteSet(Offers)
    OBVIOUS
  <1> DEFINE f == [s \in Servers |-> [type |-> "OFFER", ip |-> home[s], srv |-> s]]
  <1>1. f \in Surjection(Servers, Offers)
    BY DEF Surjection, Offers
  <1> QED  BY <1>1, FS_Surjection

\* What a server does with a request: the answer and the lease.
LEMMA Served ==
  ASSUME DhcpTyped, IsFiniteSet(Servers), NEW q \in wire, q \in Requests, Serve(q)
  PROVE  WireTyped' /\ HostsTyped'
  <1>1. WireTyped /\ HostsTyped
    BY DEF DhcpTyped
  <1>2. \A t \in {"OFFER", "ACK", "NAK"} : \A s \in Servers : [type |-> t, ip |-> home[s], srv |-> s] \in Replies
    BY <1>1 DEF Replies, HostsTyped
  <1>3. /\ \A s \in Servers : \A a \in Addrs \cup {None} :
             Lend(s, a) => lent' \in [Servers -> Addrs \cup {None}] /\ left' \in [Servers -> 0 .. LeaseTime]
        /\ UNCHANGED <<lent, left>> => lent' \in [Servers -> Addrs \cup {None}] /\ left' \in [Servers -> 0 .. LeaseTime]
    BY <1>1, Kinds DEF HostsTyped, Lend
  <1>4. \A t \in {"OFFER", "ACK", "NAK"} : \A s \in Servers : Reply(q, t, s) => WireTyped'
    BY <1>1, <1>2, RepliedOnWire DEF Reply
  <1>5. CASE ServeDiscover(q)
    <2>1. wire' = (wire \ {q}) \cup Offers /\ Cardinality(wire') <= MaxWire
      BY <1>5 DEF ServeDiscover, Offers
    <2>2. IsFiniteSet(wire')
      BY <1>1, <2>1, OffersAreFinite, FS_RemoveElement, FS_Union DEF WireTyped, Fits
    <2>3. WireTyped'
      BY <1>1, <1>2, <2>1, <2>2 DEF WireTyped, Fits, Offers
    <2>4. UNCHANGED hosts
      BY <1>5 DEF ServeDiscover
    <2> QED  BY <1>1, <2>3, <2>4 DEF HostsTyped, hosts
  <1>6. CASE ServeRequest(q)
    <2>1. q.sid \in Servers /\ q.ip \in Addrs
      BY <1>6 DEF ServeRequest, Requests
    <2> QED  BY <1>1, <1>3, <1>4, <1>6, <2>1 DEF ServeRequest, HostsTyped
  <1>7. CASE ServeRenew(q)
    <2>1. q.to \in Servers /\ home[q.to] \in Addrs
      BY <1>1, <1>7 DEF ServeRenew, Requests, HostsTyped
    <2> QED  BY <1>1, <1>3, <1>4, <1>7, <2>1 DEF ServeRenew, HostsTyped
  <1>8. CASE ServeDecline(q)
    <2>1. q.sid \in Servers
      BY <1>8 DEF ServeDecline, Requests
    <2>2. WireTyped'
      BY <1>1, <1>8, RepliedOnWire DEF ServeDecline
    <2>3. home' \in [Servers -> Addrs]
      BY <1>1, <1>8 DEF ServeDecline, HostsTyped
    <2>4. lent' \in [Servers -> Addrs \cup {None}] /\ left' \in [Servers -> 0 .. LeaseTime]
      BY <1>3, <1>8, <2>1 DEF ServeDecline
    <2> QED  BY <1>1, <1>8, <2>2, <2>3, <2>4 DEF ServeDecline, HostsTyped
  <1> QED  BY <1>5, <1>6, <1>7, <1>8 DEF Serve

\* A second that passes.
LEMMA SecondPasses ==
  ASSUME DhcpTyped, Second
  PROVE  /\ ClientTyped' /\ HostsTyped' /\ Passing /\ ran' = FALSE
         /\ UNCHANGED <<dhcp_state, dhcp_lease_time, DHCP_allocated_ip, chip, wire, unsettled, home, taken, renumbered, stale>>
         /\ dhcp_tick_1s' = IF dhcp_tick_1s < MaxTick THEN dhcp_tick_1s + 1 ELSE MaxTick
         /\ Elapse(1)
  <1> USE DEF Second
  <1>1. ClientTyped /\ HostsTyped
    BY DEF DhcpTyped
  <1>2. dhcp_tick_1s' \in 0 .. MaxTick
    BY <1>1, Kinds DEF DHCP_time_handler, ClientTyped
  <1>3. ClientTyped'
    BY <1>1, <1>2 DEF DHCP_time_handler, ClientTyped, chip
  <1>4. Passing
    BY <1>1, Elapsed DEF DHCP_time_handler
  <1>5. HostsTyped'
    BY <1>1, <1>4 DEF DHCP_time_handler, HostsTyped, Passing
  <1> QED  BY <1>3, <1>4, <1>5 DEF DHCP_time_handler

\* Every variable of the client and of its environment stays in its range.
LEMMA TypedStep ==
  ASSUME DhcpTyped, IsFiniteSet(Servers), [DhcpNext]_dhcpVars
  PROVE  DhcpTyped'
  <1>1. WireTyped /\ RxTyped /\ ClientTyped /\ SwitchesTyped /\ HostsTyped /\ OthersTyped
    BY DEF DhcpTyped
  <1> USE DEF client, timing, chip, hosts
  <1>2. /\ UNCHANGED <<client, sipr>> => ClientTyped'
        /\ UNCHANGED <<udp, ran, stale>> => SwitchesTyped'
        /\ UNCHANGED rx => RxTyped'
        /\ UNCHANGED wire => WireTyped'
        /\ UNCHANGED <<home, lent, left, taken>> => HostsTyped'
        /\ UNCHANGED <<unsettled, renumbered>> => OthersTyped'
    BY <1>1 DEF ClientTyped, SwitchesTyped, RxTyped, WireTyped, HostsTyped, OthersTyped
  <1>3. CASE DHCP_run
    <2>1. RunKeeps
      BY <1>3, RunStep
    <2>2. SwitchesTyped' /\ HostsTyped' /\ OthersTyped'
      BY <1>1, <2>1 DEF RunKeeps, Passing, SwitchesTyped, HostsTyped, OthersTyped
    <2> QED  BY <2>1, <2>2 DEF RunKeeps, DhcpTyped
  <1>4. CASE Second
    <2>1. UNCHANGED <<chip, wire, unsettled, renumbered, stale>>
      BY <1>4, SecondPasses
    <2>2. SwitchesTyped'
      BY <1>1, <1>4, <2>1, SecondPasses DEF SwitchesTyped
    <2> QED  BY <1>2, <1>4, <2>1, <2>2, SecondPasses DEF DhcpTyped
  <1>5. ASSUME NEW m \in wire, m \in Requests, Serve(m) PROVE DhcpTyped'
    <2>1. UNCHANGED <<client, chip, unsettled, renumbered, ran, stale>>
      BY <1>5 DEF Serve, ServeDiscover, ServeRequest, ServeRenew, ServeDecline
    <2> QED  BY <1>2, <1>5, <2>1, Served DEF DhcpTyped
  <1>6. ASSUME NEW m \in wire, m \in Replies, Deliver(m) PROVE DhcpTyped'
    <2>1. UNCHANGED <<client, sipr, udp, unsettled, hosts, ran, stale>> /\ wire' = wire \ {m}
      BY <1>6 DEF Deliver
    <2>2. RxTyped'
      BY <1>1, <1>6, Datagrams, Kinds DEF Deliver, RxTyped
    <2> QED  BY <1>1, <1>2, <2>1, <2>2, RepliedOnWire DEF DhcpTyped
  <1>7. ASSUME NEW m \in wire, Lose(m) PROVE DhcpTyped'
    BY <1>1, <1>2, <1>7, RepliedOnWire DEF Lose, DhcpTyped
  <1>8. CASE Renumber
    <2>1. home' \in [Servers -> Addrs] /\ renumbered' = TRUE
          /\ UNCHANGED <<client, chip, wire, unsettled, lent, left, taken, ran, stale>>
      BY <1>1, <1>8 DEF Renumber, HostsTyped
    <2>2. HostsTyped' /\ OthersTyped'
      BY <1>1, <2>1 DEF HostsTyped, OthersTyped
    <2> QED  BY <1>2, <2>1, <2>2 DEF DhcpTyped
  <1>9. CASE Settle
    BY <1>1, <1>2, <1>9 DEF Settle, DhcpTyped, OthersTyped
  <1>10. CASE UNCHANGED dhcpVars
    BY <1>2, <1>10 DEF dhcpVars, DhcpTyped
  <1> QED  BY <1>3, <1>4, <1>5, <1>6, <1>7, <1>8, <1>9, <1>10 DEF DhcpNext, Network

\* No address is declined; an offer or an answer names the address its server has
\* for this client.
GrantedBy(m) ==
  /\ m.type # "DECLINE"
  /\ m \in Replies /\ ~renumbered => m.ip = home[m.srv]
Granted == \A m \in wire \cup In(rx) : GrantedBy(m)

\* A lease with time left is a lease.
Backed == \A s \in Servers : left[s] > 0 => lent[s] # None

\* Every address anybody has for this client is the server's, unless it renumbered it.
Numbered ==
  ~renumbered => \A s \in Servers : {lent[s], DHCP_allocated_ip, sipr} \subseteq {None, home[s]}

\* A lease with more than half of it left when the client's clock started.
LeaseRuns(s) == IF LeaseTime = INFINITE_LEASETIME THEN left[s] > LeaseTime \div 2
                                                  ELSE left[s] + dhcp_tick_1s > LeaseTime \div 2
Held ==
  /\ dhcp_state \in {"LEASED", "REREQUEST"} => sipr # None
  /\ dhcp_state = "LEASED" =>
     /\ dhcp_lease_time = LeaseTime
     /\ ~stale => \E s \in Servers : LeaseRuns(s)
     /\ LeaseTime # INFINITE_LEASETIME /\ ran => dhcp_tick_1s <= LeaseTime \div 2

\* A request answered leaves the addresses of the servers, and renews a lease or none.
LEMMA ServedLease ==
  ASSUME DhcpTyped, Granted, NEW q \in wire, q \in Requests, Serve(q)
  PROVE  /\ UNCHANGED <<home, rx, renumbered>> /\ q.type # "DECLINE"
         /\ \A s \in Servers : \/ lent'[s] = lent[s] /\ left'[s] = left[s]
                               \/ lent'[s] \in {home[s], lent[s]} \cap Addrs /\ left'[s] = LeaseTime
         /\ \A m \in wire' \ wire : \E s \in Servers :
               /\ m.type \in {"OFFER", "ACK", "NAK"} /\ m.ip = home[s] /\ m.srv = s
               /\ m.type = "ACK" => lent'[s] \in Addrs /\ left'[s] = LeaseTime
  <1>1. HostsTyped /\ q.type # "DECLINE"
    BY DEF DhcpTyped, Granted, GrantedBy
  <1>2. CASE ServeDiscover(q)
    BY <1>1, <1>2 DEF ServeDiscover, hosts, chip
  <1>3. CASE ServeRequest(q)
    <2>1. q.sid \in Servers /\ q.ip \in Addrs
      BY <1>3 DEF ServeRequest, Requests
    <2> QED  BY <1>1, <1>3, <2>1, Kinds DEF ServeRequest, Reply, Lend, HostsTyped, chip
  <1>4. CASE ServeRenew(q)
    <2>1. q.to \in Servers /\ home[q.to] \in Addrs
      BY <1>1, <1>4 DEF ServeRenew, Requests, HostsTyped
    <2> QED  BY <1>1, <1>4, <2>1, Kinds DEF ServeRenew, Reply, Lend, HostsTyped, chip
  <1> QED  BY <1>1, <1>2, <1>3, <1>4 DEF Serve, ServeDecline

LEMMA GrantedStep ==
  ASSUME DhcpTyped, taken = {}, Granted, [DhcpNext]_dhcpVars
  PROVE  Granted'
  <1> USE DEF hosts, chip, client
  <1>1. WireTyped /\ RxTyped /\ HostsTyped
    BY DEF DhcpTyped
  <1>2. ASSUME UNCHANGED <<home, renumbered>>, wire' \cup In(rx') \subseteq wire \cup In(rx) PROVE Granted'
    BY <1>2 DEF Granted, GrantedBy
  <1>3. CASE DHCP_run
    <2>1. PICK m \in Requests : m.type # "DECLINE" /\ wire' \subseteq wire \cup {m}
      BY <1>3, RunStep DEF RunKeeps, Posted
    <2>2. UNCHANGED <<home, renumbered>> /\ In(rx') \subseteq In(rx)
      BY <1>3, RunStep DEF RunKeeps
    <2>3. m \notin Replies /\ m.type # "ACK"
      BY Kinds
    <2>4. GrantedBy(m)'
      BY <2>1, <2>3 DEF GrantedBy
    <2>5. \A x \in wire \cup In(rx) : GrantedBy(x)'
      BY <2>2 DEF Granted, GrantedBy
    <2> QED  BY <2>1, <2>2, <2>4, <2>5 DEF Granted
  <1>4. CASE Second
    BY <1>2, <1>4, SecondPasses DEF In
  <1>5. ASSUME NEW q \in wire, q \in Requests, Serve(q) PROVE Granted'
    <2>1. UNCHANGED <<home, rx, renumbered>>
      BY <1>5, ServedLease
    <2>2. \A m \in wire' \ wire : GrantedBy(m)'
      BY <1>5, <2>1, ServedLease, Kinds DEF GrantedBy
    <2>3. ASSUME NEW m \in wire \cup In(rx) PROVE GrantedBy(m)'
      BY <2>1, <2>3 DEF Granted, GrantedBy
    <2> QED  BY <2>1, <2>2, <2>3 DEF Granted
  <1>6. ASSUME NEW m \in wire, m \in Replies, Deliver(m) PROVE Granted'
    <2>1. UNCHANGED hosts /\ wire' \subseteq wire
      BY <1>6 DEF Deliver
    <2>2. In(rx') \subseteq In(rx) \cup {m}
      BY <1>1, <1>6, Datagrams DEF Deliver
    <2> QED  BY <1>2, <2>1, <2>2
  <1>7. ASSUME NEW m \in wire, Lose(m) PROVE Granted'
    BY <1>2, <1>7 DEF Lose
  <1>8. CASE Renumber
    BY <1>8 DEF Renumber, Granted, GrantedBy
  <1>9. CASE Settle
    BY <1>2, <1>9 DEF Settle
  <1>10. CASE UNCHANGED dhcpVars
    BY <1>2, <1>10 DEF dhcpVars
  <1> QED  BY <1>3, <1>4, <1>5, <1>6, <1>7, <1>8, <1>9, <1>10 DEF DhcpNext, Network

\* The facts of one datagram at the head of the socket.
LEMMA HeadIsGranted ==
  ASSUME DhcpTyped, Granted, rx # <<>>
  PROVE  /\ Head(rx).type \in {"OFFER", "ACK", "NAK"} /\ Head(rx).ip \in Addrs /\ Head(rx).srv \in Servers
         /\ ~renumbered => Head(rx).ip = home[Head(rx).srv]
  <1>1. Head(rx) \in Replies \cap In(rx)
    BY Datagrams DEF DhcpTyped
  <1> QED  BY <1>1, Kinds DEF Granted, GrantedBy

LEMMA NumberedStep ==
  ASSUME DhcpTyped, NEW s, Servers = {s}, taken = {}, Granted, Numbered, [DhcpNext]_dhcpVars
  PROVE  Numbered'
  <1> USE DEF hosts, chip, client
  <1>2. CASE DHCP_run
    <2>1. UNCHANGED <<home, renumbered>> /\ lent'[s] \in {None, lent[s]}
      BY <1>2, RunStep DEF RunKeeps, Passing
    <2>2. DHCP_allocated_ip' \in {None, DHCP_allocated_ip} \/ (rx # <<>> /\ DHCP_allocated_ip' = Head(rx).ip)
      BY <1>2 DEF DHCP_run, RunInit, RunOffer, RunAssign, RunConflict, RunNak, RunRenew, RunLeased, RunRenewed,
                  RunWait, RunRetry, RunGiveUp, Waiting, Got
    <2>3. sipr' \in {None, sipr, DHCP_allocated_ip}
      BY <1>2 DEF DHCP_run, RunInit, RunOffer, RunAssign, RunConflict, RunNak, RunRenew, RunLeased, RunRenewed,
                  RunWait, RunRetry, RunGiveUp, Waiting
    <2>4. rx # <<>> /\ ~renumbered => Head(rx).ip = home[s]
      BY HeadIsGranted
    <2> QED  BY <2>1, <2>2, <2>3, <2>4 DEF Numbered
  <1>3. CASE Second
    <2>1. lent'[s] \in {None, lent[s]} /\ UNCHANGED <<DHCP_allocated_ip, sipr, home, renumbered>>
      BY <1>3, SecondPasses DEF Passing
    <2> QED  BY <2>1 DEF Numbered
  <1>4. ASSUME NEW q \in wire, q \in Requests, Serve(q) PROVE Numbered'
    <2>1. UNCHANGED <<DHCP_allocated_ip, sipr>>
      BY <1>4 DEF Serve, ServeDiscover, ServeRequest, ServeRenew, ServeDecline
    <2>2. UNCHANGED <<home, renumbered>> /\ lent'[s] \in {lent[s], home[s]}
      BY <1>4, ServedLease
    <2> QED  BY <2>1, <2>2 DEF Numbered
  <1>5. CASE Renumber
    BY <1>5 DEF Renumber, Numbered
  <1>6. ASSUME UNCHANGED <<DHCP_allocated_ip, sipr, home, lent, renumbered>> PROVE Numbered'
    BY <1>6 DEF Numbered
  <1> QED  BY <1>2, <1>3, <1>4, <1>5, <1>6 DEF DhcpNext, Network, Deliver, Lose, Settle, dhcpVars

LEMMA BackedStep ==
  ASSUME DhcpTyped, taken = {}, Granted, Backed, [DhcpNext]_dhcpVars
  PROVE  Backed'
  <1>1. ASSUME Passing PROVE Backed'
    BY <1>1 DEF Passing, Backed
  <1>2. ASSUME NEW q \in wire, q \in Requests, Serve(q) PROVE Backed'
    <2>1. \A s \in Servers : \/ lent'[s] = lent[s] /\ left'[s] = left[s]
                             \/ lent'[s] \in Addrs
      BY <1>2, ServedLease
    <2> QED  BY <2>1, Kinds DEF Backed
  <1>3. ASSUME UNCHANGED <<lent, left>> PROVE Backed'
    BY <1>3 DEF Backed
  <1>4. DHCP_run \/ Second => Passing
    BY RunStep, SecondPasses DEF RunKeeps
  <1> QED  BY <1>1, <1>2, <1>3, <1>4 DEF DhcpNext, Network, Deliver, Lose, Renumber, Settle, dhcpVars, hosts

LEMMA HeldStep ==
  ASSUME DhcpTyped, taken = {}, Granted, Held, [DhcpNext]_dhcpVars
  PROVE  Held'
  <1> USE DEF hosts, chip, client, timing
  <1>1. ClientTyped /\ HostsTyped /\ {LeaseTime, LeaseTime \div 2} \subseteq Nat
    BY Kinds DEF DhcpTyped
  <1>2. CASE DHCP_run
    <2>1. ran' = TRUE /\ left' \in [Servers -> 0 .. LeaseTime]
      BY <1>2, RunStep DEF RunKeeps, Passing
    <2>2. CASE dhcp_state' \notin {"LEASED", "REREQUEST"}
      BY <2>2 DEF Held
    <2>3. CASE RunAssign \/ RunRenewed
      <3>1. /\ rx # <<>> /\ dhcp_lease_time' = LeaseTime /\ stale' = Stale
            /\ dhcp_state' = "LEASED" /\ dhcp_tick_1s' = 0 /\ sipr' \in {sipr, DHCP_allocated_ip}
            /\ DHCP_allocated_ip # None /\ (RunAssign => sipr' = DHCP_allocated_ip)
            /\ (RunRenewed => dhcp_state = "REREQUEST")
        BY <1>1, <2>3 DEF RunAssign, RunRenewed, Got, parseDHCPMSG, reset_DHCP_timeout, ClientTyped
      <3>2. PICK s \in Servers : s = Head(rx).srv
        BY <3>1, HeadIsGranted
      <3>3. sipr' # None
        BY <2>3, <3>1 DEF Held
      <3>4. ~stale' => LeaseRuns(s)'
        <4>1. left'[s] \in Nat
          BY <1>1, <2>1
        <4>2. ~stale' => left'[s] > LeaseTime \div 2
          <5>1. stale' = (left'[s] <= LeaseTime \div 2)
            BY <3>1, <3>2 DEF Stale
          <5>2. ~stale' => ~(left'[s] <= LeaseTime \div 2)
            BY <5>1, Zenon
          <5>3. ~(left'[s] <= LeaseTime \div 2) => left'[s] > LeaseTime \div 2
            BY <1>1, <4>1
          <5> QED  BY <5>2, <5>3
        <4>3. left'[s] + dhcp_tick_1s' = left'[s]
          BY <3>1, <4>1
        <4> QED  BY <4>2, <4>3 DEF LeaseRuns
      <3>5. (LeaseTime # INFINITE_LEASETIME /\ ran => dhcp_tick_1s <= LeaseTime \div 2)'
        BY <1>1, <3>1
      <3> QED  BY <3>1, <3>3, <3>4, <3>5 DEF Held
    <2>4. CASE RunLeased
      <3>1. /\ dhcp_state = "LEASED" /\ dhcp_lease_time' = LeaseTime
            /\ UNCHANGED <<dhcp_state, dhcp_tick_1s, sipr, left, stale>>
            /\ ~RenewalDue(dhcp_lease_time')
        BY <2>4 DEF RunLeased, parseDHCPMSG, Held
      <3>2. LeaseTime # INFINITE_LEASETIME => dhcp_tick_1s <= LeaseTime \div 2
        BY <1>1, <3>1, Kinds DEF RenewalDue, ClientTyped
      <3> QED  BY <2>1, <3>1, <3>2 DEF Held, LeaseRuns
    <2>5. CASE RunRenew
      BY <2>5 DEF RunRenew, Held
    <2>6. CASE RunWait \/ RunRetry
      BY <2>6 DEF RunWait, RunRetry, Waiting, Held
    <2> QED
      BY <1>2, <2>2, <2>3, <2>4, <2>5, <2>6
         DEF DHCP_run, RunInit, RunOffer, RunConflict, RunNak, RunGiveUp
  <1>3. CASE Second
    <2>1. UNCHANGED <<dhcp_state, dhcp_lease_time, sipr, stale>> /\ ran' = FALSE
      BY <1>3, SecondPasses
    <2>2. ASSUME NEW s \in Servers, LeaseRuns(s) PROVE LeaseRuns(s)'
      <3>1. left[s] \in Nat /\ dhcp_tick_1s \in Nat /\ MaxTick \in Nat /\ MaxTick > LeaseTime /\ dhcp_tick_1s <= MaxTick
        BY <1>1, Kinds DEF HostsTyped, ClientTyped
      <3>2. /\ dhcp_tick_1s' = IF dhcp_tick_1s < MaxTick THEN dhcp_tick_1s + 1 ELSE MaxTick
            /\ Elapse(1)
        BY <1>3, SecondPasses
      <3>3. CASE LeaseTime = INFINITE_LEASETIME
        BY <2>2, <3>2, <3>3 DEF Elapse, LeaseRuns
      <3>4. CASE LeaseTime # INFINITE_LEASETIME
        <4>1. left'[s] = IF left[s] > 1 THEN left[s] - 1 ELSE 0
          BY <3>2, <3>4 DEF Elapse
        <4>2. left[s] + dhcp_tick_1s > LeaseTime \div 2
          BY <2>2, <3>4 DEF LeaseRuns
        <4>3. left'[s] + dhcp_tick_1s' > LeaseTime \div 2
          BY <1>1, <3>1, <3>2, <4>1, <4>2
        <4> QED  BY <3>4, <4>3 DEF LeaseRuns
      <3> QED  BY <3>3, <3>4
    <2> QED  BY <2>1, <2>2 DEF Held
  <1>4. ASSUME NEW q \in wire, q \in Requests, Serve(q) PROVE Held'
    <2>1. UNCHANGED <<dhcp_state, dhcp_lease_time, dhcp_tick_1s, sipr, ran, stale>>
      BY <1>4 DEF Serve, ServeDiscover, ServeRequest, ServeRenew, ServeDecline
    <2>2. \A s \in Servers : LeaseRuns(s) => LeaseRuns(s)'
      <3> SUFFICES ASSUME NEW s \in Servers, LeaseRuns(s) PROVE LeaseRuns(s)'
        OBVIOUS
      <3>1. left'[s] = left[s] \/ left'[s] = LeaseTime
        BY <1>4, ServedLease
      <3>2. dhcp_tick_1s \in Nat /\ dhcp_tick_1s' = dhcp_tick_1s /\ left[s] \in 0 .. LeaseTime
        BY <1>1, <2>1, Kinds DEF ClientTyped, HostsTyped
      <3>3. left'[s] \in Nat /\ left'[s] >= left[s]
        BY <1>1, <3>1, <3>2
      <3> QED  BY <1>1, <3>2, <3>3 DEF LeaseRuns
    <2> QED  BY <2>1, <2>2 DEF Held
  <1>5. ASSUME UNCHANGED <<dhcp_state, dhcp_lease_time, dhcp_tick_1s, sipr, ran, stale, left>> PROVE Held'
    BY <1>5 DEF Held, LeaseRuns
  <1> QED  BY <1>2, <1>3, <1>4, <1>5 DEF DhcpNext, Network, Deliver, Lose, Renumber, Settle, dhcpVars

\* Where no other host uses the addresses, for any number of servers.
Leasing == DhcpTyped /\ (taken = {} => Granted /\ Backed /\ Held)

LEMMA LeasingInit == DhcpInit => Leasing /\ Numbered
  <1> SUFFICES ASSUME DhcpInit PROVE Leasing /\ Numbered
    OBVIOUS
  <1>1. WireTyped /\ RxTyped
    BY FS_EmptySet, EmptySeq, Kinds DEF DhcpInit, WireTyped, Fits, RxTyped
  <1>2. ClientTyped
    BY Kinds DEF DhcpInit, ClientTyped
  <1>3. HostsTyped
    BY Kinds DEF DhcpInit, HostsTyped
  <1>4. SwitchesTyped /\ OthersTyped
    BY DEF DhcpInit, SwitchesTyped, OthersTyped
  <1>5. In(rx) = {} /\ wire = {}
    BY EmptySeq DEF DhcpInit, In
  <1>6. Granted /\ Backed /\ Numbered /\ Held
    BY <1>5 DEF DhcpInit, Granted, Backed, Numbered, Held
  <1> QED  BY <1>1, <1>2, <1>3, <1>4, <1>6 DEF DhcpTyped, Leasing

LEMMA LeasingStep ==
  ASSUME IsFiniteSet(Servers), Leasing, [DhcpNext]_dhcpVars
  PROVE  Leasing' /\ taken' = taken
  <1>1. DhcpTyped'
    BY TypedStep DEF Leasing
  <1>2. DHCP_run => taken' = taken
    BY RunStep DEF RunKeeps, Leasing
  <1>3. taken' = taken
    BY <1>2 DEF DhcpNext, Second, DHCP_time_handler, Network, Serve, ServeDiscover, ServeRequest, ServeRenew, ServeDecline,
                Deliver, Lose, Renumber, Settle, dhcpVars, hosts
  <1>4. taken = {} => Granted' /\ Backed' /\ Held'
    BY GrantedStep, BackedStep, HeldStep DEF Leasing
  <1> QED  BY <1>1, <1>3, <1>4 DEF Leasing

LEMMA LeasingTyped == Leasing => DhcpTypeOK
  BY DEF Leasing, DhcpTyped, WireTyped, Fits, RxTyped, ClientTyped, SwitchesTyped, HostsTyped, OthersTyped, DhcpTypeOK

\* A lease whose clock the client has not outrun is one a server still holds.
LEMMA HeldIsLent ==
  ASSUME Leasing, taken = {}, dhcp_state = "LEASED", ~stale, ran \/ dhcp_tick_1s <= LeaseTime \div 2
  PROVE  sipr # None /\ \E s \in Servers : lent[s] # None
  <1>1. ClientTyped /\ HostsTyped /\ Backed /\ Held
    BY DEF Leasing, DhcpTyped
  <1>2. PICK s \in Servers : LeaseRuns(s)
    BY <1>1 DEF Held
  <1>3. left[s] \in Nat /\ dhcp_tick_1s \in Nat /\ LeaseTime \div 2 \in Nat
    BY <1>1, Kinds DEF HostsTyped, ClientTyped
  <1>4. LeaseTime # INFINITE_LEASETIME => dhcp_tick_1s <= LeaseTime \div 2
    BY <1>1 DEF Held
  <1>5. left[s] > 0
    BY <1>2, <1>3, <1>4 DEF LeaseRuns
  <1> QED  BY <1>1, <1>5 DEF Backed, Held

\* LeaseHeld without the address: for any finite set of servers, any lease time
\* and any delay of DHCP_run and of messages, a client whose DHCP_run returns in
\* LEASED, or whose renewal is not yet due, uses an address and has a lease that
\* some server has not ended, if the ACK was read in the first half of the lease.
THEOREM SomeLeaseIsHeld ==
  IsFiniteSet(Servers) =>
    (DhcpSpec => [](DhcpTypeOK /\ (dhcp_state = "LEASED" /\ (ran \/ dhcp_tick_1s <= LeaseTime \div 2) /\ ~stale /\ taken = {} =>
                                      sipr # None /\ \E s \in Servers : lent[s] # None)))
  <1> DEFINE Safe == DhcpTypeOK /\ (dhcp_state = "LEASED" /\ (ran \/ dhcp_tick_1s <= LeaseTime \div 2) /\ ~stale /\ taken = {} =>
                                      sipr # None /\ \E s \in Servers : lent[s] # None)
  <1> SUFFICES ASSUME IsFiniteSet(Servers) PROVE DhcpSpec => []Safe
    OBVIOUS
  <1>1. Leasing => Safe
    BY LeasingTyped, HeldIsLent
  <1>2. Leasing /\ [DhcpNext]_dhcpVars => Leasing'
    BY LeasingStep
  <1> QED  BY <1>1, <1>2, LeasingInit, PTL DEF DhcpSpec

\* LeaseHeld, with one server: the lease is for the address the chip uses. With
\* two, the late ACK of one is taken for the ACK of the other (DHCP_XID is not
\* compared, dhcp.c 457-558), and the chip uses an address nobody lent.
THEOREM LeaseIsHeld == (\E s : Servers = {s}) => (DhcpSpec => []LeaseHeld)
  <1> SUFFICES ASSUME NEW s, Servers = {s} PROVE DhcpSpec => []LeaseHeld
    OBVIOUS
  <1> DEFINE Inv == Leasing /\ (taken = {} => Numbered)
  <1>0. IsFiniteSet(Servers)
    BY FS_Singleton
  <1>1. DhcpInit => Inv
    BY LeasingInit
  <1>2. Inv /\ [DhcpNext]_dhcpVars => Inv'
    <2> SUFFICES ASSUME Inv, [DhcpNext]_dhcpVars PROVE Inv'
      OBVIOUS
    <2>1. Leasing' /\ taken' = taken
      BY <1>0, LeasingStep
    <2>2. taken = {} => Numbered'
      BY NumberedStep DEF Leasing
    <2> QED  BY <2>1, <2>2
  <1>3. Inv => LeaseHeld
    <2> SUFFICES ASSUME Inv PROVE LeaseHeld
      OBVIOUS
    <2>1. ASSUME dhcp_state = "LEASED", taken = {}, ~stale, ran \/ dhcp_tick_1s <= LeaseTime \div 2
          PROVE  sipr # None /\ lent[s] # None /\ (~renumbered => lent[s] = sipr)
      BY <2>1, HeldIsLent DEF Numbered
    <2> QED  BY <2>1, LeasingTyped DEF LeaseHeld
  <1> QED  BY <1>1, <1>2, <1>3, PTL DEF DhcpSpec
-----------------------------------------------------------------------------
(* The SIM800L driver. *)

GprsStates ==
  {"INIT", "SET_MISC", "CHECK_CSQ", "CHECK_REG", "CHECK_CGATT", "SET_APN", "SET_CIICR", "GET_IP",
   "CHECK", "START_TCP", "RESTART_TCP", "TCP_CONNECT", "COMMUNICATE", "RX_PROC", "FRAME_PROC"}

\* What a call of gprs_at_fsm may change.
Machine ==
  /\ gprs_status \in GprsStates
  /\ gprs_status_error_count \in 0..5 /\ gprs_tcp_error_count \in 0..3
  /\ dialled \in {"none", "dns", "ip"}
Flags == late \in BOOLEAN /\ given \in BOOLEAN /\ booted \in BOOLEAN /\ gprs_imei \in BOOLEAN

\* An answer and a failure lead to states.
LEMMA BringUpStates ==
  /\ \A s \in DOMAIN Expects : Following[s] \in GprsStates
  /\ \A s \in DOMAIN Failed : Failed[s] \in GprsStates
  /\ TypeOK <=> Machine /\ Flags
  <1>1. DOMAIN Expects = {"INIT", "SET_MISC", "CHECK_CSQ", "CHECK_REG", "CHECK_CGATT", "SET_APN", "SET_CIICR", "GET_IP"}
    BY DEF Expects
  <1>2. \A s \in DOMAIN Expects : Following[s] \in GprsStates
    BY <1>1 DEF Following, GprsStates
  <1>3. \A s \in DOMAIN Failed : Failed[s] \in GprsStates
    BY DEF Failed, GprsStates
  <1>4. GprsStates = DOMAIN Expects \cup {"CHECK", "START_TCP", "RESTART_TCP", "TCP_CONNECT",
                                         "COMMUNICATE", "RX_PROC", "FRAME_PROC"}
    BY <1>1 DEF GprsStates
  <1>5. TypeOK <=> Machine /\ Flags
    BY <1>4 DEF TypeOK, Machine, Flags
  <1> QED  BY <1>2, <1>3, <1>5

\* One call of gprs_at_fsm, in any state and with any line.
LEMMA GprsCall ==
  ASSUME Machine, NEW l, gprs_at_fsm(l)
  PROVE  Machine'
  <1> USE DEF Machine, conn
  <1>1. CASE Check
    BY <1>1 DEF Check, Enter, GprsStates
  <1>2. CASE StartTcp
    BY <1>2 DEF StartTcp, gprs_server_connect, GprsStates
  <1>3. CASE RestartTcp
    BY <1>3 DEF RestartTcp, CountTcpError, GprsStates
  <1>4. CASE BringUp(l)
    <2>1. gprs_status \in DOMAIN Expects /\ UNCHANGED conn
      BY <1>4 DEF BringUp
    <2>2. CASE Answer
      <3>1. Following[gprs_status] \in GprsStates
        BY <2>1, BringUpStates
      <3> QED  BY <2>1, <2>2, <3>1 DEF Answer, Enter, GprsStates
    <2>3. CASE gprs_status \in DOMAIN Failed /\ Fail
      <3>1. Failed[gprs_status] \in GprsStates
        BY <2>3, BringUpStates
      <3> QED  BY <2>1, <2>3, <3>1 DEF Fail
    <2>4. CASE Retry
      BY <2>1, <2>4 DEF Retry, TooMany
    <2>5. CASE UNCHANGED fsm
      BY <2>1, <2>5 DEF fsm
    <2> QED  BY <1>4, <2>2, <2>3, <2>4, <2>5 DEF BringUp
  <1>5. CASE TcpConnect(l)
    <2>1. UNCHANGED <<gprs_status_error_count, dialled>>
      BY <1>5 DEF TcpConnect
    <2>2. gprs_status' \in {gprs_status, "COMMUNICATE", "INIT"}
      BY <1>5, Zenon DEF TcpConnect
    <2>3. CountTcpError \/ UNCHANGED gprs_tcp_error_count
      BY <1>5, Zenon DEF TcpConnect
    <2> QED  BY <2>1, <2>2, <2>3 DEF CountTcpError, GprsStates
  <1>6. CASE Communicate(l)
    <2>1. UNCHANGED <<gprs_status_error_count, dialled>>
      BY <1>6 DEF Communicate
    <2>2. gprs_status' \in {gprs_status, "RESTART_TCP", "INIT", "RX_PROC"}
      BY <1>6, Zenon DEF Communicate, Announced
    <2>3. gprs_tcp_error_count' \in {0, gprs_tcp_error_count}
      BY <1>6, Zenon DEF Communicate, Announced
    <2> QED  BY <2>1, <2>2, <2>3 DEF GprsStates
  <1>7. CASE RxProc(l)
    BY <1>7 DEF RxProc, GprsStates
  <1>8. CASE FrameProc(l)
    BY <1>8 DEF FrameProc, GprsStates
  <1> QED  BY <1>1, <1>2, <1>3, <1>4, <1>5, <1>6, <1>7, <1>8 DEF gprs_at_fsm

\* The flags of the same call.
LEMMA GprsFlags == Flags /\ [Next]_vars => Flags'
  <1> SUFFICES ASSUME Flags, [Next]_vars PROVE Flags'
    OBVIOUS
  <1> USE DEF Flags
  <1>1. ASSUME NEW l, gprs_get_imei(l) PROVE Flags'
    BY <1>1 DEF gprs_get_imei, fsm, conn
  <1>2. ASSUME NEW l, Round(l) PROVE Flags'
    <2>1. gprs_at_fsm(l) /\ booted' = booted /\ gprs_imei' = gprs_imei
      BY <1>2 DEF Round
    <2>2. CASE Check \/ StartTcp \/ RestartTcp
      BY <2>1, <2>2, Zenon DEF Check, Enter, StartTcp, RestartTcp, conn
    <2>3. CASE BringUp(l)
      <3>1. given' = given
        BY <2>3 DEF BringUp, conn
      <3>2. late' \in BOOLEAN
        <4>1. CASE Answer
          BY <4>1, Zenon DEF Answer, Enter
        <4>2. CASE Fail
          BY <4>2, Zenon DEF Fail
        <4>3. CASE Retry
          BY <4>3, Zenon DEF Retry
        <4>4. CASE UNCHANGED fsm
          BY <4>4 DEF fsm
        <4> QED  BY <2>3, <4>1, <4>2, <4>3, <4>4 DEF BringUp
      <3> QED  BY <2>1, <3>1, <3>2
    <2>4. CASE TcpConnect(l)
      BY <2>1, <2>4, Zenon DEF TcpConnect
    <2>5. CASE Communicate(l)
      BY <2>1, <2>5, Zenon DEF Communicate, Announced
    <2>6. CASE RxProc(l)
      BY <2>1, <2>6, Zenon DEF RxProc, conn
    <2>7. CASE FrameProc(l)
      BY <2>1, <2>7 DEF FrameProc
    <2> QED  BY <2>1, <2>2, <2>3, <2>4, <2>5, <2>6, <2>7 DEF gprs_at_fsm
  <1>3. CASE Deadline
    BY <1>3, Zenon DEF Deadline, conn
  <1>4. CASE UNCHANGED vars
    BY <1>4 DEF vars
  <1> QED  BY <1>1, <1>2, <1>3, <1>4 DEF Next

\* The retry counter of gprs_at_fsm, which some states reset and some hand on,
\* never passes 5, and the driver is in one of its states, for every firmware of
\* the modem and everything it says.
THEOREM GprsCountsStay == Spec => []TypeOK
  <1>1. Init => Machine /\ Flags
    <2>1. Init => Machine
      BY DEF Init, Machine, GprsStates
    <2>2. Init => Flags
      BY Zenon DEF Init, Flags
    <2> QED  BY <2>1, <2>2
  <1>2. Machine /\ [Next]_vars => Machine'
    <2> SUFFICES ASSUME Machine, [Next]_vars PROVE Machine'
      OBVIOUS
    <2>1. ASSUME NEW l, gprs_get_imei(l) PROVE Machine'
      BY <2>1 DEF gprs_get_imei, Machine, fsm, conn
    <2>2. ASSUME NEW l, Round(l) PROVE Machine'
      BY <2>2, GprsCall DEF Round
    <2>3. CASE Deadline
      BY <2>3 DEF Deadline, Machine, conn
    <2>4. CASE UNCHANGED vars
      BY <2>4 DEF vars, Machine
    <2> QED  BY <2>1, <2>2, <2>3, <2>4 DEF Next
  <1>3. Machine /\ Flags => TypeOK
    BY BringUpStates
  <1> QED  BY <1>1, <1>2, <1>3, GprsFlags, PTL DEF Spec
=============================================================================
