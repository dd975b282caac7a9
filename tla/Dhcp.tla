-------------------------------- MODULE Dhcp --------------------------------
(***************************************************************************)
(* The DHCP client of the wired interface, Middlewares/Eth/dhcp.c, with    *)
(* the callbacks ibox_Ethernet.c registers. The wired thread calls         *)
(* DHCP_run over and over; the 1 s timer calls DHCP_time_handler. A call   *)
(* of DHCP_run is one step. Between two calls any time may pass: the       *)
(* thread sleeps 10 s at a time without a cable (wired_net.c 65), and      *)
(* DNS_run keeps it for several waits (wired_net.c 38).                    *)
(*                                                                         *)
(* External: the W5500 (its address, its UDP socket), the network, which   *)
(* may delay and reorder messages and, while unsettled, lose them, and the *)
(* servers.                                                                *)
(* Gateway, mask and name server are assigned along with the address and   *)
(* are left out, and so are messages for other clients (type 0) and        *)
(* DHCP_stop, which nothing calls. DHCP_XID is sent and never compared.    *)
(***************************************************************************)
EXTENDS Naturals, FiniteSets, Sequences

CONSTANTS
  Servers, Addrs, None,
  MAX_DHCP_RETRY, DHCP_WAIT_TIME,
  INFINITE_LEASETIME,  \* a lease time that stands for 0xffffffff
  LeaseTime,           \* what the servers grant, in seconds or INFINITE_LEASETIME
  Roam,                \* a server may, while unsettled, change the address it has for this client
  Busy,                \* another host may use one of the addresses
  MaxWire, MaxRx       \* bounds: messages under way (the others are lost), datagrams in the socket

ASSUME DhcpAssumption ==
  /\ None \notin Addrs \cup Servers
  /\ {MAX_DHCP_RETRY, DHCP_WAIT_TIME, INFINITE_LEASETIME, LeaseTime, MaxWire, MaxRx} \subseteq Nat
  /\ Roam \in BOOLEAN /\ Busy \in BOOLEAN

VARIABLES
  dhcp_state, dhcp_tick_1s, dhcp_tick_next, dhcp_retry_count, dhcp_lease_time,
  DHCP_allocated_ip, OLD_allocated_ip, DHCP_SIP,
  sipr,                \* the address the chip uses (SIPR)
  udp, rx,             \* the DHCP socket is open; the datagrams it holds
  wire,                \* messages under way, in both directions
  unsettled,           \* messages may still be lost, and servers change their mind
  home, lent, left,    \* per server: its address for this client, the one it lent, for how much longer
  taken,               \* addresses other hosts answer an ARP request for
  renumbered,          \* history: a server has changed its address for this client
  ran,                 \* no second has passed since the last DHCP_run
  stale                \* history: in LEASED, half of the lease or more was over when its ACK was taken

timing == <<dhcp_tick_1s, dhcp_tick_next, dhcp_retry_count>>
client == <<dhcp_state, timing, dhcp_lease_time, DHCP_allocated_ip, OLD_allocated_ip, DHCP_SIP>>
chip   == <<sipr, udp, rx>>
hosts  == <<home, lent, left, taken, renumbered>>
dhcpVars == <<client, chip, wire, unsettled, hosts, ran, stale>>

Requests == [type : {"DISCOVER"}]
            \cup [type : {"REQUEST", "DECLINE"}, ip : Addrs, sid : Servers]
            \cup [type : {"RENEW"}, ip : Addrs, to : Servers]
Replies  == [type : {"OFFER", "ACK", "NAK"}, ip : Addrs, srv : Servers]

\* No comparison of the code tells ticks beyond this apart.
MaxTick == 1 + IF DHCP_WAIT_TIME > LeaseTime THEN DHCP_WAIT_TIME ELSE LeaseTime

DhcpTypeOK ==
  /\ dhcp_state \in {"INIT", "DISCOVER", "REQUEST", "LEASED", "REREQUEST"}
  /\ dhcp_tick_1s \in 0 .. MaxTick /\ dhcp_tick_next = DHCP_WAIT_TIME /\ dhcp_retry_count \in 0 .. MAX_DHCP_RETRY
  /\ dhcp_lease_time \in {LeaseTime, INFINITE_LEASETIME}
  /\ DHCP_allocated_ip \in Addrs \cup {None} /\ OLD_allocated_ip \in Addrs \cup {None}
  /\ DHCP_SIP \in Servers \cup {None}
  /\ (dhcp_state \in {"REQUEST", "LEASED", "REREQUEST"} => DHCP_allocated_ip # None /\ DHCP_SIP # None)
  /\ sipr \in Addrs \cup {None} /\ udp \in BOOLEAN
  /\ rx \in Seq(Replies) /\ Len(rx) <= MaxRx
  /\ wire \subseteq Requests \cup Replies /\ Cardinality(wire) <= MaxWire
  /\ unsettled \in BOOLEAN /\ ran \in BOOLEAN /\ stale \in BOOLEAN
  /\ home \in [Servers -> Addrs] /\ lent \in [Servers -> Addrs \cup {None}] /\ left \in [Servers -> 0 .. LeaseTime]
  /\ taken \subseteq Addrs /\ renumbered \in BOOLEAN
-----------------------------------------------------------------------------
\* DHCP_init, and the environment: servers with an address each; one address may be in use elsewhere.
DhcpInit ==
  /\ dhcp_state = "INIT" /\ dhcp_tick_1s = 0 /\ dhcp_tick_next = DHCP_WAIT_TIME /\ dhcp_retry_count = 0
  /\ dhcp_lease_time = INFINITE_LEASETIME
  /\ DHCP_allocated_ip = None /\ OLD_allocated_ip = None /\ DHCP_SIP = None
  /\ sipr = None /\ udp = FALSE /\ rx = <<>>
  /\ wire = {} /\ unsettled = TRUE /\ ran = FALSE /\ stale = FALSE
  /\ home \in [Servers -> Addrs] /\ \A s, t \in Servers : home[s] = home[t] => s = t
  /\ lent = [s \in Servers |-> None] /\ left = [s \in Servers |-> 0]
  /\ renumbered = FALSE
  /\ taken \in {{}} \cup {{a} : a \in IF Busy THEN Addrs ELSE {}}

\* sendto of the WIZnet library, and the network: one message more than MaxWire is lost.
Send(m) == wire' = IF Cardinality(wire) < MaxWire THEN wire \cup {m} ELSE wire

send_DHCP_DISCOVER   == Send([type |-> "DISCOVER"])
\* Broadcast with the address and the server identifier, or, for an address in use, to DHCP_SIP with ciaddr.
send_DHCP_REQUEST(a) ==
  IF dhcp_state \in {"LEASED", "REREQUEST"} THEN Send([type |-> "RENEW", ip |-> a, to |-> DHCP_SIP'])
                                            ELSE Send([type |-> "REQUEST", ip |-> a, sid |-> DHCP_SIP'])
send_DHCP_DECLINE    == Send([type |-> "DECLINE", ip |-> DHCP_allocated_ip, sid |-> DHCP_SIP'])

reset_DHCP_timeout == dhcp_tick_1s' = 0 /\ dhcp_tick_next' = DHCP_WAIT_TIME /\ dhcp_retry_count' = 0

\* n seconds pass for the servers' leases.
Elapse(n) ==
  IF LeaseTime = INFINITE_LEASETIME
  THEN UNCHANGED <<lent, left>>
  ELSE /\ left' = [s \in Servers |-> IF left[s] > n THEN left[s] - n ELSE 0]
       /\ lent' = [s \in Servers |-> IF left'[s] > 0 THEN lent[s] ELSE None]

\* The call's datagram, if any.
Got(types) == rx # <<>> /\ Head(rx).type \in types

\* parseDHCPMSG: whatever the state, the options of a message are stored as they are met.
parseDHCPMSG ==
  /\ dhcp_lease_time' = IF Got({"OFFER", "ACK"}) THEN LeaseTime ELSE dhcp_lease_time
  /\ DHCP_SIP' = IF rx # <<>> THEN Head(rx).srv ELSE DHCP_SIP
  /\ ran' = TRUE

\* The datagram has left the socket, which DHCP_run opened if it had to.
Received == udp' = TRUE /\ rx' = IF rx # <<>> THEN Tail(rx) ELSE rx

\* setMR(MR_RST): every socket is closed, and the address is lost.
ChipReset == udp' = FALSE /\ rx' = <<>>

RunInit ==
  /\ dhcp_state = "INIT"
  /\ parseDHCPMSG /\ Received
  /\ DHCP_allocated_ip' = None
  /\ send_DHCP_DISCOVER
  /\ dhcp_state' = "DISCOVER"
  /\ UNCHANGED <<timing, OLD_allocated_ip, sipr, unsettled, hosts, stale>>

RunOffer ==
  /\ dhcp_state = "DISCOVER" /\ Got({"OFFER"})
  /\ parseDHCPMSG /\ Received
  /\ DHCP_allocated_ip' = Head(rx).ip
  /\ send_DHCP_REQUEST(Head(rx).ip)
  /\ dhcp_state' = "REQUEST"
  /\ UNCHANGED <<timing, OLD_allocated_ip, sipr, unsettled, hosts, stale>>

\* check_DHCP_leasedIP: a datagram to the address that no host answers for ends in SOCKERR_TIMEOUT.
Unique(a) == a \notin taken

\* History: what is left, when it is taken, of the lease the ACK speaks of.
Stale == left'[Head(rx).srv] <= LeaseTime \div 2

\* The first ACK and a free address: eth_ip_assign. The ARP request for it takes up to 4 x 200 ms to time out.
RunAssign ==
  /\ dhcp_state = "REQUEST" /\ Got({"ACK"}) /\ Unique(DHCP_allocated_ip)
  /\ parseDHCPMSG /\ Received
  /\ \E n \in 0 .. 1 : Elapse(n)
  /\ sipr' = DHCP_allocated_ip
  /\ reset_DHCP_timeout
  /\ dhcp_state' = "LEASED"
  /\ stale' = Stale
  /\ UNCHANGED <<DHCP_allocated_ip, OLD_allocated_ip, wire, unsettled, home, taken, renumbered>>

\* The first ACK and an address in use: DECLINE, two seconds in a loop, eth_ip_conflict.
RunConflict ==
  /\ dhcp_state = "REQUEST" /\ Got({"ACK"}) /\ ~Unique(DHCP_allocated_ip)
  /\ parseDHCPMSG
  /\ send_DHCP_DECLINE
  /\ Elapse(2)
  /\ reset_DHCP_timeout
  /\ ChipReset /\ sipr' = None
  /\ dhcp_state' = "INIT"
  /\ UNCHANGED <<DHCP_allocated_ip, OLD_allocated_ip, unsettled, home, taken, renumbered, stale>>

\* A NAK leads to DISCOVER, where a DISCOVER is sent after the next time-out.
RunNak ==
  /\ dhcp_state \in {"REQUEST", "REREQUEST"} /\ Got({"NAK"})
  /\ parseDHCPMSG /\ Received
  /\ reset_DHCP_timeout
  /\ dhcp_state' = "DISCOVER"
  /\ UNCHANGED <<DHCP_allocated_ip, OLD_allocated_ip, sipr, wire, unsettled, hosts, stale>>

\* Fault: the lease is renewed when it ends, not half way.
RenewalDueAtEnd(t) == t # INFINITE_LEASETIME /\ t < dhcp_tick_1s

\* Half of the lease has passed.
RenewalDue(t) == t # INFINITE_LEASETIME /\ t \div 2 < dhcp_tick_1s

RunRenew ==
  /\ dhcp_state = "LEASED"
  /\ parseDHCPMSG /\ Received
  /\ RenewalDue(dhcp_lease_time')
  /\ OLD_allocated_ip' = DHCP_allocated_ip
  /\ send_DHCP_REQUEST(DHCP_allocated_ip)
  /\ reset_DHCP_timeout
  /\ dhcp_state' = "REREQUEST"
  /\ stale' = FALSE
  /\ UNCHANGED <<DHCP_allocated_ip, sipr, unsettled, hosts>>

RunLeased ==
  /\ dhcp_state = "LEASED"
  /\ parseDHCPMSG /\ Received
  /\ ~RenewalDue(dhcp_lease_time')
  /\ UNCHANGED <<dhcp_state, timing, DHCP_allocated_ip, OLD_allocated_ip, sipr, wire, unsettled, hosts, stale>>

\* The ACK of a renewal; eth_ip_update if DHCP_allocated_ip is another address by now.
RunRenewed ==
  /\ dhcp_state = "REREQUEST" /\ Got({"ACK"})
  /\ parseDHCPMSG
  /\ IF OLD_allocated_ip # DHCP_allocated_ip THEN ChipReset /\ sipr' = DHCP_allocated_ip
                                             ELSE Received /\ sipr' = sipr
  /\ reset_DHCP_timeout
  /\ dhcp_state' = "LEASED"
  /\ UNCHANGED <<DHCP_allocated_ip, OLD_allocated_ip, wire, unsettled, hosts>>
  /\ stale' = Stale

\* Nothing for the state: check_DHCP_timeout.
Waiting ==
  /\ dhcp_state \in {"DISCOVER", "REQUEST", "REREQUEST"}
  /\ ~Got(IF dhcp_state = "DISCOVER" THEN {"OFFER"} ELSE {"ACK", "NAK"})
  /\ parseDHCPMSG /\ Received
  /\ UNCHANGED <<DHCP_allocated_ip, OLD_allocated_ip, sipr, unsettled, hosts, stale>>

RunWait ==
  /\ dhcp_retry_count < MAX_DHCP_RETRY /\ dhcp_tick_next >= dhcp_tick_1s
  /\ Waiting
  /\ UNCHANGED <<dhcp_state, timing, wire>>

RunRetry ==
  /\ dhcp_retry_count < MAX_DHCP_RETRY /\ dhcp_tick_next < dhcp_tick_1s
  /\ Waiting
  /\ IF dhcp_state = "DISCOVER" THEN send_DHCP_DISCOVER ELSE send_DHCP_REQUEST(DHCP_allocated_ip)
  /\ dhcp_tick_1s' = 0 /\ dhcp_tick_next' = DHCP_WAIT_TIME
  /\ dhcp_retry_count' = dhcp_retry_count + 1
  /\ UNCHANGED dhcp_state

\* Fault: what is given up is not begun again.
RunGiveUpStays ==
  /\ dhcp_retry_count >= MAX_DHCP_RETRY
  /\ Waiting
  /\ UNCHANGED <<dhcp_state, timing, wire>>

\* The retries are used up: at the next call, without another wait.
RunGiveUp ==
  /\ dhcp_retry_count >= MAX_DHCP_RETRY
  /\ Waiting
  /\ IF dhcp_state = "DISCOVER" THEN dhcp_state' = "INIT" /\ UNCHANGED wire
                                ELSE dhcp_state' = "DISCOVER" /\ send_DHCP_DISCOVER
  /\ reset_DHCP_timeout

DHCP_run ==
  \/ RunInit \/ RunOffer \/ RunAssign \/ RunConflict \/ RunNak \/ RunRenew \/ RunLeased \/ RunRenewed
  \/ RunWait \/ RunRetry \/ RunGiveUp

\* A second passes, for the servers' leases too.
DHCP_time_handler ==
  /\ dhcp_tick_1s' = IF dhcp_tick_1s < MaxTick THEN dhcp_tick_1s + 1 ELSE MaxTick
  /\ ran' = FALSE
  /\ Elapse(1)
  /\ UNCHANGED <<dhcp_state, dhcp_tick_next, dhcp_retry_count, dhcp_lease_time, DHCP_allocated_ip, OLD_allocated_ip,
                 DHCP_SIP, chip, wire, unsettled, home, taken, renumbered, stale>>

\* Once settled, with the cable in, what is sent is answered and read within the second.
Second == (unsettled \/ (wire = {} /\ rx = <<>> /\ ran)) /\ DHCP_time_handler
-----------------------------------------------------------------------------
(* The servers: an answer replaces its request. *)

Reply(q, type, s) == wire' = (wire \ {q}) \cup {[type |-> type, ip |-> home[s], srv |-> s]}

Lend(s, a) == lent' = [lent EXCEPT ![s] = a] /\ left' = [left EXCEPT ![s] = IF a = None THEN 0 ELSE LeaseTime]

\* Each server answers a broadcast; the last one takes it off the wire.
ServeDiscover(q) ==
  /\ q.type = "DISCOVER"
  /\ wire' = (wire \ {q}) \cup {[type |-> "OFFER", ip |-> home[s], srv |-> s] : s \in Servers}
  /\ Cardinality(wire') <= MaxWire
  /\ UNCHANGED <<client, chip, unsettled, hosts, ran, stale>>

ServeRequest(q) ==
  /\ q.type = "REQUEST"
  /\ IF q.ip = home[q.sid] THEN Reply(q, "ACK", q.sid) /\ Lend(q.sid, q.ip)
                           ELSE Reply(q, "NAK", q.sid) /\ UNCHANGED <<lent, left>>
  /\ UNCHANGED <<client, chip, unsettled, home, taken, renumbered, ran, stale>>

\* A renewal of what the server lent is granted, with the server's present address for the client.
ServeRenew(q) ==
  /\ q.type = "RENEW"
  /\ IF q.ip = lent[q.to] THEN Reply(q, "ACK", q.to) /\ Lend(q.to, home[q.to])
                          ELSE Reply(q, "NAK", q.to) /\ UNCHANGED <<lent, left>>
  /\ UNCHANGED <<client, chip, unsettled, home, taken, renumbered, ran, stale>>

\* A declined address is given up for one that is free.
ServeDecline(q) ==
  /\ q.type = "DECLINE"
  /\ wire' = wire \ {q}
  /\ IF q.ip = home[q.sid]
     THEN /\ \E a \in Addrs \ ({q.ip} \cup {home[s] : s \in Servers}) : home' = [home EXCEPT ![q.sid] = a]
          /\ Lend(q.sid, None)
     ELSE UNCHANGED <<home, lent, left>>
  /\ UNCHANGED <<client, chip, unsettled, taken, renumbered, ran, stale>>

Serve(q) == ServeDiscover(q) \/ ServeRequest(q) \/ ServeRenew(q) \/ ServeDecline(q)

\* A server changes its mind: once, and not where another host uses the addresses (bounds of the runs).
Renumber ==
  /\ Roam /\ unsettled /\ ~renumbered /\ taken = {}
  /\ \E s \in Servers : \E a \in Addrs \ {home[t] : t \in Servers} : home' = [home EXCEPT ![s] = a]
  /\ renumbered' = TRUE
  /\ UNCHANGED <<client, chip, wire, unsettled, lent, left, taken, ran, stale>>

\* A reply reaches the chip; a closed socket drops it.
Deliver(m) ==
  /\ Len(rx) < MaxRx
  /\ wire' = wire \ {m}
  /\ rx' = IF udp THEN Append(rx, m) ELSE rx
  /\ UNCHANGED <<client, sipr, udp, unsettled, hosts, ran, stale>>

Lose(m) == unsettled /\ wire' = wire \ {m} /\ UNCHANGED <<client, chip, unsettled, hosts, ran, stale>>

Settle == unsettled /\ unsettled' = FALSE /\ UNCHANGED <<client, chip, wire, hosts, ran, stale>>

Network == \E m \in wire : (m \in Requests /\ Serve(m)) \/ (m \in Replies /\ Deliver(m)) \/ Lose(m)

DhcpNext == DHCP_run \/ Second \/ Network \/ Renumber \/ Settle

DhcpSpec == DhcpInit /\ [][DhcpNext]_dhcpVars

\* The thread and the timer run, and what is under way is answered or delivered.
DhcpFairSpec ==
  /\ DhcpSpec
  /\ WF_dhcpVars(DHCP_run) /\ WF_dhcpVars(Second)
  /\ \A q \in Requests : WF_dhcpVars(q \in wire /\ Serve(q))
  /\ \A m \in Replies : WF_dhcpVars(m \in wire /\ Deliver(m))
-----------------------------------------------------------------------------
\* When DHCP_run returns in state LEASED (dhcp.h: "ReceiveD ACK and IP leased"), and as long as no renewal is
\* overdue, some server holds a lease for this client and, unless a server renumbered it, for the address the
\* chip uses: renewals start in time and no address is assigned that was not granted, however late DHCP_run is
\* called and however late messages come. The code counts the lease from the moment it reads the ACK, so the
\* ACK must be read in the first half of the lease (~stale). On a network where nobody else uses the addresses.
\* LeasedAlways is without these conditions, and does not hold.
LeaseHeld ==
  /\ DhcpTypeOK
  /\ dhcp_state = "LEASED" /\ (ran \/ dhcp_tick_1s <= LeaseTime \div 2) /\ ~stale /\ taken = {} =>
    sipr # None /\ \E s \in Servers : lent[s] # None /\ (~renumbered => lent[s] = sipr)

\* The ACK that DHCP_run takes in REQUEST is for the address it assigns.
AckMatches == [][dhcp_state = "REQUEST" /\ dhcp_state' = "LEASED" => sipr' = Head(rx).ip]_dhcpVars

\* At every moment, and however late the ACK was read, a client in LEASED has a lease.
LeasedAlways == dhcp_state = "LEASED" /\ taken = {} => \E s \in Servers : lent[s] # None

\* A renewal (send_DHCP_REQUEST in LEASED and REREQUEST) goes to a server that lent the address, as long as one does.
RenewsWithLessor ==
  [][\A q \in wire' \ wire : q.type = "RENEW" /\ (\E s \in Servers : lent[s] = q.ip) => lent[q.to] = q.ip]_dhcpVars

\* When a renewal is acknowledged (DHCP_run in REREQUEST), the chip uses the address the server named.
ChangeFollowed == [][dhcp_state = "REREQUEST" /\ dhcp_state' = "LEASED" => sipr' = Head(rx).ip]_dhcpVars

\* Once the network and the servers have settled the client leases an address, and again after any lapse.
GetsAddress == ~unsettled ~> dhcp_state = "LEASED"
=============================================================================
