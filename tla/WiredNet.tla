------------------------------ MODULE WiredNet ------------------------------
(***************************************************************************)
(* The wired thread, Application/src/wired_net.c: on every pass with a     *)
(* cable one DHCP_run, a DNS_run (Middlewares/Eth/dns.c) until the name of *)
(* the server is resolved, and one ethernet_run (ibox_Ethernet.c), which   *)
(* keeps the TCP socket to the server.                                     *)
(*                                                                         *)
(* DHCP_run appears by its effect on the chip (module Dhcp has the rest);  *)
(* what ethernet_run receives goes to net_rx_write (module NetBuffers);    *)
(* eth_tx_len is set nowhere, so nothing is sent. DNS_run loops without a  *)
(* pause, at a priority over every other thread of the client but the      *)
(* watchdog's: seconds pass only when its loop has nothing to do.          *)
(***************************************************************************)
EXTENDS Naturals

CONSTANTS
  MAX_DNS_RETRY, DNS_WAIT_TIME,
  DnsReplies    \* how the name server may answer: "addr", "empty" (no address record), "error" (rcode # 0), "long" (a name over MAX_DOMAIN_NAME)

ASSUME DnsAssumption ==
  MAX_DNS_RETRY \in Nat /\ DNS_WAIT_TIME \in Nat \ {0} /\ DnsReplies \subseteq {"addr", "empty", "error", "long"} /\ "addr" \in DnsReplies

VARIABLES
  pc,                       \* the wired thread: "top", "dhcp", "dns", "wait", "eth"
  dns_parse_ok, is_wired_link_ok,
  dns_sip,                  \* eth_msg_get.dns_sip holds an address
  dns_1s_tick, retry_count, \* the time-out of dns.c; retry_count is static
  asked, reply,             \* a query is under way; the datagram in the DNS socket, "none" if none
  queries, elapsed,         \* of this DNS_run: queries sent, seconds gone by
  link, sipr_set, sock,     \* cable; the chip has an address; the state of CUS_COMM_SOCKET
  settled                   \* cable, DHCP, name server and server are well from now on

dnsTimer == <<dns_1s_tick, retry_count>>
dnsRun   == <<dnsTimer, asked, reply, queries, elapsed>>
result   == <<dns_parse_ok, dns_sip>>
wiredChip == <<link, sipr_set, sock>>
wiredVars == <<pc, result, is_wired_link_ok, dnsRun, wiredChip, settled>>

WiredTypeOK ==
  /\ pc \in {"top", "dhcp", "dns", "wait", "eth"}
  /\ dns_parse_ok \in BOOLEAN /\ is_wired_link_ok \in BOOLEAN /\ dns_sip \in BOOLEAN
  /\ dns_1s_tick \in 0 .. DNS_WAIT_TIME /\ retry_count \in 0 .. MAX_DNS_RETRY
  /\ asked \in BOOLEAN /\ reply \in DnsReplies \cup {"none"} /\ (asked => pc = "wait" /\ reply = "none")
  /\ queries \in 0 .. 1 + MAX_DNS_RETRY /\ elapsed \in Nat
  /\ link \in BOOLEAN /\ sipr_set \in BOOLEAN /\ sock \in {"CLOSED", "INIT", "ESTABLISHED", "CLOSE_WAIT"}
  /\ (sock # "CLOSED" => sipr_set)
  /\ settled \in BOOLEAN

WiredInit ==
  /\ pc = "top" /\ dns_parse_ok = FALSE /\ is_wired_link_ok = FALSE /\ dns_sip = FALSE
  /\ dns_1s_tick = 0 /\ retry_count = 0 /\ asked = FALSE /\ reply = "none" /\ queries = 0 /\ elapsed = 0
  /\ link \in BOOLEAN /\ sipr_set = FALSE /\ sock = "CLOSED" /\ settled = FALSE
-----------------------------------------------------------------------------
\* wizphy_getphylink; without a cable the thread sleeps 10 s and looks again.
Top ==
  /\ pc = "top"
  /\ pc' = IF link THEN "dhcp" ELSE "top"
  /\ UNCHANGED <<result, is_wired_link_ok, dnsRun, wiredChip, settled>>

\* DHCP_run: nothing changes on the chip, eth_ip_assign, or eth_ip_conflict, which resets it.
DhcpRun ==
  /\ pc = "dhcp"
  /\ \/ ~settled /\ UNCHANGED <<sipr_set, sock>>
     \/ sipr_set' = TRUE /\ UNCHANGED sock
     \/ ~settled /\ sipr_set' = FALSE /\ sock' = "CLOSED"
  /\ pc' = IF dns_parse_ok THEN "eth" ELSE "dns"
  /\ UNCHANGED <<result, is_wired_link_ok, dnsRun, link, settled>>

\* DNS_run opens its socket on a new port, which drops what was late, and sends the query.
\* dns_1s_tick and retry_count are what they are. A chip without an address gets no answer.
DnsQuery ==
  /\ pc = "dns"
  /\ asked' = sipr_set /\ reply' = "none"
  /\ queries' = 1 /\ elapsed' = 0
  /\ pc' = "wait"
  /\ UNCHANGED <<result, is_wired_link_ok, dnsTimer, wiredChip, settled>>

\* parse_name: a name that does not fit in MAXCNAME bytes ends the parsing.
TooLong(r) == r = "long"

\* dns_answer: an address record is stored when it is met.
HasAddress(r) == r = "addr"

\* What parseDNSMSG returns; 2 stands for -1.
parseDNSMSG(r) == CASE TooLong(r) -> 2 [] r = "error" -> 0 [] OTHER -> 1

DnsReply ==
  /\ pc = "wait" /\ reply # "none"
  /\ dns_sip' = (dns_sip \/ HasAddress(reply))
  /\ dns_parse_ok' = (parseDNSMSG(reply) = 1)
  /\ reply' = "none"
  /\ pc' = "eth"
  /\ UNCHANGED <<is_wired_link_ok, dnsTimer, asked, queries, elapsed, wiredChip, settled>>

\* Fault: one more retry before the time-out.
DnsOverLate == retry_count > MAX_DNS_RETRY

DnsOver == retry_count >= MAX_DNS_RETRY

\* check_DNS_timeout returns -1: DNS_run returns 0 and leaves its socket open.
DnsTimeout ==
  /\ pc = "wait" /\ reply = "none" /\ dns_1s_tick >= DNS_WAIT_TIME /\ DnsOver
  /\ dns_1s_tick' = 0 /\ retry_count' = 0
  /\ asked' = FALSE
  /\ pc' = "eth"
  /\ UNCHANGED <<result, is_wired_link_ok, reply, queries, elapsed, wiredChip, settled>>

\* check_DNS_timeout returns 0: sendto with len, which the test of the socket has set to 0, sends nothing.
DnsRetry ==
  /\ pc = "wait" /\ reply = "none" /\ dns_1s_tick >= DNS_WAIT_TIME /\ ~DnsOver
  /\ dns_1s_tick' = 0 /\ retry_count' = retry_count + 1
  /\ UNCHANGED <<pc, result, is_wired_link_ok, asked, reply, queries, elapsed, wiredChip, settled>>

\* DNS_time_handler; more than DNS_WAIT_TIME makes no difference.
DNS_time_handler ==
  /\ pc = "wait" => reply = "none" /\ dns_1s_tick < DNS_WAIT_TIME
  /\ settled => ~asked
  /\ dns_1s_tick' = IF dns_1s_tick < DNS_WAIT_TIME THEN dns_1s_tick + 1 ELSE DNS_WAIT_TIME
  /\ elapsed' = IF pc = "wait" THEN elapsed + 1 ELSE elapsed
  /\ UNCHANGED <<pc, result, is_wired_link_ok, retry_count, asked, reply, queries, wiredChip, settled>>
-----------------------------------------------------------------------------
(* ethernet_run by the state the socket was in; is_wired_link_ok follows that state. *)

EthPass(s) ==
  /\ pc = "eth" /\ sock = s
  /\ is_wired_link_ok' = (s = "ESTABLISHED")
  /\ pc' = "top"
  /\ UNCHANGED <<result, dnsRun, link, sipr_set, settled>>

\* socket() refuses TCP while the chip has no address.
EthOpen == EthPass("CLOSED") /\ sock' = IF sipr_set THEN "INIT" ELSE "CLOSED"

\* connect() refuses the address 0; otherwise it returns when the socket is established or has given up.
EthConnect ==
  /\ EthPass("INIT")
  /\ IF dns_sip THEN sock' \in (IF settled THEN {"ESTABLISHED"} ELSE {"ESTABLISHED", "CLOSED"}) ELSE sock' = "INIT"

EthEstablished == EthPass("ESTABLISHED") /\ UNCHANGED sock

\* Fault: a connection the server has closed is not closed on this side.
EthCloseNot == EthPass("CLOSE_WAIT") /\ UNCHANGED sock

EthClose == EthPass("CLOSE_WAIT") /\ sock' = "CLOSED"

ethernet_run == EthOpen \/ EthConnect \/ EthEstablished \/ EthClose
-----------------------------------------------------------------------------
(* The cable, the name server and the server. *)

DnsAnswer ==
  /\ asked
  /\ \E r \in (IF settled THEN {"addr"} ELSE DnsReplies) : reply' = r
  /\ asked' = FALSE
  /\ UNCHANGED <<pc, result, is_wired_link_ok, dnsTimer, queries, elapsed, wiredChip, settled>>

LoseQuery ==
  /\ asked /\ ~settled
  /\ asked' = FALSE
  /\ UNCHANGED <<pc, result, is_wired_link_ok, dnsTimer, reply, queries, elapsed, wiredChip, settled>>

Cable ==
  /\ ~settled
  /\ link' = ~link
  /\ UNCHANGED <<pc, result, is_wired_link_ok, dnsRun, sipr_set, sock, settled>>

\* The server closes the connection, or the chip's keep-alive gives it up.
Dropped ==
  /\ ~settled /\ sock \in {"ESTABLISHED", "CLOSE_WAIT"}
  /\ sock' \in {"CLOSE_WAIT", "CLOSED"}
  /\ UNCHANGED <<pc, result, is_wired_link_ok, dnsRun, link, sipr_set, settled>>

WiredSettle ==
  /\ ~settled /\ link
  /\ settled' = TRUE
  /\ UNCHANGED <<pc, result, is_wired_link_ok, dnsRun, wiredChip>>

Wired == Top \/ DhcpRun \/ DnsQuery \/ DnsReply \/ DnsTimeout \/ DnsRetry \/ ethernet_run
Environment == DNS_time_handler \/ DnsAnswer \/ LoseQuery \/ Cable \/ Dropped \/ WiredSettle

WiredNext == Wired \/ Environment
WiredSpec == WiredInit /\ [][WiredNext]_wiredVars

\* The thread and the timer run; a query that is not lost is answered.
WiredFairSpec == WiredSpec /\ WF_wiredVars(Wired) /\ WF_wiredVars(DNS_time_handler) /\ WF_wiredVars(DnsAnswer)
-----------------------------------------------------------------------------
\* DNS_run, during which no other thread of the client runs, ends after MAX_DNS_RETRY + 1 waits, whatever
\* dns_1s_tick and the static retry_count were left at.
BlockedAtMost == WiredTypeOK /\ elapsed <= (MAX_DNS_RETRY + 1) * DNS_WAIT_TIME

\* The bound dns.h gives for DNS_run: "max time = MAX_DNS_RETRY * DNS_WAIT_TIME".
BlockedAsDocumented == elapsed <= MAX_DNS_RETRY * DNS_WAIT_TIME

\* A DNS_run that ends in a time-out has asked again MAX_DNS_RETRY times ("Requery Count" in dns.h).
Requeries == [][pc = "wait" /\ pc' = "eth" /\ reply = "none" => queries = 1 + MAX_DNS_RETRY]_wiredVars

\* When DNS_run has returned 1 (dns_parse_ok), dns_sip holds the address ethernet_run is to connect to.
ResolvedMeansAddress == dns_parse_ok => dns_sip

\* Once cable, DHCP, name server and server are well, the thread reports the connection for good, unless a
\* reply without an address was taken for one before.
Connects == []ResolvedMeansAddress => (settled ~> [](is_wired_link_ok))
=============================================================================
