------------------------------ MODULE Esp8266 ------------------------------
(***************************************************************************)
(* The ESP8266 driver, Drivers/BSP/src/ibox_wifi.c: esp8266_at_fsm, called *)
(* by the wireless thread every 50 ms with at most one line of the modem,  *)
(* and the transmit slot it shares with the network middleware.            *)
(*                                                                         *)
(* A call is one step.  The modem (external) may say anything at any time, *)
(* except that SEND OK answers data it was sent and CONNECT a dial.  Time  *)
(* is one bit, late: the deadline of the present state, counted from the   *)
(* last assignment of wifi_timeout, has passed; it may pass at any moment, *)
(* also because RTC_SetCounter moved the clock.  wifi_error_count is left  *)
(* out: it is written and never read.                                      *)
(***************************************************************************)
EXTENDS Naturals

CONSTANTS
  use_dns,       \* ibox_config.use_dns
  ErrorCountSize \* values of wifi_tcp_error_count, a uint8_t: 256 in the code, smaller in the runs

ASSUME ConfigAssumption == use_dns \in {0, 1} /\ ErrorCountSize \in Nat /\ ErrorCountSize > 3

VARIABLES
  esp8266_status, wifi_status_error_count, wifi_tcp_error_count,
  wifi_send_flag, wifi_tx_len,
  late,          \* get_sys_time_s() - wifi_timeout is over the limit of the state
  is_wireless_link_ok,
  net_tx_sem,    \* network.c: 1 when main may write the next message
  tcp,           \* modem: it has a connection to the server
  owes,          \* modem: SEND OKs still to come
  dialled        \* "dns" or "ip": the address of the last AT+CIPSTART, "none" before it

vars == <<esp8266_status, wifi_status_error_count, wifi_tcp_error_count, wifi_send_flag,
          wifi_tx_len, late, is_wireless_link_ok, net_tx_sem, tcp, owes, dialled>>
fsm  == <<esp8266_status, wifi_status_error_count, late>>
slot == <<wifi_send_flag, wifi_tx_len, net_tx_sem, owes>>
conn == <<wifi_tcp_error_count, dialled>>

\* Lines of the modem that the driver can tell apart; "none" is a call without a line.
Lines == {"none", "OK", "ERROR", "+CWMODE:1", "+CWMODE:2", "WIFI CONNECTED", "WIFI GOT IP", "WIFI DISCONNECT",
          "STAIP", "STAIP 0.0.0.0", "STAMAC", "CONNECT", "CLOSED", "SEND OK", "+IPD"}

\* strstr: a pattern is also found inside a longer line.
Has(l, pattern) ==
  \/ l = pattern
  \/ pattern = "OK" /\ l = "SEND OK"
  \/ pattern = "CONNECT" /\ l \in {"WIFI CONNECTED", "WIFI DISCONNECT"}
  \/ pattern = "STAIP" /\ l = "STAIP 0.0.0.0"
  \/ pattern = "+CWMODE:" /\ l \in {"+CWMODE:1", "+CWMODE:2"}

(* What the modem can say now, and what that means for its connection.  It *)
(* says CLOSED before WIFI DISCONNECT.  A SEND OK read in another state    *)
(* than COMMUNICATE is a line with OK, together with ReplyLost.            *)
ModemSays(l) ==
  /\ l = "SEND OK" => owes > 0 /\ esp8266_status = "COMMUNICATE"
  /\ l = "CONNECT" => esp8266_status = "WAIT_LINK_SERVER"
  /\ l \in {"CLOSED", "+IPD"} => tcp
  /\ l \in {"WIFI CONNECTED", "WIFI GOT IP", "WIFI DISCONNECT"} => ~tcp
  /\ tcp' = IF l = "CLOSED" \/ esp8266_status \in {"RESET", "WIFI_CONNECT", "RESTART_CONNECT_SEVER"}
            THEN FALSE ELSE tcp \/ l = "CONNECT"
-----------------------------------------------------------------------------
Init ==
  /\ esp8266_status = "CHECK" /\ wifi_status_error_count = 0 /\ wifi_tcp_error_count = 0
  /\ wifi_send_flag = 1 /\ wifi_tx_len = 0
  /\ late \in BOOLEAN /\ is_wireless_link_ok = 0
  /\ net_tx_sem = 1
  /\ tcp = FALSE /\ owes = 0 /\ dialled = "none"

\* wifi_status_error_count = 0; wifi_timeout = now; the next state
Enter(s) ==
  /\ esp8266_status' = s
  /\ wifi_status_error_count' = 0
  /\ late' = FALSE

(* States that send a command and go on, whatever the line. *)
CommandNext ==
  [CHECK |-> "CHECK_MODE", SET_MODE |-> "WAIT_SET_MODE", RESET |-> "WAIT_RESET",
   WIFI_CONNECT |-> "WAIT_CONNECTED", LINK_OK |-> "GET_IP"]

Command ==
  /\ esp8266_status \in DOMAIN CommandNext
  /\ Enter(CommandNext[esp8266_status])
  /\ UNCHANGED <<slot, conn>>

\* TCP is closed before it is opened again; the thread waits a second.
RestartConnect ==
  /\ esp8266_status = "RESTART_CONNECT_SEVER"
  /\ esp8266_status' = "CONNECT_SERVER"
  /\ UNCHANGED <<wifi_status_error_count, late, slot, conn>>

\* Fault: the address does not depend on the failed attempts.
wifi_server_connect_dns == IF use_dns = 0 THEN "ip" ELSE "dns"

wifi_server_connect == IF use_dns = 0 \/ wifi_tcp_error_count >= 3 THEN "ip" ELSE "dns"

ConnectServer ==
  /\ esp8266_status = "CONNECT_SERVER"
  /\ Enter("WAIT_LINK_SERVER")
  /\ dialled' = wifi_server_connect
  /\ UNCHANGED <<slot, wifi_tcp_error_count>>
-----------------------------------------------------------------------------
(* States that wait for a line. *)

Expects ==
  [CHECK_MODE |-> "OK", WAIT_CHECK_MODE |-> "+CWMODE:", WAIT_SET_MODE |-> "OK", WAIT_RESET |-> "OK",
   WAIT_CLOSE_ECHO |-> "OK", WAIT_CONNECTED |-> "WIFI CONNECTED", WAIT_GOT_IP |-> "WIFI GOT IP",
   GET_IP |-> "STAIP", GET_MAC |-> "STAMAC"]

\* Fault: the transition of GET_MAC is commented out, as the one of WAIT_SET_MODE is.
AnsweredNotMac(s, l) ==
  CASE s = "CHECK_MODE"      -> "WAIT_CHECK_MODE"
    [] s = "WAIT_CHECK_MODE" -> IF l = "+CWMODE:1" THEN "LINK_OK" ELSE "SET_MODE"
    [] s = "WAIT_RESET"      -> "WAIT_CLOSE_ECHO"
    [] s = "WAIT_CLOSE_ECHO" -> "WIFI_CONNECT"
    [] s = "WAIT_CONNECTED"  -> "WAIT_GOT_IP"
    [] s = "WAIT_GOT_IP"     -> "LINK_OK"
    [] s = "GET_IP"          -> IF l = "STAIP 0.0.0.0" THEN "WIFI_CONNECT" ELSE "GET_MAC"
    [] s = "GET_MAC"         -> "GET_MAC"

\* The state the expected line leads to.
Answered(s, l) ==
  CASE s = "CHECK_MODE"      -> "WAIT_CHECK_MODE"
    [] s = "WAIT_CHECK_MODE" -> IF l = "+CWMODE:1" THEN "LINK_OK" ELSE "SET_MODE"
    [] s = "WAIT_RESET"      -> "WAIT_CLOSE_ECHO"
    [] s = "WAIT_CLOSE_ECHO" -> "WIFI_CONNECT"
    [] s = "WAIT_CONNECTED"  -> "WAIT_GOT_IP"
    [] s = "WAIT_GOT_IP"     -> "LINK_OK"
    [] s = "GET_IP"          -> IF l = "STAIP 0.0.0.0" THEN "WIFI_CONNECT" ELSE "GET_MAC"
    [] s = "GET_MAC"         -> "CONNECT_SERVER"

\* After a deadline the state repeats its command itself, or goes back to the one that sends it.
RetryFrom(s) ==
  CASE s = "WAIT_RESET" -> "RESET"
    [] s \in {"WAIT_CONNECTED", "WAIT_GOT_IP"} -> "WIFI_CONNECT"
    [] s = "GET_IP" -> "LINK_OK"
    [] OTHER -> s

\* Past five retries the counter starts again and the command is not repeated.
TooMany(n) == IF n > 5 THEN 0 ELSE n

Answer(l) ==
  IF esp8266_status = "WAIT_SET_MODE"
  THEN UNCHANGED fsm                       \* the transition of line 154 is commented out
  ELSE Enter(Answered(esp8266_status, l))

Retry ==
  /\ late' = FALSE
  /\ wifi_status_error_count' = TooMany(wifi_status_error_count + 1)
  /\ esp8266_status' = IF wifi_status_error_count + 1 > 5 THEN esp8266_status ELSE RetryFrom(esp8266_status)

\* GET_MAC gives up at its first deadline and resets the module.
MacTimeout ==
  /\ esp8266_status' = "RESET" /\ wifi_status_error_count' = 0
  /\ UNCHANGED late

Wait(l) ==
  /\ esp8266_status \in DOMAIN Expects
  /\ \/ Has(l, Expects[esp8266_status]) /\ Answer(l)
     \/ /\ ~Has(l, Expects[esp8266_status])
        /\ \/ late /\ esp8266_status # "GET_MAC" /\ Retry
           \/ late /\ esp8266_status = "GET_MAC" /\ MacTimeout
           \/ ~late /\ UNCHANGED fsm
  /\ UNCHANGED <<slot, conn>>

(* ESP8266_STATUS_WAIT_LINK_SERVER: a refusal is counted apart from a missing answer. *)
DialRefused(l) ==
  /\ Has(l, "ERROR")
  /\ wifi_tcp_error_count' = (wifi_tcp_error_count + 1) % ErrorCountSize
  /\ esp8266_status' = "CONNECT_SERVER"
  /\ UNCHANGED <<wifi_status_error_count, late>>

DialAnswered(l) ==
  /\ ~Has(l, "ERROR") /\ Has(l, "CONNECT")
  /\ wifi_tcp_error_count' = 0
  /\ Enter("COMMUNICATE")

\* Past five retries this state counts on, modulo 256, and stays where it is.
DialUnanswered(l) ==
  /\ ~Has(l, "ERROR") /\ ~Has(l, "CONNECT")
  /\ \/ /\ late /\ late' = FALSE
        /\ wifi_status_error_count' = (wifi_status_error_count + 1) % 256
        /\ esp8266_status' = IF wifi_status_error_count' > 5 THEN esp8266_status ELSE "CONNECT_SERVER"
     \/ ~late /\ UNCHANGED fsm
  /\ UNCHANGED wifi_tcp_error_count

WaitLinkServer(l) ==
  /\ esp8266_status = "WAIT_LINK_SERVER"
  /\ DialRefused(l) \/ DialAnswered(l) \/ DialUnanswered(l)
  /\ UNCHANGED <<slot, dialled>>
-----------------------------------------------------------------------------
(* ESP8266_STATUS_COMMUNICATE: a line ends the call. *)

Closed(l) ==
  /\ Has(l, "CLOSED")
  /\ esp8266_status' = "RESTART_CONNECT_SEVER"
  /\ UNCHANGED <<wifi_status_error_count, late, slot>>

ModemError(l) ==
  /\ Has(l, "ERROR")
  /\ esp8266_status' = "WIFI_CONNECT"
  /\ UNCHANGED <<wifi_status_error_count, late, slot>>

SendOk(l) ==
  /\ Has(l, "SEND OK")
  /\ wifi_tx_len' = 0 /\ wifi_send_flag' = 1
  /\ net_tx_sem' = net_tx_sem + 1
  /\ owes' = owes - 1
  /\ UNCHANGED fsm

\* +IPD goes to net_rx_write (NetBuffers); any other line is dropped.
OtherLine(l) ==
  /\ l # "none" /\ ~Has(l, "CLOSED") /\ ~Has(l, "ERROR") /\ ~Has(l, "SEND OK")
  /\ UNCHANGED <<fsm, slot>>

\* esp8266_send_data; the deadline was just renewed.
Send(l) ==
  /\ l = "none" /\ wifi_tx_len # 0 /\ wifi_send_flag = 1
  /\ wifi_send_flag' = 0 /\ late' = FALSE
  /\ owes' = owes + 1
  /\ UNCHANGED <<esp8266_status, wifi_status_error_count, wifi_tx_len, net_tx_sem>>

\* Fault: the flag is set again, as in the line commented out (464): the message is repeated.
SendTimeoutRearms(l) ==
  /\ l = "none" /\ ~(wifi_tx_len # 0 /\ wifi_send_flag = 1)
  /\ late /\ wifi_send_flag = 0
  /\ esp8266_status' = "RESTART_CONNECT_SEVER"
  /\ wifi_send_flag' = 1
  /\ UNCHANGED <<wifi_status_error_count, late, wifi_tx_len, net_tx_sem, owes>>

SendTimeout(l) ==
  /\ l = "none" /\ ~(wifi_tx_len # 0 /\ wifi_send_flag = 1)
  /\ late /\ wifi_send_flag = 0
  /\ esp8266_status' = "RESTART_CONNECT_SEVER"
  /\ UNCHANGED <<wifi_status_error_count, late, slot>>

Idle(l) ==
  /\ l = "none" /\ ~(wifi_tx_len # 0 /\ wifi_send_flag = 1)
  /\ ~(late /\ wifi_send_flag = 0)
  /\ UNCHANGED <<fsm, slot>>

Communicate(l) ==
  /\ esp8266_status = "COMMUNICATE"
  /\ \/ Closed(l) \/ ModemError(l) \/ SendOk(l) \/ OtherLine(l)
     \/ Send(l) \/ SendTimeout(l) \/ Idle(l)
  /\ UNCHANGED conn
-----------------------------------------------------------------------------
esp8266_at_fsm(l) ==
  \/ Command \/ RestartConnect \/ ConnectServer
  \/ Wait(l) \/ WaitLinkServer(l) \/ Communicate(l)

\* One round of wireless_thread_entry.
Round(l) ==
  /\ ModemSays(l)
  /\ esp8266_at_fsm(l)
  /\ is_wireless_link_ok' = IF esp8266_status' = "COMMUNICATE" THEN 1 ELSE 0

\* The network thread copies a message of main into the transmit slot (NetBuffers).
NetTx ==
  /\ net_tx_sem > 0
  /\ net_tx_sem' = net_tx_sem - 1
  /\ wifi_tx_len' = 1
  /\ UNCHANGED <<fsm, conn, wifi_send_flag, is_wireless_link_ok, tcp, owes>>

Deadline ==
  /\ ~late /\ late' = TRUE
  /\ UNCHANGED <<esp8266_status, wifi_status_error_count, slot, conn, is_wireless_link_ok, tcp>>

\* The SEND OK never comes, or comes while another state reads the line.
ReplyLost ==
  /\ owes > 0 /\ owes' = 0
  /\ UNCHANGED <<fsm, conn, wifi_send_flag, wifi_tx_len, net_tx_sem, is_wireless_link_ok, tcp>>

Next == (\E l \in Lines : Round(l)) \/ NetTx \/ Deadline \/ ReplyLost

Spec == Init /\ [][Next]_vars

\* The wireless thread calls the driver every 50 ms, and time passes.
DriverSpec == Spec /\ WF_vars(\E l \in Lines : Round(l)) /\ WF_vars(Deadline)

(* The modem works: what is asked of it for ever it answers in the end,    *)
(* and it confirms what it was sent unless the reply is lost.              *)
Answers == {"OK", "+CWMODE:1", "WIFI CONNECTED", "WIFI GOT IP", "STAIP", "STAMAC"}

ModemWorks ==
  /\ \A s \in DOMAIN Expects : SF_vars(esp8266_status = s /\ \E l \in Answers : Has(l, Expects[s]) /\ Round(l))
  /\ SF_vars(Round("CONNECT")) /\ SF_vars(Round("SEND OK"))

FairSpec == DriverSpec /\ ModemWorks
-----------------------------------------------------------------------------
(* Properties *)

\* Every variable stays in its range.  In particular the retry counter never
\* passes 5: the branch of WAIT_LINK_SERVER that counts on without dialling
\* again (line 398) is not reached, because CONNECT_SERVER starts the count
\* afresh before every dial.
TypeOK ==
  /\ esp8266_status \in DOMAIN CommandNext \cup DOMAIN Expects
       \cup {"RESTART_CONNECT_SEVER", "CONNECT_SERVER", "WAIT_LINK_SERVER", "COMMUNICATE"}
  /\ wifi_status_error_count \in 0..5 /\ wifi_tcp_error_count \in 0..(ErrorCountSize - 1)
  /\ wifi_send_flag \in 0..1 /\ wifi_tx_len \in 0..1
  /\ late \in BOOLEAN /\ is_wireless_link_ok \in 0..1
  /\ net_tx_sem \in Nat /\ tcp \in BOOLEAN /\ owes \in Nat /\ dialled \in {"none", "dns", "ip"}

\* The transmit slot is given back once per message: main has the token
\* exactly when no message is in the slot, and the modem owes a SEND OK, at
\* most one, only for the message the driver is waiting to see confirmed.
\* Reconnects, lost replies and replies that come late do not change that.
SlotConserved ==
  /\ TypeOK
  /\ net_tx_sem + wifi_tx_len = 1
  /\ owes <= 1
  /\ owes = 1 => wifi_tx_len = 1 /\ wifi_send_flag = 0

\* A server name that is refused for ever is given up for the address: when
\* dials are refused again and again, the address is dialled or the server is
\* reached again and again, also after the error counter wraps.
NameGivenUp ==
  []<><<esp8266_status' = "CONNECT_SERVER" /\ wifi_tcp_error_count' # wifi_tcp_error_count>>_vars
    => []<>(dialled = "ip" \/ esp8266_status = "COMMUNICATE")

\* With a modem that works, every state but WAIT_SET_MODE leads on: the driver
\* is online again and again, or it set the mode and waits there for ever.
GetsOnline ==
  ModemWorks => <>[](esp8266_status = "WAIT_SET_MODE") \/ []<>(esp8266_status = "COMMUNICATE")

\* COMMUNICATE, and the link flag with it, means the modem has a connection.
OnlineMeansConnected == is_wireless_link_ok = 1 => tcp

\* After a send that was not confirmed the driver starts over, and some day
\* may send again.
SendRecovers == wifi_send_flag = 0 ~> wifi_send_flag = 1
=============================================================================
