-------------------------------- MODULE Gprs --------------------------------
(***************************************************************************)
(* The SIM800L driver, Drivers/BSP/src/ibox_gprs.c: gprs_at_fsm, called by *)
(* the wireless thread every 50 ms with at most one line of the modem, in  *)
(* a build without USE_WIFI.                                               *)
(*                                                                         *)
(* A call is one step, and late stands for the clock, as in Esp8266.       *)
(* Nothing ever writes a length to gprs_tx_counter, so the branches that   *)
(* send data and wait for SEND OK (435-477) are not reached and, with      *)
(* their two flags, are left out; gprs_link_error_count and                *)
(* gprs_error_count are written and never read.                            *)
(***************************************************************************)
EXTENDS Naturals

CONSTANTS
  use_dns,     \* ibox_config.use_dns
  FetchModes   \* the modes a firmware may answer AT+CIPRXGET=2 with: "2", as the SIM800L does, or "3", hex

ASSUME ConfigAssumption == use_dns \in {0, 1} /\ FetchModes \subseteq {"2", "3"} /\ FetchModes # {}

VARIABLES
  gprs_status, gprs_status_error_count,
  gprs_tcp_error_count,  \* a uint32_t of which the code asks only whether it is 3 or more
  late,                  \* get_sys_time_s() - gprs_timeout is over the limit of the state
  booted, gprs_imei,     \* gprs_get_imei has returned; it found the number
  dialled,               \* "dns" or "ip": the address of the last AT+CIPSTART, "none" before it
  given                  \* the last frame announced was handed to net_rx_write

vars == <<gprs_status, gprs_status_error_count, gprs_tcp_error_count, late, booted, gprs_imei, dialled, given>>
fsm  == <<gprs_status, gprs_status_error_count, late>>
conn == <<gprs_tcp_error_count, dialled, given>>

\* Lines of the modem that the driver can tell apart; "none" is a call without a line.
Lines == {"none", "OK", "IMEI", "READY", "+CSQ: 20", "+CSQ: 5", "+CREG: 0,1", "+CREG: 0,0", "+CGATT: 1", "10.0.0.1",
          "ERROR", "CONNECT OK", "ALREADY CONNECT", "CONNECT FAIL", "CLOSED", "+PDP DEACT",
          "+CIPRXGET: 1", "+CIPRXGET: 2", "+CIPRXGET: 3", "+CIPRXGET: 3,0", "hex frame", "other frame"}

\* strstr: a pattern is also found inside a longer line.
Has(l, pattern) == l = pattern \/ (pattern = "OK" /\ l = "CONNECT OK")

\* What the modem can say: a fetch is answered in one of the modes of its firmware.
ModemSays(l) ==
  /\ l \in {"+CIPRXGET: 3", "+CIPRXGET: 3,0"} => "3" \in FetchModes
  /\ l = "+CIPRXGET: 2" => "2" \in FetchModes
-----------------------------------------------------------------------------
Init ==
  /\ gprs_status = "INIT" /\ gprs_status_error_count = 0 /\ gprs_tcp_error_count = 0
  /\ late \in BOOLEAN
  /\ booted = FALSE /\ gprs_imei = FALSE
  /\ dialled = "none" /\ given = TRUE

\* Before its loop the thread reads lines until one is as long as an IMEI, or none is left.
gprs_get_imei(l) ==
  /\ ~booted
  /\ gprs_imei' = (l = "IMEI")
  /\ booted' = (l \in {"IMEI", "none"})
  /\ UNCHANGED <<fsm, conn>>

Enter(s) ==
  /\ gprs_status' = s
  /\ gprs_status_error_count' = 0
  /\ late' = FALSE

\* GPRS_STATUS_CHECK sends AT and goes on.
Check ==
  /\ gprs_status = "CHECK"
  /\ Enter("INIT")
  /\ UNCHANGED conn
-----------------------------------------------------------------------------
(* The states that bring the network up: the line each waits for, the lines *)
(* it takes for a failure, and the state each leads to.                     *)

Expects ==
  [INIT |-> "OK", SET_MISC |-> "READY", CHECK_CSQ |-> "+CSQ: 20", CHECK_REG |-> "+CREG: 0,1",
   CHECK_CGATT |-> "+CGATT: 1", SET_APN |-> "OK", SET_CIICR |-> "OK", GET_IP |-> "10.0.0.1"]

\* Fault: a good signal does not leave CHECK_CSQ.
FollowingNotCsq ==
  [INIT |-> "SET_MISC", SET_MISC |-> "CHECK_CSQ", CHECK_CSQ |-> "CHECK_CSQ", CHECK_REG |-> "CHECK_CGATT",
   CHECK_CGATT |-> "SET_APN", SET_APN |-> "SET_CIICR", SET_CIICR |-> "GET_IP", GET_IP |-> "START_TCP"]

Following ==
  [INIT |-> "SET_MISC", SET_MISC |-> "CHECK_CSQ", CHECK_CSQ |-> "CHECK_REG", CHECK_REG |-> "CHECK_CGATT",
   CHECK_CGATT |-> "SET_APN", SET_APN |-> "SET_CIICR", SET_CIICR |-> "GET_IP", GET_IP |-> "START_TCP"]

Failed == [SET_APN |-> "CHECK", SET_CIICR |-> "CHECK", GET_IP |-> "INIT"]

\* A signal too weak or a network not registered: the line is read and nothing is done.
NoNews == [CHECK_CSQ |-> "+CSQ: 5", CHECK_REG |-> "+CREG: 0,0"]

\* GET_IP leaves the retry counter and the deadline as they are.
Answer ==
  IF gprs_status = "GET_IP"
  THEN gprs_status' = "START_TCP" /\ UNCHANGED <<gprs_status_error_count, late>>
  ELSE Enter(Following[gprs_status])

\* SET_APN also resets the retry counter, GET_IP not even the deadline.
Fail ==
  /\ gprs_status' = Failed[gprs_status]
  /\ gprs_status_error_count' = IF gprs_status = "SET_APN" THEN 0 ELSE gprs_status_error_count
  /\ late' = IF gprs_status = "GET_IP" THEN late ELSE FALSE

\* Fault: the counter is not reset when it passes the limit.
TooManyKept(n) == n

\* Past five retries the counter starts again and the command is not repeated once.
TooMany(n) == IF n > 5 THEN 0 ELSE n

Retry ==
  /\ late /\ late' = FALSE
  /\ gprs_status_error_count' = TooMany(gprs_status_error_count + 1)
  /\ UNCHANGED gprs_status

BringUp(l) ==
  /\ gprs_status \in DOMAIN Expects
  /\ \/ Has(l, Expects[gprs_status]) /\ Answer
     \/ gprs_status \in DOMAIN Failed /\ l = "ERROR" /\ Fail
     \/ gprs_status \in DOMAIN NoNews /\ l = NoNews[gprs_status] /\ UNCHANGED fsm
     \/ /\ ~Has(l, Expects[gprs_status])
        /\ gprs_status \in DOMAIN Failed => l # "ERROR"
        /\ gprs_status \in DOMAIN NoNews => l # NoNews[gprs_status]
        /\ Retry \/ (~late /\ UNCHANGED fsm)
  /\ UNCHANGED conn
-----------------------------------------------------------------------------
(* The connection to the server. *)

\* Fault: the address does not depend on the failed attempts.
gprs_server_connect_dns == IF use_dns = 0 THEN "ip" ELSE "dns"

gprs_server_connect == IF use_dns = 0 \/ gprs_tcp_error_count >= 3 THEN "ip" ELSE "dns"

StartTcp ==
  /\ gprs_status = "START_TCP"
  /\ dialled' = gprs_server_connect
  /\ gprs_status' = "TCP_CONNECT" /\ late' = FALSE
  /\ UNCHANGED <<gprs_status_error_count, gprs_tcp_error_count, given>>

CountTcpError == gprs_tcp_error_count' = IF gprs_tcp_error_count < 3 THEN gprs_tcp_error_count + 1 ELSE 3

RestartTcp ==
  /\ gprs_status = "RESTART_TCP"
  /\ CountTcpError
  /\ gprs_status' = "START_TCP"
  /\ UNCHANGED <<gprs_status_error_count, late, dialled, given>>

\* A dial that is refused, or not answered for 1000 s, starts from INIT.
TcpConnect(l) ==
  /\ gprs_status = "TCP_CONNECT"
  /\ \/ l = "CONNECT OK" /\ gprs_status' = "COMMUNICATE" /\ late' = FALSE /\ UNCHANGED gprs_tcp_error_count
     \/ l \in {"ALREADY CONNECT", "CONNECT FAIL"} /\ gprs_status' = "INIT" /\ late' = FALSE /\ CountTcpError
     \/ /\ l \notin {"CONNECT OK", "ALREADY CONNECT", "CONNECT FAIL"}
        /\ \/ late /\ gprs_status' = "INIT" /\ CountTcpError /\ UNCHANGED late
           \/ ~late /\ UNCHANGED <<gprs_status, late, gprs_tcp_error_count>>
  /\ UNCHANGED <<gprs_status_error_count, dialled, given>>

\* +CIPRXGET: 1 announces data: it is asked for, and the error counter is cleared.
Announced ==
  /\ gprs_status' = "RX_PROC" /\ late' = FALSE
  /\ given' = FALSE
  /\ gprs_tcp_error_count' = 0

Communicate(l) ==
  /\ gprs_status = "COMMUNICATE"
  /\ \/ l \in {"CLOSED", "ERROR"} /\ gprs_status' = "RESTART_TCP" /\ UNCHANGED <<late, gprs_tcp_error_count, given>>
     \/ l = "+PDP DEACT" /\ gprs_status' = "INIT" /\ late' = FALSE /\ UNCHANGED <<gprs_tcp_error_count, given>>
     \/ l = "+CIPRXGET: 1" /\ Announced
     \/ /\ l \notin {"CLOSED", "ERROR", "+PDP DEACT", "+CIPRXGET: 1"}
        /\ UNCHANGED <<gprs_status, late, gprs_tcp_error_count, given>>
  /\ UNCHANGED <<gprs_status_error_count, dialled>>

\* The length of the frame; any other line, CLOSED too, is dropped.
RxProc(l) ==
  /\ gprs_status = "RX_PROC"
  /\ \/ l = "+CIPRXGET: 3" /\ gprs_status' = "FRAME_PROC" /\ late' = FALSE
     \/ l = "+CIPRXGET: 3,0" /\ gprs_status' = "RESTART_TCP" /\ late' = FALSE
     \/ /\ l \notin {"+CIPRXGET: 3", "+CIPRXGET: 3,0"}
        /\ gprs_status' = IF late THEN "RESTART_TCP" ELSE gprs_status
        /\ UNCHANGED late
  /\ UNCHANGED <<gprs_status_error_count, conn>>

\* The next line is the frame: it is taken if it has two digits for every byte announced.
FrameProc(l) ==
  /\ gprs_status = "FRAME_PROC"
  /\ gprs_status' = IF l # "none" \/ late THEN "COMMUNICATE" ELSE gprs_status
  /\ given' = (given \/ l = "hex frame")
  /\ UNCHANGED <<gprs_status_error_count, late, gprs_tcp_error_count, dialled>>
-----------------------------------------------------------------------------
gprs_at_fsm(l) ==
  \/ Check \/ StartTcp \/ RestartTcp
  \/ BringUp(l) \/ TcpConnect(l) \/ Communicate(l) \/ RxProc(l) \/ FrameProc(l)

\* One round of wireless_thread_entry.
Round(l) ==
  /\ booted /\ ModemSays(l)
  /\ gprs_at_fsm(l)
  /\ UNCHANGED <<booted, gprs_imei>>

Deadline ==
  /\ ~late /\ late' = TRUE
  /\ UNCHANGED <<gprs_status, gprs_status_error_count, booted, gprs_imei, conn>>

Next == (\E l \in Lines : gprs_get_imei(l) \/ Round(l)) \/ Deadline

Spec == Init /\ [][Next]_vars

(* The wireless thread runs every 50 ms, time passes, and the lines left    *)
(* at power-up come to an end.  The modem works: what is asked of it for    *)
(* ever it answers in the end, a frame after its length.                    *)
Fairness ==
  /\ WF_vars(\E l \in Lines : Round(l)) /\ WF_vars(gprs_get_imei("none"))
  /\ WF_vars(Deadline)
  /\ \A s \in DOMAIN Expects : SF_vars(gprs_status = s /\ Round(Expects[s]))
  /\ SF_vars(Round("CONNECT OK") /\ gprs_status = "TCP_CONNECT")
  /\ SF_vars((Round("+CIPRXGET: 2") \/ Round("+CIPRXGET: 3")) /\ gprs_status = "RX_PROC")
  /\ SF_vars(Round("hex frame") /\ gprs_status = "FRAME_PROC")

FairSpec == Spec /\ Fairness
-----------------------------------------------------------------------------
(* Properties *)

\* Every variable stays in its range; the retry counter, which GET_IP hands to
\* the states after it and SET_CIICR back to CHECK, never passes 5.
TypeOK ==
  /\ gprs_status \in DOMAIN Expects \cup {"CHECK", "START_TCP", "RESTART_TCP", "TCP_CONNECT",
                                         "COMMUNICATE", "RX_PROC", "FRAME_PROC"}
  /\ gprs_status_error_count \in 0..5 /\ gprs_tcp_error_count \in 0..3
  /\ late \in BOOLEAN /\ booted \in BOOLEAN /\ gprs_imei \in BOOLEAN /\ given \in BOOLEAN
  /\ dialled \in {"none", "dns", "ip"}

\* A connection that fails or is lost again and again without data is dialled
\* by address in the end: the way back through INIT does not forget failures.
NameGivenUp ==
  []<><<gprs_status = "RESTART_TCP" \/ (gprs_status = "TCP_CONNECT" /\ gprs_status' = "INIT")>>_vars
    => []<>(dialled = "ip" \/ gprs_status = "RX_PROC")

\* With a modem that works no state is a dead end, in whatever mode it answers
\* a fetch: the driver is online again and again.
GetsOnline == []<>(gprs_status = "COMMUNICATE")

\* Data that is announced again and again is fetched again and again: after
\* the announcement the driver gets the length and hands a frame over
\* (ibox_gprs.c 482, "receive processing").
DataFetched == []<>(gprs_status = "RX_PROC") => []<>(given /\ gprs_status = "COMMUNICATE")
=============================================================================
