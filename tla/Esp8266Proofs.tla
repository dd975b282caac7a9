--------------------------- MODULE Esp8266Proofs ---------------------------
(***************************************************************************)
(* The transmit slot of the ESP8266 driver is conserved, for every width   *)
(* of the error counter and both settings of use_dns.  The type part needs *)
(* one fact about the control: a dial always starts with a fresh retry     *)
(* counter, so that the counter of WAIT_LINK_SERVER never passes five.     *)
(***************************************************************************)
EXTENDS Esp8266, TLAPS

USE DEF vars, fsm, slot, conn

Commands == {"CHECK", "SET_MODE", "RESET", "WIFI_CONNECT", "LINK_OK"}
Waits == {"CHECK_MODE", "WAIT_CHECK_MODE", "WAIT_SET_MODE", "WAIT_RESET", "WAIT_CLOSE_ECHO",
          "WAIT_CONNECTED", "WAIT_GOT_IP", "GET_IP", "GET_MAC"}
Others == {"RESTART_CONNECT_SEVER", "CONNECT_SERVER", "WAIT_LINK_SERVER", "COMMUNICATE"}

\* The state machine's part: every state is one of the enumeration, the counters
\* keep their ranges, and WAIT_LINK_SERVER is entered with the counter at zero.
Machine ==
  /\ esp8266_status \in Commands \cup Waits \cup Others
  /\ wifi_status_error_count \in 0..5 /\ wifi_tcp_error_count \in 0..(ErrorCountSize - 1)
  /\ is_wireless_link_ok \in 0..1
  /\ dialled \in {"none", "dns", "ip"}
  /\ esp8266_status = "WAIT_LINK_SERVER" => wifi_status_error_count = 0

\* The Boolean variables.
Flags == late \in BOOLEAN /\ tcp \in BOOLEAN

\* The slot's part: one token, in the semaphore or with the message.
Slot ==
  /\ wifi_send_flag \in 0..1 /\ wifi_tx_len \in 0..1 /\ net_tx_sem \in Nat /\ owes \in Nat
  /\ net_tx_sem + wifi_tx_len = 1
  /\ owes <= 1
  /\ owes = 1 => wifi_tx_len = 1 /\ wifi_send_flag = 0

\* The states of the two tables, as sets of strings.
LEMMA Tables ==
  /\ DOMAIN CommandNext = Commands /\ DOMAIN Expects = Waits
  /\ \A s \in Commands : CommandNext[s] \in (Commands \cup Waits \cup Others) \ {"WAIT_LINK_SERVER"}
<1>1. DOMAIN CommandNext = Commands
  BY DEF CommandNext, Commands
<1>2. DOMAIN Expects = Waits
  BY DEF Expects, Waits
<1>3. \A s \in Commands : CommandNext[s] \in (Commands \cup Waits \cup Others) \ {"WAIT_LINK_SERVER"}
  BY DEF CommandNext, Commands, Waits, Others
<1> QED
  BY <1>1, <1>2, <1>3

\* What the two parts say together is the property of the run.
LEMMA PartsSuffice == Machine /\ Flags /\ Slot => SlotConserved
  BY Tables DEF Machine, Flags, Slot, SlotConserved, TypeOK, Others

\* A state that waits leads to another state of the enumeration, never straight
\* into a dial.
LEMMA WaitLeads ==
  ASSUME NEW s \in Waits, NEW l \in Lines
  PROVE  /\ s # "WAIT_SET_MODE" => Answered(s, l) \in (Commands \cup Waits \cup Others) \ {"WAIT_LINK_SERVER"}
         /\ RetryFrom(s) \in (Commands \cup Waits \cup Others) \ {"WAIT_LINK_SERVER"}
  BY DEF Waits, Answered, RetryFrom, Commands, Others

\* Every call of esp8266_at_fsm keeps the state machine in its ranges.
LEMMA RoundKeepsMachine ==
  ASSUME Machine, NEW l \in Lines, Round(l)
  PROVE  Machine'
<1> USE ConfigAssumption
<1>0. is_wireless_link_ok' \in 0..1
  BY DEF Round
<1>1. CASE Command
  <2>1. esp8266_status \in Commands /\ esp8266_status' = CommandNext[esp8266_status]
    BY <1>1, Tables DEF Command, Enter
  <2> QED
    BY <1>0, <1>1, <2>1, Tables DEF Command, Enter, Machine
<1>2. CASE RestartConnect
  BY <1>0, <1>2 DEF RestartConnect, Machine, Others
<1>3. CASE ConnectServer
  BY <1>0, <1>3 DEF ConnectServer, Enter, wifi_server_connect, Machine, Others
<1>4. CASE Wait(l)
  <2>1. esp8266_status \in Waits /\ UNCHANGED conn
    BY <1>4, Tables DEF Wait
  <2>2. CASE Answer(l)
    BY <1>0, <2>1, <2>2, WaitLeads DEF Answer, Enter, Machine
  <2>3. CASE Retry
    <3>1. wifi_status_error_count' \in 0..5
      BY <2>3 DEF Retry, TooMany, Machine
    <3>2. esp8266_status' \in (Commands \cup Waits \cup Others) \ {"WAIT_LINK_SERVER"}
      BY <2>1, <2>3, WaitLeads DEF Retry, Waits
    <3> QED
      BY <1>0, <2>1, <3>1, <3>2 DEF Machine
  <2>4. CASE MacTimeout
    BY <1>0, <2>1, <2>4 DEF MacTimeout, Machine, Commands
  <2>5. CASE UNCHANGED fsm
    BY <1>0, <2>1, <2>5 DEF Machine
  <2> QED
    BY <1>4, <2>2, <2>3, <2>4, <2>5 DEF Wait
<1>5. CASE WaitLinkServer(l)
  <2>0. esp8266_status = "WAIT_LINK_SERVER" /\ wifi_status_error_count = 0 /\ UNCHANGED dialled
    BY <1>5 DEF WaitLinkServer, Machine
  <2>1. CASE DialRefused(l)
    BY <1>0, <2>0, <2>1 DEF DialRefused, Machine, Others
  <2>2. CASE DialAnswered(l)
    BY <1>0, <2>0, <2>2 DEF DialAnswered, Enter, Machine, Others
  <2>3. CASE DialUnanswered(l)
    <3>1. \/ wifi_status_error_count' = 1 /\ esp8266_status' = "CONNECT_SERVER"
          \/ UNCHANGED fsm
      BY <2>0, <2>3 DEF DialUnanswered
    <3> QED
      BY <1>0, <2>0, <2>3, <3>1 DEF DialUnanswered, Machine, Others
  <2> QED
    BY <1>5, <2>1, <2>2, <2>3 DEF WaitLinkServer
<1>6. CASE Communicate(l)
  <2>1. /\ esp8266_status = "COMMUNICATE" /\ UNCHANGED <<conn, wifi_status_error_count>>
        /\ esp8266_status' \in {"COMMUNICATE", "RESTART_CONNECT_SEVER", "WIFI_CONNECT"}
    BY <1>6 DEF Communicate, Closed, ModemError, SendOk, OtherLine, Send, SendTimeout, Idle
  <2> QED
    BY <1>0, <2>1 DEF Machine, Commands, Others
<1> QED
  BY <1>1, <1>2, <1>3, <1>4, <1>5, <1>6 DEF Round, esp8266_at_fsm

\* A call sets the deadline again, lets it be, and hears of the connection.
LEMMA RoundKeepsFlags ==
  ASSUME Flags, NEW l \in Lines, Round(l)
  PROVE  Flags'
<1>1. tcp' \in BOOLEAN
  BY Zenon DEF Flags, Round, ModemSays
<1>2. late' = FALSE \/ late' = late
  BY Zenon DEF Round, esp8266_at_fsm, Command, RestartConnect, ConnectServer, Wait, Answer, Enter, Retry,
       MacTimeout, WaitLinkServer, DialRefused, DialAnswered, DialUnanswered,
       Communicate, Closed, ModemError, SendOk, OtherLine, Send, SendTimeout, Idle
<1> QED
  BY <1>1, <1>2 DEF Flags

\* Every call of esp8266_at_fsm keeps the token: only SEND OK and a send touch it.
LEMMA RoundKeepsSlot ==
  ASSUME Slot, NEW l \in Lines, Round(l)
  PROVE  Slot'
<1>1. CASE UNCHANGED slot
  BY <1>1 DEF Slot
<1>2. CASE SendOk(l)
  <2>1. l = "SEND OK"
    BY <1>2 DEF SendOk, Has
  <2>2. owes > 0
    BY <2>1 DEF Round, ModemSays
  <2>3. owes = 1 /\ wifi_tx_len = 1 /\ net_tx_sem = 0
    BY <2>2 DEF Slot
  <2> QED
    <3>1. /\ wifi_tx_len' = 0 /\ wifi_send_flag' = 1
          /\ net_tx_sem' = net_tx_sem + 1 /\ owes' = owes - 1
      BY <1>2 DEF SendOk
    <3> QED
      BY <2>3, <3>1 DEF Slot
<1>3. CASE Send(l)
  BY <1>3 DEF Send, Slot
<1> QED
  BY <1>1, <1>2, <1>3 DEF Round, esp8266_at_fsm, Command, RestartConnect, ConnectServer, Wait,
       WaitLinkServer, Communicate, Closed, ModemError, OtherLine, SendTimeout, Idle

\* SlotConserved for every behaviour of the driver, the network thread and the
\* modem: main has the token of uart3_tx_buf exactly when no message is in the
\* slot, and a SEND OK is owed only for the message in it (ibox_wifi.c 432-470).
THEOREM SlotIsConserved == Spec => []SlotConserved
<1>1. Init => Machine /\ Flags /\ Slot
  <2>1. Init => Machine /\ Slot
    BY ConfigAssumption DEF Init, Machine, Slot, Commands
  <2>2. Init => Flags
    BY DEF Init, Flags
  <2> QED
    BY <2>1, <2>2
<1>2. Machine /\ Flags /\ Slot /\ [Next]_vars => (Machine /\ Flags /\ Slot)'
  <2> SUFFICES ASSUME Machine, Flags, Slot, [Next]_vars
               PROVE  Machine' /\ Flags' /\ Slot'
    OBVIOUS
  <2>1. ASSUME NEW l \in Lines, Round(l)
        PROVE  Machine' /\ Flags' /\ Slot'
    BY <2>1, RoundKeepsMachine, RoundKeepsFlags, RoundKeepsSlot
  <2>2. CASE NetTx
    BY <2>2 DEF NetTx, Machine, Flags, Slot
  <2>3. CASE Deadline
    BY <2>3 DEF Deadline, Machine, Flags, Slot
  <2>4. CASE ReplyLost
    BY <2>4 DEF ReplyLost, Machine, Flags, Slot
  <2>5. CASE UNCHANGED vars
    BY <2>5 DEF Machine, Flags, Slot
  <2> QED
    BY <2>1, <2>2, <2>3, <2>4, <2>5 DEF Next
<1> QED
  BY <1>1, <1>2, PartsSuffice, PTL DEF Spec
=============================================================================
