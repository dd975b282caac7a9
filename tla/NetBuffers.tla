----------------------------- MODULE NetBuffers -----------------------------
(***************************************************************************)
(* The network middleware of Application/src/network.c: the one-message    *)
(* transmit buffer and the one-chunk receive buffer, the semaphores and    *)
(* the event that hand them between threads, and what the ESP8266 driver   *)
(* does with them in COMMUNICATE: a round of it reads a line of the modem  *)
(* or, if there is none, sends.  The other states of the driver, which     *)
(* bring the link up again (Esp8266), are one step here.                   *)
(*                                                                         *)
(* RT-Thread schedules by fixed priorities: a step of a thread is taken    *)
(* only when no thread of a higher priority is ready.  Main and the        *)
(* network thread are preempted between any two of their steps by the      *)
(* driver threads, which share one priority above them.                    *)
(*                                                                         *)
(* Messages and chunks are numbered in the order they are accepted; 0 is a *)
(* length of zero and a buffer full of zeroes.  A length variable holding  *)
(* n holds the length of message n, a buffer holding n its bytes.          *)
(***************************************************************************)
EXTENDS Naturals, Sequences

CONSTANTS
  Wifi,       \* the wireless thread (wireless_net.c)
  Drivers,    \* the driver threads that call net_rx_write: wireless and wired
  MaxTx,      \* bound: messages main hands to net_tx_write
  MaxRx       \* bound: chunks the drivers hand to net_rx_write

ASSUME DriversAssumption == Wifi \in Drivers
ASSUME BoundAssumption == MaxTx \in Nat \ {0} /\ MaxRx \in Nat \ {0}

VARIABLES
  net_tx_sem,     \* 1 when the transmit buffer may be written
  net_rx_sem,     \* 1 when the receive buffer may be written
  net_fifo_sem,   \* read attempts owed to main
  event,          \* network_thread_event, a set of flags: raising a raised flag is lost
  net_tx_len, net_tx_buf,
  net_rx_buf,     \* net_rx_len is written and read together with it
  wifi_tx_len,    \* non-zero: the driver has data to send
  uart3_tx_buf,   \* the bytes the driver will send
  wifi_send_flag, \* 1 when the driver may start a send
  main_pc, main_msg,
  net_pc, opt,    \* network thread: place in its loop, flags it received
  drv_pc, drv_msg,
  link,           \* "up" while esp8266_status is COMMUNICATE
  line,           \* what the next round reads from the modem
  modem,          \* "busy" from the data of a send to its SEND OK
  tx_calls,       \* history: calls of net_tx_write
  rx_calls,       \* history: calls of net_rx_write
  rx_count,       \* history: calls of net_rx_write that got the semaphore
  pushed,         \* history: chunks copied into net_rx_fifo
  on_air,         \* history: frames given to the modem
  raced           \* history: messages whose send began while the copy of line 81 was pending

semVars  == <<net_tx_sem, net_rx_sem, net_fifo_sem>>
txVars   == <<net_tx_len, net_tx_buf>>
wifiVars == <<wifi_tx_len, uart3_tx_buf, wifi_send_flag>>
linkVars == <<link, line, modem>>
mainVars == <<main_pc, main_msg>>
netVars  == <<net_pc, opt>>
drvVars  == <<drv_pc, drv_msg>>
history  == <<tx_calls, rx_calls, rx_count, pushed, on_air, raced>>
vars == <<semVars, event, txVars, net_rx_buf, wifiVars, linkVars, mainVars, netVars, drvVars, history>>
-----------------------------------------------------------------------------
(* Scheduling: drivers before the network thread before main (application.h). *)

\* A driver waiting for net_rx_sem, or sleeping in its loop, is not ready.
DriverReady(d) == drv_pc[d] \notin {"delay", "take"} \/ (drv_pc[d] = "take" /\ net_rx_sem > 0)
NetworkReady == IF net_pc = "wait" THEN event # {} ELSE ~(net_pc = "push" /\ main_pc = "reading")

\* Fault: MAIN_THREAD_PRIINIT is the network thread's priority.
MainRunsAsNetwork == \A d \in Drivers : ~DriverReady(d)

\* Main holding net_fifo_mutex inherits the priority of a network thread waiting for it.
NetworkRuns == \A d \in Drivers : ~DriverReady(d)
MainRuns == NetworkRuns /\ ~NetworkReady
-----------------------------------------------------------------------------
(* network_thread_init, and the drivers' static initial values *)
Init ==
  /\ net_tx_sem = 1 /\ net_rx_sem = 1 /\ net_fifo_sem = 1
  /\ event = {}
  /\ net_tx_len = 0 /\ net_tx_buf = 0 /\ net_rx_buf = 0
  /\ wifi_tx_len = 0 /\ uart3_tx_buf = 0 /\ wifi_send_flag = 1
  /\ main_pc = "idle" /\ main_msg = 0
  /\ net_pc = "wait" /\ opt = {}
  /\ drv_pc = [d \in Drivers |-> "delay"] /\ drv_msg = [d \in Drivers |-> 0]
  /\ link = "down" /\ line = "none" /\ modem = "free"
  /\ tx_calls = 0 /\ rx_calls = 0 /\ rx_count = 0 /\ pushed = <<>> /\ on_air = <<>> /\ raced = {}
-----------------------------------------------------------------------------
(* net_tx_write, called by main for every MQTT packet *)

TxCall ==
  /\ MainRuns /\ main_pc = "idle"
  /\ tx_calls < MaxTx
  /\ tx_calls' = tx_calls + 1
  /\ main_msg' = tx_calls + 1
  /\ main_pc' = "take"
  /\ UNCHANGED <<semVars, event, txVars, net_rx_buf, wifiVars, linkVars, netVars, drvVars, rx_calls, rx_count, pushed, on_air, raced>>

TxTake ==
  /\ MainRuns /\ main_pc = "take"
  /\ net_tx_sem > 0
  /\ net_tx_sem' = net_tx_sem - 1
  /\ main_pc' = "clear"
  /\ UNCHANGED <<net_rx_sem, net_fifo_sem, event, txVars, net_rx_buf, wifiVars, linkVars, main_msg, netVars, drvVars, history>>

\* No token within 10 s: net_tx_write returns 0 and the message is gone.
TxTimeout ==
  /\ main_pc = "take" /\ net_tx_sem = 0
  /\ main_pc' = "idle"
  /\ UNCHANGED <<semVars, event, txVars, net_rx_buf, wifiVars, linkVars, main_msg, netVars, drvVars, history>>

\* net_tx_len = len; memset
TxClear ==
  /\ MainRuns /\ main_pc = "clear"
  /\ net_tx_len' = main_msg /\ net_tx_buf' = 0
  /\ main_pc' = "copy"
  /\ UNCHANGED <<semVars, event, net_rx_buf, wifiVars, linkVars, main_msg, netVars, drvVars, history>>

\* memcpy; rt_event_send; return 1
TxCopy ==
  /\ MainRuns /\ main_pc = "copy"
  /\ net_tx_buf' = main_msg
  /\ event' = event \cup {"TX"}
  /\ main_pc' = "idle"
  /\ UNCHANGED <<semVars, net_tx_len, net_rx_buf, wifiVars, linkVars, main_msg, netVars, drvVars, history>>

(* readPacket: main takes a read attempt and holds net_fifo_mutex in net_fifo_read *)
ReadBegin ==
  /\ MainRuns /\ main_pc = "idle" /\ net_fifo_sem > 0
  /\ net_fifo_sem' = net_fifo_sem - 1
  /\ main_pc' = "reading"
  /\ UNCHANGED <<net_tx_sem, net_rx_sem, event, txVars, net_rx_buf, wifiVars, linkVars, main_msg, netVars, drvVars, history>>

ReadEnd ==
  /\ MainRuns /\ main_pc = "reading"
  /\ main_pc' = "idle"
  /\ UNCHANGED <<semVars, event, txVars, net_rx_buf, wifiVars, linkVars, main_msg, netVars, drvVars, history>>
-----------------------------------------------------------------------------
(* net_rx_write, called by a driver thread for every chunk it receives *)

\* The wireless thread calls it in a round that reads +IPD in COMMUNICATE, the wired
\* thread when its socket holds data.
RxCall(d) ==
  /\ drv_pc[d] = "delay"
  /\ d = Wifi => link = "up" /\ line = "IPD"
  /\ line' = IF d = Wifi THEN "none" ELSE line
  /\ rx_calls < MaxRx
  /\ rx_calls' = rx_calls + 1
  /\ drv_pc' = [drv_pc EXCEPT ![d] = "take"]
  /\ UNCHANGED <<semVars, event, txVars, net_rx_buf, wifiVars, link, modem, mainVars, netVars, drv_msg, tx_calls, rx_count, pushed, on_air, raced>>

RxTake(d) ==
  /\ drv_pc[d] = "take" /\ net_rx_sem > 0
  /\ net_rx_sem' = net_rx_sem - 1
  /\ rx_count' = rx_count + 1
  /\ drv_msg' = [drv_msg EXCEPT ![d] = rx_count + 1]
  /\ drv_pc' = [drv_pc EXCEPT ![d] = "clear"]
  /\ UNCHANGED <<net_tx_sem, net_fifo_sem, event, txVars, net_rx_buf, wifiVars, linkVars, mainVars, netVars, tx_calls, rx_calls, pushed, on_air, raced>>

\* Fault: the result of rt_sem_take is ignored.
RxTimeoutIgnored(d) ==
  /\ drv_pc[d] = "take" /\ net_rx_sem = 0
  /\ drv_pc' = [drv_pc EXCEPT ![d] = "clear"]
  /\ UNCHANGED <<semVars, event, txVars, net_rx_buf, wifiVars, linkVars, mainVars, netVars, drv_msg, history>>

\* No token within 1 s: net_rx_write returns 0, which no caller looks at.
RxTimeout(d) ==
  /\ drv_pc[d] = "take" /\ net_rx_sem = 0
  /\ drv_pc' = [drv_pc EXCEPT ![d] = "delay"]
  /\ UNCHANGED <<semVars, event, txVars, net_rx_buf, wifiVars, linkVars, mainVars, netVars, drv_msg, history>>

RxClear(d) ==
  /\ drv_pc[d] = "clear"
  /\ net_rx_buf' = 0
  /\ drv_pc' = [drv_pc EXCEPT ![d] = "copy"]
  /\ UNCHANGED <<semVars, event, txVars, wifiVars, linkVars, mainVars, netVars, drv_msg, history>>

RxCopy(d) ==
  /\ drv_pc[d] = "copy"
  /\ net_rx_buf' = drv_msg[d]
  /\ event' = event \cup {"RX"}
  /\ drv_pc' = [drv_pc EXCEPT ![d] = "delay"]
  /\ UNCHANGED <<semVars, txVars, wifiVars, linkVars, mainVars, netVars, drv_msg, history>>
-----------------------------------------------------------------------------
(* network_thread_entry *)

\* Fault: RT_EVENT_FLAG_CLEAR is left out.
NetRecvNoClear ==
  /\ NetworkRuns /\ net_pc = "wait" /\ event # {}
  /\ opt' = event
  /\ net_pc' = IF "RX" \in event THEN "push" ELSE "txlen"
  /\ UNCHANGED <<semVars, event, txVars, net_rx_buf, wifiVars, linkVars, mainVars, drvVars, history>>

\* Fault: RT_EVENT_FLAG_AND instead of RT_EVENT_FLAG_OR.
NetRecvAnd ==
  /\ NetworkRuns /\ net_pc = "wait" /\ event = {"RX", "TX"}
  /\ opt' = event /\ event' = {}
  /\ net_pc' = "push"
  /\ UNCHANGED <<semVars, txVars, net_rx_buf, wifiVars, linkVars, mainVars, drvVars, history>>

NetRecv ==
  /\ NetworkRuns /\ net_pc = "wait" /\ event # {}
  /\ opt' = event /\ event' = {}
  /\ net_pc' = IF "RX" \in event THEN "push" ELSE "txlen"
  /\ UNCHANGED <<semVars, txVars, net_rx_buf, wifiVars, linkVars, mainVars, drvVars, history>>

\* push_data_to_net_fifo with the mutex
NetPush ==
  /\ NetworkRuns /\ net_pc = "push" /\ main_pc # "reading"
  /\ pushed' = Append(pushed, net_rx_buf)
  /\ net_pc' = "release"
  /\ UNCHANGED <<semVars, event, txVars, net_rx_buf, wifiVars, linkVars, mainVars, opt, drvVars, tx_calls, rx_calls, rx_count, on_air, raced>>

\* Fault: the error path gives the buffer back itself.
NetPushTimeoutReleases ==
  /\ net_pc = "push" /\ main_pc = "reading"
  /\ net_rx_sem' = net_rx_sem + 1
  /\ net_pc' = "release"
  /\ UNCHANGED <<net_tx_sem, net_fifo_sem, event, txVars, net_rx_buf, wifiVars, linkVars, mainVars, opt, drvVars, history>>

\* Main kept the mutex for 5 s: the chunk is dropped, the buffer is handed back all the same.
NetPushTimeout ==
  /\ net_pc = "push" /\ main_pc = "reading"
  /\ net_pc' = "release"
  /\ UNCHANGED <<semVars, event, txVars, net_rx_buf, wifiVars, linkVars, mainVars, opt, drvVars, history>>

NetRelease ==
  /\ NetworkRuns /\ net_pc = "release"
  /\ net_rx_sem' = net_rx_sem + 1
  /\ net_pc' = "credit"
  /\ UNCHANGED <<net_tx_sem, net_fifo_sem, event, txVars, net_rx_buf, wifiVars, linkVars, mainVars, opt, drvVars, history>>

\* Fault: "else if" between the two flags, a transmit request received together
\* with a chunk is dropped.
NetCreditElse ==
  /\ NetworkRuns /\ net_pc = "credit"
  /\ net_fifo_sem' = net_fifo_sem + 1
  /\ net_pc' = "wait"
  /\ UNCHANGED <<net_tx_sem, net_rx_sem, event, txVars, net_rx_buf, wifiVars, linkVars, mainVars, opt, drvVars, history>>

NetCredit ==
  /\ NetworkRuns /\ net_pc = "credit"
  /\ net_fifo_sem' = net_fifo_sem + 1
  /\ net_pc' = IF "TX" \in opt THEN "txlen" ELSE "wait"
  /\ UNCHANGED <<net_tx_sem, net_rx_sem, event, txVars, net_rx_buf, wifiVars, linkVars, mainVars, opt, drvVars, history>>

\* wifi_tx_len = net_tx_len
NetTxLen ==
  /\ NetworkRuns /\ net_pc = "txlen"
  /\ wifi_tx_len' = net_tx_len
  /\ net_pc' = "txcopy"
  /\ UNCHANGED <<semVars, event, txVars, net_rx_buf, uart3_tx_buf, wifi_send_flag, linkVars, mainVars, opt, drvVars, history>>

\* memcpy(uart3_tx_buf, net_tx_buf, net_tx_len)
NetTxCopy ==
  /\ NetworkRuns /\ net_pc = "txcopy"
  /\ uart3_tx_buf' = net_tx_buf
  /\ net_pc' = "wait"
  /\ UNCHANGED <<semVars, event, txVars, net_rx_buf, wifi_tx_len, wifi_send_flag, linkVars, mainVars, opt, drvVars, history>>
-----------------------------------------------------------------------------
(* ESP8266_STATUS_COMMUNICATE: a round with a line, then the rounds without *)

\* The wireless thread calls the driver and finds it connected.
Round(l) == drv_pc[Wifi] = "delay" /\ link = "up" /\ line = l

\* CLOSED or ERROR: the driver goes back to bring the link up.
WifiClosed ==
  /\ Round("CLOSED")
  /\ link' = "down" /\ line' = "none"
  /\ UNCHANGED <<semVars, event, txVars, net_rx_buf, wifiVars, modem, mainVars, netVars, drvVars, history>>

WifiSendOk ==
  /\ Round("SEND_OK")
  /\ line' = "none"
  /\ wifi_tx_len' = 0 /\ wifi_send_flag' = 1
  /\ net_tx_sem' = net_tx_sem + 1
  /\ UNCHANGED <<net_rx_sem, net_fifo_sem, event, txVars, net_rx_buf, uart3_tx_buf, link, modem, mainVars, netVars, drvVars, history>>

\* A line that says none of these (or +IPD, once MaxRx is used up) uses the round up.
WifiOtherLine ==
  /\ Round("other") \/ (Round("IPD") /\ rx_calls = MaxRx)
  /\ line' = "none"
  /\ UNCHANGED <<semVars, event, txVars, net_rx_buf, wifiVars, link, modem, mainVars, netVars, drvVars, history>>

\* Fault: wifi_send_flag is not cleared, and the next round sends again.
WifiSendKeepsFlag ==
  /\ Round("none")
  /\ wifi_tx_len # 0 /\ wifi_send_flag = 1
  /\ drv_pc' = [drv_pc EXCEPT ![Wifi] = "body"]
  /\ raced' = IF net_pc = "txcopy" THEN raced \cup {wifi_tx_len} ELSE raced
  /\ UNCHANGED <<semVars, event, txVars, net_rx_buf, wifiVars, linkVars, mainVars, netVars, drv_msg, tx_calls, rx_calls, rx_count, pushed, on_air>>

\* AT+CIPSEND with the length; the thread then busy-waits 50 ms.
WifiSend ==
  /\ Round("none")
  /\ wifi_tx_len # 0 /\ wifi_send_flag = 1
  /\ wifi_send_flag' = 0
  /\ drv_pc' = [drv_pc EXCEPT ![Wifi] = "body"]
  /\ raced' = IF net_pc = "txcopy" THEN raced \cup {wifi_tx_len} ELSE raced
  /\ UNCHANGED <<semVars, event, txVars, net_rx_buf, wifi_tx_len, uart3_tx_buf, linkVars, mainVars, netVars, drv_msg, tx_calls, rx_calls, rx_count, pushed, on_air>>

WifiSendBody ==
  /\ drv_pc[Wifi] = "body"
  /\ on_air' = Append(on_air, [len |-> wifi_tx_len, data |-> uart3_tx_buf])
  /\ modem' = "busy"
  /\ drv_pc' = [drv_pc EXCEPT ![Wifi] = "delay"]
  /\ UNCHANGED <<semVars, event, txVars, net_rx_buf, wifiVars, link, line, mainVars, netVars, drv_msg, tx_calls, rx_calls, rx_count, pushed, raced>>

\* No SEND OK for 5 s: the link is brought up again, the send is not repeated.
WifiSendTimeout ==
  /\ Round("none") /\ wifi_send_flag = 0
  /\ link' = "down"
  /\ UNCHANGED <<semVars, event, txVars, net_rx_buf, wifiVars, line, modem, mainVars, netVars, drvVars, history>>

\* CONNECT was read; uart3_rx_buf_clear.
WifiConnected ==
  /\ drv_pc[Wifi] = "delay" /\ link = "down"
  /\ link' = "up" /\ line' = "none"
  /\ UNCHANGED <<semVars, event, txVars, net_rx_buf, wifiVars, modem, mainVars, netVars, drvVars, history>>

(* The modem says something while it is connected, or never confirms a send. *)
ModemSays(l) ==
  /\ link = "up" /\ line = "none" /\ line' = l
  /\ l = "SEND_OK" => modem = "busy"
  /\ modem' = IF l = "SEND_OK" THEN "free" ELSE modem
  /\ UNCHANGED <<semVars, event, txVars, net_rx_buf, wifiVars, link, mainVars, netVars, drvVars, history>>

ReplyLost ==
  /\ modem = "busy" /\ modem' = "free"
  /\ UNCHANGED <<semVars, event, txVars, net_rx_buf, wifiVars, link, line, mainVars, netVars, drvVars, history>>
-----------------------------------------------------------------------------
NetworkStep ==
  NetRecv \/ NetPush \/ NetPushTimeout \/ NetRelease \/ NetCredit \/ NetTxLen \/ NetTxCopy
MainStep == TxCall \/ TxTake \/ TxTimeout \/ TxClear \/ TxCopy \/ ReadBegin \/ ReadEnd
DriverStep(d) == RxCall(d) \/ RxTake(d) \/ RxTimeout(d) \/ RxClear(d) \/ RxCopy(d)
WifiReads == WifiClosed \/ WifiSendOk \/ WifiOtherLine
WifiStep == WifiReads \/ WifiSend \/ WifiSendBody \/ WifiSendTimeout \/ WifiConnected
ModemStep == (\E l \in {"SEND_OK", "IPD", "CLOSED", "other"} : ModemSays(l)) \/ ReplyLost

Next == NetworkStep \/ MainStep \/ (\E d \in Drivers : DriverStep(d)) \/ WifiStep \/ ModemStep

Spec == Init /\ [][Next]_vars

(* A driver that is ready runs.  The drivers sleep 50 ms in every round of *)
(* their loops, so the network thread, next in priority, is given the      *)
(* processor again and again; main, lowest, is promised nothing here.  The *)
(* wireless thread reads the line that is there, and does not find one in  *)
(* every round.                                                            *)
Fairness ==
  /\ \A d \in Drivers : WF_vars(RxTake(d) \/ RxTimeout(d) \/ RxClear(d) \/ RxCopy(d))
  /\ WF_vars(WifiReads \/ RxCall(Wifi)) /\ SF_vars(WifiSend) /\ WF_vars(WifiSendBody)
  /\ SF_vars(NetworkStep)

FairSpec == Spec /\ Fairness
-----------------------------------------------------------------------------
(* Properties *)

\* Every variable stays in its range; in particular no semaphore counts past 1
\* except net_fifo_sem, which is released once per chunk and never refused.
TypeOK ==
  /\ net_tx_sem \in 0..1 /\ net_rx_sem \in 0..1 /\ net_fifo_sem \in Nat
  /\ event \subseteq {"RX", "TX"} /\ opt \subseteq {"RX", "TX"}
  /\ net_tx_len \in Nat /\ net_tx_buf \in Nat /\ net_rx_buf \in Nat
  /\ wifi_tx_len \in Nat /\ uart3_tx_buf \in Nat /\ wifi_send_flag \in 0..1
  /\ main_pc \in {"idle", "take", "clear", "copy", "reading"} /\ main_msg \in Nat
  /\ net_pc \in {"wait", "push", "release", "credit", "txlen", "txcopy"}
  /\ drv_pc \in [Drivers -> {"delay", "take", "clear", "copy", "body"}]
  /\ drv_msg \in [Drivers -> Nat]
  /\ link \in {"up", "down"} /\ line \in {"none", "SEND_OK", "IPD", "CLOSED", "other"} /\ modem \in {"free", "busy"}
  /\ tx_calls \in Nat /\ rx_calls \in Nat /\ rx_count \in Nat
  /\ pushed \in Seq(Nat)
  /\ on_air \in Seq([len : Nat, data : Nat])
  /\ raced \subseteq Nat

\* net_rx_buf has one user: while a driver thread is inside net_rx_write past
\* the semaphore, no other is, and the network thread is not copying the
\* buffer into the FIFO nor about to.
RxBufOwned ==
  /\ \A d \in Drivers : drv_pc[d] \in {"clear", "copy"} =>
       /\ net_rx_sem = 0 /\ "RX" \notin event /\ net_pc \notin {"push", "release"}
       /\ \A e \in Drivers \ {d} : drv_pc[e] \notin {"clear", "copy"}
  /\ (net_pc \in {"push", "release"} \/ "RX" \in event) => net_rx_sem = 0

\* net_tx_buf has one user: while main rewrites it (net_tx_write past the
\* semaphore), no event of the previous message is pending and the network
\* thread is not reading the buffer.
TxBufOwned ==
  main_pc \in {"clear", "copy"} =>
    /\ "TX" \notin event /\ net_pc \notin {"txlen", "txcopy"}
    /\ "TX" \in opt => net_pc = "wait"

\* The modem is given every message at most once, in the order of the calls of
\* net_tx_write; and unless the driver began that send in the middle of the
\* network thread's two assignments (network.c 80-81), with that message's bytes.
FramesInOrder ==
  /\ \A i, j \in 1..Len(on_air) : i < j => on_air[i].len < on_air[j].len
  /\ \A i \in 1..Len(on_air) : on_air[i].len \notin raced => on_air[i].data = on_air[i].len

\* The chunk waiting in net_rx_buf for the network thread, 0 when there is none.
RxWaiting == IF "RX" \in event \/ net_pc = "push" THEN net_rx_buf ELSE 0

RxSlot == INSTANCE OneSlot WITH slot <- RxWaiting, taken <- pushed

\* The receive side implements a one-slot hand-off: a chunk net_rx_write
\* accepted reaches the FIFO whole, once and in order, or (the mutex timed out)
\* not at all; a merged event flag never hides one.
RxHandsOff == RxSlot!Spec

\* A chunk that net_rx_write accepted does not stay in net_rx_buf for ever, and
\* no driver stays in net_rx_write.
RxDrains ==
  /\ RxWaiting # 0 ~> RxWaiting = 0
  /\ \A d \in Drivers : drv_pc[d] = "take" ~> drv_pc[d] = "delay"

\* A message main handed over is given to the modem, with its own bytes unless its send
\* began between lines 80 and 81, if the link is up again and again: neither a link
\* that closes nor the lines that come first keep it back for ever.
TxReaches ==
  []<>(link = "up") =>
    \A m \in 1..MaxTx :
      ("TX" \in event /\ net_tx_len = m) ~>
        (\E i \in 1..Len(on_air) : on_air[i].len = m /\ (m \in raced \/ on_air[i].data = m))

\* ibox_wifi.c 494-497: the data to send is in uart3_tx_buf and its length in
\* wifi_tx_len, so every frame carries the bytes of the message it announces.
FrameIsTheMessage == \A i \in 1..Len(on_air) : on_air[i].data = on_air[i].len
=============================================================================
