-------------------------- MODULE NetBuffersProofs --------------------------
(***************************************************************************)
(* Proofs about NetBuffers for every set of driver threads and every       *)
(* workload.  The argument is a token: the receive buffer and the transmit *)
(* buffer each have one, and it is in the semaphore, with a thread past    *)
(* its rt_sem_take, in the event flag, with the network thread, or (for    *)
(* the transmit buffer) with the driver until it reads SEND OK; when the   *)
(* modem never says it, the token stays there and no message follows.      *)
(***************************************************************************)
EXTENDS NetBuffers, TLAPS

USE DEF semVars, txVars, wifiVars, linkVars, mainVars, netVars, drvVars, history

\* Every variable stays in its range, in all runs except for the two
\* semaphores, whose bound needs the tokens.
TypeWeak ==
  /\ net_tx_sem \in Nat /\ net_rx_sem \in Nat /\ net_fifo_sem \in Nat
  /\ event \subseteq {"RX", "TX"} /\ opt \subseteq {"RX", "TX"}
  /\ net_tx_len \in Nat /\ net_tx_buf \in Nat /\ net_rx_buf \in Nat
  /\ wifi_tx_len \in Nat /\ uart3_tx_buf \in Nat /\ wifi_send_flag \in 0..1
  /\ main_pc \in {"idle", "take", "clear", "copy", "reading"} /\ main_msg \in Nat
  /\ net_pc \in {"wait", "push", "release", "credit", "txlen", "txcopy"}
  /\ drv_pc \in [Drivers -> {"delay", "take", "clear", "copy", "body"}]
  /\ drv_msg \in [Drivers -> Nat]
  /\ link \in {"up", "down"} /\ line \in {"none", "SEND_OK", "IPD", "CLOSED", "other"} /\ modem \in {"free", "busy"}
  /\ tx_calls \in Nat /\ rx_calls \in Nat /\ rx_count \in Nat
  /\ pushed \in Seq(Nat)
  /\ on_air \in Seq([len : Nat, data : Nat])
  /\ raced \subseteq Nat

\* Where the token of net_rx_buf is.
RxToken ==
  /\ net_rx_sem \in 0..1
  /\ \A d \in Drivers : drv_pc[d] \in {"clear", "copy"} =>
       /\ net_rx_sem = 0 /\ "RX" \notin event /\ net_pc \notin {"push", "release"}
       /\ \A e \in Drivers : e # d => drv_pc[e] \notin {"clear", "copy"}
  /\ (net_pc \in {"push", "release"} \/ "RX" \in event) => net_rx_sem = 0
  /\ "RX" \in event => net_pc \notin {"push", "release"}

\* The chunk that holds the token is the latest one, and was not pushed yet.
RxOrder ==
  /\ \A i \in 1..Len(pushed) : pushed[i] <= rx_count
  /\ \A d \in Drivers : drv_pc[d] \in {"clear", "copy"} =>
       /\ drv_msg[d] = rx_count /\ rx_count > 0
       /\ \A i \in 1..Len(pushed) : pushed[i] < rx_count
  /\ ("RX" \in event \/ net_pc = "push") =>
       /\ net_rx_buf = rx_count /\ rx_count > 0
       /\ \A i \in 1..Len(pushed) : pushed[i] < rx_count

\* The network thread is on its way to line 80 with a transmit request.
TxInNetwork == net_pc \in {"push", "release", "credit", "txlen"} /\ "TX" \in opt

\* Where the token of net_tx_buf is.
TxToken ==
  /\ net_tx_sem \in 0..1
  /\ main_pc \in {"clear", "copy"} =>
       net_tx_sem = 0 /\ "TX" \notin event /\ ~TxInNetwork /\ net_pc # "txcopy" /\ wifi_tx_len = 0
  /\ "TX" \in event => net_tx_sem = 0 /\ ~TxInNetwork /\ net_pc # "txcopy" /\ wifi_tx_len = 0
  /\ TxInNetwork => net_tx_sem = 0 /\ wifi_tx_len = 0
  /\ net_pc \in {"txlen", "txcopy"} => "TX" \in opt
  /\ wifi_tx_len # 0 => net_tx_sem = 0
  /\ wifi_send_flag = 0 => wifi_tx_len # 0
  /\ modem = "busy" \/ line = "SEND_OK" \/ drv_pc[Wifi] = "body" => wifi_send_flag = 0
  /\ modem = "busy" => line # "SEND_OK" /\ drv_pc[Wifi] # "body"
  /\ line = "SEND_OK" => drv_pc[Wifi] # "body"
  /\ \A d \in Drivers : drv_pc[d] = "body" => d = Wifi

\* No frame announced m or a later message.
NotOnAir(m) == \A i \in 1..Len(on_air) : on_air[i].len < m

\* The message that holds the token is later than everything on the air, and
\* the bytes follow the length except inside the window of lines 80-81.
TxOrder ==
  /\ main_msg <= tx_calls /\ NotOnAir(tx_calls + 1)
  /\ main_pc \in {"take", "clear", "copy"} => main_msg > 0 /\ NotOnAir(main_msg)
  /\ main_pc = "copy" => net_tx_len = main_msg
  /\ "TX" \in event \/ TxInNetwork =>
       net_tx_len > 0 /\ net_tx_len <= tx_calls /\ net_tx_buf = net_tx_len /\ NotOnAir(net_tx_len)
       /\ (main_pc = "take" => net_tx_len < main_msg)
  /\ wifi_tx_len # 0 =>
       /\ wifi_tx_len <= tx_calls
       /\ (main_pc = "take" => wifi_tx_len < main_msg)
       /\ (wifi_send_flag = 1 \/ drv_pc[Wifi] = "body" => NotOnAir(wifi_tx_len))
       /\ (net_pc = "txcopy" => net_tx_len = wifi_tx_len /\ net_tx_buf = wifi_tx_len)
       /\ (net_pc # "txcopy" => uart3_tx_buf = wifi_tx_len)
  /\ drv_pc[Wifi] = "body" /\ wifi_tx_len \notin raced => net_pc # "txcopy"
  /\ FramesInOrder

IInv == TypeWeak /\ RxToken /\ RxOrder /\ TxToken /\ TxOrder
-----------------------------------------------------------------------------
\* Every initial state satisfies the inductive invariant.
LEMMA InitIInv == Init => IInv
  <1> SUFFICES ASSUME Init PROVE IInv
    OBVIOUS
  <1>1. TypeWeak
    <2>1. raced \subseteq Nat BY DEF Init
    <2>2. pushed \in Seq(Nat) /\ on_air \in Seq([len : Nat, data : Nat]) BY DEF Init
    <2>3. QED BY <2>1, <2>2 DEF Init, TypeWeak
  <1>2. RxToken /\ RxOrder BY DEF Init, RxToken, RxOrder
  <1>3. TxToken BY DriversAssumption DEF Init, TxToken, TxInNetwork
  <1>4. TxOrder BY DriversAssumption DEF Init, TxOrder, TxInNetwork, NotOnAir, FramesInOrder
  <1>5. QED BY <1>1, <1>2, <1>3, <1>4 DEF IInv

\* Every step of every thread keeps the types.
LEMMA TypeWeakStep == TypeWeak /\ [Next]_vars => TypeWeak'
  <1> SUFFICES ASSUME TypeWeak, [Next]_vars PROVE TypeWeak'
    OBVIOUS
  <1> USE DEF TypeWeak
  <1>1. CASE TxCall
    BY <1>1 DEF TxCall
  <1>2. CASE TxTake
    BY <1>2 DEF TxTake
  <1>3. CASE TxTimeout
    BY <1>3 DEF TxTimeout
  <1>4. CASE TxClear
    BY <1>4 DEF TxClear
  <1>5. CASE TxCopy
    BY <1>5 DEF TxCopy
  <1>6. CASE ReadBegin
    BY <1>6 DEF ReadBegin
  <1>7. CASE ReadEnd
    BY <1>7 DEF ReadEnd
  <1>8. ASSUME NEW d \in Drivers, RxCall(d) PROVE TypeWeak'
    BY <1>8 DEF RxCall
  <1>9. ASSUME NEW d \in Drivers, RxTake(d) PROVE TypeWeak'
    BY <1>9 DEF RxTake
  <1>10. ASSUME NEW d \in Drivers, RxTimeout(d) PROVE TypeWeak'
    BY <1>10 DEF RxTimeout
  <1>11. ASSUME NEW d \in Drivers, RxClear(d) PROVE TypeWeak'
    BY <1>11 DEF RxClear
  <1>12. ASSUME NEW d \in Drivers, RxCopy(d) PROVE TypeWeak'
    BY <1>12 DEF RxCopy
  <1>13. CASE NetRecv
    BY <1>13 DEF NetRecv
  <1>14. CASE NetPush
    BY <1>14 DEF NetPush
  <1>15. CASE NetPushTimeout
    BY <1>15 DEF NetPushTimeout
  <1>16. CASE NetRelease
    BY <1>16 DEF NetRelease
  <1>17. CASE NetCredit
    BY <1>17 DEF NetCredit
  <1>18. CASE NetTxLen
    BY <1>18 DEF NetTxLen
  <1>19. CASE NetTxCopy
    BY <1>19 DEF NetTxCopy
  <1>20. CASE WifiSend
    BY <1>20, DriversAssumption DEF WifiSend, Round
  <1>21. CASE WifiSendBody
    BY <1>21, DriversAssumption DEF WifiSendBody
  <1>22. CASE WifiSendOk
    BY <1>22 DEF WifiSendOk, Round
  <1>23. CASE UNCHANGED vars
    BY <1>23 DEF vars
  <1>24. CASE WifiClosed
    BY <1>24 DEF WifiClosed, Round
  <1>25. CASE WifiOtherLine
    BY <1>25 DEF WifiOtherLine, Round
  <1>26. CASE WifiSendTimeout
    BY <1>26 DEF WifiSendTimeout, Round
  <1>27. CASE WifiConnected
    BY <1>27 DEF WifiConnected
  <1>28. ASSUME NEW l \in {"SEND_OK", "IPD", "CLOSED", "other"}, ModemSays(l) PROVE TypeWeak'
    BY <1>28 DEF ModemSays
  <1>29. CASE ReplyLost
    BY <1>29 DEF ReplyLost
  <1>30. QED
    BY <1>1, <1>2, <1>3, <1>4, <1>5, <1>6, <1>7, <1>8, <1>9, <1>10, <1>11, <1>12,
       <1>13, <1>14, <1>15, <1>16, <1>17, <1>18, <1>19, <1>20, <1>21, <1>22, <1>23,
       <1>24, <1>25, <1>26, <1>27, <1>28, <1>29
       DEF Next, NetworkStep, MainStep, DriverStep, WifiStep, WifiReads, ModemStep

\* Every step keeps the count of the receive buffer's token: the semaphores
\* net_rx_sem and its holders together hold it once.
LEMMA RxTokenStep == TypeWeak /\ RxToken /\ [Next]_vars => RxToken'
  <1> SUFFICES ASSUME TypeWeak, RxToken, [Next]_vars PROVE RxToken'
    OBVIOUS
  <1> USE DEF TypeWeak, RxToken
  <1>1. CASE TxCall
    BY <1>1 DEF TxCall
  <1>2. CASE TxTake
    BY <1>2 DEF TxTake
  <1>3. CASE TxTimeout
    BY <1>3 DEF TxTimeout
  <1>4. CASE TxClear
    BY <1>4 DEF TxClear
  <1>5. CASE TxCopy
    BY <1>5 DEF TxCopy
  <1>6. CASE ReadBegin
    BY <1>6 DEF ReadBegin
  <1>7. CASE ReadEnd
    BY <1>7 DEF ReadEnd
  <1>8. ASSUME NEW d \in Drivers, RxCall(d) PROVE RxToken'
    BY <1>8 DEF RxCall
  <1>9. ASSUME NEW d \in Drivers, RxTake(d) PROVE RxToken'
    BY <1>9 DEF RxTake
  <1>10. ASSUME NEW d \in Drivers, RxTimeout(d) PROVE RxToken'
    BY <1>10 DEF RxTimeout
  <1>11. ASSUME NEW d \in Drivers, RxClear(d) PROVE RxToken'
    BY <1>11 DEF RxClear
  <1>12. ASSUME NEW d \in Drivers, RxCopy(d) PROVE RxToken'
    BY <1>12 DEF RxCopy
  <1>13. CASE NetRecv
    BY <1>13 DEF NetRecv
  <1>14. CASE NetPush
    BY <1>14 DEF NetPush
  <1>15. CASE NetPushTimeout
    BY <1>15 DEF NetPushTimeout
  <1>16. CASE NetRelease
    BY <1>16 DEF NetRelease
  <1>17. CASE NetCredit
    BY <1>17 DEF NetCredit
  <1>18. CASE NetTxLen
    BY <1>18 DEF NetTxLen
  <1>19. CASE NetTxCopy
    BY <1>19 DEF NetTxCopy
  <1>20. CASE WifiSend
    BY <1>20, DriversAssumption DEF WifiSend, Round
  <1>21. CASE WifiSendBody
    BY <1>21, DriversAssumption DEF WifiSendBody
  <1>22. CASE WifiSendOk
    BY <1>22 DEF WifiSendOk, Round
  <1>23. CASE UNCHANGED vars
    BY <1>23 DEF vars
  <1>24. CASE WifiClosed
    BY <1>24 DEF WifiClosed, Round
  <1>25. CASE WifiOtherLine
    BY <1>25 DEF WifiOtherLine, Round
  <1>26. CASE WifiSendTimeout
    BY <1>26 DEF WifiSendTimeout, Round
  <1>27. CASE WifiConnected
    BY <1>27 DEF WifiConnected
  <1>28. ASSUME NEW l \in {"SEND_OK", "IPD", "CLOSED", "other"}, ModemSays(l) PROVE RxToken'
    BY <1>28 DEF ModemSays
  <1>29. CASE ReplyLost
    BY <1>29 DEF ReplyLost
  <1>30. QED
    BY <1>1, <1>2, <1>3, <1>4, <1>5, <1>6, <1>7, <1>8, <1>9, <1>10, <1>11, <1>12,
       <1>13, <1>14, <1>15, <1>16, <1>17, <1>18, <1>19, <1>20, <1>21, <1>22, <1>23,
       <1>24, <1>25, <1>26, <1>27, <1>28, <1>29
       DEF Next, NetworkStep, MainStep, DriverStep, WifiStep, WifiReads, ModemStep

\* Every step keeps the received chunks in order between the buffer and the
\* network thread.
LEMMA RxOrderStep == TypeWeak /\ RxToken /\ RxOrder /\ [Next]_vars => RxOrder'
  <1> SUFFICES ASSUME TypeWeak, RxToken, RxOrder, [Next]_vars PROVE RxOrder'
    OBVIOUS
  <1> USE DEF TypeWeak, RxToken, RxOrder
  <1>1. CASE TxCall
    BY <1>1 DEF TxCall
  <1>2. CASE TxTake
    BY <1>2 DEF TxTake
  <1>3. CASE TxTimeout
    BY <1>3 DEF TxTimeout
  <1>4. CASE TxClear
    BY <1>4 DEF TxClear
  <1>5. CASE TxCopy
    BY <1>5 DEF TxCopy
  <1>6. CASE ReadBegin
    BY <1>6 DEF ReadBegin
  <1>7. CASE ReadEnd
    BY <1>7 DEF ReadEnd
  <1>8. ASSUME NEW d \in Drivers, RxCall(d) PROVE RxOrder'
    BY <1>8 DEF RxCall
  <1>9. ASSUME NEW d \in Drivers, RxTake(d) PROVE RxOrder'
    <2> USE <1>9 DEF RxTake
    <2>1. \A i \in 1..Len(pushed) : pushed[i] < rx_count'
      <3> TAKE i \in 1..Len(pushed)
      <3>1. pushed[i] \in Nat /\ pushed[i] <= rx_count OBVIOUS
      <3>2. QED BY <3>1
    <2>2. \A e \in Drivers : drv_pc'[e] \in {"clear", "copy"} => e = d
      OBVIOUS
    <2>3. drv_msg'[d] = rx_count' /\ rx_count' > 0
      OBVIOUS
    <2>4. "RX" \notin event' /\ net_pc' # "push"
      OBVIOUS
    <2>5. QED BY <2>1, <2>2, <2>3, <2>4
  <1>10. ASSUME NEW d \in Drivers, RxTimeout(d) PROVE RxOrder'
    BY <1>10 DEF RxTimeout
  <1>11. ASSUME NEW d \in Drivers, RxClear(d) PROVE RxOrder'
    BY <1>11 DEF RxClear
  <1>12. ASSUME NEW d \in Drivers, RxCopy(d) PROVE RxOrder'
    BY <1>12 DEF RxCopy
  <1>13. CASE NetRecv
    BY <1>13 DEF NetRecv
  <1>14. CASE NetPush
    BY <1>14 DEF NetPush
  <1>15. CASE NetPushTimeout
    BY <1>15 DEF NetPushTimeout
  <1>16. CASE NetRelease
    BY <1>16 DEF NetRelease
  <1>17. CASE NetCredit
    BY <1>17 DEF NetCredit
  <1>18. CASE NetTxLen
    BY <1>18 DEF NetTxLen
  <1>19. CASE NetTxCopy
    BY <1>19 DEF NetTxCopy
  <1>20. CASE WifiSend
    BY <1>20, DriversAssumption DEF WifiSend, Round
  <1>21. CASE WifiSendBody
    BY <1>21, DriversAssumption DEF WifiSendBody
  <1>22. CASE WifiSendOk
    BY <1>22 DEF WifiSendOk, Round
  <1>23. CASE UNCHANGED vars
    BY <1>23 DEF vars
  <1>24. CASE WifiClosed
    BY <1>24 DEF WifiClosed, Round
  <1>25. CASE WifiOtherLine
    BY <1>25 DEF WifiOtherLine, Round
  <1>26. CASE WifiSendTimeout
    BY <1>26 DEF WifiSendTimeout, Round
  <1>27. CASE WifiConnected
    BY <1>27 DEF WifiConnected
  <1>28. ASSUME NEW l \in {"SEND_OK", "IPD", "CLOSED", "other"}, ModemSays(l) PROVE RxOrder'
    BY <1>28 DEF ModemSays
  <1>29. CASE ReplyLost
    BY <1>29 DEF ReplyLost
  <1>30. QED
    BY <1>1, <1>2, <1>3, <1>4, <1>5, <1>6, <1>7, <1>8, <1>9, <1>10, <1>11, <1>12,
       <1>13, <1>14, <1>15, <1>16, <1>17, <1>18, <1>19, <1>20, <1>21, <1>22, <1>23,
       <1>24, <1>25, <1>26, <1>27, <1>28, <1>29
       DEF Next, NetworkStep, MainStep, DriverStep, WifiStep, WifiReads, ModemStep

\* Every step keeps the count of the transmit buffer's token.
LEMMA TxTokenStep == TypeWeak /\ TxToken /\ [Next]_vars => TxToken'
  <1> SUFFICES ASSUME TypeWeak, TxToken, [Next]_vars PROVE TxToken'
    OBVIOUS
  <1> USE DEF TypeWeak, TxToken, TxInNetwork
  <1>1. CASE TxCall
    BY <1>1, DriversAssumption DEF TxCall
  <1>2. CASE TxTake
    BY <1>2, DriversAssumption DEF TxTake, MainRuns, NetworkReady
  <1>3. CASE TxTimeout
    BY <1>3, DriversAssumption DEF TxTimeout
  <1>4. CASE TxClear
    BY <1>4, DriversAssumption DEF TxClear
  <1>5. CASE TxCopy
    BY <1>5, DriversAssumption DEF TxCopy
  <1>6. CASE ReadBegin
    BY <1>6, DriversAssumption DEF ReadBegin
  <1>7. CASE ReadEnd
    BY <1>7, DriversAssumption DEF ReadEnd
  <1>8. ASSUME NEW d \in Drivers, RxCall(d) PROVE TxToken'
    BY <1>8, DriversAssumption DEF RxCall
  <1>9. ASSUME NEW d \in Drivers, RxTake(d) PROVE TxToken'
    BY <1>9, DriversAssumption DEF RxTake
  <1>10. ASSUME NEW d \in Drivers, RxTimeout(d) PROVE TxToken'
    BY <1>10, DriversAssumption DEF RxTimeout
  <1>11. ASSUME NEW d \in Drivers, RxClear(d) PROVE TxToken'
    BY <1>11, DriversAssumption DEF RxClear
  <1>12. ASSUME NEW d \in Drivers, RxCopy(d) PROVE TxToken'
    BY <1>12, DriversAssumption DEF RxCopy
  <1>13. CASE NetRecv
    BY <1>13, DriversAssumption DEF NetRecv
  <1>14. CASE NetPush
    BY <1>14, DriversAssumption DEF NetPush
  <1>15. CASE NetPushTimeout
    BY <1>15, DriversAssumption DEF NetPushTimeout
  <1>16. CASE NetRelease
    BY <1>16, DriversAssumption DEF NetRelease
  <1>17. CASE NetCredit
    BY <1>17, DriversAssumption DEF NetCredit
  <1>18. CASE NetTxLen
    BY <1>18, DriversAssumption DEF NetTxLen
  <1>19. CASE NetTxCopy
    BY <1>19, DriversAssumption DEF NetTxCopy
  <1>20. CASE WifiSend
    BY <1>20, DriversAssumption DEF WifiSend, Round
  <1>21. CASE WifiSendBody
    BY <1>21, DriversAssumption DEF WifiSendBody
  <1>22. CASE WifiSendOk
    BY <1>22, DriversAssumption DEF WifiSendOk, Round
  <1>23. CASE UNCHANGED vars
    BY <1>23 DEF vars
  <1>24. CASE WifiClosed
    BY <1>24, DriversAssumption DEF WifiClosed, Round
  <1>25. CASE WifiOtherLine
    BY <1>25, DriversAssumption DEF WifiOtherLine, Round
  <1>26. CASE WifiSendTimeout
    BY <1>26, DriversAssumption DEF WifiSendTimeout, Round
  <1>27. CASE WifiConnected
    BY <1>27, DriversAssumption DEF WifiConnected
  <1>28. ASSUME NEW l \in {"SEND_OK", "IPD", "CLOSED", "other"}, ModemSays(l) PROVE TxToken'
    BY <1>28, DriversAssumption DEF ModemSays
  <1>29. CASE ReplyLost
    BY <1>29, DriversAssumption DEF ReplyLost
  <1>30. QED
    BY <1>1, <1>2, <1>3, <1>4, <1>5, <1>6, <1>7, <1>8, <1>9, <1>10, <1>11, <1>12,
       <1>13, <1>14, <1>15, <1>16, <1>17, <1>18, <1>19, <1>20, <1>21, <1>22, <1>23,
       <1>24, <1>25, <1>26, <1>27, <1>28, <1>29
       DEF Next, NetworkStep, MainStep, DriverStep, WifiStep, WifiReads, ModemStep

\* An element of a sequence over S is in S.
LEMMA ElementInSet == \A S : \A s \in Seq(S) : \A i \in 1..Len(s) : s[i] \in S
  OBVIOUS

\* A frame on the air has a length.
LEMMA FrameLength == ASSUME TypeWeak, NEW i \in 1..Len(on_air) PROVE on_air[i].len \in Nat
  <1>1. on_air \in Seq([len : Nat, data : Nat]) BY DEF TypeWeak
  <1>2. on_air[i] \in [len : Nat, data : Nat] BY <1>1, ElementInSet, Zenon
  <1>3. QED BY <1>2

\* Every step keeps the frames in the order net_tx_write accepted them.
LEMMA TxOrderStep == TypeWeak /\ TxToken /\ TxOrder /\ [Next]_vars => TxOrder'
  <1> SUFFICES ASSUME TypeWeak, TxToken, TxOrder, [Next]_vars PROVE TxOrder'
    OBVIOUS
  <1> USE DEF TypeWeak, TxToken, TxInNetwork, TxOrder, NotOnAir, FramesInOrder
  <1>1. CASE TxCall
    <2> USE <1>1, DriversAssumption DEF TxCall
    <2>1. main_msg' = tx_calls + 1 /\ tx_calls' = tx_calls + 1 /\ main_pc' = "take" /\ on_air' = on_air
      OBVIOUS
    <2>2. NotOnAir(main_msg)' /\ NotOnAir(tx_calls + 1)'
      <3> SUFFICES ASSUME NEW i \in 1..Len(on_air)
                   PROVE  on_air[i].len < tx_calls + 1 /\ on_air[i].len < tx_calls + 2
        BY <2>1
      <3>1. on_air[i].len \in Nat BY FrameLength
      <3>2. on_air[i].len < tx_calls + 1 OBVIOUS
      <3>3. QED BY <3>1, <3>2
    <2>3. FramesInOrder' /\ UNCHANGED <<event, net_tx_len, net_tx_buf, wifiVars, netVars, drvVars, raced>>
      OBVIOUS
    <2>4. ("TX" \in event \/ TxInNetwork)' => net_tx_len' < main_msg' /\ net_tx_len' <= tx_calls'
      BY <2>1, <2>3
    <2>5. wifi_tx_len' # 0 => wifi_tx_len' < main_msg' /\ wifi_tx_len' <= tx_calls'
      BY <2>1, <2>3
    <2>6. QED BY <2>1, <2>2, <2>3, <2>4, <2>5
  <1>2. CASE TxTake
    BY <1>2, DriversAssumption DEF TxTake, MainRuns, NetworkReady
  <1>3. CASE TxTimeout
    BY <1>3, DriversAssumption DEF TxTimeout
  <1>4. CASE TxClear
    BY <1>4, DriversAssumption DEF TxClear
  <1>5. CASE TxCopy
    BY <1>5, DriversAssumption DEF TxCopy, MainRuns, NetworkReady
  <1>6. CASE ReadBegin
    BY <1>6, DriversAssumption DEF ReadBegin
  <1>7. CASE ReadEnd
    BY <1>7, DriversAssumption DEF ReadEnd
  <1>8. ASSUME NEW d \in Drivers, RxCall(d) PROVE TxOrder'
    BY <1>8, DriversAssumption DEF RxCall
  <1>9. ASSUME NEW d \in Drivers, RxTake(d) PROVE TxOrder'
    BY <1>9, DriversAssumption DEF RxTake
  <1>10. ASSUME NEW d \in Drivers, RxTimeout(d) PROVE TxOrder'
    BY <1>10, DriversAssumption DEF RxTimeout
  <1>11. ASSUME NEW d \in Drivers, RxClear(d) PROVE TxOrder'
    BY <1>11, DriversAssumption DEF RxClear
  <1>12. ASSUME NEW d \in Drivers, RxCopy(d) PROVE TxOrder'
    BY <1>12, DriversAssumption DEF RxCopy
  <1>13. CASE NetRecv
    BY <1>13, DriversAssumption DEF NetRecv
  <1>14. CASE NetPush
    BY <1>14, DriversAssumption DEF NetPush
  <1>15. CASE NetPushTimeout
    BY <1>15, DriversAssumption DEF NetPushTimeout
  <1>16. CASE NetRelease
    BY <1>16, DriversAssumption DEF NetRelease
  <1>17. CASE NetCredit
    BY <1>17, DriversAssumption DEF NetCredit
  <1>18. CASE NetTxLen
    BY <1>18, DriversAssumption DEF NetTxLen
  <1>19. CASE NetTxCopy
    BY <1>19, DriversAssumption DEF NetTxCopy
  <1>20. CASE WifiSend
    BY <1>20, DriversAssumption DEF WifiSend, Round
  <1>21. CASE WifiSendBody
    <2> USE <1>21, DriversAssumption DEF WifiSendBody
    <2> DEFINE f == [len |-> wifi_tx_len, data |-> uart3_tx_buf]
    <2>1. on_air' = Append(on_air, f) /\ f \in [len : Nat, data : Nat] /\ Len(on_air') = Len(on_air) + 1
      OBVIOUS
    <2>2. \A i \in 1..Len(on_air) : on_air'[i] = on_air[i]
      BY <2>1
    <2>3. on_air'[Len(on_air) + 1] = f
      BY <2>1
    <2>4. wifi_tx_len # 0 /\ NotOnAir(wifi_tx_len)
      OBVIOUS
    <2>5. f.len \notin raced => f.data = f.len
      OBVIOUS
    <2>6. FramesInOrder'
      <3>1. ASSUME NEW i \in 1..Len(on_air'), NEW j \in 1..Len(on_air'), i < j
            PROVE  on_air'[i].len < on_air'[j].len
        <4>1. i \in 1..Len(on_air) BY <3>1, <2>1
        <4>2. CASE j \in 1..Len(on_air)
          <5>1. on_air[i].len < on_air[j].len BY <4>1, <4>2, <3>1
          <5>2. on_air'[i] = on_air[i] /\ on_air'[j] = on_air[j] BY <4>1, <4>2, <2>2
          <5>3. QED BY ONLY <5>1, <5>2
        <4>3. CASE j = Len(on_air) + 1
          <5>1. on_air[i].len < wifi_tx_len BY <4>1, <2>4
          <5>2. on_air'[i] = on_air[i] /\ on_air'[j] = f /\ f.len = wifi_tx_len BY <4>1, <4>3, <2>2, <2>3
          <5>3. QED BY ONLY <5>1, <5>2
        <4>4. QED BY <4>2, <4>3, <2>1
      <3>2. ASSUME NEW i \in 1..Len(on_air'), on_air'[i].len \notin raced PROVE on_air'[i].data = on_air'[i].len
        <4>1. CASE i \in 1..Len(on_air) BY <3>2, <4>1, <2>2
        <4>2. CASE i = Len(on_air) + 1 BY <3>2, <4>2, <2>3, <2>5
        <4>3. QED BY <4>1, <4>2, <2>1
      <3>3. QED BY <3>1, <3>2
    <2>7. NotOnAir(tx_calls + 1)'
      <3>1. ASSUME NEW i \in 1..Len(on_air') PROVE on_air'[i].len < tx_calls + 1
        <4>1. CASE i \in 1..Len(on_air)
          <5>1. on_air'[i].len = on_air[i].len /\ on_air[i].len < tx_calls + 1 BY <4>1, <2>2
          <5>2. QED BY <5>1
        <4>2. CASE i = Len(on_air) + 1 BY <4>2, <2>3, <2>4
        <4>3. i \in 1..Len(on_air) \/ i = Len(on_air) + 1
          <5>1. Len(on_air) \in Nat /\ Len(on_air') = Len(on_air) + 1 BY <2>1
          <5>2. QED BY ONLY <5>1, i \in 1..Len(on_air')
        <4>4. QED BY <4>1, <4>2, <4>3, Zenon
      <3>2. QED BY <3>1
    <2>8. main_pc # "take" => main_pc \notin {"clear", "copy"}
      BY <2>4
    <2>9. main_pc = "take" => NotOnAir(main_msg)'
      BY <2>1, <2>2, <2>3, <2>4
    <2>10. "TX" \notin event /\ ~TxInNetwork
      BY <2>4
    <2>11. QED BY <2>6, <2>7, <2>8, <2>9, <2>10
  <1>22. CASE WifiSendOk
    BY <1>22, DriversAssumption DEF WifiSendOk, Round
  <1>23. CASE UNCHANGED vars
    BY <1>23 DEF vars
  <1>24. CASE WifiClosed
    BY <1>24, DriversAssumption DEF WifiClosed, Round
  <1>25. CASE WifiOtherLine
    BY <1>25, DriversAssumption DEF WifiOtherLine, Round
  <1>26. CASE WifiSendTimeout
    BY <1>26, DriversAssumption DEF WifiSendTimeout, Round
  <1>27. CASE WifiConnected
    BY <1>27, DriversAssumption DEF WifiConnected
  <1>28. ASSUME NEW l \in {"SEND_OK", "IPD", "CLOSED", "other"}, ModemSays(l) PROVE TxOrder'
    BY <1>28, DriversAssumption DEF ModemSays
  <1>29. CASE ReplyLost
    BY <1>29, DriversAssumption DEF ReplyLost
  <1>30. QED
    BY <1>1, <1>2, <1>3, <1>4, <1>5, <1>6, <1>7, <1>8, <1>9, <1>10, <1>11, <1>12,
       <1>13, <1>14, <1>15, <1>16, <1>17, <1>18, <1>19, <1>20, <1>21, <1>22, <1>23,
       <1>24, <1>25, <1>26, <1>27, <1>28, <1>29
       DEF Next, NetworkStep, MainStep, DriverStep, WifiStep, WifiReads, ModemStep

\* The inductive invariant holds in every behaviour.
LEMMA IInvInvariant == Spec => []IInv
  <1>1. IInv /\ [Next]_vars => IInv'
    BY TypeWeakStep, RxTokenStep, RxOrderStep, TxTokenStep, TxOrderStep DEF IInv
  <1>2. QED BY InitIInv, <1>1, PTL DEF Spec

\* The variables of network.c stay in their ranges; no semaphore that guards a
\* buffer counts past 1, whatever the threads do.
THEOREM TypeCorrect == Spec => []TypeOK
  <1>1. IInv => TypeOK
    BY DEF IInv, TypeWeak, RxToken, TxToken, TypeOK
  <1>2. QED BY IInvInvariant, <1>1, PTL

\* net_rx_buf never has two users (net_rx_write against network_thread_entry
\* and against itself), for any set of driver threads.
THEOREM RxBufExclusive == Spec => []RxBufOwned
  <1>1. IInv => RxBufOwned
    BY DEF IInv, RxToken, RxBufOwned
  <1>2. QED BY IInvInvariant, <1>1, PTL

\* net_tx_buf is never rewritten under the network thread's copy.
THEOREM TxBufExclusive == Spec => []TxBufOwned
  <1>1. IInv => TxBufOwned
    BY DEF IInv, TypeWeak, TxToken, TxInNetwork, TxBufOwned
  <1>2. QED BY IInvInvariant, <1>1, PTL

\* Messages reach the modem at most once, in the order main handed them to
\* net_tx_write, and with their own bytes outside the window of lines 80-81.
THEOREM FramesOrdered == Spec => []FramesInOrder
  <1>1. IInv => FramesInOrder
    BY DEF IInv, TxOrder
  <1>2. QED BY IInvInvariant, <1>1, PTL

\* The receive side implements the one-slot hand-off of OneSlot.
THEOREM RxRefinement == Spec => RxHandsOff
  <1>1. Init => RxSlot!Init
    BY DEF Init, RxSlot!Init, RxWaiting
  <1>2. IInv /\ [Next]_vars => [RxSlot!Next]_(RxSlot!slotVars)
    <2> SUFFICES ASSUME IInv, [Next]_vars
                 PROVE  RxSlot!Put \/ RxSlot!Take \/ RxSlot!Lose \/ UNCHANGED <<RxWaiting, pushed>>
      BY DEF RxSlot!Next, RxSlot!slotVars
    <2> USE DEF IInv, TypeWeak, RxToken, RxOrder, RxWaiting
    <2>1. ASSUME NEW d \in Drivers, RxCopy(d) PROVE RxSlot!Put
      BY <2>1 DEF RxCopy, RxSlot!Put
    <2>2. ASSUME NetPush PROVE RxSlot!Take
      BY <2>2 DEF NetPush, RxSlot!Take
    <2>3. ASSUME NetPushTimeout PROVE RxSlot!Lose
      BY <2>3 DEF NetPushTimeout, RxSlot!Lose
    <2>4. ASSUME NEW d \in Drivers, RxClear(d) PROVE UNCHANGED <<RxWaiting, pushed>>
      BY <2>4 DEF RxClear
    <2>5. ASSUME NEW d \in Drivers, RxCall(d) \/ RxTake(d) \/ RxTimeout(d)
          PROVE  UNCHANGED <<RxWaiting, pushed>>
      BY <2>5 DEF RxCall, RxTake, RxTimeout
    <2>6. ASSUME MainStep PROVE UNCHANGED <<RxWaiting, pushed>>
      BY <2>6 DEF MainStep, TxCall, TxTake, TxTimeout, TxClear, TxCopy, ReadBegin, ReadEnd
    <2>7. ASSUME NetRecv \/ NetRelease \/ NetCredit \/ NetTxLen \/ NetTxCopy
          PROVE  UNCHANGED <<RxWaiting, pushed>>
      BY <2>7 DEF NetRecv, NetRelease, NetCredit, NetTxLen, NetTxCopy
    <2>8. ASSUME WifiStep \/ ModemStep PROVE UNCHANGED <<RxWaiting, pushed>>
      BY <2>8 DEF WifiStep, WifiReads, WifiClosed, WifiSendOk, WifiOtherLine, WifiSend, WifiSendBody,
                  WifiSendTimeout, WifiConnected, ModemStep, ModemSays, ReplyLost
    <2>9. ASSUME UNCHANGED vars PROVE UNCHANGED <<RxWaiting, pushed>>
      BY <2>9 DEF vars
    <2>10. QED
      BY <2>1, <2>2, <2>3, <2>4, <2>5, <2>6, <2>7, <2>8, <2>9 DEF Next, NetworkStep, DriverStep
  <1>3. QED BY IInvInvariant, <1>1, <1>2, PTL DEF Spec, RxHandsOff, RxSlot!Spec
=============================================================================
