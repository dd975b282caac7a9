---------------------------- MODULE DriverProofs ----------------------------
(***************************************************************************)
(* Drivers: PacketsKept of LoRaRadio, for every number of packets and      *)
(* every choice of times in which the chip is done with a window and a     *)
(* packet before the next poll (RadioTimes); and RightButOnFirsts of       *)
(* RtcCalendar, for every day to the end of 2099 and every second of it.   *)
(***************************************************************************)
EXTENDS LoRaRadio, RtcCalendar, WellFoundedInduction, TLAPS

\* The chip is busy for less than a poll period: what RxInit, TxInit or CadInit
\* started is over when the driver looks again.
ChipTimes ==
    /\ onAir # None => opMode = "RECEIVER_SINGLE"
    /\ opMode = "RECEIVER_SINGLE" /\ onAir = None => pollAge <= chipAge /\ chipAge <= Window
    /\ onAir # None => pollAge <= Window + chipAge /\ chipAge <= Air
    /\ opMode \in {"TRANSMITTER", "CAD"} => pollAge <= chipAge /\ chipAge <= Air

\* The driver reads the chip's buffer only after something was received into it.
Buffers ==
    /\ onAir \in {None} \cup Theirs
    /\ RFBuffer # None
    /\ "RxDone" \in irq \/ RFLRState = "RX_DONE" => fifo # None
    /\ RFLRState = "RX_RUNNING" => dio0 = "RxDone"

\* A listening station: the flags of a packet are those of the packet in the
\* chip's buffer, and they are clear whenever the receiver is started.
Listening ==
    client = "listen" =>
      /\ RFLRState \in RxStates
      /\ "RxDone" \notin mask /\ "CrcError" \notin mask
      /\ RFLRState # "RX_RUNNING" => opMode # "RECEIVER_SINGLE" /\ "RxDone" \notin irq
      /\ RFLRState \in {"RX_INIT", "RX_TIMEOUT"} \/ opMode = "RECEIVER_SINGLE"
           => "RxDone" \notin irq /\ "CrcError" \notin irq
      /\ RFLRState = "RX_RUNNING" /\ "CrcError" \in irq => "RxDone" \in irq
      /\ heard = delivered \o Waiting

\* A sending station: which packet is where in each state of the driver.
Sending ==
    /\ Len(asked) <= MaxSends
    /\ \A i \in 1..Len(asked) : asked[i] = MaxPackets + i
    /\ \A i \in 1..Len(aired) : aired[i] = MaxPackets + i
    /\ Len(aired) = IF RFLRState = "TX_INIT" \/ opMode = "TRANSMITTER" THEN Len(asked) - 1
                    ELSE Len(asked)
    /\ reported = IF RFLRState \in TxStates THEN Len(asked) - 1 ELSE Len(asked)
    /\ RFLRState \in TxStates => Len(asked) > 0
    /\ RFLRState = "TX_INIT" => RFBuffer = MaxPackets + Len(asked)
    /\ opMode = "TRANSMITTER" => RFLRState = "TX_RUNNING" /\ fifo = MaxPackets + Len(asked)
    /\ "TxDone" \in irq => RFLRState = "TX_RUNNING" /\ opMode # "TRANSMITTER"
    /\ RFLRState = "TX_RUNNING" => dio0 = "TxDone"

\* What the assumption on the times says of its numbers.
LEMMA Times ==
    /\ Poll \in Nat /\ Late \in Nat /\ PacketTimeout \in Nat /\ Window \in Nat /\ Air \in Nat
    /\ MaxPackets \in Nat /\ MaxSends \in Nat /\ Poll > 0 /\ Air > 0 /\ Window + Air < Poll
    BY RadioTimes

\* Appending is concatenating one element.
LEMMA AppendIsConcat ==
    ASSUME NEW S, NEW s \in Seq(S), NEW x \in S
    PROVE  Append(s, x) = s \o <<x>>
    OBVIOUS

\* A poll finds the chip in standby.
LEMMA PollFindsStandby ==
    ASSUME TypeOK, ChipTimes, PollDue
    PROVE  opMode = "STANDBY" /\ onAir = None
    <1>1. pollAge \in Nat /\ chipAge \in Nat
        BY Times DEF TypeOK
    <1>2. onAir = None /\ opMode \notin {"RECEIVER_SINGLE", "TRANSMITTER", "CAD"}
        BY <1>1, Times DEF ChipTimes, PollDue
    <1> QED  BY <1>2 DEF TypeOK, Modes

\* By way of standby the chip always enters the mode it is asked for.
LEMMA ThroughEnters ==
    ASSUME NEW copy, NEW chip, NEW m, m # "STANDBY"
    PROVE  Through(copy, chip, m) = [copy |-> m, chip |-> m]
    BY DEF Through, SetOpMode

\* What the three actions that start the chip do.
LEMMA Starts ==
    ASSUME NEW m, m # "STANDBY", NEW hide, NEW pin, EnterMode(Through(RegOpMode, opMode, m), hide, pin)
    PROVE  RegOpMode' = m /\ opMode' = m /\ mask' = hide /\ dio0' = pin /\ onAir' = None /\ chipAge' = 0
    <1>1. Through(RegOpMode, opMode, m) = [copy |-> m, chip |-> m]
        BY ThroughEnters
    <1> QED  BY <1>1 DEF EnterMode
----------------------------------------------------------------------------
\* A step of the chip is over before the driver polls again.
LEMMA ChipTimesStep == TypeOK /\ ChipTimes /\ [Next]_vars => ChipTimes'
    <1> SUFFICES ASSUME TypeOK, ChipTimes, [Next]_vars PROVE ChipTimes'
        OBVIOUS
    <1> USE Times DEF None
    <1>0. pollAge \in Nat /\ chipAge \in Nat /\ onAir \in Nat /\ opMode \in Modes
        BY DEF TypeOK, Theirs, Ours, Blank
    <1>p. PollDue => opMode = "STANDBY" /\ onAir = None
        BY PollFindsStandby
    <1>1. CASE ChipHears
        <2>1. sent \in Nat /\ onAir' = sent + 1 /\ onAir' # None
            BY <1>1 DEF ChipHears, TypeOK
        <2> QED  BY <1>0, <1>1, <2>1 DEF ChipHears, ChipTimes, driverVars
    <1>2. CASE ChipRxDone \/ ChipRxTimeout \/ ChipTxDone \/ ChipCadDone
        <2>1. opMode' = "STANDBY" /\ onAir' = None
            BY <1>2 DEF ChipRxDone, ChipRxTimeout, ChipTxDone, ChipCadDone, ChipTimes
        <2> QED  BY <2>1 DEF ChipTimes
    <1>3. CASE ChipHops
        BY <1>3 DEF ChipHops, ChipTimes, driverVars
    <1>4. CASE Tick
        BY <1>0, <1>4 DEF Tick, ChipTimes, Aged
    <1>5. CASE Idle \/ RxRunning \/ RxDone \/ RxTimeout \/ TxRunning \/ TxDone \/ CadRunning
        <2>1. opMode' = "STANDBY" /\ onAir' = None
            BY <1>5, <1>p DEF Idle, RxRunning, RxDone, RxTimeout, TxRunning, TxDone, CadRunning, chipVars, SetOpMode
        <2> QED  BY <2>1 DEF ChipTimes
    <1>6. CASE RxInit
        <2>1. onAir' = None /\ chipAge' = 0 /\ pollAge' = 0
            BY <1>6, Starts DEF RxInit, StartReceiver
        <2> QED  BY <2>1 DEF ChipTimes
    <1>7. CASE TxInit
        <2>1. onAir' = None /\ chipAge' = 0 /\ pollAge' = 0
            BY <1>7, Starts DEF TxInit, StartTransmitter
        <2> QED  BY <2>1 DEF ChipTimes
    <1>8. CASE CadInit
        <2>1. onAir' = None /\ chipAge' = 0 /\ pollAge' = 0
            BY <1>8, Starts DEF CadInit
        <2> QED  BY <2>1 DEF ChipTimes
    <1>9. CASE SetTxPacket \/ StartRx \/ StartCad \/ UNCHANGED vars
        BY <1>9 DEF SetTxPacket, StartRx, StartCad, vars, chipVars, driverVars, ChipTimes
    <1> QED
        BY <1>1, <1>2, <1>3, <1>4, <1>5, <1>6, <1>7, <1>8, <1>9 DEF Next, Chip, Process

\* Every step of the driver, the chip and the client keeps the buffer filled before it is read.
LEMMA BuffersStep == TypeOK /\ Buffers /\ [Next]_vars => Buffers'
    <1> SUFFICES ASSUME TypeOK, Buffers, [Next]_vars PROVE Buffers'
        OBVIOUS
    <1> USE Times DEF None
    <1>0. irq \subseteq Flags /\ sent \in Nat
        BY DEF TypeOK
    <1>1. CASE ChipHears
        <2>1. onAir' \in Theirs
            BY <1>0, <1>1 DEF ChipHears, Theirs
        <2> QED  BY <1>1, <2>1 DEF ChipHears, Buffers, driverVars
    <1>2. CASE ChipRxDone
        BY <1>2 DEF ChipRxDone, Buffers, driverVars
    <1>3. CASE ChipRxTimeout \/ ChipHops \/ ChipTxDone \/ ChipCadDone
        BY <1>3 DEF ChipRxTimeout, ChipHops, ChipTxDone, ChipCadDone, Buffers, driverVars
    <1>4. CASE Tick
        BY <1>4 DEF Tick, Buffers
    <1>5. CASE Idle \/ RxTimeout
        BY <1>5 DEF Idle, RxTimeout, Buffers, chipVars
    <1>6. CASE RxRunning
        <2>1. /\ RFLRState = "RX_RUNNING" /\ UNCHANGED <<RFBuffer, dio0, fifo, onAir>>
              /\ irq' \subseteq irq /\ (RFLRState' = "RX_DONE" => DIO0)
            BY <1>6 DEF RxRunning, Clear
        <2>2. RFLRState' = "RX_DONE" => "RxDone" \in irq
            BY <2>1 DEF DIO0, Buffers
        <2> QED  BY <2>1, <2>2 DEF Buffers
    <1>7. CASE RxDone
        BY <1>7 DEF RxDone, Buffers, Clear
    <1>8. CASE TxRunning \/ TxDone \/ CadRunning
        BY <1>8 DEF TxRunning, TxDone, CadRunning, Clear, Buffers, DIO3, DIO4
    <1>9. CASE RxInit
        <2>1. /\ dio0' = "RxDone" /\ onAir' = None /\ RFBuffer' = Blank /\ RFLRState' = "RX_RUNNING"
              /\ irq' = irq /\ fifo' = fifo
            BY <1>9, Starts DEF RxInit, StartReceiver
        <2> QED  BY <2>1 DEF Buffers, Blank
    <1>10. CASE TxInit
        <2>1. onAir' = None /\ RFBuffer' = RFBuffer /\ RFLRState' = "TX_RUNNING" /\ fifo' = RFBuffer
            BY <1>10, Starts DEF TxInit, StartTransmitter
        <2> QED  BY <2>1 DEF Buffers
    <1>11. CASE CadInit
        <2>1. onAir' = None /\ RFBuffer' = RFBuffer /\ RFLRState' = "CAD_RUNNING" /\ irq' = irq /\ fifo' = fifo
            BY <1>11, Starts DEF CadInit
        <2> QED  BY <2>1 DEF Buffers
    <1>12. CASE SetTxPacket
        <2>1. /\ RFBuffer' = MaxPackets + Len(asked) + 1 /\ RFLRState' = "TX_INIT" /\ UNCHANGED chipVars
            BY <1>12 DEF SetTxPacket
        <2>2. Len(asked) \in Nat
            BY DEF TypeOK
        <2> QED  BY <2>1, <2>2 DEF Buffers, chipVars
    <1>13. CASE StartRx \/ StartCad \/ UNCHANGED vars
        BY <1>13 DEF StartRx, StartCad, vars, chipVars, driverVars, Buffers
    <1> QED
        BY <1>1, <1>2, <1>3, <1>4, <1>5, <1>6, <1>7, <1>8, <1>9, <1>10, <1>11, <1>12, <1>13
        DEF Next, Chip, Process

\* No step mixes the flags of two packets or delivers one twice.
LEMMA ListeningStep ==
    TypeOK /\ ChipTimes /\ Buffers /\ Listening /\ [Next]_vars => Listening'
    <1> SUFFICES ASSUME TypeOK, ChipTimes, Buffers, Listening, [Next]_vars, client' = "listen"
                 PROVE  Listening'
        BY DEF Listening
    <1> USE Times
    <1>0. /\ heard \in Seq(Theirs) /\ delivered \in Seq({Blank} \cup Theirs \cup Ours)
          /\ rxAge \in Nat
        BY DEF TypeOK
    <1>c. client = "listen"
        BY DEF Next, vars, Chip, Process, ChipHears, ChipRxDone, ChipRxTimeout, ChipHops, ChipTxDone,
           ChipCadDone, Tick, Idle, RxInit, StartReceiver, RxRunning, RxDone, RxTimeout, TxInit,
           StartTransmitter, TxRunning, TxDone, CadInit, CadRunning, SetTxPacket, StartRx, StartCad, NoHistory
    <1>l. /\ RFLRState \in RxStates
          /\ "RxDone" \notin mask /\ "CrcError" \notin mask
          /\ RFLRState # "RX_RUNNING" => opMode # "RECEIVER_SINGLE" /\ "RxDone" \notin irq
          /\ RFLRState \in {"RX_INIT", "RX_TIMEOUT"} \/ opMode = "RECEIVER_SINGLE"
               => "RxDone" \notin irq /\ "CrcError" \notin irq
          /\ RFLRState = "RX_RUNNING" /\ "CrcError" \in irq => "RxDone" \in irq
          /\ heard = delivered \o Waiting
        BY <1>c DEF Listening
    <1>p. PollDue => opMode = "STANDBY" /\ onAir = None
        BY PollFindsStandby
    \* A step that leaves the two flags, the buffer and what was handed over alone.
    <1>k. ASSUME RFLRState' \in RxStates,
                 "RxDone" \in irq' <=> "RxDone" \in irq, "CrcError" \in irq' <=> "CrcError" \in irq,
                 RFLRState' = "RX_DONE" <=> RFLRState = "RX_DONE",
                 UNCHANGED <<fifo, heard, delivered>>
          PROVE  heard' = delivered' \o Waiting'
        <2>1. Waiting' = Waiting
            BY <1>k DEF Waiting
        <2> QED  BY <1>k, <1>l, <2>1
    <1>1. CASE ChipHears \/ ChipRxTimeout \/ Tick \/ UNCHANGED vars
        <2>1. /\ UNCHANGED <<RFLRState, mask, irq, fifo, heard, delivered>> /\ opMode' \in {opMode, "STANDBY"}
            BY <1>1 DEF ChipHears, ChipRxTimeout, Tick, vars, driverVars, chipVars
        <2>2. heard' = delivered' \o Waiting'
            BY <1>k, <1>l, <2>1
        <2> QED  BY <1>l, <2>1, <2>2 DEF Listening
    <1>2. CASE ChipRxDone
        <2>1. opMode = "RECEIVER_SINGLE" /\ RFLRState = "RX_RUNNING"
            BY <1>2, <1>l DEF ChipRxDone
        <2>2. PICK good \in BOOLEAN :
                /\ irq' = irq \cup (({"RxDone"} \cup IF good THEN {} ELSE {"CrcError"}) \ mask)
                /\ heard' = IF good THEN Append(heard, onAir) ELSE heard
            BY <1>2 DEF ChipRxDone
        <2>3. "RxDone" \in irq' /\ ("CrcError" \in irq' <=> ~good)
            BY <1>l, <2>1, <2>2
        <2>4. UNCHANGED <<RFLRState, mask, delivered>> /\ fifo' = onAir /\ opMode' = "STANDBY"
            BY <1>2 DEF ChipRxDone, driverVars
        <2>5. Waiting = <<>> /\ Waiting' = IF good THEN <<onAir>> ELSE <<>>
            BY <1>l, <2>1, <2>3, <2>4 DEF Waiting
        <2>6. onAir \in Theirs
            BY <1>2 DEF ChipRxDone, Buffers
        <2>7. heard = delivered
            BY <1>0, <1>l, <2>5
        <2>8. heard' = delivered' \o Waiting'
            <3>1. CASE good
                BY <1>0, <2>2, <2>4, <2>5, <2>6, <2>7, <3>1
            <3>2. CASE ~good
                BY <1>0, <2>2, <2>4, <2>5, <2>7, <3>2
            <3> QED  BY <3>1, <3>2
        <2> QED  BY <1>l, <2>1, <2>3, <2>4, <2>8 DEF Listening
    <1>3. CASE ChipHops
        <2>1. UNCHANGED <<RFLRState, mask, fifo, heard, delivered, opMode>> /\ irq' = irq \cup {"Fhss"}
            BY <1>3 DEF ChipHops, driverVars
        <2>2. heard' = delivered' \o Waiting'
            BY <1>k, <1>l, <2>1
        <2> QED  BY <1>l, <2>1, <2>2 DEF Listening
    <1>4. CASE ChipTxDone \/ ChipCadDone
        <2>1. /\ UNCHANGED <<RFLRState, mask, fifo, heard, delivered>> /\ opMode' = "STANDBY"
              /\ irq \subseteq irq' /\ irq' \subseteq irq \cup {"TxDone", "CadDone", "CadDetected"}
              /\ opMode # "RECEIVER_SINGLE"
            BY <1>4 DEF ChipTxDone, ChipCadDone, driverVars
        <2>2. heard' = delivered' \o Waiting'
            BY <1>k, <1>l, <2>1
        <2> QED  BY <1>l, <2>1, <2>2 DEF Listening
    <1>5. CASE RxInit
        <2>1. RFLRState = "RX_INIT" /\ RFLRState' = "RX_RUNNING" /\ UNCHANGED <<irq, fifo, heard, delivered>>
            BY <1>5 DEF RxInit, StartReceiver, NoHistory
        <2>2. opMode' = "RECEIVER_SINGLE" /\ mask' = {"TxDone", "CadDone", "CadDetected"}
            BY <1>5, Starts DEF RxInit, StartReceiver
        <2>3. heard' = delivered' \o Waiting'
            BY <1>k, <2>1 DEF RxStates
        <2> QED  BY <1>l, <2>1, <2>2, <2>3 DEF Listening, RxStates
    <1>6. CASE RxRunning
        <2>1. /\ PollDue /\ RFLRState = "RX_RUNNING" /\ UNCHANGED <<opMode, mask, fifo, heard, delivered>>
              /\ irq' = irq \ ({"Fhss"} \cup IF DIO0 THEN {"RxDone"} ELSE {})
              /\ RFLRState' = IF RunningAge > PacketTimeout THEN "RX_TIMEOUT"
                              ELSE IF DIO0 THEN "RX_DONE" ELSE "RX_RUNNING"
            BY <1>6 DEF RxRunning, Clear, NoHistory
        <2>2. (DIO0 <=> "RxDone" \in irq) /\ opMode' = "STANDBY"
            BY <1>p, <2>1 DEF DIO0, Buffers
        <2>3. CASE "RxDone" \in irq
            <3>1. RunningAge = 0
                BY <2>2, <2>3 DEF RunningAge
            <3>2. RFLRState' = "RX_DONE" /\ "RxDone" \notin irq' /\ ("CrcError" \in irq' <=> "CrcError" \in irq)
                BY <2>1, <2>2, <2>3, <3>1
            <3>3. Waiting' = Waiting
                BY <2>1, <2>3, <3>2 DEF Waiting
            <3> QED  BY <1>l, <2>1, <2>2, <3>2, <3>3 DEF Listening, RxStates
        <2>4. CASE "RxDone" \notin irq
            <3>1. /\ RFLRState' \in {"RX_TIMEOUT", "RX_RUNNING"} /\ "RxDone" \notin irq'
                  /\ "CrcError" \notin irq /\ "CrcError" \notin irq'
                BY <1>l, <2>1, <2>2, <2>4
            <3>2. heard' = delivered' \o Waiting'
                BY <1>k, <2>1, <2>4, <3>1 DEF RxStates
            <3> QED  BY <1>l, <2>1, <2>2, <3>1, <3>2 DEF Listening, RxStates
        <2> QED  BY <2>3, <2>4
    <1>7. CASE RxDone
        <2>1. /\ PollDue /\ RFLRState = "RX_DONE" /\ RFLRState' = "RX_INIT" /\ UNCHANGED <<opMode, mask, fifo, heard>>
              /\ IF "CrcError" \in irq THEN irq' = irq \ {"CrcError"} /\ delivered' = delivered
                 ELSE irq' = irq /\ delivered' = Append(delivered, fifo)
            BY <1>7 DEF RxDone, Clear
        <2>2. "RxDone" \notin irq' /\ "CrcError" \notin irq' /\ opMode' = "STANDBY"
            BY <1>l, <1>p, <2>1
        <2>3. Waiting' = <<>>
            BY <2>1, <2>2 DEF Waiting
        <2>4. fifo \in {Blank} \cup Theirs \cup Ours
            BY <2>1 DEF TypeOK, Buffers
        <2>5. heard = delivered'
            <3>1. CASE "CrcError" \in irq
                <4>1. Waiting = <<>>
                    BY <3>1 DEF Waiting
                <4> QED  BY <1>0, <1>l, <2>1, <3>1, <4>1
            <3>2. CASE "CrcError" \notin irq
                <4>1. Waiting = <<fifo>>
                    BY <2>1, <3>2 DEF Waiting
                <4>2. Append(delivered, fifo) = delivered \o <<fifo>>
                    BY <1>0, <2>4, AppendIsConcat
                <4> QED  BY <1>l, <2>1, <3>2, <4>1, <4>2
            <3> QED  BY <3>1, <3>2
        <2>6. delivered' \o <<>> = delivered'
            BY <1>0, <2>1, <2>5
        <2>7. heard' = delivered' \o Waiting'
            BY <2>1, <2>3, <2>5, <2>6
        <2> QED  BY <1>l, <2>1, <2>2, <2>7 DEF Listening, RxStates
    <1>8. CASE RxTimeout
        <2>1. RFLRState = "RX_TIMEOUT" /\ RFLRState' = "RX_INIT" /\ UNCHANGED <<chipVars, heard, delivered>>
            BY <1>8 DEF RxTimeout, NoHistory
        <2>2. heard' = delivered' \o Waiting'
            BY <1>k, <2>1 DEF RxStates, chipVars
        <2> QED  BY <1>l, <2>1, <2>2 DEF Listening, RxStates, chipVars
    <1>9. CASE Idle \/ TxInit \/ TxRunning \/ TxDone \/ CadInit \/ CadRunning \/ SetTxPacket \/ StartRx \/ StartCad
        <2>1. FALSE
            BY <1>9, <1>c, <1>l DEF RxStates, Idle, TxInit, StartTransmitter, TxRunning, TxDone, CadInit, CadRunning,
               SetTxPacket, StartRx, StartCad, MayCall
        <2> QED  BY <2>1
    <1> QED
        BY <1>1, <1>2, <1>3, <1>4, <1>5, <1>6, <1>7, <1>8, <1>9 DEF Next, Chip, Process

\* Every step of the driver hands on the packet the client asked for.
LEMMA SendingStep ==
    TypeOK /\ ChipTimes /\ Sending /\ [Next]_vars => Sending'
    <1> SUFFICES ASSUME TypeOK, ChipTimes, Sending, [Next]_vars PROVE Sending'
        OBVIOUS
    <1> USE Times
    <1>0. /\ asked \in Seq(Ours) /\ aired \in Seq(Ours) /\ Len(asked) \in Nat /\ Len(aired) \in Nat
          /\ irq \subseteq Flags
        BY DEF TypeOK
    <1>p. PollDue => opMode = "STANDBY" /\ onAir = None
        BY PollFindsStandby
    \* A step in which the driver and the chip do not send.
    <1>k. ASSUME UNCHANGED <<asked, aired, reported, fifo>>,
                 opMode # "TRANSMITTER", opMode' # "TRANSMITTER",
                 RFLRState \notin TxStates, RFLRState' \notin TxStates,
                 "TxDone" \in irq' => "TxDone" \in irq
          PROVE  Sending'
        BY <1>k DEF Sending, TxStates
    <1>1. CASE ChipHears \/ ChipRxDone \/ ChipRxTimeout \/ ChipHops \/ ChipCadDone
        <2>1. /\ UNCHANGED <<asked, aired, reported, RFLRState, dio0, RFBuffer>>
              /\ opMode # "TRANSMITTER" /\ opMode' # "TRANSMITTER" /\ ("TxDone" \in irq' => "TxDone" \in irq)
            BY <1>1 DEF ChipHears, ChipRxDone, ChipRxTimeout, ChipHops, ChipCadDone, driverVars, txHistory, ChipTimes
        <2> QED  BY <2>1 DEF Sending
    <1>2. CASE ChipTxDone
        <2>1. /\ opMode = "TRANSMITTER" /\ opMode' = "STANDBY" /\ aired' = Append(aired, fifo)
              /\ UNCHANGED <<asked, reported, RFLRState, dio0, RFBuffer, fifo>>
            BY <1>2 DEF ChipTxDone, driverVars
        <2>2. /\ RFLRState = "TX_RUNNING" /\ fifo = MaxPackets + Len(asked) /\ Len(aired) = Len(asked) - 1
              /\ reported = Len(asked) - 1 /\ Len(asked) > 0 /\ dio0 = "TxDone"
            BY <2>1 DEF Sending, TxStates
        <2>3. /\ Len(aired') = Len(asked) /\ aired'[Len(asked)] = fifo
              /\ \A i \in 1..Len(aired) : aired'[i] = aired[i]
            BY <1>0, <2>1, <2>2
        <2>4. \A i \in 1..Len(aired') : aired'[i] = MaxPackets + i
            <3> TAKE i \in 1..Len(aired')
            <3>1. CASE i = Len(asked)
                BY <2>2, <2>3, <3>1
            <3>2. CASE i # Len(asked)
                <4>1. i \in 1..Len(aired)
                    BY <1>0, <2>2, <2>3, <3>2
                <4> QED  BY <2>3, <4>1 DEF Sending
            <3> QED  BY <3>1, <3>2
        <2>5. \A i \in 1..Len(asked) : asked[i] = MaxPackets + i
            BY DEF Sending
        <2> QED  BY <2>1, <2>2, <2>3, <2>4, <2>5 DEF Sending, TxStates
    <1>3. CASE Tick
        BY <1>3 DEF Tick, Sending, txHistory
    <1>4. CASE Idle \/ RxTimeout \/ StartRx \/ StartCad
        <2>1. /\ UNCHANGED <<asked, aired, reported, chipVars>>
              /\ RFLRState \notin TxStates /\ RFLRState' \notin TxStates
            BY <1>4 DEF Idle, RxTimeout, StartRx, StartCad, NoHistory, txHistory, TxStates
        <2>2. opMode # "TRANSMITTER"
            BY <2>1 DEF Sending, TxStates
        <2> QED  BY <1>k, <2>1, <2>2 DEF chipVars
    <1>5. CASE RxRunning \/ RxDone \/ CadRunning
        <2>1. /\ UNCHANGED <<asked, aired, reported, fifo, opMode>> /\ irq' \subseteq irq
              /\ RFLRState \notin TxStates /\ RFLRState' \notin TxStates
            BY <1>5 DEF RxRunning, RxDone, CadRunning, Clear, NoHistory, txHistory, TxStates
        <2>2. opMode # "TRANSMITTER"
            BY <2>1 DEF Sending, TxStates
        <2> QED  BY <1>k, <2>1, <2>2
    <1>6. CASE RxInit
        <2>1. /\ UNCHANGED <<asked, aired, reported, fifo, irq>>
              /\ RFLRState = "RX_INIT" /\ RFLRState' = "RX_RUNNING" /\ opMode' = "RECEIVER_SINGLE"
            BY <1>6, Starts DEF RxInit, StartReceiver, NoHistory, txHistory
        <2>2. opMode # "TRANSMITTER"
            BY <2>1 DEF Sending
        <2> QED  BY <1>k, <2>1, <2>2 DEF TxStates
    <1>7. CASE CadInit
        <2>1. /\ UNCHANGED <<asked, aired, reported, fifo, irq>>
              /\ RFLRState = "CAD_INIT" /\ RFLRState' = "CAD_RUNNING" /\ opMode' = "CAD"
            BY <1>7, Starts DEF CadInit, NoHistory, txHistory
        <2>2. opMode # "TRANSMITTER"
            BY <2>1 DEF Sending
        <2> QED  BY <1>k, <2>1, <2>2 DEF TxStates
    <1>8. CASE TxInit
        <2>1. /\ UNCHANGED <<asked, aired, reported, irq, RFBuffer>> /\ fifo' = RFBuffer
              /\ RFLRState = "TX_INIT" /\ RFLRState' = "TX_RUNNING"
            BY <1>8 DEF TxInit, StartTransmitter, NoHistory, txHistory
        <2>2. opMode' = "TRANSMITTER" /\ dio0' = "TxDone"
            BY <1>8, Starts DEF TxInit, StartTransmitter
        <2> QED  BY <2>1, <2>2 DEF Sending, TxStates
    <1>9. CASE TxRunning
        <2>1. /\ UNCHANGED <<asked, aired, reported, opMode, dio0, fifo, RFBuffer>> /\ RFLRState = "TX_RUNNING"
              /\ irq' = irq \ ({"Fhss"} \cup IF DIO0 THEN {"TxDone"} ELSE {})
              /\ RFLRState' = IF DIO0 THEN "TX_DONE" ELSE "TX_RUNNING"
            BY <1>9 DEF TxRunning, Clear, NoHistory, txHistory
        <2>2. DIO0 <=> "TxDone" \in irq
            BY <2>1 DEF Sending, DIO0
        <2> QED  BY <2>1, <2>2 DEF Sending, TxStates
    <1>10. CASE TxDone
        <2>1. /\ UNCHANGED <<asked, aired, dio0, fifo, irq, RFBuffer>> /\ RFLRState = "TX_DONE" /\ RFLRState' = "IDLE"
              /\ reported' = reported + 1 /\ opMode' = "STANDBY"
            BY <1>10, <1>p DEF TxDone, SetOpMode
        <2>2. reported = Len(asked) - 1 /\ opMode # "TRANSMITTER"
            BY <2>1 DEF Sending, TxStates
        <2>3. reported' = Len(asked)
            BY <1>0, <2>1, <2>2
        <2> QED  BY <2>1, <2>2, <2>3 DEF Sending, TxStates
    <1>11. CASE SetTxPacket
        <2>1. /\ RFLRState \notin TxStates /\ RFLRState' = "TX_INIT" /\ Len(asked) < MaxSends
              /\ RFBuffer' = MaxPackets + Len(asked) + 1 /\ asked' = Append(asked, MaxPackets + Len(asked) + 1)
              /\ UNCHANGED <<aired, reported, chipVars>>
            BY <1>11 DEF SetTxPacket, MayCall
        <2>2. opMode # "TRANSMITTER" /\ "TxDone" \notin irq /\ reported = Len(asked) /\ Len(aired) = Len(asked)
            BY <2>1 DEF Sending, TxStates
        <2>3. MaxPackets + Len(asked) + 1 \in Ours
            BY <1>0, <2>1 DEF Ours
        <2>4. /\ Len(asked') = Len(asked) + 1 /\ asked'[Len(asked) + 1] = MaxPackets + Len(asked) + 1
              /\ \A i \in 1..Len(asked) : asked'[i] = asked[i]
            BY <1>0, <2>1, <2>3
        <2>5. \A i \in 1..Len(asked') : asked'[i] = MaxPackets + i
            <3> TAKE i \in 1..Len(asked')
            <3>1. CASE i = Len(asked) + 1
                BY <1>0, <2>4, <3>1
            <3>2. CASE i # Len(asked) + 1
                <4>1. i \in 1..Len(asked)
                    BY <1>0, <2>4, <3>2
                <4> QED  BY <2>4, <4>1 DEF Sending
            <3> QED  BY <3>1, <3>2
        <2>6. \A i \in 1..Len(aired') : aired'[i] = MaxPackets + i
            BY <2>1 DEF Sending
        <2>7. /\ Len(asked') <= MaxSends /\ Len(asked') > 0 /\ reported' = Len(asked') - 1 /\ Len(aired') = Len(asked') - 1
              /\ RFBuffer' = MaxPackets + Len(asked')
            BY <1>0, <2>1, <2>2, <2>4
        <2> QED  BY <2>1, <2>2, <2>5, <2>6, <2>7 DEF Sending, TxStates, chipVars
    <1>12. CASE UNCHANGED vars
        BY <1>12 DEF vars, driverVars, chipVars, txHistory, Sending
    <1> QED
        BY <1>1, <1>2, <1>3, <1>4, <1>5, <1>6, <1>7, <1>8, <1>9, <1>10, <1>11, <1>12 DEF Next, Chip, Process

\* TypeOK in three parts: the driver and the chip, the ages, the histories.
Devices ==
    /\ client \in {"listen", "talk"}
    /\ RFLRState \in States
    /\ RegOpMode \in Modes /\ opMode \in Modes
    /\ irq \subseteq Flags /\ mask \subseteq Flags /\ dio0 \in {"RxDone", "TxDone"}
    /\ {fifo, onAir, RFBuffer} \subseteq {None, Blank} \cup Theirs \cup Ours
Ages ==
    /\ pollAge \in 0..(Poll + Late) /\ rxAge \in 0..(PacketTimeout + 1)
    /\ chipAge \in 0..(Window + Air)
Histories ==
    /\ heard \in Seq(Theirs) /\ delivered \in Seq({Blank} \cup Theirs \cup Ours)
    /\ asked \in Seq(Ours) /\ aired \in Seq(Ours)
    /\ reported \in 0..MaxSends /\ sent \in 0..MaxPackets

\* The registers and the state keep their ranges.
LEMMA DevicesStep == TypeOK /\ Buffers /\ [Next]_vars => Devices'
    <1> SUFFICES ASSUME TypeOK, Buffers, [Next]_vars PROVE Devices'
        OBVIOUS
    <1> USE Times DEF None
    <1>0. Devices
        BY DEF TypeOK, Devices
    <1>1. CASE ChipHears
        <2>1. onAir' \in Theirs
            BY <1>1 DEF ChipHears, Theirs, TypeOK
        <2> QED  BY <1>0, <1>1, <2>1 DEF ChipHears, Devices, driverVars
    <1>2. CASE ChipRxDone \/ ChipRxTimeout \/ ChipHops
        BY <1>0, <1>2 DEF ChipRxDone, ChipRxTimeout, ChipHops, Devices, driverVars, Modes, Flags
    <1>3. CASE ChipTxDone \/ ChipCadDone
        BY <1>0, <1>3 DEF ChipTxDone, ChipCadDone, Devices, driverVars, Modes, Flags
    <1>4. CASE Tick \/ UNCHANGED vars
        BY <1>0, <1>4 DEF Tick, vars, driverVars, chipVars, Devices
    <1>5. CASE RxInit
        <2>1. /\ RegOpMode' = "RECEIVER_SINGLE" /\ opMode' = "RECEIVER_SINGLE" /\ dio0' = "RxDone" /\ onAir' = None
              /\ mask' = {"TxDone", "CadDone", "CadDetected"}
              /\ RFBuffer' = Blank /\ RFLRState' = "RX_RUNNING" /\ UNCHANGED <<client, irq, fifo>>
            BY <1>5, Starts DEF RxInit, StartReceiver, NoHistory
        <2> QED  BY <1>0, <2>1 DEF Devices, States, RxStates, Modes, Flags
    <1>6. CASE TxInit
        <2>1. /\ RegOpMode' = "TRANSMITTER" /\ opMode' = "TRANSMITTER" /\ dio0' = "TxDone" /\ onAir' = None
              /\ mask' = Flags \ {"TxDone"}
              /\ fifo' = RFBuffer /\ RFLRState' = "TX_RUNNING" /\ UNCHANGED <<client, irq, RFBuffer>>
            BY <1>6, Starts DEF TxInit, StartTransmitter, NoHistory
        <2> QED  BY <1>0, <2>1 DEF Devices, States, TxStates, Modes
    <1>7. CASE CadInit
        <2>1. /\ RegOpMode' = "CAD" /\ opMode' = "CAD" /\ dio0' = "RxDone" /\ onAir' = None
              /\ mask' = Flags \ {"CadDone", "CadDetected"}
              /\ RFLRState' = "CAD_RUNNING" /\ UNCHANGED <<client, irq, RFBuffer, fifo>>
            BY <1>7, Starts DEF CadInit, NoHistory
        <2> QED  BY <1>0, <2>1 DEF Devices, States, CadStates, Modes
    <1>8. CASE RxRunning \/ TxRunning \/ CadRunning
        BY <1>0, <1>8 DEF RxRunning, TxRunning, CadRunning, NoHistory, Clear, Devices, States, RxStates, TxStates, CadStates
    <1>9. CASE RxDone \/ TxDone
        BY <1>0, <1>9 DEF RxDone, TxDone, SetOpMode, Clear, Devices, States, RxStates, Modes
    <1>10. CASE Idle \/ RxTimeout \/ StartRx \/ StartCad
        BY <1>0, <1>10 DEF Idle, RxTimeout, StartRx, StartCad, NoHistory, chipVars, Devices, States, RxStates, CadStates
    <1>11. CASE SetTxPacket
        <2>1. /\ RFBuffer' = MaxPackets + Len(asked) + 1 /\ Len(asked) < MaxSends /\ RFLRState' = "TX_INIT"
              /\ UNCHANGED <<client, RegOpMode, chipVars>>
            BY <1>11 DEF SetTxPacket
        <2>2. RFBuffer' \in Ours
            BY <2>1 DEF TypeOK, Ours
        <2> QED  BY <1>0, <2>1, <2>2 DEF chipVars, Devices, States, TxStates
    <1> QED
        BY <1>1, <1>2, <1>3, <1>4, <1>5, <1>6, <1>7, <1>8, <1>9, <1>10, <1>11 DEF Next, Chip, Process

\* The times keep theirs.
LEMMA AgesStep == TypeOK /\ [Next]_vars => Ages'
    <1> SUFFICES ASSUME TypeOK, [Next]_vars PROVE Ages'
        OBVIOUS
    <1> USE Times
    <1>0. Ages
        BY DEF TypeOK, Ages
    <1>1. CASE Chip
        <2>1. pollAge' = pollAge /\ rxAge' = rxAge /\ chipAge' \in {0, chipAge}
            BY <1>1 DEF Chip, ChipHears, ChipRxDone, ChipRxTimeout, ChipHops, ChipTxDone, ChipCadDone, driverVars
        <2> QED  BY <1>0, <2>1 DEF Ages
    <1>2. CASE Tick
        BY <1>0, <1>2 DEF Tick, Ages, Aged
    <1>3. CASE Process
        <2>1. pollAge' = 0 /\ rxAge' \in {0, rxAge} /\ chipAge' \in {0, chipAge}
            BY <1>3, Starts DEF Process, Idle, RxInit, StartReceiver, RxRunning, RunningAge, RxDone, RxTimeout, TxInit,
               StartTransmitter, TxRunning, TxDone, CadInit, CadRunning, chipVars, EnterMode
        <2> QED  BY <1>0, <2>1 DEF Ages
    <1>4. CASE SetTxPacket \/ StartRx \/ StartCad \/ UNCHANGED vars
        BY <1>0, <1>4 DEF SetTxPacket, StartRx, StartCad, vars, driverVars, chipVars, Ages
    <1> QED  BY <1>1, <1>2, <1>3, <1>4 DEF Next

\* So do the histories.
LEMMA HistoriesStep == TypeOK /\ Buffers /\ Sending /\ [Next]_vars => Histories'
    <1> SUFFICES ASSUME TypeOK, Buffers, Sending, [Next]_vars PROVE Histories'
        OBVIOUS
    <1> USE Times
    <1>0. Histories /\ Len(asked) \in Nat
        BY DEF TypeOK, Histories
    <1>1. CASE ChipHears
        BY <1>0, <1>1 DEF ChipHears, Histories, txHistory
    <1>2. CASE ChipRxDone
        <2>1. onAir \in Theirs
            BY <1>2 DEF ChipRxDone, Buffers
        <2>2. heard' \in {heard, Append(heard, onAir)} /\ UNCHANGED <<delivered, asked, aired, reported, sent>>
            BY <1>2 DEF ChipRxDone, txHistory
        <2>3. Append(heard, onAir) \in Seq(Theirs) /\ heard \in Seq(Theirs)
            BY <1>0, <2>1 DEF Histories
        <2>4. heard' \in Seq(Theirs)
            BY <2>2, <2>3
        <2> QED  BY <1>0, <2>2, <2>4 DEF Histories
    <1>3. CASE ChipTxDone
        <2>1. fifo = MaxPackets + Len(asked) /\ Len(asked) <= MaxSends /\ Len(asked) > 0
            BY <1>3 DEF ChipTxDone, Sending, TxStates
        <2>2. fifo \in Ours
            BY <1>0, <2>1 DEF Ours
        <2>3. aired' = Append(aired, fifo) /\ UNCHANGED <<heard, delivered, asked, reported, sent>>
            BY <1>3 DEF ChipTxDone
        <2> QED  BY <1>0, <2>2, <2>3 DEF Histories
    <1>4. CASE RxDone
        <2>1. RFLRState = "RX_DONE" /\ delivered' \in {delivered, Append(delivered, fifo)} /\ UNCHANGED <<heard, asked, aired, reported, sent>>
            BY <1>4 DEF RxDone, txHistory
        <2>2. fifo \in {Blank} \cup Theirs \cup Ours
            BY <2>1 DEF TypeOK, Buffers
        <2>3. Append(delivered, fifo) \in Seq({Blank} \cup Theirs \cup Ours)
            BY <1>0, <2>2 DEF Histories
        <2>4. delivered' \in Seq({Blank} \cup Theirs \cup Ours)
            BY <1>0, <2>1, <2>3 DEF Histories
        <2> QED  BY <1>0, <2>1, <2>4 DEF Histories
    <1>5. CASE TxDone
        <2>1. RFLRState = "TX_DONE" /\ reported' = reported + 1 /\ UNCHANGED <<heard, delivered, asked, aired, sent>>
            BY <1>5 DEF TxDone
        <2>2. reported = Len(asked) - 1 /\ Len(asked) <= MaxSends
            BY <2>1 DEF Sending, TxStates
        <2> QED  BY <1>0, <2>1, <2>2 DEF Histories
    <1>6. CASE SetTxPacket
        <2>1. /\ Len(asked) < MaxSends /\ asked' = Append(asked, MaxPackets + Len(asked) + 1)
              /\ UNCHANGED <<heard, delivered, aired, reported, sent>>
            BY <1>6 DEF SetTxPacket
        <2>2. MaxPackets + Len(asked) + 1 \in Ours
            BY <1>0, <2>1 DEF Ours
        <2> QED  BY <1>0, <2>1, <2>2 DEF Histories
    <1>7. CASE \/ ChipRxTimeout \/ ChipHops \/ ChipCadDone \/ Tick \/ Idle \/ RxInit \/ RxRunning \/ RxTimeout
               \/ TxInit \/ TxRunning \/ CadInit \/ CadRunning \/ StartRx \/ StartCad \/ UNCHANGED vars
        <2>1. UNCHANGED <<heard, delivered, asked, aired, reported, sent>>
            BY <1>7 DEF ChipRxTimeout, ChipHops, ChipCadDone, Tick, Idle, RxInit, StartReceiver, RxRunning, RxTimeout,
               TxInit, StartTransmitter, TxRunning, CadInit, CadRunning, StartRx, StartCad, vars, NoHistory, txHistory
        <2> QED  BY <1>0, <2>1 DEF Histories
    <1> QED
        BY <1>1, <1>2, <1>3, <1>4, <1>5, <1>6, <1>7 DEF Next, Chip, Process

\* No packet is lost, repeated or mixed up between two polls, in either direction:
\* a listening station is handed every packet received with a good checksum once
\* and in order, and a sending one airs exactly the packets it was given and
\* reports each once.
THEOREM PacketsAreKept == Spec => []PacketsKept
    <1> DEFINE Inv == TypeOK /\ ChipTimes /\ Buffers /\ Listening /\ Sending
    <1>1. Init => Inv
        <2> SUFFICES ASSUME Init PROVE Inv
            OBVIOUS
        <2> USE Times DEF Init, None
        <2>1. TypeOK
            BY DEF TypeOK, States, RxStates, Modes, Flags
        <2>2. ChipTimes /\ Buffers
            BY DEF ChipTimes, Buffers, Blank
        <2>3. Listening
            <3>1. Waiting = <<>> /\ <<>> \o <<>> = <<>>
                BY DEF Waiting
            <3> QED  BY <3>1 DEF Listening, RxStates
        <2>4. Sending
            BY DEF Sending, TxStates
        <2> QED  BY <2>1, <2>2, <2>3, <2>4
    <1>2. Inv /\ [Next]_vars => Inv'
        <2> SUFFICES ASSUME Inv, [Next]_vars PROVE Inv'
            OBVIOUS
        <2>1. Devices' /\ Ages' /\ Histories'
            BY DevicesStep, AgesStep, HistoriesStep
        <2>2. TypeOK'
            BY <2>1 DEF Devices, Ages, Histories, TypeOK
        <2> QED  BY <2>2, ChipTimesStep, BuffersStep, ListeningStep, SendingStep
    <1>3. Inv => PacketsKept
        <2> SUFFICES ASSUME Inv PROVE SentAsAsked
            BY DEF PacketsKept, EveryPacketOnce, Listening
        <2>0. asked \in Seq(Ours) /\ aired \in Seq(Ours) /\ Len(asked) \in Nat /\ Len(aired) \in Nat
            BY DEF TypeOK
        <2>1. Len(aired) <= Len(asked) /\ reported <= Len(aired)
            BY <2>0 DEF Sending, TxStates
        <2>2. \A i \in 1..Len(aired) : aired[i] = asked[i]
            BY <2>0, <2>1 DEF Sending
        <2>3. ASSUME RFLRState \notin TxStates PROVE reported = Len(asked) /\ aired = asked
            <3>1. reported = Len(asked) /\ Len(aired) = Len(asked)
                BY <2>3 DEF Sending, TxStates
            <3> QED  BY <2>0, <2>2, <3>1
        <2> QED  BY <2>1, <2>2, <2>3 DEF SentAsAsked
    <1> QED  BY <1>1, <1>2, <1>3, PTL DEF Spec
-----------------------------------------------------------------------------
(* The calendar: its two loops are functions that satisfy their equations. *)

\* What a loop that goes from x to next[x] until it is in stop may end with.
EndsOf(S, stop, next, x) ==
  {z \in stop : \E n \in Nat : \E path \in [0..n -> S] :
      /\ path[0] = x /\ path[n] = z
      /\ \A i \in 0..(n - 1) : path[i] \notin stop /\ path[i + 1] = next[path[i]]}

\* A loop that starts where it stops ends there.
LEMMA EndsAtOnce ==
  ASSUME NEW S, NEW stop \in SUBSET S, NEW next \in [S \ stop -> S], NEW x \in stop
  PROVE  EndsOf(S, stop, next, x) = {x}
  <1>1. x \in EndsOf(S, stop, next, x)
    <2> DEFINE path == [i \in 0..0 |-> x]
    <2>1. path \in [0..0 -> S] /\ path[0] = x /\ 0..(0 - 1) = {}
      OBVIOUS
    <2> QED  BY <2>1 DEF EndsOf
  <1>2. ASSUME NEW z \in EndsOf(S, stop, next, x) PROVE z = x
    <2> DEFINE way(path, n) ==
          /\ path[0] = x /\ path[n] = z
          /\ \A i \in 0..(n - 1) : path[i] \notin stop /\ path[i + 1] = next[path[i]]
    <2>0. PICK n \in Nat : \E path \in [0..n -> S] : way(path, n)
      BY DEF EndsOf
    <2>1. PICK path \in [0..n -> S] : way(path, n)
      BY <2>0
    <2>2. n = 0
      BY <2>1
    <2> QED  BY <2>1, <2>2
  <1> QED  BY <1>1, <1>2

\* A loop that does not stop at x ends where it ends from the next step on.
LEMMA EndsLater ==
  ASSUME NEW S, NEW stop \in SUBSET S, NEW next \in [S \ stop -> S], NEW x \in S \ stop
  PROVE  EndsOf(S, stop, next, x) = EndsOf(S, stop, next, next[x])
  <1> DEFINE way(path, n, y, z) ==
        /\ path[0] = y /\ path[n] = z
        /\ \A i \in 0..(n - 1) : path[i] \notin stop /\ path[i + 1] = next[path[i]]
  <1>1. ASSUME NEW z \in EndsOf(S, stop, next, x) PROVE z \in EndsOf(S, stop, next, next[x])
    <2>0. PICK n \in Nat : \E path \in [0..n -> S] : way(path, n, x, z)
      BY DEF EndsOf
    <2>1. PICK path \in [0..n -> S] : way(path, n, x, z)
      BY <2>0
    <2>2. n \in Nat \ {0} /\ n - 1 \in Nat
      BY <2>1 DEF EndsOf
    <2> DEFINE short == [i \in 0..(n - 1) |-> path[i + 1]]
    <2>3. short \in [0..(n - 1) -> S]
      BY <2>2
    <2>4. short[0] = next[x] /\ short[n - 1] = z
      BY <2>1, <2>2
    <2>5. \A i \in 0..((n - 1) - 1) : short[i] \notin stop /\ short[i + 1] = next[short[i]]
      <3> TAKE i \in 0..((n - 1) - 1)
      <3>1. i \in 0..(n - 1) /\ i + 1 \in 0..(n - 1) /\ short[i] = path[i + 1] /\ short[i + 1] = path[(i + 1) + 1]
        BY <2>2
      <3> QED  BY <2>1, <3>1
    <2>6. z \in stop
      BY DEF EndsOf
    <2> HIDE DEF short
    <2>7. \E p \in [0..(n - 1) -> S] : way(p, n - 1, next[x], z)
      BY <2>3, <2>4, <2>5
    <2> QED  BY <2>2, <2>6, <2>7 DEF EndsOf
  <1>2. ASSUME NEW z \in EndsOf(S, stop, next, next[x]) PROVE z \in EndsOf(S, stop, next, x)
    <2>0. PICK n \in Nat : \E path \in [0..n -> S] : way(path, n, next[x], z)
      BY DEF EndsOf
    <2>1. PICK path \in [0..n -> S] : way(path, n, next[x], z)
      BY <2>0
    <2> DEFINE long == [i \in 0..(n + 1) |-> IF i = 0 THEN x ELSE path[i - 1]]
    <2>2. long \in [0..(n + 1) -> S]
      OBVIOUS
    <2>3. long[0] = x /\ long[n + 1] = z
      BY <2>1
    <2>4. \A i \in 0..((n + 1) - 1) : long[i] \notin stop /\ long[i + 1] = next[long[i]]
      <3> TAKE i \in 0..((n + 1) - 1)
      <3>1. CASE i = 0
        BY <2>1, <3>1
      <3>2. CASE i # 0
        <4>1. i - 1 \in 0..(n - 1) /\ long[i] = path[i - 1] /\ long[i + 1] = path[(i - 1) + 1]
          BY <3>2
        <4> QED  BY <2>1, <4>1
      <3> QED  BY <3>1, <3>2
    <2> HIDE DEF long
    <2>5. z \in stop /\ n + 1 \in Nat
      BY DEF EndsOf
    <2> QED  BY <2>2, <2>3, <2>4, <2>5 DEF EndsOf
  <1> QED  BY <1>1, <1>2

IsLoop(f, S, stop, next) == f = [x \in S |-> IF x \in stop THEN x ELSE f[next[x]]]

\* A loop is a function: it satisfies the equation it is defined by.
LEMMA LoopExists ==
  ASSUME NEW S, NEW stop \in SUBSET S, NEW next \in [S \ stop -> S]
  PROVE  \E f : IsLoop(f, S, stop, next)
  <1> DEFINE f == [x \in S |-> CHOOSE z : z \in EndsOf(S, stop, next, x)]
  <1>1. ASSUME NEW x \in stop PROVE f[x] = x
    <2>1. EndsOf(S, stop, next, x) = {x}
      BY EndsAtOnce
    <2>2. (CHOOSE z : z \in EndsOf(S, stop, next, x)) \in EndsOf(S, stop, next, x)
      BY <2>1
    <2> QED  BY <2>1, <2>2
  <1>2. ASSUME NEW x \in S \ stop PROVE f[x] = f[next[x]]
    <2>1. next[x] \in S
      OBVIOUS
    <2>2. EndsOf(S, stop, next, x) = EndsOf(S, stop, next, next[x])
      BY EndsLater
    <2> QED  BY <2>1, <2>2
  <1>3. IsLoop(f, S, stop, next)
    <2>1. \A x \in S : f[x] = IF x \in stop THEN x ELSE f[next[x]]
      BY <1>1, <1>2
    <2> HIDE DEF f
    <2>2. f = [x \in S |-> f[x]]
      BY DEF f
    <2> QED  BY <2>1, <2>2 DEF IsLoop
  <1> QED  BY <1>3

\* The loop over the years, and the loop over the months of a year.
Years == LET loop[p \in Nat \X Nat] ==
                 IF YearEnds(p[2], p[1]) THEN p ELSE loop[<<p[1] + 1, p[2] - DaysInYear(p[1])>>]
         IN loop
Months(length) ==
         LET loop[p \in (1..12) \X (0..366)] ==
                 IF p[2] <= length[p[1]] \/ p[1] = 12 THEN p ELSE loop[<<p[1] + 1, p[2] - length[p[1]]>>]
         IN loop

\* The year loop starts in 1970.
LEMMA YearsStart ==
  ASSUME NEW left
  PROVE  ByYear(left) = Years[<<1970, left>>]
  BY DEF ByYear, Years

\* One round of the year loop.
LEMMA YearsStep ==
  ASSUME NEW y \in Nat, NEW left \in Nat
  PROVE  Years[<<y, left>>] = IF left <= DaysInYear(y) THEN <<y, left>>
                              ELSE Years[<<y + 1, left - DaysInYear(y)>>]
  <1> DEFINE S == Nat \X Nat
             stop == {p \in S : YearEnds(p[2], p[1])}
             next == [p \in S \ stop |-> <<p[1] + 1, p[2] - DaysInYear(p[1])>>]
             Loop(f) == f = [p \in S |-> IF YearEnds(p[2], p[1]) THEN p
                                         ELSE f[<<p[1] + 1, p[2] - DaysInYear(p[1])>>]]
  <1>1. next \in [S \ stop -> S]
    BY DEF YearEnds, DaysInYear
  <1>2. \E f : IsLoop(f, S, stop, next)
    <2>1. stop \in SUBSET S
      OBVIOUS
    <2> HIDE DEF S, stop, next
    <2> QED  BY <1>1, <2>1, LoopExists
  <1>3. \E f : Loop(f)
    <2>1. PICK f : IsLoop(f, S, stop, next)
      <3> HIDE DEF S, stop, next
      <3> QED  BY <1>2
    <2>2. ASSUME NEW p \in S
          PROVE  (IF p \in stop THEN p ELSE f[next[p]])
                   = IF YearEnds(p[2], p[1]) THEN p ELSE f[<<p[1] + 1, p[2] - DaysInYear(p[1])>>]
      <3> HIDE DEF S
      <3> QED  OBVIOUS
    <2> HIDE DEF S, stop, next
    <2>3. Loop(f)
      BY <2>1, <2>2 DEF IsLoop
    <2> QED  BY <2>3
  <1>4. Years = CHOOSE f : Loop(f)
    BY DEF Years
  <1>5. Loop(Years)
    <2> HIDE DEF Loop
    <2> QED  BY <1>3, <1>4
  <1> QED  BY <1>5 DEF YearEnds

\* What is left of a year stays within it.
LEMMA Remains ==
  ASSUME NEW left \in 0..366, NEW c \in Nat, left > c
  PROVE  left - c \in 0..366
  OBVIOUS

\* The month loop starts with January.
LEMMA MonthsStart ==
  ASSUME NEW length, NEW left
  PROVE  ByMonth(length, left) = Months(length)[<<1, left>>]
  BY DEF ByMonth, Months

\* One round of the month loop, for any table of lengths.
LEMMA MonthsStep ==
  ASSUME NEW length \in [1..12 -> Nat \ {0}], NEW m \in 1..12, NEW left \in 0..366
  PROVE  Months(length)[<<m, left>>] = IF left <= length[m] \/ m = 12 THEN <<m, left>>
                                       ELSE Months(length)[<<m + 1, left - length[m]>>]
  <1> DEFINE S == (1..12) \X (0..366)
             stop == {p \in S : p[2] <= length[p[1]] \/ p[1] = 12}
             next == [p \in S \ stop |-> <<p[1] + 1, p[2] - length[p[1]]>>]
             Loop(f) == f = [p \in S |-> IF p[2] <= length[p[1]] \/ p[1] = 12 THEN p
                                         ELSE f[<<p[1] + 1, p[2] - length[p[1]]>>]]
  <1>1. next \in [S \ stop -> S]
    <2>1. ASSUME NEW p \in S \ stop PROVE <<p[1] + 1, p[2] - length[p[1]]>> \in S
      <3>1. p[1] \in 1..11 /\ p[2] \in 0..366 /\ length[p[1]] \in Nat /\ p[2] > length[p[1]]
        OBVIOUS
      <3>2. p[2] - length[p[1]] \in 0..366
        BY <3>1, Remains
      <3>3. p[1] + 1 \in 1..12
        BY <3>1
      <3> QED  BY <3>2, <3>3
    <2> HIDE DEF S, stop
    <2> QED  BY <2>1
  <1>2. \E f : IsLoop(f, S, stop, next)
    <2>1. stop \in SUBSET S
      OBVIOUS
    <2> HIDE DEF S, stop, next
    <2> QED  BY <1>1, <2>1, LoopExists
  <1>3. \E f : Loop(f)
    <2>1. PICK f : IsLoop(f, S, stop, next)
      <3> HIDE DEF S, stop, next
      <3> QED  BY <1>2
    <2>2. ASSUME NEW p \in S
          PROVE  (IF p \in stop THEN p ELSE f[next[p]])
                   = IF p[2] <= length[p[1]] \/ p[1] = 12 THEN p ELSE f[<<p[1] + 1, p[2] - length[p[1]]>>]
      <3> HIDE DEF S
      <3> QED  OBVIOUS
    <2> HIDE DEF S, stop, next
    <2>3. Loop(f)
      BY <2>1, <2>2 DEF IsLoop
    <2> QED  BY <2>3
  <1>4. Months(length) = CHOOSE f : Loop(f)
    BY DEF Months
  <1>5. Loop(Months(length))
    <2> HIDE DEF Loop
    <2> QED  BY <1>3, <1>4
  <1> QED  BY <1>5
-----------------------------------------------------------------------------
(* The civil calendar in numbers. *)

\* A set of numbers has a smallest one.
LEMMA LeastNumber ==
  ASSUME NEW S, S \subseteq Nat, S # {}
  PROVE  \E x \in S : \A y \in S : x <= y
  <1>1. PICK x \in S : \A y \in S : ~(<<y, x>> \in OpToRel(<, Nat))
    BY NatLessThanWellFounded, WFMin
  <1>2. OpToRel(<, Nat) = {ss \in Nat \X Nat : ss[1] < ss[2]}
    BY DEF OpToRel
  <1>3. ASSUME NEW y \in S PROVE x <= y
    <2>1. <<y, x>> \notin {ss \in Nat \X Nat : ss[1] < ss[2]}
      BY <1>1, <1>2
    <2>2. <<y, x>> \in Nat \X Nat /\ <<y, x>>[1] = y /\ <<y, x>>[2] = x
      OBVIOUS
    <2>3. ~(y < x)
      BY <2>1, <2>2
    <2> QED  BY <2>3
  <1> QED  BY <1>3

\* Induction from a to b, for a property given as the set of numbers that have it.
LEMMA ClimbFrom ==
  ASSUME NEW a \in Nat, NEW b \in Nat, NEW S, a \in S, \A i \in a..(b - 1) : i \in S => i + 1 \in S
  PROVE  \A i \in a..b : i \in S
  <1> DEFINE B == {i \in a..b : i \notin S}
  <1>1. SUFFICES ASSUME B # {} PROVE FALSE
    OBVIOUS
  <1>2. PICK x \in B : \A y \in B : x <= y
    <2>1. B \subseteq Nat
      OBVIOUS
    <2> QED  BY <1>1, <2>1, LeastNumber
  <1>3. x \in a..b /\ x # a /\ x \notin S
    BY <1>2
  <1>4. x - 1 \in a..(b - 1) /\ x - 1 \in a..b /\ x - 1 < x /\ (x - 1) + 1 = x
    BY <1>3
  <1>5. x - 1 \in S
    BY <1>2, <1>4
  <1> QED  BY <1>3, <1>4, <1>5

\* The days before the first of January of a year, and before a month of it.
NewYear(y) == (y - 1970) * 365 + (y - 1) \div 4 - 492
Before(y, m) == MONTH_DAYS[m] + IF y % 4 = 0 /\ m > 2 THEN 1 ELSE 0
InMonth(y) == IF y % 4 = 0 THEN LY ELSE ULY

\* A year later the first of January is as many days later as the year has.
LEMMA NewYears ==
  /\ NewYear(1970) = 0 /\ NewYear(2100) = 47482
  /\ \A y \in Nat : NewYear(y) \in Int /\ NewYear(y + 1) = NewYear(y) + DaysInYear(y) /\ DaysInYear(y) \in {365, 366}
  BY DEF NewYear, DaysInYear

\* Up to 2099 every fourth year is a leap year, as the code has it.
LEMMA LeapYears ==
  ASSUME NEW y \in Nat, 1970 <= y, y <= 2099
  PROVE  Leap(y) <=> y % 4 = 0
  BY DEF Leap

\* The tables ULY, LY and MONTH_DAYS agree with each other and with the civil months.
LEMMA Tables ==
  ASSUME NEW m \in 1..12, NEW y \in Nat
  PROVE  /\ InMonth(y) \in [1..12 -> Nat \ {0}]
         /\ InMonth(y)[m] = (IF m = 2 THEN (IF y % 4 = 0 THEN 29 ELSE 28) ELSE IF m \in {4, 6, 9, 11} THEN 30 ELSE 31)
         /\ MONTH_DAYS[m] \in 0..334
         /\ Before(y, 1) = 0
         /\ Before(y, m) \in 0..335
         /\ m < 12 => Before(y, m + 1) = Before(y, m) + InMonth(y)[m]
         /\ m = 12 => Before(y, m) + InMonth(y)[m] = DaysInYear(y)
  <1>1. /\ MONTH_DAYS[1] = 0 /\ MONTH_DAYS[2] = 31 /\ MONTH_DAYS[3] = 59 /\ MONTH_DAYS[4] = 90
        /\ MONTH_DAYS[5] = 120 /\ MONTH_DAYS[6] = 151 /\ MONTH_DAYS[7] = 181 /\ MONTH_DAYS[8] = 212
        /\ MONTH_DAYS[9] = 243 /\ MONTH_DAYS[10] = 273 /\ MONTH_DAYS[11] = 304 /\ MONTH_DAYS[12] = 334
    BY DEF MONTH_DAYS
  <1>2. ULY \in [1..12 -> Nat \ {0}] /\ LY \in [1..12 -> Nat \ {0}]
    BY DEF ULY, LY
  <1>3. /\ ULY[1] = 31 /\ ULY[2] = 28 /\ ULY[3] = 31 /\ ULY[4] = 30 /\ ULY[5] = 31 /\ ULY[6] = 30
        /\ ULY[7] = 31 /\ ULY[8] = 31 /\ ULY[9] = 30 /\ ULY[10] = 31 /\ ULY[11] = 30 /\ ULY[12] = 31
    BY DEF ULY
  <1>4. LY[2] = 29 /\ \A k \in (1..12) \ {2} : LY[k] = ULY[k]
    BY DEF ULY, LY
  <1>5. \/ m = 1 \/ m = 2 \/ m = 3 \/ m = 4 \/ m = 5 \/ m = 6
        \/ m = 7 \/ m = 8 \/ m = 9 \/ m = 10 \/ m = 11 \/ m = 12
    OBVIOUS
  <1>6. InMonth(y)[m] = (IF m = 2 THEN (IF y % 4 = 0 THEN 29 ELSE 28) ELSE IF m \in {4, 6, 9, 11} THEN 30 ELSE 31)
    BY <1>3, <1>4, <1>5 DEF InMonth
  <1>7. m < 12 => MONTH_DAYS[m + 1] = MONTH_DAYS[m] + ULY[m]
    BY <1>1, <1>3, <1>5
  <1>8. MONTH_DAYS[m] \in 0..334
    BY <1>1, <1>5
  <1>9. m < 12 => Before(y, m + 1) = Before(y, m) + InMonth(y)[m]
    <2>1. CASE m = 2
      BY <1>1, <1>6, <2>1 DEF Before
    <2>2. CASE m # 2
      <3>1. InMonth(y)[m] = ULY[m]
        BY <1>4, <2>2 DEF InMonth
      <3>2. ULY[m] \in Nat
        BY <1>2
      <3> QED  BY <1>7, <1>8, <2>2, <3>1, <3>2 DEF Before
    <2> QED  BY <2>1, <2>2
  <1>10. m = 12 => Before(y, m) + InMonth(y)[m] = DaysInYear(y)
    BY <1>1, <1>6 DEF Before, DaysInYear
  <1> QED  BY <1>1, <1>2, <1>6, <1>8, <1>9, <1>10 DEF Before, InMonth

\* A month later the first is as many days later as the month has.
LEMMA MonthAfter ==
  ASSUME NEW m \in 1..12, NEW y \in Nat, m < 12
  PROVE  Before(y, m + 1) = Before(y, m) + InMonth(y)[m]
  BY Tables

\* The ranges of the tables.
LEMMA MonthRanges ==
  ASSUME NEW m \in 1..12, NEW y \in Nat
  PROVE  InMonth(y)[m] \in 28..31 /\ Before(y, m) \in 0..335
  <1>1. InMonth(y)[m] = (IF m = 2 THEN (IF y % 4 = 0 THEN 29 ELSE 28) ELSE IF m \in {4, 6, 9, 11} THEN 30 ELSE 31)
    BY Tables
  <1>2. Before(y, m) \in 0..335
    BY Tables
  <1> QED  BY <1>1, <1>2

\* The first and the last month.
LEMMA YearEdges ==
  ASSUME NEW y \in Nat
  PROVE  /\ Before(y, 1) = 0 /\ InMonth(y)[1] \in 28..31
         /\ Before(y, 12) + InMonth(y)[12] = DaysInYear(y)
  <1>1. 1 \in 1..12 /\ 12 \in 1..12
    OBVIOUS
  <1>2. Before(y, 1) = 0
    BY <1>1, Tables
  <1>3. InMonth(y)[1] \in 28..31
    BY <1>1, MonthRanges
  <1>4. Before(y, 12) + InMonth(y)[12] = DaysInYear(y)
    BY <1>1, Tables
  <1> QED  BY <1>2, <1>3, <1>4
-----------------------------------------------------------------------------
(* Where the two loops end. *)

\* While days are left, the year loop goes on from year to year.
LEMMA YearsClimb ==
  ASSUME NEW d \in Nat, NEW z \in Nat, 1970 <= z, z <= 2099, z = 1970 \/ d > NewYear(z)
  PROVE  ByYear(d) = Years[<<z, d - NewYear(z)>>]
  <1> DEFINE S == {y \in Nat : (y = 1970 \/ d > NewYear(y)) => ByYear(d) = Years[<<y, d - NewYear(y)>>]}
  <1>1. 1970 \in S
    BY YearsStart, NewYears
  <1>2. ASSUME NEW y \in 1970..(2099 - 1), y \in S PROVE y + 1 \in S
    <2>1. y \in Nat /\ y + 1 \in Nat /\ y + 1 # 1970 /\ NewYear(y) \in Int
      BY NewYears
    <2>2. SUFFICES ASSUME d > NewYear(y + 1) PROVE ByYear(d) = Years[<<y + 1, d - NewYear(y + 1)>>]
      BY <2>1
    <2>3. NewYear(y + 1) = NewYear(y) + DaysInYear(y) /\ DaysInYear(y) \in {365, 366}
      BY NewYears, <2>1
    <2>4. d > NewYear(y) /\ d - NewYear(y) \in Nat /\ d - NewYear(y) > DaysInYear(y)
      BY <2>1, <2>2, <2>3
    <2>5. Years[<<y, d - NewYear(y)>>] = Years[<<y + 1, (d - NewYear(y)) - DaysInYear(y)>>]
      <3>1. ~(d - NewYear(y) <= DaysInYear(y))
        BY <2>1, <2>3, <2>4
      <3> QED  BY <2>1, <2>4, <3>1, YearsStep
    <2>6. (d - NewYear(y)) - DaysInYear(y) = d - NewYear(y + 1)
      BY <2>1, <2>3
    <2>7. ByYear(d) = Years[<<y, d - NewYear(y)>>]
      BY <1>2, <2>4
    <2> QED  BY <2>5, <2>6, <2>7
  <1> HIDE DEF S
  <1>3. \A y \in 1970..2099 : y \in S
    BY <1>1, <1>2, ClimbFrom
  <1>4. z \in S
    BY <1>3
  <1> QED  BY <1>4 DEF S

\* While days are left, the month loop goes on from month to month.
LEMMA MonthsClimb ==
  ASSUME NEW y \in Nat, NEW k \in 0..366
  PROVE  \A m \in 1..12 : (m = 1 \/ k > Before(y, m)) =>
             ByMonth(InMonth(y), k) = Months(InMonth(y))[<<m, k - Before(y, m)>>]
  <1> DEFINE L == InMonth(y)
             S == {m \in 1..12 : (m = 1 \/ k > Before(y, m)) => ByMonth(L, k) = Months(L)[<<m, k - Before(y, m)>>]}
  <1>1. L \in [1..12 -> Nat \ {0}]
    BY Tables
  <1>2. ByMonth(L, k) = Months(L)[<<1, k>>]
    BY MonthsStart
  <1>3. 1 \in S
    <2>1. Before(y, 1) = 0
      BY YearEdges
    <2> QED  BY <1>2, <2>1
  <1>4. ASSUME NEW m \in 1..(12 - 1), m \in S PROVE m + 1 \in S
    <2>1. m \in 1..12 /\ m + 1 \in 1..12 /\ m + 1 # 1 /\ m < 12
      OBVIOUS
    <2>2. Before(y, m) \in 0..335 /\ L[m] \in 28..31 /\ Before(y, m + 1) = Before(y, m) + L[m]
      <3>1. InMonth(y)[m] \in 28..31 /\ Before(y, m) \in 0..335
        BY <2>1, MonthRanges
      <3>2. Before(y, m + 1) = Before(y, m) + InMonth(y)[m]
        BY <2>1, MonthAfter
      <3> QED  BY <3>1, <3>2
    <2> HIDE DEF L
    <2>3. SUFFICES ASSUME k > Before(y, m + 1) PROVE ByMonth(L, k) = Months(L)[<<m + 1, k - Before(y, m + 1)>>]
      BY <2>1
    <2>4. k > Before(y, m) /\ k - Before(y, m) \in 0..366 /\ k - Before(y, m) > L[m]
      <3> DEFINE b == Before(y, m)
                 c == L[m]
      <3>1. k > b + c /\ b \in 0..335 /\ c \in 28..31
        BY <2>2, <2>3
      <3> HIDE DEF b, c
      <3>2. k > b /\ k - b > c /\ k - b \in 0..366
        BY <3>1
      <3> QED  BY <3>2 DEF b, c
    <2>5. Months(L)[<<m, k - Before(y, m)>>] = Months(L)[<<m + 1, (k - Before(y, m)) - L[m]>>]
      <3> DEFINE a == k - Before(y, m)
                 c == L[m]
      <3>1. a \in 0..366 /\ c \in 28..31 /\ a > c
        BY <2>2, <2>4
      <3> HIDE DEF a
      <3>2. Months(L)[<<m, a>>] = IF a <= L[m] \/ m = 12 THEN <<m, a>> ELSE Months(L)[<<m + 1, a - L[m]>>]
        <4>1. m \in 1..12 /\ a \in 0..366
          BY <2>1, <3>1
        <4> QED  BY <1>1, <4>1, MonthsStep, ZenonT(60)
      <3> HIDE DEF c
      <3>3. ~(a <= c) /\ m # 12
        BY <2>1, <3>1
      <3> QED  BY <3>2, <3>3 DEF a, c
    <2>6. (k - Before(y, m)) - L[m] = k - Before(y, m + 1)
      BY <2>2
    <2>7. ByMonth(L, k) = Months(L)[<<m, k - Before(y, m)>>]
      BY <1>4, <2>4
    <2> QED  BY <2>5, <2>6, <2>7
  <1> HIDE DEF S
  <1>5. \A m \in 1..12 : m \in S
    BY <1>3, <1>4, ClimbFrom
  <1> QED  BY <1>5 DEF S

\* The years that RTC_DateTime_Type holds.
OnRecord(y) == 1970 <= y /\ y <= 2099
IsFirst(y) == y = 1970

\* The year loop ends in the year the day is in, or at the last day of the year
\* before if the day is the first of January.
LEMMA YearOf ==
  ASSUME NEW y \in Nat, OnRecord(y), NEW k \in Nat, k <= DaysInYear(y), k > 0 \/ IsFirst(y)
  PROVE  ByYear(NewYear(y) + k) = <<y, k>>
  <1> DEFINE d == NewYear(y) + k
  <1>1. NewYear(y) \in Nat
    BY DEF NewYear, OnRecord
  <1>2. d \in Nat /\ d - NewYear(y) = k /\ (y = 1970 \/ d > NewYear(y))
    BY <1>1 DEF IsFirst
  <1> HIDE DEF d
  <1>3. ByYear(d) = Years[<<y, d - NewYear(y)>>]
    <2>1. d \in Nat /\ 1970 <= y /\ y <= 2099 /\ (y = 1970 \/ d > NewYear(y))
      BY <1>2 DEF OnRecord
    <2> QED  BY <2>1, YearsClimb
  <1>4. Years[<<y, k>>] = <<y, k>>
    BY YearsStep
  <1> QED  BY <1>2, <1>3, <1>4 DEF d

\* The months before m and m itself are within the year.
LEMMA MonthsInYear ==
  ASSUME NEW y \in Nat, NEW m \in 1..12
  PROVE  Before(y, m) + InMonth(y)[m] <= DaysInYear(y)
  <1>1. CASE m = 12
    <2>1. Before(y, m) + InMonth(y)[m] = DaysInYear(y) /\ DaysInYear(y) \in Nat
      <3>1. Before(y, m) + InMonth(y)[m] = DaysInYear(y)
        BY <1>1, YearEdges
      <3>2. DaysInYear(y) \in Nat
        BY DEF DaysInYear
      <3> QED  BY <3>1, <3>2
    <2> QED  BY <2>1
  <1>2. CASE m # 12
    <2>1. MONTH_DAYS[m] \in 0..304
      <3>1. /\ MONTH_DAYS[1] = 0 /\ MONTH_DAYS[2] = 31 /\ MONTH_DAYS[3] = 59 /\ MONTH_DAYS[4] = 90
            /\ MONTH_DAYS[5] = 120 /\ MONTH_DAYS[6] = 151 /\ MONTH_DAYS[7] = 181 /\ MONTH_DAYS[8] = 212
            /\ MONTH_DAYS[9] = 243 /\ MONTH_DAYS[10] = 273 /\ MONTH_DAYS[11] = 304
        BY DEF MONTH_DAYS
      <3> QED  BY <1>2, <3>1
    <2>2. Before(y, m) \in 0..305
      BY <2>1 DEF Before
    <2>3. InMonth(y)[m] \in 28..31
      BY MonthRanges
    <2>4. DaysInYear(y) \in {365, 366}
      BY DEF DaysInYear
    <2> QED  BY <2>2, <2>3, <2>4
  <1> QED  BY <1>1, <1>2

\* The month loop ends in the month the day of the year is in, the day after its last included.
LEMMA MonthOf ==
  ASSUME NEW y \in Nat, NEW m \in 1..12, NEW j \in Nat, j <= InMonth(y)[m], j > 0 \/ m = 1
  PROVE  /\ Before(y, m) + j \in 0..366 /\ Before(y, m) + j <= DaysInYear(y)
         /\ ByMonth(InMonth(y), Before(y, m) + j) = <<m, j>>
  <1> DEFINE k == Before(y, m) + j
             L == InMonth(y)
             c == L[m]
             b == Before(y, m)
             n == DaysInYear(y)
  <1>1. b \in 0..335 /\ c \in 28..31
    BY MonthRanges
  <1>2. L \in [1..12 -> Nat \ {0}]
    BY Tables
  <1>3. j <= c /\ b + c <= n /\ n \in {365, 366}
    BY MonthsInYear, NewYears
  <1> HIDE DEF L, b, c, n
  <1>4. b + j \in 0..366 /\ b + j <= n /\ (b + j) - b = j /\ (m = 1 \/ b + j > b) /\ j \in 0..366
    BY <1>1, <1>3
  <1>5. k \in 0..366 /\ k <= n /\ k - b = j /\ (m = 1 \/ k > b) /\ j \in 0..366
    BY <1>4 DEF b
  <1> HIDE DEF k
  <1>6. ByMonth(L, k) = Months(L)[<<m, j>>]
    <2>1. k - Before(y, m) = j /\ (m = 1 \/ k > Before(y, m))
      BY <1>5 DEF b
    <2>2. ByMonth(InMonth(y), k) = Months(InMonth(y))[<<m, k - Before(y, m)>>]
      BY <1>5, <2>1, MonthsClimb
    <2> QED  BY <2>1, <2>2 DEF L
  <1>7. Months(L)[<<m, j>>] = IF j <= L[m] \/ m = 12 THEN <<m, j>> ELSE Months(L)[<<m + 1, j - L[m]>>]
    <2>1. ASSUME NEW l \in [1..12 -> Nat \ {0}], NEW i \in 0..366
          PROVE  Months(l)[<<m, i>>] = IF i <= l[m] \/ m = 12 THEN <<m, i>> ELSE Months(l)[<<m + 1, i - l[m]>>]
      BY MonthsStep, ZenonT(60)
    <2> QED  BY <1>2, <1>5, <2>1
  <1>8. ByMonth(L, k) = <<m, j>>
    BY <1>3, <1>6, <1>7 DEF c
  <1> QED  BY <1>5, <1>8 DEF k, L, n

\* The hour, the minute and the second add up to the second of the day.
LEMMA TimeOf ==
  ASSUME NEW s \in Nat
  PROVE  /\ (s \div 3600) * 3600 + ((s % 3600) \div 60) * 60 + (s % 60) = s
         /\ (s % 3600) \div 60 < 60 /\ s % 60 < 60
  BY SMT

\* The quotient of the counter is the day.
LEMMA DayNumber ==
  ASSUME NEW n \in Nat, NEW s \in Nat, s < SECONDS_IN_A_DAY, NEW c \in Nat, c = n * SECONDS_IN_A_DAY + s
  PROVE  c \div SECONDS_IN_A_DAY = n
  BY SMT DEF SECONDS_IN_A_DAY

\* The remainder of the counter is the second of the day.
LEMMA DaySecond ==
  ASSUME NEW n \in Nat, NEW s \in Nat, s < SECONDS_IN_A_DAY, NEW c \in Nat, c = n * SECONDS_IN_A_DAY + s
  PROVE  c % SECONDS_IN_A_DAY = s
  BY SMT DEF SECONDS_IN_A_DAY

\* Both loops, for the day j + 1 of a month.
LEMMA LoopsOf ==
  ASSUME NEW y \in Nat, OnRecord(y), NEW m \in 1..12, NEW j \in Nat, j <= InMonth(y)[m],
         j > 0 \/ (m = 1 /\ IsFirst(y))
  PROVE  /\ NewYear(y) + (Before(y, m) + j) \in Nat
         /\ ByYear(NewYear(y) + (Before(y, m) + j)) = <<y, Before(y, m) + j>>
         /\ ByMonth(InMonth(y), Before(y, m) + j) = <<m, j>>
  <1> DEFINE k == Before(y, m) + j
  <1>1. k \in 0..366 /\ k <= DaysInYear(y) /\ ByMonth(InMonth(y), k) = <<m, j>>
    <2>1. j > 0 \/ m = 1
      OBVIOUS
    <2> QED  BY <2>1, MonthOf, ZenonT(60)
  <1>2. k > 0 \/ IsFirst(y)
    <2>1. Before(y, m) \in 0..335
      BY MonthRanges
    <2> QED  BY <2>1
  <1> HIDE DEF k
  <1>3. NewYear(y) \in Nat
    BY DEF NewYear, OnRecord
  <1>4. NewYear(y) + k \in Nat
    BY <1>1, <1>3
  <1>5. ByYear(NewYear(y) + k) = <<y, k>>
    <2>1. k \in Nat
      BY <1>1
    <2> QED  BY <1>1, <1>2, <2>1, YearOf
  <1> QED  BY <1>1, <1>4, <1>5 DEF k

\* What RTC_SecondToDateTime makes of where the loops end.
LEMMA DateOf ==
  ASSUME NEW y \in Nat, NEW m, NEW j, NEW k, NEW n, NEW s, NEW c,
         c \div SECONDS_IN_A_DAY = n, c % SECONDS_IN_A_DAY = s,
         ByYear(n) = <<y, k>>, ByMonth(InMonth(y), k) = <<m, j>>
  PROVE  RTC_SecondToDateTime(c) =
          [year |-> y, month |-> m, day |-> j + 1,
           hour |-> s \div 3600, minute |-> (s % 3600) \div 60, second |-> s % 60]
  <1>1. <<y, k>>[1] = y /\ <<y, k>>[2] = k /\ <<m, j>>[1] = m /\ <<m, j>>[2] = j
    OBVIOUS
  <1>2. InMonth(y) = IF y % 4 = 0 THEN LY ELSE ULY
    BY DEF InMonth
  <1> QED  BY <1>1, <1>2, SMT DEF RTC_SecondToDateTime

-----------------------------------------------------------------------------
(* The dates day after day, and what the conversions make of them. *)

\* The date y-m-d is the day n since 1970-01-01.
CivilDate(y, m, d) == [year |-> y, month |-> m, day |-> d]
DateIs(n, y, m, d) ==
  /\ y \in Nat /\ 1970 <= y
  /\ m \in 1..12
  /\ d \in Nat /\ 1 <= d /\ d <= InMonth(y)[m]
  /\ n = NewYear(y) + (Before(y, m) + (d - 1))

\* A day of the counter, which ends with 2099.
Counted(n) == n <= LastDay

\* The months of the civil calendar are those of the tables.
LEMMA MonthLengths ==
  ASSUME NEW y \in Nat, OnRecord(y), NEW m \in 1..12
  PROVE  MonthLength(y, m) = InMonth(y)[m]
  <1>1. Leap(y) <=> y % 4 = 0
    BY LeapYears DEF OnRecord
  <1>2. InMonth(y)[m] = (IF m = 2 THEN (IF y % 4 = 0 THEN 29 ELSE 28) ELSE IF m \in {4, 6, 9, 11} THEN 30 ELSE 31)
    BY Tables
  <1> QED  BY <1>1, <1>2 DEF MonthLength

\* The date after a date.
LEMMA AfterOf ==
  ASSUME NEW y \in Nat, OnRecord(y), NEW m \in 1..12, NEW d \in Nat
  PROVE  DayAfter(CivilDate(y, m, d)) =
           IF d < InMonth(y)[m] THEN CivilDate(y, m, d + 1)
           ELSE IF m < 12 THEN CivilDate(y, m + 1, 1) ELSE CivilDate(y + 1, 1, 1)
  <1> DEFINE t == CivilDate(y, m, d)
  <1>1. t.year = y /\ t.month = m /\ t.day = d
    BY DEF CivilDate
  <1>2. [t EXCEPT !.day = @ + 1] = CivilDate(y, m, d + 1)
    BY DEF CivilDate
  <1>3. [t EXCEPT !.month = @ + 1, !.day = 1] = CivilDate(y, m + 1, 1)
    <2>1. [t EXCEPT !.month = @ + 1] = CivilDate(y, m + 1, d)
      BY DEF CivilDate
    <2>2. [CivilDate(y, m + 1, d) EXCEPT !.day = 1] = CivilDate(y, m + 1, 1)
      BY DEF CivilDate
    <2> HIDE DEF t
    <2>3. [t EXCEPT !.month = @ + 1, !.day = 1] = [[t EXCEPT !.month = @ + 1] EXCEPT !.day = 1]
      OBVIOUS
    <2> QED  BY <2>1, <2>2, <2>3
  <1>4. MonthLength(y, m) = InMonth(y)[m]
    BY MonthLengths
  <1> HIDE DEF t
  <1>5. DayAfter(t) = IF d < InMonth(y)[m] THEN CivilDate(y, m, d + 1)
           ELSE IF m < 12 THEN CivilDate(y, m + 1, 1) ELSE CivilDate(y + 1, 1, 1)
    BY <1>1, <1>2, <1>3, <1>4 DEF DayAfter, CivilDate
  <1> QED  BY <1>5 DEF t

\* Where the date of the day after is.
LEMMA NextDate ==
  ASSUME NEW n, NEW y \in Nat, NEW m \in 1..12, NEW d \in Nat, DateIs(n, y, m, d), OnRecord(y)
  PROVE  \E y2, m2, d2 : DateIs(n + 1, y2, m2, d2) /\ DayAfter(CivilDate(y, m, d)) = CivilDate(y2, m2, d2)
  <1> DEFINE c == InMonth(y)[m]
             b == Before(y, m)
             a == NewYear(y)
  <1>1. y \in Nat /\ 1970 <= y /\ m \in 1..12 /\ d \in Nat /\ 1 <= d /\ d <= c /\ n = a + (b + (d - 1))
    BY DEF DateIs
  <1>2. c \in 28..31 /\ b \in 0..335
    BY MonthRanges
  <1>3. a \in Int
    BY <1>1 DEF NewYear
  <1>4. DayAfter(CivilDate(y, m, d)) =
           IF d < c THEN CivilDate(y, m, d + 1)
           ELSE IF m < 12 THEN CivilDate(y, m + 1, 1) ELSE CivilDate(y + 1, 1, 1)
    BY <1>1, AfterOf
  <1>5. CASE d < c
    <2> HIDE DEF a, b, c
    <2>1. d + 1 \in Nat /\ 1 <= d + 1 /\ d + 1 <= c /\ n + 1 = a + (b + ((d + 1) - 1))
      BY <1>1, <1>2, <1>3, <1>5
    <2>2. DateIs(n + 1, y, m, d + 1)
      BY <1>1, <2>1 DEF DateIs, a, b, c
    <2> QED  BY <1>4, <1>5, <2>2
  <1>6. CASE ~(d < c) /\ m < 12
    <2>1. Before(y, m + 1) = b + c
      BY <1>6, MonthAfter
    <2>2. m + 1 \in 1..12
      BY <1>1, <1>6
    <2>3. InMonth(y)[m + 1] \in 28..31
      BY <1>1, <2>2, MonthRanges
    <2> HIDE DEF a, b, c
    <2>4. n + 1 = a + ((b + c) + (1 - 1)) /\ 1 \in Nat
      BY <1>1, <1>2, <1>3, <1>6
    <2>5. 1 <= InMonth(y)[m + 1]
      BY <2>3
    <2>6. DateIs(n + 1, y, m + 1, 1)
      BY <1>1, <2>1, <2>2, <2>4, <2>5 DEF DateIs, a
    <2> QED  BY <1>4, <1>6, <2>6
  <1>7. CASE ~(d < c) /\ m = 12
    <2>1. b + c = DaysInYear(y)
      BY <1>7, YearEdges
    <2>2. y + 1 \in Nat /\ 1970 <= y + 1 /\ 1 \in 1..12 /\ 1 \in Nat
      BY <1>1
    <2>3. NewYear(y + 1) = a + DaysInYear(y)
      BY NewYears
    <2>4. Before(y + 1, 1) = 0 /\ InMonth(y + 1)[1] \in 28..31
      BY <2>2, YearEdges
    <2> HIDE DEF a, b, c
    <2>5. n + 1 = a + (b + c)
      BY <1>1, <1>2, <1>3, <1>7
    <2>6. n + 1 = NewYear(y + 1) + (Before(y + 1, 1) + (1 - 1))
      BY <1>2, <1>3, <2>1, <2>3, <2>4, <2>5
    <2>7. 1 <= InMonth(y + 1)[1]
      BY <2>4
    <2>8. DateIs(n + 1, y + 1, 1, 1)
      BY <2>2, <2>6, <2>7 DEF DateIs
    <2> QED  BY <1>4, <1>7, <2>8
  <1>8. m < 12 \/ m = 12
    BY <1>1
  <1> QED  BY <1>5, <1>6, <1>7, <1>8

\* No day of the counter is past 2099.
LEMMA StaysOnRecord ==
  ASSUME NEW n, NEW y \in Nat, NEW m \in 1..12, NEW d \in Nat, DateIs(n, y, m, d), Counted(n)
  PROVE  OnRecord(y)
  <1>1. y \in Nat /\ 1970 <= y /\ m \in 1..12 /\ d \in Nat /\ 1 <= d /\ n = NewYear(y) + (Before(y, m) + (d - 1))
    BY SMT DEF DateIs
  <1>2. Before(y, m) \in 0..335
    BY MonthRanges
  <1>3. NewYear(y) \in Int
    BY <1>1, SMT DEF NewYear
  <1>4. n \in Int /\ NewYear(y) <= n
    BY <1>1, <1>2, <1>3, SMT
  <1>5. NewYear(y) <= 47481
    BY <1>3, <1>4, SMT DEF Counted, LastDay
  <1>6. y < 2100
    BY <1>1, <1>5, SMT DEF NewYear
  <1> QED  BY <1>1, <1>6, SMT DEF OnRecord

\* RTC_DateTimeToSecond numbers the days one after the other.
LEMMA SecondOf ==
  ASSUME NEW n, NEW y \in Nat, NEW m \in 1..12, NEW d \in Nat, DateIs(n, y, m, d), NEW s
  PROVE  n \in Int /\ RTC_DateTimeToSecond(CivilDate(y, m, d), s) = (n + 1) * SECONDS_IN_A_DAY + s + 1
  <1> DEFINE t == CivilDate(y, m, d)
             k == MONTH_DAYS[m]
             v == (y - 1970) * 365 + (y \div 4 - 1970 \div 4) + k + d - IF y % 4 = 0 /\ m <= 2 THEN 1 ELSE 0
  <1>1. y \in Nat /\ 1970 <= y /\ m \in 1..12 /\ d \in Nat /\ 1 <= d /\ n = NewYear(y) + (Before(y, m) + (d - 1))
    BY DEF DateIs
  <1>2. k \in 0..334
    BY Tables
  <1>3. t.year = y /\ t.month = m /\ t.day = d
    BY DEF CivilDate
  <1>4. Before(y, m) = k + IF y % 4 = 0 /\ m > 2 THEN 1 ELSE 0
    BY DEF Before
  <1> HIDE DEF t, k
  <1>5. v = n + 1 /\ n \in Int
    BY <1>1, <1>2, <1>4, SMT DEF NewYear
  <1>6. RTC_DateTimeToSecond(t, s) = v * SECONDS_IN_A_DAY + s + 1
    BY <1>3 DEF RTC_DateTimeToSecond, k
  <1> HIDE DEF v
  <1> QED  BY <1>5, <1>6 DEF t

\* Whole weeks do not change the day of the week.
LEMMA Modulo7 ==
  ASSUME NEW a \in Int, NEW b \in Int, NEW q \in Int, a = b + 7 * q
  PROVE  a % 7 = b % 7
  BY SMT

\* RTC_GetWeek counts the days of the week on from that of 1970-01-01.
LEMMA WeekOf ==
  ASSUME NEW n, NEW y \in Nat, OnRecord(y), NEW m \in 1..12, NEW d \in Nat, DateIs(n, y, m, d)
  PROVE  RTC_GetWeek(y, m, d) = (n + 4) % 7
  <1> DEFINE k == MONTH_DAYS[m]
             x == y - 1
             leap == m > 2 /\ (y % 400 = 0 \/ (y % 4 = 0 /\ y % 100 # 0))
             l == IF leap THEN 1 ELSE 0
             v == x + x \div 4 - x \div 100 + x \div 400 + d + k + l
  <1>1. k \in 0..334
    BY Tables
  <1>2. n = NewYear(y) + (Before(y, m) + (d - 1))
    BY DEF DateIs
  <1>3. 1970 <= y /\ y <= 2099
    BY DEF OnRecord
  <1>4. leap <=> (y % 4 = 0 /\ m > 2)
    BY <1>3
  <1>5. Before(y, m) = k + l
    BY <1>4 DEF Before
  <1>6. l \in {0, 1}
    OBVIOUS
  <1>7. RTC_GetWeek(y, m, d) = v % 7
    BY DEF RTC_GetWeek
  <1> HIDE DEF k, l, leap
  <1>8. x \div 400 - x \div 100 = -15 /\ x \in Nat /\ x \div 4 \in Nat /\ x \div 100 \in Nat /\ x \div 400 \in Nat
    BY <1>3
  <1>9. n + 4 = v + 7 * (52 * y - 102789) /\ v \in Int /\ n + 4 \in Int /\ 52 * y - 102789 \in Int
    BY <1>1, <1>2, <1>5, <1>6, <1>8, SMT DEF NewYear
  <1> HIDE DEF v
  <1>10. (n + 4) % 7 = v % 7
    BY <1>9, Modulo7
  <1> QED  BY <1>7, <1>10

\* The fields that RTC_SecondToDateTime sets.
Stamp(y, m, d, s) ==
  [year |-> y, month |-> m, day |-> d,
   hour |-> s \div 3600, minute |-> (s % 3600) \div 60, second |-> s % 60]

\* RTC_SecondToDateTime of a second of the day j + 1 of a month.
LEMMA ReadAs ==
  ASSUME NEW y \in Nat, OnRecord(y), NEW m \in 1..12, NEW j \in Nat, j <= InMonth(y)[m],
         j > 0 \/ (m = 1 /\ IsFirst(y)), NEW s \in Nat, s < SECONDS_IN_A_DAY
  PROVE  RTC_SecondToDateTime((NewYear(y) + (Before(y, m) + j)) * SECONDS_IN_A_DAY + s) =
          Stamp(y, m, j + 1, s)
  <1> DEFINE k == Before(y, m) + j
             n == NewYear(y) + k
             c == n * SECONDS_IN_A_DAY + s
  <1>1. n \in Nat /\ ByYear(n) = <<y, k>> /\ ByMonth(InMonth(y), k) = <<m, j>>
    BY LoopsOf
  <1> HIDE DEF k, n
  <1>2. c \in Nat
    BY <1>1, SMT DEF SECONDS_IN_A_DAY
  <1>3. c \div SECONDS_IN_A_DAY = n
    BY <1>1, <1>2, DayNumber
  <1>4. c % SECONDS_IN_A_DAY = s
    BY <1>1, <1>2, DaySecond
  <1> HIDE DEF c
  <1>5. RTC_SecondToDateTime(c) =
          Stamp(y, m, j + 1, s)
    BY <1>1, <1>3, <1>4, DateOf DEF Stamp
  <1> QED  BY <1>5 DEF c, n, k

\* The day j + 1 of a month is what the loops make of the day n, which unless it is a
\* first is its date.
NamedBy(n, y2, m2, j, y, m, d) ==
  /\ OnRecord(y2) /\ j <= InMonth(y2)[m2] /\ (j > 0 \/ (m2 = 1 /\ IsFirst(y2)))
  /\ n = NewYear(y2) + (Before(y2, m2) + j)
  /\ d # 1 => y2 = y /\ m2 = m /\ j + 1 = d

\* The loops end at the day itself, or past the end of the month before if it is a first.
LEMMA NamedAs ==
  ASSUME NEW n, NEW y \in Nat, OnRecord(y), NEW m \in 1..12, NEW d \in Nat, DateIs(n, y, m, d)
  PROVE  \E y2 \in Nat, m2 \in 1..12, j \in Nat : NamedBy(n, y2, m2, j, y, m, d)
  <1>1. 1 <= d /\ d <= InMonth(y)[m] /\ n = NewYear(y) + (Before(y, m) + (d - 1))
    BY DEF DateIs
  <1>2. InMonth(y)[m] \in 28..31 /\ Before(y, m) \in 0..335
    BY MonthRanges
  <1>3. NewYear(y) \in Int
    BY DEF NewYear
  <1>4. CASE d > 1 \/ (m = 1 /\ IsFirst(y))
    <2> DEFINE j == d - 1
    <2>1. j \in Nat /\ j + 1 = d /\ (j > 0 \/ (m = 1 /\ IsFirst(y)))
      BY <1>1, <1>4
    <2>2. j <= InMonth(y)[m]
      BY <1>1, <1>2
    <2>4. n = NewYear(y) + (Before(y, m) + j)
      BY <1>1
    <2> HIDE DEF j
    <2>5. NamedBy(n, y, m, j, y, m, d)
      BY <2>1, <2>2, <2>4 DEF NamedBy
    <2> QED  BY <2>1, <2>5
  <1>5. CASE d = 1 /\ m > 1
    <2> DEFINE p == m - 1
               j == InMonth(y)[p]
    <2>1. p \in 1..12 /\ p + 1 = m /\ p < 12
      BY <1>5
    <2> HIDE DEF p
    <2>2. j \in 28..31
      BY <2>1, MonthRanges
    <2>3. Before(y, p + 1) = Before(y, p) + j
      BY <2>1, MonthAfter
    <2>4. Before(y, p) \in 0..335
      BY <2>1, MonthRanges
    <2>5. j \in Nat /\ j > 0 /\ j + 1 \in Nat
      BY <2>2
    <2>7. j <= InMonth(y)[p]
      <3>1. j = InMonth(y)[p]
        OBVIOUS
      <3> HIDE DEF j
      <3> QED  BY <2>5, <3>1
    <2> HIDE DEF j
    <2>8. n = NewYear(y) + (Before(y, p) + j)
      <3>1. n = NewYear(y) + (Before(y, m) + (1 - 1)) /\ Before(y, m) = Before(y, p) + j
        BY <1>1, <1>5, <2>1, <2>3
      <3> QED  BY <1>3, <2>4, <2>5, <3>1
    <2>9. NamedBy(n, y, p, j, y, m, d)
      BY <1>5, <2>5, <2>7, <2>8 DEF NamedBy
    <2> QED  BY <2>1, <2>5, <2>9
  <1>6. CASE d = 1 /\ m = 1 /\ ~IsFirst(y)
    <2> DEFINE z == y - 1
               j == InMonth(z)[12]
    <2>1. z \in Nat /\ OnRecord(z) /\ z + 1 = y
      BY <1>6 DEF OnRecord, IsFirst
    <2> HIDE DEF z
    <2>2. j \in 28..31 /\ Before(z, 12) \in 0..335 /\ 12 \in 1..12
      BY <2>1, MonthRanges, 12 \in 1..12
    <2>3. Before(z, 12) + j = DaysInYear(z)
      BY <2>1, YearEdges
    <2>4. NewYear(z + 1) = NewYear(z) + DaysInYear(z) /\ NewYear(z) \in Int
      BY <2>1, NewYears
    <2>5. j \in Nat /\ j > 0 /\ j + 1 \in Nat
      BY <2>2
    <2>7. j <= InMonth(z)[12]
      <3>1. j = InMonth(z)[12]
        OBVIOUS
      <3> HIDE DEF j
      <3> QED  BY <2>5, <3>1
    <2>8. Before(y, m) = 0
      BY <1>6, YearEdges
    <2> HIDE DEF j
    <2>9. n = NewYear(z) + (Before(z, 12) + j)
      <3>1. n = NewYear(y) + (0 + (1 - 1)) /\ NewYear(y) = NewYear(z) + DaysInYear(z)
        BY <1>1, <1>6, <2>1, <2>4, <2>8
      <3> QED  BY <1>3, <2>3, <3>1
    <2>10. NamedBy(n, z, 12, j, y, m, d)
      BY <1>6, <2>1, <2>5, <2>7, <2>9 DEF NamedBy
    <2> QED  BY <2>1, <2>2, <2>5, <2>10
  <1>7. d > 1 \/ d = 1
    BY <1>1
  <1>8. m > 1 \/ m = 1
    OBVIOUS
  <1> QED  BY <1>4, <1>5, <1>6, <1>7, <1>8

\* RTC_SecondToDateTime names the second, and the day unless it is a first.
LEMMA NamesIt ==
  ASSUME NEW n, NEW y \in Nat, OnRecord(y), NEW m \in 1..12, NEW d \in Nat, DateIs(n, y, m, d),
         NEW s \in Nat, s < SECONDS_IN_A_DAY
  PROVE  LET t == RTC_SecondToDateTime(n * SECONDS_IN_A_DAY + s)
         IN /\ d # 1 => [year |-> t.year, month |-> t.month, day |-> t.day] = CivilDate(y, m, d)
            /\ t.hour * 3600 + t.minute * 60 + t.second = s /\ t.minute < 60 /\ t.second < 60
  <1> DEFINE t == RTC_SecondToDateTime(n * SECONDS_IN_A_DAY + s)
  <1>1. PICK y2 \in Nat, m2 \in 1..12, j \in Nat : NamedBy(n, y2, m2, j, y, m, d)
    BY NamedAs
  <1>2. /\ OnRecord(y2) /\ j <= InMonth(y2)[m2] /\ (j > 0 \/ (m2 = 1 /\ IsFirst(y2)))
        /\ n = NewYear(y2) + (Before(y2, m2) + j)
        /\ d # 1 => y2 = y /\ m2 = m /\ j + 1 = d
    BY <1>1 DEF NamedBy
  <1>3. t = Stamp(y2, m2, j + 1, s)
    <2>1. OnRecord(y2)
      BY <1>2
    <2>2. j <= InMonth(y2)[m2]
      BY <1>2
    <2>3. j > 0 \/ (m2 = 1 /\ IsFirst(y2))
      BY <1>2
    <2>4. RTC_SecondToDateTime((NewYear(y2) + (Before(y2, m2) + j)) * SECONDS_IN_A_DAY + s) =
            Stamp(y2, m2, j + 1, s)
      BY <2>1, <2>2, <2>3, ReadAs
    <2> QED  BY <1>2, <2>4
  <1> HIDE DEF t
  <1>4. /\ t.year = y2 /\ t.month = m2 /\ t.day = j + 1
        /\ t.hour = s \div 3600 /\ t.minute = (s % 3600) \div 60 /\ t.second = s % 60
    BY <1>3 DEF Stamp
  <1>5. d # 1 => [year |-> t.year, month |-> t.month, day |-> t.day] = CivilDate(y, m, d)
    BY <1>2, <1>4 DEF CivilDate
  <1>6. t.hour * 3600 + t.minute * 60 + t.second = s /\ t.minute < 60 /\ t.second < 60
    BY <1>4, TimeOf
  <1> QED  BY <1>5, <1>6 DEF t

-----------------------------------------------------------------------------
(* The theorem. *)

\* The inductive invariant: the civil date is that of the day.
CalendarInv ==
  /\ days \in Nat /\ Counted(days)
  /\ \E y \in Nat, m \in 1..12, d \in Nat :
       OnRecord(y) /\ DateIs(days, y, m, d) /\ today = CivilDate(y, m, d)

\* 1970-01-01 is the day 0.
LEMMA CalendarStarts ==
  ASSUME CalendarInit
  PROVE  CalendarInv
  <1>1. days = 0 /\ today = CivilDate(1970, 1, 1)
    BY DEF CalendarInit, CivilDate
  <1>2. Before(1970, 1) = 0 /\ InMonth(1970)[1] \in 28..31
    BY YearEdges, 1970 \in Nat, SMT
  <1>3. DateIs(0, 1970, 1, 1)
    BY <1>2, NewYears, SMT DEF DateIs
  <1>4. OnRecord(1970) /\ Counted(0)
    BY SMT DEF OnRecord, Counted, LastDay
  <1> QED  BY <1>1, <1>3, <1>4, SMT DEF CalendarInv

\* The day after stays before the end of 2099.
LEMMA CountsOn ==
  ASSUME NEW n \in Nat, n < MaxDays
  PROVE  Counted(n + 1) /\ n + 1 \in Nat
  <1>1. MaxDays \in Nat /\ MaxDays <= LastDay
    BY CalendarAssumption
  <1>2. LastDay \in Nat
    BY SMT DEF LastDay
  <1> QED  BY <1>1, <1>2 DEF Counted

\* A day later the civil date is that of the day.
LEMMA CalendarSteps ==
  ASSUME CalendarInv, NextDay
  PROVE  CalendarInv'
  <1>1. PICK y \in Nat, m \in 1..12, d \in Nat :
          OnRecord(y) /\ DateIs(days, y, m, d) /\ today = CivilDate(y, m, d)
    BY DEF CalendarInv
  <1>2. days' \in Nat /\ Counted(days') /\ days' = days + 1
    <2>1. days \in Nat /\ days < MaxDays /\ days' = days + 1
      BY DEF CalendarInv, NextDay
    <2> QED  BY <2>1, CountsOn
  <1>3. today' = DayAfter(CivilDate(y, m, d))
    BY <1>1 DEF NextDay
  <1>4. PICK y2, m2, d2 : DateIs(days + 1, y2, m2, d2) /\ DayAfter(CivilDate(y, m, d)) = CivilDate(y2, m2, d2)
    <2>1. OnRecord(y)
      BY <1>1
    <2>2. DateIs(days, y, m, d)
      BY <1>1
    <2> QED  BY <2>1, <2>2, NextDate, SMTT(60)
  <1>5. y2 \in Nat /\ m2 \in 1..12 /\ d2 \in Nat /\ DateIs(days', y2, m2, d2)
    BY <1>2, <1>4 DEF DateIs
  <1>6. OnRecord(y2)
    BY <1>2, <1>5, StaysOnRecord
  <1>7. today' = CivilDate(y2, m2, d2)
    BY <1>3, <1>4
  <1> QED  BY <1>2, <1>5, <1>6, <1>7 DEF CalendarInv

\* Where it is, the conversions are right.
LEMMA CalendarAgrees ==
  ASSUME CalendarInv
  PROVE  RightButOnFirsts
  <1>1. PICK y \in Nat, m \in 1..12, d \in Nat :
          OnRecord(y) /\ DateIs(days, y, m, d) /\ today = CivilDate(y, m, d)
    BY DEF CalendarInv
  <1>2. ASSUME NEW s \in Seconds PROVE s \in Nat /\ s < SECONDS_IN_A_DAY
    BY CalendarAssumption
  <1>3. NamesTheDay
    <2> SUFFICES ASSUME NEW s \in Seconds
                 PROVE  LET t == RTC_SecondToDateTime(days * SECONDS_IN_A_DAY + s)
                        IN /\ today.day # 1 => [year |-> t.year, month |-> t.month, day |-> t.day] = today
                           /\ t.hour * 3600 + t.minute * 60 + t.second = s /\ t.minute < 60 /\ t.second < 60
      BY DEF NamesTheDay
    <2>1. s \in Nat /\ s < SECONDS_IN_A_DAY
      BY <1>2
    <2>2. today.day = d
      BY <1>1 DEF CivilDate
    <2> QED  BY <1>1, <2>1, <2>2, NamesIt
  <1>4. WeekIsRight
    <2>1. today.year = y /\ today.month = m /\ today.day = d
      BY <1>1 DEF CivilDate
    <2> QED  BY <1>1, <2>1, WeekOf DEF WeekIsRight
  <1>5. DaysFollow
    <2>1. PICK y2, m2, d2 : DateIs(days + 1, y2, m2, d2) /\ DayAfter(CivilDate(y, m, d)) = CivilDate(y2, m2, d2)
      <3>1. OnRecord(y)
        BY <1>1
      <3>2. DateIs(days, y, m, d)
        BY <1>1
      <3> QED  BY <3>1, <3>2, NextDate, SMTT(60)
    <2>2. y2 \in Nat /\ m2 \in 1..12 /\ d2 \in Nat
      BY <2>1 DEF DateIs
    <2> SUFFICES ASSUME NEW s \in Seconds
                 PROVE  RTC_DateTimeToSecond(DayAfter(today), s) = RTC_DateTimeToSecond(today, s) + SECONDS_IN_A_DAY
      BY DEF DaysFollow
    <2>3. RTC_DateTimeToSecond(CivilDate(y, m, d), s) = (days + 1) * SECONDS_IN_A_DAY + s + 1
      BY <1>1, SecondOf
    <2>4. RTC_DateTimeToSecond(CivilDate(y2, m2, d2), s) = ((days + 1) + 1) * SECONDS_IN_A_DAY + s + 1
      BY <2>1, <2>2, SecondOf
    <2>5. days \in Nat /\ s \in Nat
      BY <1>2 DEF CalendarInv
    <2>6. ((days + 1) + 1) * SECONDS_IN_A_DAY + s + 1 = ((days + 1) * SECONDS_IN_A_DAY + s + 1) + SECONDS_IN_A_DAY
      BY <2>5, SMT DEF SECONDS_IN_A_DAY
    <2> QED  BY <1>1, <2>1, <2>3, <2>4, <2>6
  <1> QED  BY <1>3, <1>4, <1>5 DEF RightButOnFirsts

\* Day after day, to the end of 2099, and at every second of the day, the time, the day
\* of the week and the counter that ibox_rtc.c computes agree with the civil calendar;
\* so does the date that RTC_SecondToDateTime makes, except on the first of a month.
THEOREM CalendarIsRightButOnFirsts == CalendarSpec => []RightButOnFirsts
  <1>1. CalendarInit => CalendarInv
    BY CalendarStarts
  <1>2. CalendarInv /\ [NextDay]_calendarVars => CalendarInv'
    <2>1. CASE UNCHANGED calendarVars
      BY <2>1 DEF CalendarInv, calendarVars
    <2> QED  BY <2>1, CalendarSteps
  <1>3. CalendarInv => RightButOnFirsts
    BY CalendarAgrees
  <1> QED  BY <1>1, <1>2, <1>3, PTL DEF CalendarSpec
=============================================================================
