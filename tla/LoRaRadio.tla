----------------------------- MODULE LoRaRadio -----------------------------
(***************************************************************************)
(* The LoRa radio: the SX1276 driver's polled state machine                *)
(* (SX1276LoRaProcess), the lora thread that calls it every half second,   *)
(* and the chip, which works on its own between two polls and tells the    *)
(* driver what it did only through its interrupt flags.                    *)
(*                                                                         *)
(* Time is counted in units of ten RTOS ticks.  The board's application    *)
(* only listens; the driver's interface (radio.h) also sends and looks for *)
(* channel activity, so a second kind of client uses all of it.  Which of  *)
(* the two runs is chosen once, in "client".                               *)
(***************************************************************************)
EXTENDS Integers, Sequences, FiniteSets

CONSTANTS
    Poll,           \* rt_thread_delay between two polls of the thread
    Late,           \* how late the scheduler may start a poll
    PacketTimeout,  \* LoRaSettings.RxPacketTimeout
    Window,         \* the chip's symbol timeout in single receive mode
    Air,            \* the longest time a packet is on the air
    MaxPackets,     \* bound: packets other stations send
    MaxSends        \* bound: packets this station sends

ASSUME RadioTimes ==
    /\ {Poll, Late, PacketTimeout, Window, Air, MaxPackets, MaxSends} \subseteq Nat
    /\ Poll > 0 /\ Air > 0
    /\ Window + Air < Poll     \* 26 + 13 ticks at SF7, 500 kHz, against 50

VARIABLES
    client,     \* "listen": the board's lora thread, "talk": a client that sends too
    RFLRState,  \* the driver's state
    RegOpMode,  \* the driver's copy of the chip's mode register
    opMode,     \* the mode the chip is in
    irq, mask,  \* RegIrqFlags and RegIrqFlagsMask
    dio0,       \* the flag pin DIO0 shows (RegDioMapping1)
    fifo,       \* what the chip's buffer holds
    onAir,      \* the packet the chip is receiving, or None
    RFBuffer,   \* the driver's packet buffer
    pollAge,    \* time since the last poll
    rxAge,      \* time since RxTimeoutTimer was set
    chipAge,    \* time since the chip's mode, or its reception, began
    heard,      \* history: packets received with a good checksum
    delivered,  \* history: packets the thread got from SX1276GetRxPacket
    asked,      \* history: packets given to SX1276SetTxPacket
    aired,      \* history: packets the chip transmitted
    reported,   \* history: how many RF_TX_DONE were returned
    sent        \* packets other stations have sent

driverVars == <<RFLRState, RegOpMode, RFBuffer, rxAge, pollAge>>
chipVars == <<opMode, irq, mask, dio0, fifo, onAir, chipAge>>
txHistory == <<asked, aired, reported>>
vars == <<client, driverVars, chipVars, heard, delivered, txHistory, sent>>

None == 0
Theirs == 1..MaxPackets                        \* packets of other stations
Ours == (MaxPackets + 1)..(MaxPackets + MaxSends)
Blank == MaxPackets + MaxSends + 1             \* memset( RFBuffer, 0, ... )

RxStates == {"RX_INIT", "RX_RUNNING", "RX_DONE", "RX_TIMEOUT"}
TxStates == {"TX_INIT", "TX_RUNNING", "TX_DONE"}
CadStates == {"CAD_INIT", "CAD_RUNNING"}
States == {"IDLE"} \cup RxStates \cup TxStates \cup CadStates
Modes == {"STANDBY", "RECEIVER_SINGLE", "TRANSMITTER", "CAD"}
Flags == {"RxDone", "CrcError", "TxDone", "Fhss", "CadDone", "CadDetected"}

Aged(age, cap) == IF age < cap THEN age + 1 ELSE cap
----------------------------------------------------------------------------
\* lora_init: the chip is reset and set up, its registers are copied to the
\* driver's, and the state machine is left in RX_INIT.
Init ==
    /\ client \in {"listen", "talk"}
    /\ RFLRState = "RX_INIT"
    /\ RegOpMode = "STANDBY" /\ opMode = "STANDBY"
    /\ irq = {} /\ mask = {} /\ dio0 = "RxDone"
    /\ fifo = None /\ onAir = None /\ RFBuffer = Blank
    /\ pollAge = Poll /\ rxAge = 0 /\ chipAge = 0
    /\ heard = <<>> /\ delivered = <<>> /\ asked = <<>> /\ aired = <<>>
    /\ reported = 0 /\ sent = 0
----------------------------------------------------------------------------
\* The chip.

\* A mode change ends what the chip was doing.  SX1276LoRaSetOpMode writes the
\* mode only when the driver's copy of the register says it differs.
SetOpMode(copy, chip, m) ==
    [copy |-> m, chip |-> IF m # copy THEN m ELSE chip]

\* The preamble of another station's packet is found inside the window.
ChipHears ==
    /\ opMode = "RECEIVER_SINGLE" /\ onAir = None /\ chipAge < Window
    /\ sent < MaxPackets
    /\ sent' = sent + 1 /\ onAir' = sent + 1 /\ chipAge' = 0
    /\ UNCHANGED <<client, driverVars, opMode, irq, mask, dio0, fifo, heard,
                   delivered, txHistory>>

\* The packet is over; single mode falls back to standby.
ChipRxDone ==
    /\ opMode = "RECEIVER_SINGLE" /\ onAir # None
    /\ \E good \in BOOLEAN :
        /\ irq' = irq \cup (({"RxDone"} \cup IF good THEN {} ELSE {"CrcError"}) \ mask)
        /\ heard' = IF good THEN Append(heard, onAir) ELSE heard
    /\ fifo' = onAir /\ onAir' = None
    /\ opMode' = "STANDBY" /\ chipAge' = 0
    /\ UNCHANGED <<client, driverVars, mask, dio0, delivered, txHistory, sent>>

\* No preamble inside the window; the timeout flag is masked.
ChipRxTimeout ==
    /\ opMode = "RECEIVER_SINGLE" /\ onAir = None /\ chipAge = Window
    /\ opMode' = "STANDBY" /\ chipAge' = 0
    /\ UNCHANGED <<client, driverVars, irq, mask, dio0, fifo, onAir, heard,
                   delivered, txHistory, sent>>

\* RegHopPeriod is 255 while receiving, so a long packet raises this flag.
ChipHops ==
    /\ onAir # None /\ "Fhss" \notin irq \cup mask
    /\ irq' = irq \cup {"Fhss"}
    /\ UNCHANGED <<client, driverVars, opMode, mask, dio0, fifo, onAir, chipAge,
                   heard, delivered, txHistory, sent>>

ChipTxDone ==
    /\ opMode = "TRANSMITTER"
    /\ aired' = Append(aired, fifo)
    /\ irq' = irq \cup ({"TxDone"} \ mask)
    /\ opMode' = "STANDBY" /\ chipAge' = 0
    /\ UNCHANGED <<client, driverVars, mask, dio0, fifo, onAir, heard, delivered,
                   asked, reported, sent>>

ChipCadDone ==
    /\ opMode = "CAD"
    /\ \E seen \in BOOLEAN :
        irq' = irq \cup (({"CadDone"} \cup IF seen THEN {"CadDetected"} ELSE {}) \ mask)
    /\ opMode' = "STANDBY" /\ chipAge' = 0
    /\ UNCHANGED <<client, driverVars, mask, dio0, fifo, onAir, heard, delivered,
                   txHistory, sent>>

\* The chip keeps to its own times: it may not overstay a window or a packet.
Tick ==
    /\ pollAge < Poll + Late
    /\ opMode = "RECEIVER_SINGLE" /\ onAir = None => chipAge < Window
    /\ onAir # None \/ opMode \in {"TRANSMITTER", "CAD"} => chipAge < Air
    /\ pollAge' = pollAge + 1
    /\ rxAge' = Aged(rxAge, PacketTimeout + 1)
    /\ chipAge' = Aged(chipAge, Window + Air)
    /\ UNCHANGED <<client, RFLRState, RegOpMode, RFBuffer, opMode, irq, mask, dio0,
                   fifo, onAir, heard, delivered, txHistory, sent>>
----------------------------------------------------------------------------
\* SX1276LoRaProcess, one action per state; DIO0 shows the flag it is mapped to.
DIO0 == dio0 \in irq
DIO2 == "Fhss" \in irq
DIO3 == "CadDone" \in irq
DIO4 == FALSE                 \* SX1276ReadDio4 returns 0: the pin is not wired

PollDue == pollAge >= Poll         \* rt_thread_delay is over
NoHistory == UNCHANGED <<client, heard, delivered, txHistory, sent>>
----------------------------------------------------------------------------
Idle ==
    /\ PollDue /\ RFLRState = "IDLE"
    /\ pollAge' = 0
    /\ UNCHANGED <<RFLRState, RegOpMode, RFBuffer, rxAge, chipVars>> /\ NoHistory

\* The chip enters the mode of the state, with the flags of "hide" masked, and
\* drops what it was receiving.
EnterMode(modes, hide, pin) ==
    /\ RegOpMode' = modes.copy /\ opMode' = modes.chip
    /\ mask' = hide
    /\ dio0' = pin
    /\ onAir' = None /\ chipAge' = 0

Through(copy, chip, m) ==
    LET standby == SetOpMode(copy, chip, "STANDBY")
    IN SetOpMode(standby.copy, standby.chip, m)

StartReceiver(modes) ==
    /\ PollDue /\ RFLRState = "RX_INIT"
    /\ EnterMode(modes, {"TxDone", "CadDone", "CadDetected"}, "RxDone")
    /\ RFBuffer' = Blank
    /\ rxAge' = 0 /\ pollAge' = 0
    /\ RFLRState' = "RX_RUNNING"
    /\ UNCHANGED <<irq, fifo>> /\ NoHistory

\* Fault: the receiver is asked for without going through standby.
RxInitDirect == StartReceiver(SetOpMode(RegOpMode, opMode, "RECEIVER_SINGLE"))

RxInit == StartReceiver(Through(RegOpMode, opMode, "RECEIVER_SINGLE"))

\* The two flags set RxTimeoutTimer anew before the timeout is tested.
RunningAge == IF DIO0 \/ DIO2 THEN 0 ELSE rxAge

\* Fault: the RxDone flag is not cleared when it has been seen.
Unclear(flags) == irq \ (flags \ {"RxDone"})

Clear(flags) == irq \ flags

RxRunning ==
    /\ PollDue /\ RFLRState = "RX_RUNNING"
    /\ rxAge' = RunningAge
    /\ irq' = Clear({"Fhss"} \cup IF DIO0 THEN {"RxDone"} ELSE {})
    /\ RFLRState' = IF RunningAge > PacketTimeout THEN "RX_TIMEOUT"
                    ELSE IF DIO0 THEN "RX_DONE" ELSE "RX_RUNNING"
    /\ pollAge' = 0
    /\ UNCHANGED <<RegOpMode, RFBuffer, opMode, mask, dio0, fifo, onAir, chipAge>>
    /\ NoHistory

\* A bad checksum sends the driver back to listen; otherwise the packet is read
\* from the chip's buffer and, RF_RX_DONE being returned, the thread takes it
\* with SX1276GetRxPacket before it sleeps.
RxDone ==
    /\ PollDue /\ RFLRState = "RX_DONE"
    /\ IF "CrcError" \in irq
       THEN irq' = Clear({"CrcError"}) /\ UNCHANGED <<RFBuffer, delivered>>
       ELSE /\ RFBuffer' = fifo
            /\ delivered' = Append(delivered, fifo)
            /\ UNCHANGED irq
    /\ RFLRState' = "RX_INIT"
    /\ pollAge' = 0
    /\ UNCHANGED <<client, RegOpMode, rxAge, opMode, mask, dio0, fifo, onAir,
                   chipAge, heard, txHistory, sent>>

RxTimeout ==
    /\ PollDue /\ RFLRState = "RX_TIMEOUT"
    /\ RFLRState' = "RX_INIT"
    /\ pollAge' = 0
    /\ UNCHANGED <<RegOpMode, RFBuffer, rxAge, chipVars>> /\ NoHistory

StartTransmitter(hide, pin, bytes) ==
    /\ PollDue /\ RFLRState = "TX_INIT"
    /\ EnterMode(Through(RegOpMode, opMode, "TRANSMITTER"), hide, pin)
    /\ fifo' = bytes
    /\ pollAge' = 0
    /\ RFLRState' = "TX_RUNNING"
    /\ UNCHANGED <<RFBuffer, rxAge, irq>> /\ NoHistory

\* Fault: the one flag the driver waits for is masked too.
TxInitMasked == StartTransmitter(Flags, "TxDone", RFBuffer)

TxInit == StartTransmitter(Flags \ {"TxDone"}, "TxDone", RFBuffer)

TxRunning ==
    /\ PollDue /\ RFLRState = "TX_RUNNING"
    /\ irq' = Clear({"Fhss"} \cup IF DIO0 THEN {"TxDone"} ELSE {})
    /\ RFLRState' = IF DIO0 THEN "TX_DONE" ELSE "TX_RUNNING"
    /\ pollAge' = 0
    /\ UNCHANGED <<RegOpMode, RFBuffer, rxAge, opMode, mask, dio0, fifo, onAir,
                   chipAge>>
    /\ NoHistory

TxDone ==
    /\ PollDue /\ RFLRState = "TX_DONE"
    /\ LET standby == SetOpMode(RegOpMode, opMode, "STANDBY")
       IN RegOpMode' = standby.copy /\ opMode' = standby.chip
    /\ RFLRState' = "IDLE"
    /\ reported' = reported + 1
    /\ pollAge' = 0 /\ chipAge' = 0
    /\ UNCHANGED <<client, RFBuffer, rxAge, irq, mask, dio0, fifo, onAir, heard,
                   delivered, asked, aired, sent>>

CadInit ==
    /\ PollDue /\ RFLRState = "CAD_INIT"
    /\ EnterMode(Through(RegOpMode, opMode, "CAD"),
                 Flags \ {"CadDone", "CadDetected"}, "RxDone")
    /\ pollAge' = 0
    /\ RFLRState' = "CAD_RUNNING"
    /\ UNCHANGED <<RFBuffer, rxAge, irq, fifo>> /\ NoHistory

CadRunning ==
    /\ PollDue /\ RFLRState = "CAD_RUNNING"
    /\ irq' = IF DIO3 THEN Clear({"CadDone"} \cup IF DIO4 THEN {"CadDetected"} ELSE {})
              ELSE irq
    /\ RFLRState' = IF ~DIO3 THEN "CAD_RUNNING" ELSE IF DIO4 THEN "RX_INIT" ELSE "IDLE"
    /\ pollAge' = 0
    /\ UNCHANGED <<RegOpMode, RFBuffer, rxAge, opMode, mask, dio0, fifo, onAir,
                   chipAge>>
    /\ NoHistory
----------------------------------------------------------------------------
\* The rest of the driver's interface, called by the thread after a poll and
\* before it sleeps (pollAge = 0), by a client that sends.  It does not start a
\* packet while one is being sent.
MayCall == client = "talk" /\ pollAge = 0 /\ RFLRState \notin TxStates

SetTxPacket ==
    /\ MayCall /\ Len(asked) < MaxSends
    /\ LET p == MaxPackets + Len(asked) + 1
       IN RFBuffer' = p /\ asked' = Append(asked, p)
    /\ RFLRState' = "TX_INIT"
    /\ UNCHANGED <<client, RegOpMode, rxAge, pollAge, chipVars, heard, delivered,
                   aired, reported, sent>>

StartRx ==
    /\ MayCall /\ RFLRState = "IDLE"
    /\ RFLRState' = "RX_INIT"
    /\ UNCHANGED <<RegOpMode, RFBuffer, rxAge, pollAge, chipVars>> /\ NoHistory

StartCad ==
    /\ MayCall /\ RFLRState = "IDLE"
    /\ RFLRState' = "CAD_INIT"
    /\ UNCHANGED <<RegOpMode, RFBuffer, rxAge, pollAge, chipVars>> /\ NoHistory

Process ==
    \/ Idle \/ RxInit \/ RxRunning \/ RxDone \/ RxTimeout
    \/ TxInit \/ TxRunning \/ TxDone \/ CadInit \/ CadRunning

Chip ==
    \/ ChipHears \/ ChipRxDone \/ ChipRxTimeout \/ ChipHops
    \/ ChipTxDone \/ ChipCadDone

Next == Chip \/ Tick \/ Process \/ SetTxPacket \/ StartRx \/ StartCad

Spec == Init /\ [][Next]_vars

\* Time passes, the scheduler runs the thread, the chip ends what it began; the
\* air may stay silent and the client may never call.
FairSpec ==
    /\ Spec /\ WF_vars(Tick) /\ WF_vars(Process)
    /\ WF_vars(ChipRxDone) /\ WF_vars(ChipRxTimeout)
    /\ WF_vars(ChipTxDone) /\ WF_vars(ChipCadDone)
----------------------------------------------------------------------------
TypeOK ==
    /\ client \in {"listen", "talk"}
    /\ RFLRState \in States
    /\ RegOpMode \in Modes /\ opMode \in Modes
    /\ irq \subseteq Flags /\ mask \subseteq Flags /\ dio0 \in {"RxDone", "TxDone"}
    /\ {fifo, onAir, RFBuffer} \subseteq {None, Blank} \cup Theirs \cup Ours
    /\ pollAge \in 0..(Poll + Late) /\ rxAge \in 0..(PacketTimeout + 1)
    /\ chipAge \in 0..(Window + Air)
    /\ heard \in Seq(Theirs) /\ delivered \in Seq({Blank} \cup Theirs \cup Ours)
    /\ asked \in Seq(Ours) /\ aired \in Seq(Ours)
    /\ reported \in 0..MaxSends /\ sent \in 0..MaxPackets

\* The packet the chip has and the thread has not taken yet.
Waiting ==
    IF ("RxDone" \in irq \/ RFLRState = "RX_DONE") /\ "CrcError" \notin irq
    THEN <<fifo>> ELSE <<>>

\* A station that only listens gets every packet the chip received with a good
\* checksum, once, in order and with its own bytes: the half second between the
\* poll that sees RxDone and the poll that reads the buffer loses and repeats
\* nothing, because single mode leaves the buffer alone until RX_INIT.
EveryPacketOnce ==
    client = "listen" => heard = delivered \o Waiting

\* RF_TX_DONE is returned once for every packet given to SX1276SetTxPacket, after
\* the chip has sent that packet and not the bytes the buffer held before.
SentAsAsked ==
    /\ \A i \in 1..Len(aired) : aired[i] = asked[i]
    /\ reported <= Len(aired)
    /\ RFLRState \notin TxStates => reported = Len(asked) /\ aired = asked

\* Between two polls no packet is lost, repeated, or mixed up with another, in
\* either direction (SX1276LoRaProcess, RX_DONE and TX_RUNNING).
PacketsKept == TypeOK /\ EveryPacketOnce /\ SentAsAsked

\* What a poll hands over was received from another station.  (It does not hold
\* for a client that sends: see the further counterexamples.)
OnlyHeard ==
    \A i \in 1..Len(delivered) : \E j \in 1..Len(heard) : heard[j] = delivered[i]

\* A listening station is always put back into receive mode: the driver's copy
\* of the mode register, which does not see the chip fall back to standby by
\* itself, never makes SX1276LoRaSetOpMode skip the write.
KeepsListening ==
    [](client = "listen") => []<>(opMode = "RECEIVER_SINGLE")

\* A packet given to the driver is sent and reported.
SendCompletes ==
    \A n \in 1..MaxSends : (Len(asked) = n) ~> (reported = n)
============================================================================
