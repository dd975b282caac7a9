------------------------------ MODULE NetFifo ------------------------------
(***************************************************************************)
(* net_rx_fifo of Application/src/network.c: a ring of FifoSize bytes between  *)
(* the network thread (push_data_to_net_fifo) and main (net_fifo_read).    *)
(* The copies run under net_fifo_mutex and are single steps; the emptiness *)
(* test of net_fifo_read runs before the mutex is taken and is a step of   *)
(* its own.  Bytes are numbered as they arrive.                            *)
(***************************************************************************)
EXTENDS Naturals, Sequences

CONSTANTS
  FifoSize,   \* bytes of the ring: 2048
  MaxChunk,   \* longest chunk: 1460
  MaxBytes    \* bound: bytes received

ASSUME FifoAssumption == FifoSize \in Nat /\ FifoSize > 1
ASSUME ChunkAssumption == MaxChunk \in Nat \ {0} /\ MaxBytes \in Nat \ {0}

VARIABLES
  Begin, End, Data,
  want,      \* bytes asked of the net_fifo_read past its emptiness test, 0: none
  arrived,   \* history: bytes received so far
  queue,     \* history: the bytes a reader is owed, in order
  got,       \* history: what the last net_fifo_read returned, and what it was owed
  lapped     \* history: a chunk arrived when the ring was full

fifoVars == <<Begin, End, Data, want, arrived, queue, got, lapped>>

\* fifo_next, k times
Advance(index, k) == (index + k) % FifoSize
fifo_next(index) == Advance(index, 1)
is_fifo_empty == Begin = End
is_fifo_full == fifo_next(End) = Begin

\* Bytes between the two indices.
Occupied == (End + FifoSize - Begin) % FifoSize
Contents == [i \in 1..Occupied |-> Data[(Begin + i) % FifoSize]]

\* What the specification of a bounded queue keeps of a chunk and gives to a reader.
Least(a, b) == IF a < b THEN a ELSE b
Kept(q, chunk) == q \o SubSeq(chunk, 1, Least(Len(chunk), FifoSize - 1 - Len(q)))
-----------------------------------------------------------------------------
FifoInit ==
  /\ Begin = 0 /\ End = 0
  /\ Data = [i \in 0..(FifoSize - 1) |-> 0]
  /\ want = 0 /\ arrived = 0 /\ queue = <<>>
  /\ got = [bytes |-> <<>>, owed |-> <<>>]
  /\ lapped = FALSE

\* Fault: the ring is taken for full when all FifoSize cells are used.
PushesOneMore(n) == Least(n, FifoSize - Occupied)

\* The do-while of push_data_to_net_fifo pushes before it looks whether the ring
\* is full: on a full ring it goes once around and on to the next full one.
Pushes(n) == Least(n, IF is_fifo_full THEN FifoSize ELSE FifoSize - 1 - Occupied)

push_data_to_net_fifo(n) ==
  LET k == Pushes(n)
      Offset(i) == (i + FifoSize - End) % FifoSize   \* i is written by the Offset(i)-th push, 0: the FifoSize-th
  IN  /\ arrived + n <= MaxBytes
      /\ Data' = [i \in 0..(FifoSize - 1) |->
                    IF Offset(i) \in 1..k THEN arrived + Offset(i)
                    ELSE IF Offset(i) = 0 /\ k = FifoSize THEN arrived + FifoSize
                    ELSE Data[i]]
      /\ End' = Advance(End, k)
      /\ arrived' = arrived + n
      /\ queue' = Kept(queue, [i \in 1..n |-> arrived + i])
      /\ lapped' = (lapped \/ is_fifo_full)
      /\ UNCHANGED <<Begin, want, got>>

\* net_fifo_read up to the mutex
ReadEmpty ==
  /\ want = 0 /\ is_fifo_empty
  /\ got' = [bytes |-> <<>>, owed |-> <<>>]
  /\ UNCHANGED <<Begin, End, Data, want, arrived, queue, lapped>>

ReadCheck(count) ==
  /\ want = 0 /\ ~is_fifo_empty
  /\ want' = count
  /\ UNCHANGED <<Begin, End, Data, arrived, queue, got, lapped>>

\* The while of net_fifo_read pops before it looks whether the ring is empty.
Pops(count) == Least(count, IF is_fifo_empty THEN FifoSize ELSE Occupied)

ReadTake ==
  LET k == Pops(want)
      owed == Least(want, Len(queue))
  IN  /\ want # 0
      /\ Begin' = Advance(Begin, k)
      /\ got' = [bytes |-> [i \in 1..k |-> Data[(Begin + i) % FifoSize]], owed |-> SubSeq(queue, 1, owed)]
      /\ queue' = SubSeq(queue, owed + 1, Len(queue))
      /\ want' = 0
      /\ UNCHANGED <<End, Data, arrived, lapped>>

\* The network thread kept the mutex for 5 s.
ReadTimeout ==
  /\ want # 0 /\ want' = 0
  /\ got' = [bytes |-> <<>>, owed |-> <<>>]
  /\ UNCHANGED <<Begin, End, Data, arrived, queue, lapped>>

FifoNext ==
  \/ \E n \in 1..MaxChunk : push_data_to_net_fifo(n)
  \/ ReadEmpty
  \/ \E count \in 1..FifoSize : ReadCheck(count)
  \/ ReadTake
  \/ ReadTimeout

FifoSpec == FifoInit /\ [][FifoNext]_fifoVars
-----------------------------------------------------------------------------
\* The indices stay inside the ring and the bytes are bytes that arrived.
FifoTypeOK ==
  /\ Begin \in 0..(FifoSize - 1) /\ End \in 0..(FifoSize - 1)
  /\ Data \in [0..(FifoSize - 1) -> 0..MaxBytes]
  /\ want \in 0..FifoSize
  /\ arrived \in 0..MaxBytes
  /\ queue \in Seq(1..MaxBytes)
  /\ lapped \in BOOLEAN

\* Until a chunk meets a full ring, the ring is a bounded queue: between Begin
\* and End are exactly the bytes accepted and not read, in order, an arriving
\* chunk loses only the tail that does not fit, and net_fifo_read returns the
\* oldest bytes it is owed.
IsBoundedQueue == FifoTypeOK /\ (~lapped => Contents = queue /\ got.bytes = got.owed)

\* network.c 149 and 160-164: a chunk is copied into net_buf until net_buf is
\* full; what is in it already is kept for the reader.
NothingAcceptedIsLost == Contents = queue
=============================================================================
