---------------------------- MODULE RingsProofs ----------------------------
(***************************************************************************)
(* Proofs about the two byte rings.  In both, a modulo is taken of a sum   *)
(* of an index and at most one turn of the ring, so the three lemmas on %  *)
(* make the arithmetic linear.                                             *)
(***************************************************************************)
EXTENDS Uart3Ring, NetFifo, SequenceTheorems, TLAPS

\* Inside the first turn of a ring of F cells the modulo is the identity.
LEMMA FirstTurn ==
  ASSUME NEW F \in Nat, F > 0, NEW a \in Nat, a < F
  PROVE  a % F = a
  BY SMT

\* On the second turn it takes one turn off.
LEMMA SecondTurn ==
  ASSUME NEW F \in Nat, F > 0, NEW a \in Nat, F <= a, a < F + F
  PROVE  a % F = a - F
  BY SMT
\* Elements and slices of a sequence over S.
LEMMA ElementInSet == \A S : \A s \in Seq(S) : \A i \in 1..Len(s) : s[i] \in S
  OBVIOUS

\* The elements of a slice.
LEMMA Slice ==
  ASSUME NEW S, NEW s \in Seq(S), NEW a \in 1..(Len(s) + 1), NEW b \in (a - 1)..Len(s)
  PROVE  /\ SubSeq(s, a, b) \in Seq(S)
         /\ Len(SubSeq(s, a, b)) = b - a + 1
         /\ \A i \in 1..(b - a + 1) : SubSeq(s, a, b)[i] = s[a + i - 1]
  <1>1. a \in Int /\ b \in Int /\ Len(s) \in Nat
    OBVIOUS
  <1>2. a..b \subseteq 1..Len(s)
    BY <1>1
  <1>3. \A i \in a..b : s[i] \in S
    BY <1>2, ElementInSet, Zenon
  <1>4. /\ SubSeq(s, a, b) \in Seq(S)
        /\ Len(SubSeq(s, a, b)) = IF a <= b THEN b - a + 1 ELSE 0
        /\ \A i \in 1..(b - a + 1) : SubSeq(s, a, b)[i] = s[a + i - 1]
    BY <1>1, <1>3, SubSeqProperties
  <1> QED  BY <1>1, <1>4

\* What is left of a sequence without its first k elements.
LEMMA Suffix ==
  ASSUME NEW S, NEW s \in Seq(S), NEW k \in 0..Len(s)
  PROVE  LET t == SubSeq(s, k + 1, Len(s))
         IN  t \in Seq(S) /\ Len(t) = Len(s) - k /\ \A i \in 1..(Len(s) - k) : t[i] = s[k + i]
  <1>1. k \in Nat /\ Len(s) \in Nat
    OBVIOUS
  <1>2. k + 1 \in 1..(Len(s) + 1) /\ Len(s) \in ((k + 1) - 1)..Len(s)
    BY <1>1
  <1> DEFINE t == SubSeq(s, k + 1, Len(s))
  <1>3. /\ t \in Seq(S) /\ Len(t) = Len(s) - (k + 1) + 1
        /\ \A i \in 1..(Len(s) - (k + 1) + 1) : t[i] = s[(k + 1) + i - 1]
    BY <1>2, Slice
  <1>4. Len(s) - (k + 1) + 1 = Len(s) - k /\ \A i \in 1..(Len(s) - k) : (k + 1) + i - 1 = k + i
    BY <1>1
  <1> HIDE DEF t
  <1>5. t \in Seq(S) /\ Len(t) = Len(s) - k /\ \A i \in 1..(Len(s) - k) : t[i] = s[k + i]
    BY <1>3, <1>4
  <1> QED  BY <1>5 DEF t
-----------------------------------------------------------------------------
(* The ring of NetFifo *)

\* How far index e is ahead of index b.
LEMMA Distance ==
  ASSUME NEW b \in 0..(FifoSize - 1), NEW e \in 0..(FifoSize - 1)
  PROVE  /\ (e + FifoSize - b) % FifoSize = IF b <= e THEN e - b ELSE e + FifoSize - b
         /\ (e + FifoSize - b) % FifoSize \in 0..(FifoSize - 1)
  <1>1. CASE b <= e
    <2>1. e + FifoSize - b \in Nat /\ FifoSize <= e + FifoSize - b /\ e + FifoSize - b < FifoSize + FifoSize
      BY <1>1, FifoAssumption
    <2>2. (e + FifoSize - b) % FifoSize = (e + FifoSize - b) - FifoSize
      BY <2>1, SecondTurn, FifoAssumption
    <2> QED  BY <1>1, <2>2, FifoAssumption
  <1>2. CASE ~(b <= e)
    <2>1. e + FifoSize - b \in Nat /\ e + FifoSize - b < FifoSize
      BY <1>2, FifoAssumption
    <2>2. (e + FifoSize - b) % FifoSize = e + FifoSize - b
      BY <2>1, FirstTurn, FifoAssumption
    <2> QED  BY <1>2, <2>1, <2>2, FifoAssumption
  <1> QED  BY <1>1, <1>2

\* The cells between the two indices.
LEMMA OccupiedCells ==
  ASSUME FifoTypeOK
  PROVE  /\ Occupied = IF Begin <= End THEN End - Begin ELSE End + FifoSize - Begin
         /\ Occupied \in 0..(FifoSize - 1)
  BY Distance DEF FifoTypeOK, Occupied

\* An index k places on, k at most one turn.
LEMMA Advanced ==
  ASSUME NEW i \in 0..(FifoSize - 1), NEW k \in 0..FifoSize
  PROVE  /\ Advance(i, k) = IF i + k < FifoSize THEN i + k ELSE i + k - FifoSize
         /\ Advance(i, k) \in 0..(FifoSize - 1)
  <1>1. CASE i + k < FifoSize
    BY <1>1, FirstTurn, FifoAssumption DEF Advance
  <1>2. CASE ~(i + k < FifoSize)
    BY <1>2, SecondTurn, FifoAssumption DEF Advance
  <1> QED  BY <1>1, <1>2

\* The indices, and a queue that never holds more than the ring can.
Fits == FifoTypeOK /\ Len(queue) < FifoSize

\* Until a chunk meets a full ring the cells after Begin are the queue, and a
\* reader past its emptiness test still finds a byte: only readers take bytes.
Mirrors ==
  ~lapped => /\ Len(queue) = Occupied
             /\ \A i \in 1..Len(queue) : queue[i] = Data[(Begin + i) % FifoSize]
             /\ want # 0 => Begin # End

\* What a read returned is what it was owed.
ReadsRight == ~lapped => got.bytes = got.owed

\* How many bytes a push adds, and what the chunk leaves in the queue.
LEMMA PushesBound ==
  ASSUME Fits, NEW n \in 1..MaxChunk
  PROVE  Pushes(n) \in 0..FifoSize /\ Pushes(n) <= n
  BY OccupiedCells, FifoAssumption, ChunkAssumption DEF Pushes, Least, Fits

\* The bytes of a chunk that find a place.
LEMMA KeptBytes ==
  ASSUME Fits, NEW n \in 1..MaxChunk, arrived + n <= MaxBytes
  PROVE  LET chunk == [i \in 1..n |-> arrived + i]
             k     == Least(n, FifoSize - 1 - Len(queue))
             q     == Kept(queue, chunk)
         IN  /\ k \in 0..n
             /\ q \in Seq(1..MaxBytes)
             /\ Len(q) = Len(queue) + k
             /\ \A i \in 1..Len(queue) : q[i] = queue[i]
             /\ \A i \in 1..k : q[Len(queue) + i] = arrived + i
  <1> DEFINE chunk == [i \in 1..n |-> arrived + i]
             k     == Least(n, FifoSize - 1 - Len(queue))
             tail  == SubSeq(chunk, 1, k)
  <1>1. arrived \in Nat /\ n \in Nat /\ queue \in Seq(1..MaxBytes) /\ Len(queue) \in Nat
    BY ChunkAssumption DEF Fits, FifoTypeOK
  <1>2. chunk \in Seq(1..MaxBytes) /\ Len(chunk) = n
    BY <1>1, ChunkAssumption DEF Fits, FifoTypeOK
  <1>3. k \in 0..n
    BY <1>1, FifoAssumption DEF Fits, Least
  <1>4. tail \in Seq(1..MaxBytes) /\ Len(tail) = k /\ \A i \in 1..k : tail[i] = chunk[i]
    <2> HIDE DEF chunk, k
    <2>1. 1 \in 1..(Len(chunk) + 1) /\ k \in (1 - 1)..Len(chunk)
      BY <1>1, <1>2, <1>3
    <2>2. /\ tail \in Seq(1..MaxBytes) /\ Len(tail) = k - 1 + 1
          /\ \A i \in 1..(k - 1 + 1) : tail[i] = chunk[1 + i - 1]
      BY <1>2, <2>1, Slice
    <2> QED  BY <1>1, <1>3, <2>2
  <1>5. Kept(queue, chunk) = queue \o tail
    <2> HIDE DEF chunk
    <2> QED BY <1>2 DEF Kept
  <1>6. \A i \in 1..k : chunk[i] = arrived + i
    BY <1>1, <1>3
  <1> HIDE DEF chunk, k, tail
  <1>7. /\ queue \o tail \in Seq(1..MaxBytes) /\ Len(queue \o tail) = Len(queue) + k
        /\ \A i \in 1..Len(queue) : (queue \o tail)[i] = queue[i]
        /\ \A i \in 1..k : (queue \o tail)[Len(queue) + i] = tail[i]
    BY <1>1, <1>3, <1>4
  <1> QED  BY <1>3, <1>4, <1>5, <1>6, <1>7 DEF chunk, k

\* The cells a push writes: the chunk's bytes after End, nothing else.
LEMMA PushedCells ==
  ASSUME Fits, Mirrors, ~lapped, ~is_fifo_full,
         NEW n \in 1..MaxChunk, push_data_to_net_fifo(n)
  PROVE  LET k == Pushes(n)
         IN  /\ k = Least(n, FifoSize - 1 - Occupied)
             /\ Occupied' = Occupied + k
             /\ \A i \in 1..Occupied : Data'[(Begin + i) % FifoSize] = Data[(Begin + i) % FifoSize]
             /\ \A i \in 1..k : Data'[(Begin + Occupied + i) % FifoSize] = arrived + i
  <1> DEFINE k == Pushes(n)
             Offset(i) == (i + FifoSize - End) % FifoSize
             Cell(i) == Advance(Begin, i)
             F == FifoSize
  <1>1. /\ Begin \in 0..(F - 1) /\ End \in 0..(F - 1) /\ F \in Nat /\ F > 1
        /\ n \in Nat /\ arrived \in Nat
    BY FifoAssumption, ChunkAssumption DEF Fits, FifoTypeOK
  <1>2. /\ Occupied = IF Begin <= End THEN End - Begin ELSE End + F - Begin
        /\ Occupied \in 0..(F - 1)
    BY OccupiedCells DEF Fits
  <1>3. k = Least(n, F - 1 - Occupied)
    BY Zenon DEF Pushes
  <1>4. k \in 0..(F - 1 - Occupied)
    BY <1>1, <1>2, <1>3 DEF Least
  <1>5. \A i \in 0..(F - 1) : /\ Cell(i) = IF Begin + i < F THEN Begin + i ELSE Begin + i - F
                              /\ Cell(i) \in 0..(F - 1)
    BY <1>1, Advanced
  <1>6. \A i \in 0..(F - 1) : Offset(i) = IF End <= i THEN i - End ELSE i + F - End
    BY <1>1, Distance
  <1>7. \A i \in 0..(F - 1) :
          Data'[i] = IF Offset(i) \in 1..k THEN arrived + Offset(i)
                     ELSE IF Offset(i) = 0 /\ k = F THEN arrived + F
                     ELSE Data[i]
    BY DEF push_data_to_net_fifo
  <1>8. Begin' = Begin /\ End' = Advance(End, k)
    BY DEF push_data_to_net_fifo
  <1>9. End' = IF End + k < F THEN End + k ELSE End + k - F
    <2> HIDE DEF k
    <2>1. k \in 0..FifoSize
      BY <1>1, <1>2, <1>4
    <2> QED  BY <1>1, <1>8, <2>1, Advanced
  <1>10. Occupied' = Occupied + k
    <2> HIDE DEF k
    <2>1. Occupied' = (End' + F - Begin) % F
      BY <1>8 DEF Occupied
    <2>2. End' \in 0..(F - 1)
      BY <1>1, <1>2, <1>4, <1>9
    <2>3. Occupied' = IF Begin <= End' THEN End' - Begin ELSE End' + F - Begin
      BY <1>1, <2>1, <2>2, Distance
    <2> QED  BY <1>1, <1>2, <1>4, <1>9, <2>2, <2>3
  <1>11. ASSUME NEW i \in 1..Occupied PROVE Data'[Cell(i)] = Data[Cell(i)]
    <2> HIDE DEF k, Offset, Cell
    <2>1. i \in 0..(F - 1)
      BY <1>1, <1>2
    <2>2. Offset(Cell(i)) \notin 1..k /\ k # F
      BY <1>1, <1>2, <1>4, <1>5, <1>6, <2>1
    <2> QED  BY <1>5, <1>7, <2>1, <2>2
  <1>12. ASSUME NEW i \in 1..k PROVE Data'[Cell(Occupied + i)] = arrived + i
    <2> HIDE DEF k, Offset, Cell
    <2>1. Occupied + i \in 0..(F - 1)
      BY <1>1, <1>2, <1>4
    <2>2. Offset(Cell(Occupied + i)) = i
      BY <1>1, <1>2, <1>4, <1>5, <1>6, <2>1
    <2> QED  BY <1>5, <1>7, <2>1, <2>2
  <1>13. \A i \in 1..k : Begin + (Occupied + i) = Begin + Occupied + i
    <2> HIDE DEF k
    <2> QED  BY <1>1, <1>2, <1>4
  <1> QED  BY <1>3, <1>10, <1>11, <1>12, <1>13 DEF Advance

\* push_data_to_net_fifo and net_fifo_read keep the indices in the ring.
LEMMA FitsStep == Fits /\ [FifoNext]_fifoVars => Fits'
  <1> SUFFICES ASSUME Fits, [FifoNext]_fifoVars PROVE Fits'
    OBVIOUS
  <1>1. ASSUME NEW n \in 1..MaxChunk, push_data_to_net_fifo(n) PROVE Fits'
    <2> DEFINE k == Pushes(n)
               Offset(i) == (i + FifoSize - End) % FifoSize
    <2>1. k \in 0..FifoSize /\ k <= n /\ arrived \in Nat /\ n \in Nat
      BY PushesBound, ChunkAssumption DEF Fits, FifoTypeOK
    <2>2. End' \in 0..(FifoSize - 1)
      BY <1>1, <2>1, Advanced DEF push_data_to_net_fifo, Fits, FifoTypeOK
    <2>3. \A i \in 0..(FifoSize - 1) : Offset(i) \in 0..(FifoSize - 1)
      BY Distance DEF Fits, FifoTypeOK
    <2>4. Data' = [i \in 0..(FifoSize - 1) |->
                     IF Offset(i) \in 1..k THEN arrived + Offset(i)
                     ELSE IF Offset(i) = 0 /\ k = FifoSize THEN arrived + FifoSize
                     ELSE Data[i]]
      BY <1>1 DEF push_data_to_net_fifo
    <2>5. arrived + n <= MaxBytes /\ arrived' = arrived + n
      BY <1>1 DEF push_data_to_net_fifo
    <2>6. Data' \in [0..(FifoSize - 1) -> 0..MaxBytes]
      <3> HIDE DEF k, Offset
      <3>1. ASSUME NEW i \in 0..(FifoSize - 1)
            PROVE  /\ Offset(i) \in 1..k => arrived + Offset(i) \in 0..MaxBytes
                   /\ k = FifoSize => arrived + FifoSize \in 0..MaxBytes
                   /\ Data[i] \in 0..MaxBytes
        <4>1. Data[i] \in 0..MaxBytes
          BY DEF Fits, FifoTypeOK
        <4> QED  BY <2>1, <2>3, <2>5, <4>1, FifoAssumption, ChunkAssumption
      <3> QED  BY <2>4, <3>1
    <2>7. queue' \in Seq(1..MaxBytes) /\ Len(queue') < FifoSize
      <3>1. queue' = Kept(queue, [i \in 1..n |-> arrived + i])
        BY <1>1 DEF push_data_to_net_fifo
      <3>2. queue' \in Seq(1..MaxBytes) /\ Len(queue') = Len(queue) + Least(n, FifoSize - 1 - Len(queue))
        BY <2>5, <3>1, KeptBytes
      <3> QED  BY <2>1, <3>2, FifoAssumption DEF Fits, FifoTypeOK, Least
    <2>8. lapped' \in BOOLEAN
      BY <1>1 DEF push_data_to_net_fifo
    <2> QED  BY <1>1, <2>1, <2>2, <2>5, <2>6, <2>7, <2>8, ChunkAssumption DEF push_data_to_net_fifo, Fits, FifoTypeOK
  <1>2. CASE ReadEmpty
    BY <1>2 DEF ReadEmpty, Fits, FifoTypeOK
  <1>3. ASSUME NEW count \in 1..FifoSize, ReadCheck(count) PROVE Fits'
    BY <1>3, FifoAssumption DEF ReadCheck, Fits, FifoTypeOK
  <1>4. CASE ReadTake
    <2> DEFINE owed == Least(want, Len(queue))
    <2>1. Pops(want) \in 0..FifoSize /\ owed \in 0..Len(queue) /\ Len(queue) \in Nat
      BY OccupiedCells, FifoAssumption DEF Pops, Least, Fits, FifoTypeOK
    <2>2. Begin' \in 0..(FifoSize - 1)
      BY <1>4, <2>1, Advanced DEF ReadTake, Fits, FifoTypeOK
    <2>4. queue' \in Seq(1..MaxBytes) /\ Len(queue') = Len(queue) - owed
      <3>1. queue' = SubSeq(queue, owed + 1, Len(queue))
        BY <1>4 DEF ReadTake
      <3> HIDE DEF owed
      <3>3. queue \in Seq(1..MaxBytes)
        BY DEF Fits, FifoTypeOK
      <3>4. /\ SubSeq(queue, owed + 1, Len(queue)) \in Seq(1..MaxBytes)
            /\ Len(SubSeq(queue, owed + 1, Len(queue))) = Len(queue) - owed
        BY <2>1, <3>3, Suffix
      <3> QED  BY <2>1, <3>1, <3>4
    <2>5. want' = 0 /\ End' = End /\ Data' = Data /\ arrived' = arrived /\ lapped' = lapped
      BY <1>4 DEF ReadTake
    <2> HIDE DEF owed
    <2> QED  BY <2>1, <2>2, <2>4, <2>5, FifoAssumption, SMTT(30) DEF Fits, FifoTypeOK
  <1>5. CASE ReadTimeout
    BY <1>5, FifoAssumption DEF ReadTimeout, Fits, FifoTypeOK
  <1>6. CASE UNCHANGED fifoVars
    BY <1>6 DEF fifoVars, Fits, FifoTypeOK
  <1> QED  BY <1>1, <1>2, <1>3, <1>4, <1>5, <1>6 DEF FifoNext

\* As long as no write has lapped the reader, the cells hold the queue.
LEMMA MirrorsStep == Fits /\ Mirrors /\ [FifoNext]_fifoVars => Mirrors'
  <1> SUFFICES ASSUME Fits, Mirrors, [FifoNext]_fifoVars, ~lapped' PROVE Mirrors'
    BY DEF Mirrors
  <1> DEFINE F == FifoSize
  <1>0. /\ Begin \in 0..(F - 1) /\ End \in 0..(F - 1) /\ F \in Nat /\ F > 1
        /\ queue \in Seq(1..MaxBytes) /\ Len(queue) \in Nat /\ want \in Nat
    BY FifoAssumption DEF Fits, FifoTypeOK
  <1>1. ASSUME NEW n \in 1..MaxChunk, push_data_to_net_fifo(n) PROVE Mirrors'
    <2> DEFINE k == Pushes(n)
    <2>1. ~lapped /\ ~is_fifo_full
      BY <1>1 DEF push_data_to_net_fifo
    <2>2. /\ k = Least(n, F - 1 - Occupied)
          /\ Occupied' = Occupied + k
          /\ \A i \in 1..Occupied : Data'[(Begin + i) % F] = Data[(Begin + i) % F]
          /\ \A i \in 1..k : Data'[(Begin + Occupied + i) % F] = arrived + i
      BY <1>1, <2>1, PushedCells
    <2>3. /\ Len(queue) = Occupied
          /\ \A i \in 1..Len(queue) : queue[i] = Data[(Begin + i) % F]
          /\ want # 0 => Begin # End
      BY <2>1 DEF Mirrors
    <2>4. /\ queue' = Kept(queue, [i \in 1..n |-> arrived + i]) /\ arrived + n <= MaxBytes
          /\ Begin' = Begin /\ want' = want
      BY <1>1 DEF push_data_to_net_fifo
    <2>5. /\ k \in 0..n
          /\ Len(queue') = Len(queue) + k
          /\ \A i \in 1..Len(queue) : queue'[i] = queue[i]
          /\ \A i \in 1..k : queue'[Len(queue) + i] = arrived + i
      BY <1>1, <2>2, <2>3, <2>4, KeptBytes
    <2>6. n \in Nat /\ Occupied \in Nat
      BY OccupiedCells, <1>0, ChunkAssumption DEF Fits
    <2> HIDE DEF k
    <2>7. ASSUME NEW i \in 1..Len(queue') PROVE queue'[i] = Data'[(Begin' + i) % F]
      <3>1. CASE i <= Len(queue)
        <4>1. i \in 1..Len(queue) /\ i \in 1..Occupied
          BY <1>0, <2>3, <2>5, <2>6, <3>1
        <4> QED  BY <2>2, <2>3, <2>4, <2>5, <4>1
      <3>2. CASE i > Len(queue)
        <4>1. PICK j \in 1..k : i = Len(queue) + j
          <5>1. i - Len(queue) \in 1..k /\ i = Len(queue) + (i - Len(queue))
            BY <1>0, <2>5, <2>6, <3>2
          <5> QED  BY <5>1
        <4>2. Begin + i = Begin + Occupied + j
          BY <1>0, <2>3, <2>5, <2>6, <4>1
        <4> QED  BY <2>2, <2>4, <2>5, <4>1, <4>2
      <3> QED  BY <1>0, <2>5, <2>6, <3>1, <3>2
    <2>8. want # 0 => Begin # End'
      <3> SUFFICES ASSUME want # 0 PROVE Begin # End'
        OBVIOUS
      <3>0. Occupied = IF Begin <= End THEN End - Begin ELSE End + F - Begin
        BY OccupiedCells DEF Fits
      <3>1. Occupied # 0
        BY <1>0, <2>3, <3>0
      <3>2. Occupied' # 0
        BY <2>2, <2>5, <2>6, <3>1
      <3>3. Begin = End' => Occupied' = F % F
        BY <1>0, <2>4 DEF Occupied
      <3>4. F % F = 0
        BY <1>0, SecondTurn
      <3> QED  BY <3>2, <3>3, <3>4
    <2>9. Len(queue') = Occupied'
      BY <2>2, <2>3, <2>5
    <2> QED  BY <2>4, <2>7, <2>8, <2>9 DEF Mirrors
  <1>2. CASE ReadEmpty
    BY <1>2 DEF ReadEmpty, Mirrors, Occupied
  <1>3. ASSUME NEW count \in 1..FifoSize, ReadCheck(count) PROVE Mirrors'
    BY <1>3 DEF ReadCheck, Mirrors, Occupied, is_fifo_empty
  <1>4. CASE ReadTake
    <2> DEFINE k == Least(want, Occupied)
    <2>1. /\ ~lapped /\ want # 0 /\ want' = 0 /\ Data' = Data /\ End' = End
          /\ Begin' = Advance(Begin, Pops(want))
          /\ queue' = SubSeq(queue, Least(want, Len(queue)) + 1, Len(queue))
      BY <1>4 DEF ReadTake
    <2>2. /\ Len(queue) = Occupied /\ Begin # End
          /\ \A i \in 1..Len(queue) : queue[i] = Data[(Begin + i) % F]
      BY <2>1 DEF Mirrors
    <2>3. Pops(want) = k
      BY <2>2 DEF Pops, is_fifo_empty
    <2>4. /\ Occupied = IF Begin <= End THEN End - Begin ELSE End + F - Begin
          /\ Occupied \in 0..(F - 1)
      BY OccupiedCells DEF Fits
    <2>5. k \in 0..Occupied
      BY <1>0, <2>4 DEF Least
    <2> HIDE DEF k
    <2>6. Begin' = IF Begin + k < F THEN Begin + k ELSE Begin + k - F
      <3>1. k \in 0..FifoSize
        BY <1>0, <2>4, <2>5
      <3> QED  BY <1>0, <2>1, <2>3, <3>1, Advanced
    <2>7. /\ Occupied' = IF Begin' <= End THEN End - Begin' ELSE End + F - Begin'
      <3>1. Begin' \in 0..(F - 1)
        BY <1>0, <2>4, <2>5, <2>6
      <3> QED  BY <1>0, <2>1, <3>1, Distance DEF Occupied
    <2>8. Occupied' = Occupied - k
      BY <1>0, <2>4, <2>5, <2>6, <2>7
    <2>9. queue' = SubSeq(queue, k + 1, Len(queue))
      BY <2>1, <2>2 DEF k
    <2>10. /\ Len(queue') = Occupied - k
           /\ \A i \in 1..(Occupied - k) : queue'[i] = queue[k + i]
      <3>1. k \in 0..Len(queue)
        BY <1>0, <2>2, <2>5
      <3>2. Len(queue') = Len(queue) - k /\ \A i \in 1..(Len(queue) - k) : queue'[i] = queue[k + i]
        BY <1>0, <2>9, <3>1, Suffix
      <3> QED  BY <2>2, <3>2
    <2>11. ASSUME NEW i \in 1..Len(queue') PROVE queue'[i] = Data'[(Begin' + i) % F]
      <3>1. i \in 1..(Occupied - k) /\ k + i \in 1..Len(queue)
        <4>1. Len(queue') = Occupied - k /\ Len(queue) = Occupied
          BY <2>2, <2>10
        <4>2. Occupied \in Nat /\ k \in Nat /\ k <= Occupied
          BY <1>0, <2>4, <2>5
        <4> QED  BY ONLY <4>1, <4>2, i \in 1..Len(queue')
      <3>2. queue'[i] = Data[(Begin + (k + i)) % F]
        BY <2>2, <2>10, <3>1
      <3>3. (Begin + (k + i)) % F = (Begin' + i) % F
        <4>1. k + i \in 0..FifoSize /\ i \in 0..FifoSize /\ Begin' \in 0..(FifoSize - 1)
          BY <1>0, <2>4, <2>5, <2>6, <3>1
        <4>2. Advance(Begin, k + i) = IF Begin + (k + i) < F THEN Begin + (k + i) ELSE Begin + (k + i) - F
          BY <1>0, <4>1, Advanced
        <4>3. Advance(Begin', i) = IF Begin' + i < F THEN Begin' + i ELSE Begin' + i - F
          BY <4>1, Advanced
        <4>4. Advance(Begin, k + i) = Advance(Begin', i)
          BY <1>0, <2>4, <2>5, <2>6, <3>1, <4>2, <4>3
        <4> QED  BY <4>4 DEF Advance
      <3> QED  BY <2>1, <3>2, <3>3
    <2> QED  BY <2>1, <2>8, <2>10, <2>11 DEF Mirrors
  <1>5. CASE ReadTimeout
    BY <1>5 DEF ReadTimeout, Mirrors, Occupied
  <1>6. CASE UNCHANGED fifoVars
    BY <1>6 DEF fifoVars, Mirrors, Occupied
  <1> QED  BY <1>1, <1>2, <1>3, <1>4, <1>5, <1>6 DEF FifoNext

\* And what the reader got is what was sent.
LEMMA ReadsRightStep == Fits /\ Mirrors /\ ReadsRight /\ [FifoNext]_fifoVars => ReadsRight'
  <1> SUFFICES ASSUME Fits, Mirrors, ReadsRight, [FifoNext]_fifoVars, ~lapped'
               PROVE  got'.bytes = got'.owed
    BY DEF ReadsRight
  <1>1. ASSUME NEW n \in 1..MaxChunk, push_data_to_net_fifo(n) PROVE got'.bytes = got'.owed
    BY <1>1 DEF push_data_to_net_fifo, ReadsRight
  <1>2. CASE ReadEmpty
    BY <1>2 DEF ReadEmpty
  <1>3. ASSUME NEW count \in 1..FifoSize, ReadCheck(count) PROVE got'.bytes = got'.owed
    BY <1>3 DEF ReadCheck, ReadsRight
  <1>4. CASE ReadTake
    <2> DEFINE k == Least(want, Occupied)
    <2>1. /\ ~lapped /\ want # 0
          /\ got'.bytes = [i \in 1..Pops(want) |-> Data[(Begin + i) % FifoSize]]
          /\ got'.owed = SubSeq(queue, 1, Least(want, Len(queue)))
      BY <1>4 DEF ReadTake
    <2>2. /\ Len(queue) = Occupied /\ Begin # End
          /\ \A i \in 1..Len(queue) : queue[i] = Data[(Begin + i) % FifoSize]
      BY <2>1 DEF Mirrors
    <2>3. Pops(want) = k /\ Least(want, Len(queue)) = k
      BY <2>2 DEF Pops, is_fifo_empty
    <2>4. k \in 0..Len(queue) /\ queue \in Seq(1..MaxBytes)
      BY <2>2, OccupiedCells, FifoAssumption DEF Least, Fits, FifoTypeOK
    <2> HIDE DEF k
    <2>5. SubSeq(queue, 1, k) = [i \in 1..k |-> queue[i]]
      BY <2>4
    <2>6. \A i \in 1..k : queue[i] = Data[(Begin + i) % FifoSize]
      BY <2>2, <2>4
    <2>7. [i \in 1..k |-> queue[i]] = [i \in 1..k |-> Data[(Begin + i) % FifoSize]]
      BY <2>6
    <2> QED  BY <2>1, <2>3, <2>5, <2>7
  <1>5. CASE ReadTimeout
    BY <1>5 DEF ReadTimeout
  <1>6. CASE UNCHANGED fifoVars
    BY <1>6 DEF fifoVars, ReadsRight
  <1> QED  BY <1>1, <1>2, <1>3, <1>4, <1>5, <1>6 DEF FifoNext

\* push_data_to_net_fifo and net_fifo_read make a bounded queue of the ring, for
\* rings and chunks of every size: until a chunk meets a full ring, the cells
\* between Begin and End are the bytes accepted and not read, in order, and a
\* read returns the oldest of them.
THEOREM RingIsBoundedQueue == FifoSpec => []IsBoundedQueue
  <1>1. FifoInit => Fits /\ Mirrors /\ ReadsRight
    <2> SUFFICES ASSUME FifoInit PROVE Fits /\ Mirrors /\ ReadsRight
      OBVIOUS
    <2>1. Fits
      BY FifoAssumption, ChunkAssumption DEF FifoInit, Fits, FifoTypeOK
    <2>2. Occupied = 0
      BY <2>1, OccupiedCells, FifoAssumption DEF FifoInit, Fits
    <2> QED  BY <2>1, <2>2 DEF FifoInit, Mirrors, ReadsRight
  <1>2. Fits /\ Mirrors /\ ReadsRight /\ [FifoNext]_fifoVars => (Fits /\ Mirrors /\ ReadsRight)'
    BY FitsStep, MirrorsStep, ReadsRightStep
  <1>3. Fits /\ Mirrors /\ ReadsRight => IsBoundedQueue
    <2> SUFFICES ASSUME Fits, Mirrors, ReadsRight, ~lapped PROVE Contents = queue
      BY DEF IsBoundedQueue, Fits, ReadsRight
    <2>1. queue \in Seq(1..MaxBytes) /\ Len(queue) = Occupied
      BY DEF Fits, FifoTypeOK, Mirrors
    <2>2. queue = [i \in 1..Len(queue) |-> queue[i]]
      BY <2>1
    <2>3. \A i \in 1..Len(queue) : queue[i] = Data[(Begin + i) % FifoSize]
      BY DEF Mirrors
    <2>4. [i \in 1..Len(queue) |-> queue[i]] = [i \in 1..Len(queue) |-> Data[(Begin + i) % FifoSize]]
      BY <2>3
    <2> QED  BY <2>1, <2>2, <2>4 DEF Contents
  <1> QED  BY <1>1, <1>2, <1>3, PTL DEF FifoSpec
-----------------------------------------------------------------------------
(* The ring of Uart3Ring.  A byte the receiver loses sets torn, so while torn is  *)
(* clear the bytes in the ring are consecutive bytes of the modem's output.       *)

\* The newest byte that left the receiver, the bytes in the ring, the byte before
\* the oldest of them.
Newest == IF hw = 0 THEN sent ELSE sent - 1
Live == IF pc \in {"mask", "dec"} THEN uart3_rx_count - 1 ELSE uart3_rx_count
Oldest == Newest - Live
Clearing == pc \in {"clear2", "clear3"}

\* The receive interrupt is masked exactly around the decrement.
Masking == masked <=> pc = "dec"

\* The data register holds the last byte sent.
Register == ~torn /\ hw # 0 => hw = sent

\* The cursors agree once the step the reader is in is accounted for.
Cursors ==
  ~torn /\ ~Clearing =>
    /\ uart3_rx_count < Size /\ 0 <= Live /\ 0 <= Oldest
    /\ uart3_rx_wr_index = (uart3_rx_re_index + Live) % Size

\* The live cells hold consecutive bytes, up to the newest.
Cells ==
  ~torn /\ ~Clearing =>
    \A i \in 0..(Live - 1) : uart3_rx_buf[(uart3_rx_re_index + i) % Size] = Oldest + 1 + i

\* What the reader knows at each of its statements.
ReaderAt ==
  ~torn =>
    /\ ~Clearing => last \in {0, Oldest}
    /\ pc = "advance" => 0 < Live /\ data = Oldest + 1
    /\ pc \in {"mask", "dec", "char"} => data = last /\ last # 0
    /\ pc = "dec" => loaded = uart3_rx_count
    /\ Clearing => uart3_rx_wr_index = 0 /\ last = 0
    /\ pc = "clear3" => uart3_rx_count = 0

\* The last byte get_line_from_uart3 has dealt with.
Upto == IF pc \in {"mask", "dec", "char"} THEN last - 1 ELSE last

\* The line under construction has met no carriage return.
LineSoFar ==
  /\ pc \in {"idle", "clear2", "clear3"} => line = <<>>
  /\ ~torn /\ line # <<>> =>
     /\ line[Len(line)] \in 1..Upto
     /\ \A i \in 1..Len(Stream) : line[1] <= i /\ i <= Upto => Stream[i] # "CR"

\* TypeOK without the two flags, which another prover handles.
TypeNum ==
  /\ uart3_rx_buf \in [0..(Size - 1) -> 0..Len(Stream)]
  /\ uart3_rx_wr_index \in 0..(Size - 1) /\ uart3_rx_re_index \in 0..(Size - 1)
  /\ uart3_rx_count \in 0..(CountWrap - 1) /\ loaded \in 0..(CountWrap - 1)
  /\ hw \in 0..Len(Stream) /\ sent \in 0..Len(Stream)
  /\ pc \in {"idle", "line", "fetch", "advance", "mask", "dec", "char", "clear2", "clear3"}
  /\ data \in 0..Len(Stream) /\ last \in 0..Len(Stream)
  /\ line \in Seq(0..Len(Stream)) /\ frame \in Seq(0..Len(Stream))
TypeFlags == masked \in BOOLEAN /\ torn \in BOOLEAN

\* The cell i places after index r.
LEMMA Place ==
  ASSUME NEW r \in 0..(Size - 1), NEW i \in 0..(Size - 1)
  PROVE  /\ (r + i) % Size = IF r + i < Size THEN r + i ELSE r + i - Size
         /\ (r + i) % Size \in 0..(Size - 1)
  <1>1. CASE r + i < Size
    BY <1>1, FirstTurn, SizeAssumption
  <1>2. CASE ~(r + i < Size)
    BY <1>2, SecondTurn, SizeAssumption
  <1> QED  BY <1>1, <1>2

\* What the assumptions on the sizes say of their numbers.
LEMMA Lengths == Len(Stream) \in Nat /\ Size \in Nat /\ CountWrap \in Nat /\ Size > 1 /\ CountWrap > Size
  BY SizeAssumption, StreamAssumption

\* The two flags stay flags.
LEMMA FlagsStep == TypeFlags /\ [Next]_vars => TypeFlags'
  BY Zenon DEF TypeFlags, Next, vars, ring, reader, Receive, USART3_IRQHandler, Store, Overflow,
     LineTest, LineEmpty, LineChar, CharFetch, CharAdvance, CharMask, CharDec, ClearWrite, ClearCount, ClearRead

\* The indices, the counter and the bytes keep their ranges.
LEMMA TypeNumStep == TypeNum /\ [Next]_vars => TypeNum'
  <1> SUFFICES ASSUME TypeNum, [Next]_vars PROVE TypeNum'
    OBVIOUS
  <1> USE Lengths
  <1>z. Zeroed \in [0..(Size - 1) -> 0..Len(Stream)]
    BY DEF Zeroed
  <1>w. \A i \in 0..(Size - 1) : Wrap(i + 1) \in 0..(Size - 1)
    BY DEF Wrap
  <1>m. \A i \in Nat : i % CountWrap \in 0..(CountWrap - 1)
    OBVIOUS
  <1>1. CASE Receive
    BY <1>1 DEF Receive, TypeNum, ring, reader
  <1>2. CASE USART3_IRQHandler
    <2>1. CASE Store
      <3>1. uart3_rx_count + 1 \in Nat
        BY DEF TypeNum
      <3>2. /\ uart3_rx_buf' = [uart3_rx_buf EXCEPT ![uart3_rx_wr_index] = hw]
            /\ uart3_rx_wr_index' = Wrap(uart3_rx_wr_index + 1)
            /\ uart3_rx_count' = (uart3_rx_count + 1) % CountWrap
            /\ hw' = 0 /\ UNCHANGED <<uart3_rx_re_index, frame, last, sent, reader>>
        BY <1>2, <2>1 DEF USART3_IRQHandler, Store
      <3>3. uart3_rx_wr_index' \in 0..(Size - 1) /\ uart3_rx_count' \in 0..(CountWrap - 1)
        BY <1>w, <1>m, <3>1, <3>2 DEF TypeNum
      <3> QED  BY <3>2, <3>3, SMTT(30) DEF TypeNum, reader
    <2>2. CASE Overflow
      BY <1>2, <1>z, <2>2 DEF USART3_IRQHandler, Overflow, TypeNum, reader
    <2> QED  BY <1>2, <2>1, <2>2 DEF USART3_IRQHandler
  <1>3. CASE LineTest
    BY <1>3 DEF LineTest, TypeNum, ring
  <1>4. CASE LineEmpty
    BY <1>4 DEF LineEmpty, TypeNum, ring
  <1>5. CASE LineChar
    <2>1. Append(line, data) \in Seq(0..Len(Stream))
      BY DEF TypeNum
    <2>2. /\ pc' \in {"idle", "line"} /\ frame' \in {frame, line}
          /\ line' \in {line, <<>>, Append(line, data)}
          /\ UNCHANGED <<ring, hw, sent, data, loaded, last>>
      BY <1>5 DEF LineChar
    <2>3. line' \in Seq(0..Len(Stream)) /\ frame' \in Seq(0..Len(Stream))
      <3>1. line \in Seq(0..Len(Stream)) /\ frame \in Seq(0..Len(Stream)) /\ <<>> \in Seq(0..Len(Stream))
        BY DEF TypeNum
      <3> QED  BY <2>1, <2>2, <3>1
    <2>4. pc' \in {"idle", "line", "fetch", "advance", "mask", "dec", "char", "clear2", "clear3"}
      BY <2>2
    <2> QED  BY <2>2, <2>3, <2>4 DEF TypeNum, ring
  <1>6. CASE CharFetch
    BY <1>6 DEF CharFetch, TypeNum, ring
  <1>7. CASE CharAdvance
    BY <1>7, <1>w DEF CharAdvance, TypeNum
  <1>8. CASE CharMask
    BY <1>8 DEF CharMask, TypeNum, ring
  <1>9. CASE CharDec
    <2>1. loaded + CountWrap - 1 \in Nat
      BY DEF TypeNum
    <2> QED  BY <1>9, <1>m, <2>1 DEF CharDec, TypeNum
  <1>10. CASE ClearWrite
    BY <1>10 DEF ClearWrite, TypeNum
  <1>11. CASE ClearCount
    BY <1>11 DEF ClearCount, TypeNum
  <1>12. CASE ClearRead
    BY <1>12, <1>z DEF ClearRead, TypeNum
  <1>13. CASE UNCHANGED vars
    BY <1>13 DEF vars, ring, reader, TypeNum
  <1> QED
    BY <1>1, <1>2, <1>3, <1>4, <1>5, <1>6, <1>7, <1>8, <1>9, <1>10, <1>11, <1>12, <1>13 DEF Next

\* The interrupt is masked where the reader changes the counter, and nowhere else.
LEMMA MaskingStep == Masking /\ [Next]_vars => Masking'
  BY DEF Masking, Next, vars, ring, reader, Receive, USART3_IRQHandler, LineTest, LineEmpty, LineChar,
     CharFetch, CharAdvance, CharMask, CharDec, ClearWrite, ClearCount, ClearRead

\* The byte in the receive register is the one that was sent last.
LEMMA RegisterStep == TypeNum /\ Register /\ [Next]_vars => Register'
  <1> SUFFICES ASSUME TypeNum, Register, [Next]_vars, ~torn', hw' # 0 PROVE hw' = sent'
    BY DEF Register
  <1>1. CASE Receive
    BY <1>1 DEF Receive
  <1>2. CASE USART3_IRQHandler
    BY <1>2 DEF USART3_IRQHandler
  <1>3. CASE ClearWrite
    BY <1>3 DEF ClearWrite, Register
  <1>4. CASE ~Receive /\ ~USART3_IRQHandler /\ ~ClearWrite
    BY <1>4 DEF Register, Next, vars, ring, reader, LineTest, LineEmpty, LineChar,
       CharFetch, CharAdvance, CharMask, CharDec, ClearCount, ClearRead
  <1> QED  BY <1>1, <1>2, <1>3, <1>4

\* The interrupt handler adds the byte after the newest one to the ring.
LEMMA StoreKeeps ==
  ASSUME TypeNum, Register, Masking, Cursors, Cells, ReaderAt,
         USART3_IRQHandler, uart3_rx_count + 1 # Size, Store, ~torn'
  PROVE  Cursors' /\ Cells' /\ ReaderAt'
  <1> USE Lengths
  <1>1. /\ hw # 0 /\ hw' = 0 /\ sent' = sent /\ uart3_rx_count + 1 # Size
        /\ UNCHANGED <<pc, data, loaded, last, uart3_rx_re_index>>
        /\ uart3_rx_buf' = [uart3_rx_buf EXCEPT ![uart3_rx_wr_index] = hw]
        /\ uart3_rx_wr_index' = Wrap(uart3_rx_wr_index + 1)
        /\ uart3_rx_count' = (uart3_rx_count + 1) % CountWrap
    BY DEF USART3_IRQHandler, Store, reader
  <1>2. ~torn /\ ~Clearing /\ pc # "dec"
    BY DEF Store, Clearing, USART3_IRQHandler, Masking
  <1>3. /\ uart3_rx_count < Size /\ 0 <= Live /\ 0 <= Oldest
        /\ uart3_rx_wr_index = (uart3_rx_re_index + Live) % Size
    BY <1>2 DEF Cursors
  <1>4. /\ uart3_rx_count \in Nat /\ uart3_rx_re_index \in 0..(Size - 1) /\ sent \in Nat /\ hw = sent
        /\ Live \in Nat /\ Live <= uart3_rx_count /\ Newest = sent - 1
    BY <1>1, <1>2, <1>3 DEF TypeNum, Register, Live, Newest
  <1>5. uart3_rx_count' = uart3_rx_count + 1 /\ uart3_rx_count' < Size
    BY <1>1, <1>3, <1>4, FirstTurn
  <1>6. Live' = Live + 1 /\ Newest' = sent /\ Oldest' = Oldest
    BY <1>1, <1>4, <1>5 DEF Live, Newest, Oldest
  <1>7. Live \in 0..(Size - 1) /\ Live + 1 \in 0..(Size - 1)
    BY <1>3, <1>4, <1>5
  <1>8. uart3_rx_wr_index = IF uart3_rx_re_index + Live < Size THEN uart3_rx_re_index + Live
                            ELSE uart3_rx_re_index + Live - Size
    BY <1>3, <1>4, <1>7, Place
  <1>9. (uart3_rx_re_index + (Live + 1)) % Size = IF uart3_rx_re_index + (Live + 1) < Size
            THEN uart3_rx_re_index + (Live + 1) ELSE uart3_rx_re_index + (Live + 1) - Size
    BY <1>4, <1>7, Place
  <1>10. uart3_rx_wr_index' = (uart3_rx_re_index' + Live') % Size
    BY <1>1, <1>4, <1>6, <1>7, <1>8, <1>9 DEF Wrap
  <1>11. Cursors'
    BY <1>3, <1>5, <1>6, <1>7, <1>10 DEF Cursors
  <1>12. ASSUME NEW i \in 0..(Live' - 1)
         PROVE  uart3_rx_buf'[(uart3_rx_re_index' + i) % Size] = Oldest' + 1 + i
    <2>0. i \in 0..(Size - 1) /\ i \in 0..Live
      BY <1>4, <1>6, <1>7
    <2>1. /\ (uart3_rx_re_index + i) % Size = IF uart3_rx_re_index + i < Size THEN uart3_rx_re_index + i
                                              ELSE uart3_rx_re_index + i - Size
          /\ (uart3_rx_re_index + i) % Size \in 0..(Size - 1)
      BY <1>4, <2>0, Place
    <2>2. CASE i = Live
      <3>1. uart3_rx_buf'[uart3_rx_wr_index] = hw
        BY <1>1 DEF TypeNum
      <3> QED  BY <1>1, <1>3, <1>4, <1>6, <2>2, <3>1 DEF Oldest
    <2>3. CASE i # Live
      <3>1. i \in 0..(Live - 1)
        BY <1>4, <2>0, <2>3
      <3>2. uart3_rx_wr_index # (uart3_rx_re_index + i) % Size
        BY <1>4, <1>7, <1>8, <2>1, <3>1
      <3>3. uart3_rx_buf'[(uart3_rx_re_index + i) % Size] = uart3_rx_buf[(uart3_rx_re_index + i) % Size]
        BY <1>1, <2>1, <3>2 DEF TypeNum
      <3>4. uart3_rx_buf[(uart3_rx_re_index + i) % Size] = Oldest + 1 + i
        BY <1>2, <3>1 DEF Cells
      <3> QED  BY <1>1, <1>6, <3>3, <3>4
    <2> QED  BY <2>2, <2>3
  <1>13. Cells'
    BY <1>12 DEF Cells
  <1>14. ReaderAt'
    BY <1>1, <1>2, <1>4, <1>6 DEF ReaderAt, Clearing
  <1> QED  BY <1>11, <1>13, <1>14

\* The reader passes the oldest byte.
LEMMA AdvanceKeeps ==
  ASSUME TypeNum, Cursors, Cells, ReaderAt, CharAdvance, ~torn'
  PROVE  Cursors' /\ Cells' /\ ReaderAt'
  <1> USE Lengths
  <1>1. /\ pc = "advance" /\ pc' = "mask" /\ last' = data /\ ~torn
        /\ uart3_rx_re_index' = Wrap(uart3_rx_re_index + 1)
        /\ UNCHANGED <<uart3_rx_buf, uart3_rx_wr_index, uart3_rx_count, hw, sent, data>>
    BY DEF CharAdvance
  <1>2. /\ uart3_rx_count < Size /\ 0 < Live /\ 0 <= Oldest /\ data = Oldest + 1
        /\ uart3_rx_wr_index = (uart3_rx_re_index + Live) % Size
        /\ \A i \in 0..(Live - 1) : uart3_rx_buf[(uart3_rx_re_index + i) % Size] = Oldest + 1 + i
    BY <1>1 DEF Cursors, Cells, ReaderAt, Clearing
  <1>3. /\ uart3_rx_re_index \in 0..(Size - 1) /\ sent \in Nat /\ hw \in Nat
        /\ uart3_rx_count \in Nat /\ Live = uart3_rx_count /\ Live' = Live - 1
    BY <1>1 DEF TypeNum, Live
  <1>4. Newest' = Newest /\ Newest \in Int /\ Oldest' = Oldest + 1 /\ Oldest \in Int
    BY <1>1, <1>3 DEF Newest, Oldest
  <1>5. ASSUME NEW i \in 0..(Live - 1)
        PROVE  (uart3_rx_re_index' + i) % Size = (uart3_rx_re_index + (i + 1)) % Size
    <2>1. i \in 0..(Size - 1) /\ i + 1 \in 0..(Size - 1) /\ uart3_rx_re_index' \in 0..(Size - 1)
      BY <1>1, <1>2, <1>3 DEF Wrap
    <2>2. (uart3_rx_re_index' + i) % Size = IF uart3_rx_re_index' + i < Size THEN uart3_rx_re_index' + i
                                            ELSE uart3_rx_re_index' + i - Size
      BY <2>1, Place
    <2>3. (uart3_rx_re_index + (i + 1)) % Size = IF uart3_rx_re_index + (i + 1) < Size
            THEN uart3_rx_re_index + (i + 1) ELSE uart3_rx_re_index + (i + 1) - Size
      BY <1>3, <2>1, Place
    <2> QED  BY <1>1, <1>3, <2>1, <2>2, <2>3 DEF Wrap
  <1>6. Cursors'
    <2>1. Live - 1 \in 0..(Live - 1) /\ (Live - 1) + 1 = Live
      BY <1>2, <1>3
    <2>2. uart3_rx_wr_index' = (uart3_rx_re_index' + Live') % Size
      BY <1>1, <1>2, <1>3, <1>5, <2>1
    <2> QED  BY <1>1, <1>2, <1>3, <1>4, <2>2 DEF Cursors
  <1>7. ASSUME NEW i \in 0..(Live' - 1)
        PROVE  uart3_rx_buf'[(uart3_rx_re_index' + i) % Size] = Oldest' + 1 + i
    <2>1. i \in 0..(Live - 1) /\ i + 1 \in 0..(Live - 1)
      BY <1>3
    <2>2. uart3_rx_buf'[(uart3_rx_re_index' + i) % Size] = Oldest + 1 + (i + 1)
      BY <1>1, <1>2, <1>5, <2>1
    <2> QED  BY <1>4, <2>1, <2>2
  <1>8. Cells'
    BY <1>7 DEF Cells
  <1>9. ReaderAt'
    BY <1>1, <1>2, <1>4 DEF ReaderAt, Clearing
  <1> QED  BY <1>6, <1>8, <1>9

\* Every statement of the reader and every interrupt keeps the indices, the counter and the cells together.
LEMMA RingStep ==
  TypeNum /\ Register /\ Masking /\ Cursors /\ Cells /\ ReaderAt /\ [Next]_vars
    => Cursors' /\ Cells' /\ ReaderAt'
  <1> SUFFICES ASSUME TypeNum, Register, Masking, Cursors, Cells, ReaderAt, [Next]_vars, ~torn'
               PROVE  Cursors' /\ Cells' /\ ReaderAt'
    BY DEF Cursors, Cells, ReaderAt
  <1> USE Lengths
  <1>0. /\ uart3_rx_count \in Nat /\ sent \in Nat /\ hw \in Nat /\ Newest \in Int /\ Live \in Int /\ Oldest \in Int
    BY DEF TypeNum, Newest, Live, Oldest
  <1>r. ASSUME Live' = Live, Newest' = Newest, ~torn, ~Clearing, ~Clearing',
               UNCHANGED <<uart3_rx_buf, uart3_rx_wr_index, uart3_rx_re_index>>,
               uart3_rx_count' < Size
        PROVE  Cursors' /\ Cells' /\ Oldest' = Oldest
    BY <1>r DEF Cursors, Cells, Oldest
  \* The ring is empty after a reset.
  <1>e. ASSUME uart3_rx_wr_index' = 0, uart3_rx_count' = 0, uart3_rx_re_index' = 0,
               pc' = "idle", last' = 0, Newest' \in Nat
        PROVE  Cursors' /\ Cells' /\ ReaderAt'
    <2>1. Live' = 0
      BY <1>e DEF Live
    <2>2. Oldest' = Newest'
      <3>1. Oldest' = Newest' - Live'
        BY Zenon DEF Oldest
      <3>2. \A n \in Nat : n - 0 = n
        OBVIOUS
      <3> QED  BY <1>e, <2>1, <3>1, <3>2, Zenon
    <2>3. (0 + 0) % Size = 0
      BY FirstTurn
    <2> QED  BY <1>e, <2>1, <2>2, <2>3 DEF Cursors, Cells, ReaderAt, Clearing
  <1>1. CASE Receive
    <2>1. /\ ~torn /\ hw = 0 /\ hw' = sent + 1 /\ sent' = sent + 1
          /\ UNCHANGED <<ring, pc, data, loaded, last>>
      BY <1>1 DEF Receive, reader
    <2>2. Newest' = Newest /\ Live' = Live
      BY <1>0, <2>1 DEF Newest, Live, ring
    <2> QED  BY <2>1, <2>2 DEF Cursors, Cells, ReaderAt, Clearing, Oldest, ring
  <1>2. CASE USART3_IRQHandler
    <2>1. CASE uart3_rx_count + 1 # Size /\ Store
      BY <1>2, <2>1, StoreKeeps
    <2>2. CASE uart3_rx_count + 1 = Size /\ Overflow
      <3>1. pc = "idle" /\ pc' = "idle" /\ hw' = 0 /\ sent' = sent
        BY <1>2, <2>2 DEF Overflow, USART3_IRQHandler, reader
      <3> QED  BY <1>0, <1>e, <2>2, <3>1 DEF Overflow, Newest
    <2> QED  BY <1>2, <2>1, <2>2 DEF USART3_IRQHandler
  <1>3. CASE LineTest
    <2>1. ~torn /\ pc' = "fetch" /\ pc \in {"idle", "line"} /\ UNCHANGED <<ring, hw, sent, last>>
      BY <1>3 DEF LineTest
    <2>2. Live' = Live /\ Newest' = Newest /\ ~Clearing /\ ~Clearing' /\ uart3_rx_count' < Size
      BY <2>1 DEF Live, Newest, Clearing, ring, Cursors
    <2>3. Cursors' /\ Cells' /\ Oldest' = Oldest
      BY <1>r, <2>1, <2>2 DEF ring
    <2> QED  BY <2>1, <2>2, <2>3 DEF ReaderAt
  <1>4. CASE LineEmpty
    <2>1. ~torn /\ pc' = "idle" /\ pc = "line" /\ UNCHANGED <<ring, hw, sent, last>>
      BY <1>4 DEF LineEmpty
    <2>2. Live' = Live /\ Newest' = Newest /\ ~Clearing /\ ~Clearing' /\ uart3_rx_count' < Size
      BY <2>1 DEF Live, Newest, Clearing, ring, Cursors
    <2>3. Cursors' /\ Cells' /\ Oldest' = Oldest
      BY <1>r, <2>1, <2>2 DEF ring
    <2> QED  BY <2>1, <2>2, <2>3 DEF ReaderAt
  <1>5. CASE LineChar
    <2>1. ~torn /\ pc' \in {"idle", "line"} /\ pc = "char" /\ UNCHANGED <<ring, hw, sent, last>>
      BY <1>5 DEF LineChar
    <2>2. Live' = Live /\ Newest' = Newest /\ ~Clearing /\ ~Clearing' /\ uart3_rx_count' < Size
      BY <2>1 DEF Live, Newest, Clearing, ring, Cursors
    <2>3. Cursors' /\ Cells' /\ Oldest' = Oldest
      BY <1>r, <2>1, <2>2 DEF ring
    <2> QED  BY <2>1, <2>2, <2>3 DEF ReaderAt
  <1>6. CASE CharFetch
    <2>1. /\ ~torn /\ pc' = "advance" /\ pc = "fetch" /\ uart3_rx_count # 0
          /\ data' = uart3_rx_buf[uart3_rx_re_index] /\ UNCHANGED <<ring, hw, sent, last>>
      BY <1>6 DEF CharFetch
    <2>2. Live' = Live /\ Newest' = Newest /\ ~Clearing /\ ~Clearing' /\ uart3_rx_count' < Size
      BY <2>1 DEF Live, Newest, Clearing, ring, Cursors
    <2>3. Cursors' /\ Cells' /\ Oldest' = Oldest
      BY <1>r, <2>1, <2>2 DEF ring
    <2>4. 0 < Live /\ 0 \in 0..(Live - 1)
      BY <1>0, <2>1 DEF Live
    <2>5. uart3_rx_buf[(uart3_rx_re_index + 0) % Size] = Oldest + 1 + 0
      BY <2>1, <2>2, <2>4 DEF Cells
    <2>6. (uart3_rx_re_index + 0) % Size = uart3_rx_re_index
      <3>1. uart3_rx_re_index \in Nat /\ uart3_rx_re_index < Size /\ uart3_rx_re_index + 0 = uart3_rx_re_index
        BY DEF TypeNum
      <3> QED  BY <3>1, FirstTurn
    <2>7. data' = Oldest + 1
      BY <1>0, <2>1, <2>5, <2>6
    <2> QED  BY <2>1, <2>2, <2>3, <2>4, <2>7 DEF ReaderAt
  <1>7. CASE CharAdvance
    BY <1>7, AdvanceKeeps
  <1>8. CASE CharMask
    <2>1. ~torn /\ pc' = "dec" /\ pc = "mask" /\ loaded' = uart3_rx_count /\ UNCHANGED <<ring, hw, sent, last, data>>
      BY <1>8 DEF CharMask
    <2>2. Live' = Live /\ Newest' = Newest /\ ~Clearing /\ ~Clearing' /\ uart3_rx_count' < Size
      BY <2>1 DEF Live, Newest, Clearing, ring, Cursors
    <2>3. Cursors' /\ Cells' /\ Oldest' = Oldest
      BY <1>r, <2>1, <2>2 DEF ring
    <2> QED  BY <2>1, <2>2, <2>3 DEF ReaderAt, ring
  <1>9. CASE CharDec
    <2>1. /\ ~torn /\ pc' = "char" /\ pc = "dec" /\ uart3_rx_count' = (loaded + CountWrap - 1) % CountWrap
          /\ UNCHANGED <<uart3_rx_buf, uart3_rx_wr_index, uart3_rx_re_index, hw, sent, last, data>>
      BY <1>9 DEF CharDec
    <2>2. loaded = uart3_rx_count /\ 0 <= uart3_rx_count - 1 /\ uart3_rx_count < Size
      BY <2>1 DEF ReaderAt, Cursors, Live, Clearing
    <2>3. uart3_rx_count' = uart3_rx_count - 1
      <3>1. /\ loaded + CountWrap - 1 \in Nat /\ CountWrap <= loaded + CountWrap - 1
            /\ loaded + CountWrap - 1 < CountWrap + CountWrap
        BY <1>0, <2>2
      <3>2. (loaded + CountWrap - 1) % CountWrap = (loaded + CountWrap - 1) - CountWrap
        BY <3>1, SecondTurn
      <3> QED  BY <1>0, <2>1, <2>2, <3>2
    <2>4. Live' = Live /\ Newest' = Newest /\ ~Clearing /\ ~Clearing' /\ uart3_rx_count' < Size
      BY <1>0, <2>1, <2>2, <2>3 DEF Live, Newest, Clearing
    <2>5. Cursors' /\ Cells' /\ Oldest' = Oldest
      BY <1>r, <2>1, <2>4
    <2> QED  BY <2>1, <2>4, <2>5 DEF ReaderAt
  <1>10. CASE ClearWrite
    BY <1>10 DEF ClearWrite, Cursors, Cells, ReaderAt, Clearing
  <1>11. CASE ClearCount
    BY <1>11 DEF ClearCount, Cursors, Cells, ReaderAt, Clearing
  <1>12. CASE ClearRead
    <2>1. /\ ~torn /\ pc = "clear3" /\ pc' = "idle" /\ uart3_rx_re_index' = 0
          /\ UNCHANGED <<uart3_rx_wr_index, uart3_rx_count, hw, sent, last>>
      BY <1>12 DEF ClearRead
    <2>2. uart3_rx_wr_index = 0 /\ last = 0 /\ uart3_rx_count = 0
      BY <2>1 DEF ReaderAt, Clearing
    <2>3. Newest' \in Nat
      BY <1>0, <2>1 DEF Newest, Register
    <2> QED  BY <1>e, <2>1, <2>2, <2>3
  <1>13. CASE UNCHANGED vars
    BY <1>13 DEF vars, ring, reader, Cursors, Cells, ReaderAt, Clearing, Oldest, Newest, Live
  <1> QED
    BY <1>1, <1>2, <1>3, <1>4, <1>5, <1>6, <1>7, <1>8, <1>9, <1>10, <1>11, <1>12, <1>13 DEF Next

\* A line is given out at its carriage return and not later.
LEMMA LineStep ==
  /\ TypeNum /\ Masking /\ Cursors /\ ReaderAt /\ LineSoFar /\ FrameInOneLine
  /\ [Next]_vars
  => LineSoFar' /\ FrameInOneLine'
  <1> SUFFICES ASSUME TypeNum, Masking, Cursors, ReaderAt, LineSoFar, FrameInOneLine, [Next]_vars
               PROVE  LineSoFar' /\ FrameInOneLine'
    OBVIOUS
  <1> USE Lengths
  <1>0. /\ line \in Seq(0..Len(Stream)) /\ Len(line) \in Nat /\ last \in Nat /\ data \in Nat
        /\ pc \in {"idle", "line", "fetch", "advance", "mask", "dec", "char", "clear2", "clear3"}
    BY DEF TypeNum
  \* A step that leaves the line and what was read of it alone.
  <1>k. ASSUME UNCHANGED <<line, frame, last>>, Upto' = Upto, torn => torn',
               pc' \in {"idle", "clear2", "clear3"} => line = <<>>
        PROVE  LineSoFar' /\ FrameInOneLine'
    BY <1>k DEF LineSoFar, FrameInOneLine
  \* A reset: there is neither a line nor a frame.
  <1>e. ASSUME line' = <<>>, frame' = <<>>
        PROVE  LineSoFar' /\ FrameInOneLine'
    BY <1>e DEF LineSoFar, FrameInOneLine
  \* The line ends and is returned.
  <1>f. ASSUME line' = <<>>, frame' = line, torn' = torn
        PROVE  LineSoFar' /\ FrameInOneLine'
    <2>1. LineSoFar'
      BY <1>f DEF LineSoFar
    <2>2. ASSUME ~torn, line # <<>>, NEW i \in 1..Len(Stream), line[1] <= i, i <= line[Len(line)]
          PROVE  Stream[i] # "CR"
      <3>1. line[Len(line)] \in 1..Upto
        BY <2>2 DEF LineSoFar
      <3>2. Upto \in Int
        BY <1>0 DEF Upto
      <3>3. i <= Upto
        BY <2>2, <3>1, <3>2
      <3> QED  BY <2>2, <3>3 DEF LineSoFar
    <2> QED  BY <1>f, <2>1, <2>2 DEF FrameInOneLine
  <1>1. CASE Receive
    BY <1>1, <1>k DEF Receive, reader, Upto, LineSoFar
  <1>2. CASE USART3_IRQHandler
    <2>1. CASE Store
      BY <1>2, <1>k, <2>1 DEF USART3_IRQHandler, Store, reader, Upto, LineSoFar
    <2>2. CASE Overflow
      <3>1. CASE pc = "idle"
        BY <1>2, <1>e, <2>2, <3>1 DEF USART3_IRQHandler, Overflow, reader, LineSoFar
      <3>2. CASE pc # "idle"
        BY <1>2, <2>2, <3>2 DEF USART3_IRQHandler, Overflow, reader, LineSoFar, FrameInOneLine
      <3> QED  BY <3>1, <3>2
    <2> QED  BY <1>2, <2>1, <2>2 DEF USART3_IRQHandler
  <1>3. CASE LineTest
    BY <1>3, <1>k DEF LineTest, Upto
  <1>4. CASE LineEmpty
    BY <1>4, <1>f DEF LineEmpty
  <1>5. CASE LineChar
    <2>1. CASE Char = "CR"
      BY <1>5, <1>f, <2>1 DEF LineChar
    <2>2. CASE Char # "CR"
      <3>1. /\ pc = "char" /\ pc' = "line" /\ frame' = frame /\ torn' = torn /\ last' = last
            /\ line' \in {line, Append(line, data)}
        BY <1>5, <2>2 DEF LineChar
      <3>2. FrameInOneLine'
        BY <3>1 DEF FrameInOneLine
      <3>3. ASSUME ~torn, line' # <<>>
            PROVE  /\ line'[Len(line')] \in 1..last
                   /\ \A i \in 1..Len(Stream) : line'[1] <= i /\ i <= last => Stream[i] # "CR"
        <4>1. data = last /\ last # 0 /\ Upto = last - 1 /\ Stream[last] # "CR"
          BY <2>2, <3>1, <3>3 DEF ReaderAt, Upto, Char
        <4>2. line # <<>> => /\ line[Len(line)] \in 1..(last - 1)
                             /\ \A i \in 1..Len(Stream) : line[1] <= i /\ i <= last - 1 => Stream[i] # "CR"
          BY <3>3, <4>1 DEF LineSoFar
        <4>3. CASE line' = line
          <5>1. line # <<>>
            BY <3>3, <4>3
          <5> QED  BY <1>0, <4>1, <4>2, <4>3, <5>1
        <4>4. CASE line' = Append(line, data)
          <5>1. line'[Len(line')] = last
            BY <1>0, <4>1, <4>4
          <5>2. CASE line = <<>>
            <6>1. line'[1] = last
              BY <1>0, <4>1, <4>4, <5>2
            <6> QED  BY <1>0, <4>1, <5>1, <6>1
          <5>3. CASE line # <<>>
            <6>1. line'[1] = line[1]
              BY <1>0, <4>4, <5>3
            <6> QED  BY <1>0, <4>1, <4>2, <5>1, <5>3, <6>1
          <5> QED  BY <5>2, <5>3
        <4> QED  BY <3>1, <4>3, <4>4
      <3>4. LineSoFar'
        <4>1. Upto' = last
          BY <3>1 DEF Upto
        <4> QED  BY <3>1, <3>3, <4>1 DEF LineSoFar
      <3> QED  BY <3>2, <3>4
    <2> QED  BY <2>1, <2>2
  <1>6. CASE CharFetch
    BY <1>6, <1>k DEF CharFetch, Upto
  <1>7. CASE CharAdvance
    <2>1. /\ pc = "advance" /\ pc' = "mask" /\ last' = data /\ UNCHANGED <<line, frame, torn>>
      BY <1>7 DEF CharAdvance
    <2>2. FrameInOneLine'
      BY <2>1 DEF FrameInOneLine
    <2>3. ASSUME ~torn, line # <<>> PROVE data - 1 = last
      <3>1. data = Oldest + 1 /\ last \in {0, Oldest} /\ 0 <= Oldest
        BY <2>1, <2>3 DEF ReaderAt, Cursors, Clearing
      <3>2. line[Len(line)] \in 1..last
        BY <2>1, <2>3 DEF LineSoFar, Upto
      <3>3. last # 0
        BY <1>0, <3>2
      <3> QED  BY <1>0, <3>1, <3>3
    <2>4. Upto' = data - 1 /\ Upto = last
      BY <2>1 DEF Upto
    <2> QED  BY <2>1, <2>2, <2>3, <2>4 DEF LineSoFar
  <1>8. CASE CharMask
    BY <1>8, <1>k DEF CharMask, Upto
  <1>9. CASE CharDec
    BY <1>9, <1>k DEF CharDec, Upto
  <1>10. CASE ClearWrite
    BY <1>10, <1>e DEF ClearWrite, LineSoFar
  <1>11. CASE ClearCount
    BY <1>11, <1>k DEF ClearCount, Upto, LineSoFar
  <1>12. CASE ClearRead
    BY <1>12, <1>k DEF ClearRead, Upto, LineSoFar
  <1>13. CASE UNCHANGED vars
    BY <1>13, <1>k DEF vars, ring, reader, Upto, LineSoFar
  <1> QED
    BY <1>1, <1>2, <1>3, <1>4, <1>5, <1>6, <1>7, <1>8, <1>9, <1>10, <1>11, <1>12, <1>13 DEF Next

\* The parts together are inductive.
UartInv ==
  /\ TypeNum /\ TypeFlags /\ Masking /\ Register /\ Cursors /\ Cells /\ ReaderAt
  /\ LineSoFar /\ FrameInOneLine

\* So the ring is coherent between any two statements.
LEMMA UartInvariant == Spec => []UartInv
  <1>1. Init => UartInv
    <2> SUFFICES ASSUME Init PROVE UartInv
      OBVIOUS
    <2>1. TypeNum
      BY Lengths DEF Init, TypeNum, Zeroed
    <2>2. Live = 0 /\ Newest = 0 /\ Oldest = 0 /\ (0 + 0) % Size = 0
      <3>1. Live = 0 /\ Newest = 0
        BY DEF Init, Live, Newest
      <3> QED  BY <3>1, Lengths, FirstTurn DEF Oldest
    <2>3. TypeFlags /\ Masking
      BY DEF Init, TypeFlags, Masking
    <2>4. Register /\ Cursors /\ Cells /\ ReaderAt
      BY <2>2, Lengths DEF Init, Register, Cursors, Cells, ReaderAt, Clearing
    <2>5. LineSoFar /\ FrameInOneLine
      BY DEF Init, LineSoFar, FrameInOneLine
    <2> QED  BY <2>1, <2>3, <2>4, <2>5 DEF UartInv
  <1>2. UartInv /\ [Next]_vars => UartInv'
    BY FlagsStep, TypeNumStep, MaskingStep, RegisterStep, RingStep, LineStep DEF UartInv
  <1> QED  BY <1>1, <1>2, PTL DEF Spec

\* Whatever the interrupt handler interrupts, as long as no byte was lost in the
\* receiver and the ring was not reset under its reader, the write index is count
\* cells after the read index and the cells between them are the bytes received
\* and not read, in order and later than every byte read.
THEOREM UartRingCoherent == Spec => []Coherent
  <1>1. UartInv => Coherent
    <2> SUFFICES ASSUME UartInv PROVE Coherent
      OBVIOUS
    <2>1. TypeOK
      BY DEF UartInv, TypeNum, TypeFlags, TypeOK
    <2>2. ASSUME Settled, ~torn
          PROVE  /\ uart3_rx_wr_index = (uart3_rx_re_index + uart3_rx_count) % Size
                 /\ \A i \in 0..(uart3_rx_count - 1) :
                      uart3_rx_buf[(uart3_rx_re_index + i) % Size] = Oldest + 1 + i
                 /\ last \in {0, Oldest} /\ 0 <= Oldest /\ Oldest \in Int
      <3>1. Live = uart3_rx_count /\ ~Clearing
        BY <2>2 DEF Settled, Live, Clearing
      <3>2. Oldest \in Int
        BY <3>1, Lengths DEF UartInv, TypeNum, Oldest, Newest
      <3> QED  BY <2>2, <3>1, <3>2 DEF UartInv, Cursors, Cells, ReaderAt
    <2>3. ASSUME Settled, ~torn, NEW i \in 0..(uart3_rx_count - 1)
          PROVE  /\ uart3_rx_buf[(uart3_rx_re_index + i) % Size] > last
                 /\ \A j \in 0..(i - 1) : uart3_rx_buf[(uart3_rx_re_index + j) % Size]
                                          < uart3_rx_buf[(uart3_rx_re_index + i) % Size]
      <3>1. uart3_rx_count \in Nat
        BY Lengths DEF UartInv, TypeNum
      <3>2. \A j \in 0..(i - 1) : j \in 0..(uart3_rx_count - 1)
        BY <3>1
      <3> QED  BY <2>2, <2>3, <3>1, <3>2
    <2> QED  BY <2>1, <2>2, <2>3 DEF Coherent
  <1> QED  BY <1>1, UartInvariant, PTL

\* get_line_from_uart3 never joins bytes from both sides of a carriage return.
THEOREM FramesStayInTheirLine == Spec => []FrameInOneLine
  <1>1. UartInv => FrameInOneLine
    BY DEF UartInv
  <1> QED  BY <1>1, UartInvariant, PTL
=============================================================================
