----------------------------- MODULE Uart3Ring -----------------------------
(***************************************************************************)
(* The receive ring of USART3 (Drivers/BSP/src/ibox_uart.c), shared by the *)
(* interrupt handler and the wireless thread.  The handler runs whenever a *)
(* byte is in the data register and the receive interrupt is not masked,   *)
(* between any two statements of get_line_from_uart3, get_char_form_uart3  *)
(* and uart3_rx_buf_clear.  Byte number i of the modem's output is         *)
(* Stream[i]; 0 is a zeroed cell.                                          *)
(***************************************************************************)
EXTENDS Integers, Sequences

CONSTANTS
  Size,        \* UART3_RX_SIZE, 1460
  CountWrap,   \* bound: uart3_rx_count wraps at this value, 65536 in the code
  Stream       \* what the modem sends: characters, "CR" and "LF"

ASSUME SizeAssumption == Size \in Nat /\ Size > 1 /\ CountWrap \in Nat /\ CountWrap > Size
ASSUME StreamAssumption == Stream \in Seq({"CR", "LF", "x"})

VARIABLES
  uart3_rx_buf, uart3_rx_wr_index, uart3_rx_count, uart3_rx_re_index,
  hw,          \* the receive data register: byte number, 0 empty
  sent,        \* bytes the modem sent so far
  masked,      \* USART_IT_RXNE disabled
  pc,          \* the wireless thread: statement of the function it is in
  data,        \* local of get_char_form_uart3
  loaded,      \* register of --uart3_rx_count between its load and its store
  line,        \* what get_line_from_uart3 has put into its caller's buffer
  frame,       \* history: the line get_line_from_uart3 returned last,
               \* none after a reset of the ring
  last,        \* history: the byte read last, 0 after a reset of the ring
  torn         \* history: a byte was lost in the receiver, or the ring was reset under
               \* the other side, and there was no undisturbed reset since

ring   == <<uart3_rx_buf, uart3_rx_wr_index, uart3_rx_count, uart3_rx_re_index>>
reader == <<pc, data, loaded, line>>
vars == <<ring, hw, sent, masked, reader, frame, last, torn>>

Zeroed == [i \in 0..(Size - 1) |-> 0]
Wrap(i) == IF i = Size THEN 0 ELSE i

Init ==
  /\ uart3_rx_buf = Zeroed
  /\ uart3_rx_wr_index = 0 /\ uart3_rx_count = 0 /\ uart3_rx_re_index = 0
  /\ hw = 0 /\ sent = 0 /\ masked = FALSE
  /\ pc = "idle" /\ data = 0 /\ loaded = 0 /\ line = <<>> /\ frame = <<>>
  /\ last = 0 /\ torn = FALSE
-----------------------------------------------------------------------------
(* The modem and the receiver: a byte that finds the register full is lost (ORE). *)
Receive ==
  /\ sent < Len(Stream)
  /\ sent' = sent + 1
  /\ hw' = IF hw = 0 THEN sent + 1 ELSE hw
  /\ torn' = (torn \/ hw # 0)
  /\ UNCHANGED <<ring, masked, reader, frame, last>>

Store ==
  /\ uart3_rx_buf' = [uart3_rx_buf EXCEPT ![uart3_rx_wr_index] = hw]
  /\ uart3_rx_wr_index' = Wrap(uart3_rx_wr_index + 1)
  /\ uart3_rx_count' = (uart3_rx_count + 1) % CountWrap
  /\ torn' = (torn \/ pc \in {"clear2", "clear3"})
  /\ UNCHANGED <<uart3_rx_re_index, frame, last>>

\* The byte fills the last cell: everything is dropped.
Overflow ==
  /\ uart3_rx_wr_index' = 0 /\ uart3_rx_count' = 0 /\ uart3_rx_re_index' = 0
  /\ uart3_rx_buf' = Zeroed
  /\ last' = 0 /\ frame' = <<>>
  /\ torn' = (pc # "idle")

USART3_IRQHandler ==
  /\ hw # 0 /\ ~masked
  /\ hw' = 0
  /\ \/ uart3_rx_count + 1 # Size /\ Store
     \/ uart3_rx_count + 1 = Size /\ Overflow
  /\ UNCHANGED <<sent, masked, reader>>
-----------------------------------------------------------------------------
(* get_line_from_uart3 and get_char_form_uart3 *)

\* The loop's test finds a byte.
LineTest ==
  /\ pc \in {"idle", "line"} /\ uart3_rx_count # 0
  /\ pc' = "fetch"
  /\ UNCHANGED <<ring, hw, sent, masked, data, loaded, line, frame, last, torn>>

\* The ring is empty: what was read so far is returned as the line.
LineEmpty ==
  /\ pc = "line" /\ uart3_rx_count = 0
  /\ pc' = "idle" /\ frame' = line /\ line' = <<>>
  /\ UNCHANGED <<ring, hw, sent, masked, data, loaded, last, torn>>

\* data = uart3_rx_buf[re].  The busy wait before it ends at once, unless the ring
\* overflowed since the loop's test.
CharFetch ==
  /\ pc = "fetch" /\ uart3_rx_count # 0
  /\ data' = uart3_rx_buf[uart3_rx_re_index]
  /\ pc' = "advance"
  /\ UNCHANGED <<ring, hw, sent, masked, loaded, line, frame, last, torn>>

CharAdvance ==
  /\ pc = "advance"
  /\ uart3_rx_re_index' = Wrap(uart3_rx_re_index + 1)
  /\ last' = data
  /\ pc' = "mask"
  /\ UNCHANGED <<uart3_rx_buf, uart3_rx_wr_index, uart3_rx_count, hw, sent, masked, data, loaded, line, frame, torn>>

\* Fault: the receive interrupt stays enabled around the decrement.
CharMaskNot ==
  /\ pc = "mask"
  /\ pc' = "dec" /\ loaded' = uart3_rx_count
  /\ UNCHANGED <<ring, hw, sent, masked, data, line, frame, last, torn>>

\* USART_ITConfig(DISABLE), and the load of --uart3_rx_count
CharMask ==
  /\ pc = "mask"
  /\ masked' = TRUE
  /\ pc' = "dec" /\ loaded' = uart3_rx_count
  /\ UNCHANGED <<ring, hw, sent, data, line, frame, last, torn>>

\* The store of --uart3_rx_count, and USART_ITConfig(ENABLE)
CharDec ==
  /\ pc = "dec"
  /\ uart3_rx_count' = (loaded + CountWrap - 1) % CountWrap
  /\ masked' = FALSE
  /\ pc' = "char"
  /\ UNCHANGED <<uart3_rx_buf, uart3_rx_wr_index, uart3_rx_re_index, hw, sent, data, loaded, line, frame, last, torn>>

Char == IF data = 0 THEN "x" ELSE Stream[data]

\* Fault: the carriage return is dropped like the line feed.
LineCharNoEnd ==
  /\ pc = "char"
  /\ line' = IF Char \in {"LF", "CR"} THEN line ELSE Append(line, data)
  /\ pc' = "line"
  /\ UNCHANGED <<ring, hw, sent, masked, data, loaded, frame, last, torn>>

\* A line feed is dropped, a carriage return ends the line, any other byte joins it.
LineChar ==
  /\ pc = "char"
  /\ IF Char = "CR"
     THEN pc' = "idle" /\ frame' = line /\ line' = <<>>
     ELSE pc' = "line" /\ UNCHANGED frame /\ line' = IF Char = "LF" THEN line ELSE Append(line, data)
  /\ UNCHANGED <<ring, hw, sent, masked, data, loaded, last, torn>>
-----------------------------------------------------------------------------
(* uart3_rx_buf_clear, one statement a step *)
ClearWrite ==
  /\ pc = "idle"
  /\ uart3_rx_wr_index' = 0
  /\ last' = 0 /\ frame' = <<>>
  /\ torn' = (torn /\ hw # 0)   \* the register may still hold a byte from before a loss
  /\ pc' = "clear2"
  /\ UNCHANGED <<uart3_rx_buf, uart3_rx_count, uart3_rx_re_index, hw, sent, masked, data, loaded, line>>

ClearCount ==
  /\ pc = "clear2"
  /\ uart3_rx_count' = 0
  /\ pc' = "clear3"
  /\ UNCHANGED <<uart3_rx_buf, uart3_rx_wr_index, uart3_rx_re_index, hw, sent, masked, data, loaded, line, frame, last, torn>>

ClearRead ==
  /\ pc = "clear3"
  /\ uart3_rx_re_index' = 0
  /\ uart3_rx_buf' = Zeroed
  /\ pc' = "idle"
  /\ UNCHANGED <<uart3_rx_wr_index, uart3_rx_count, hw, sent, masked, data, loaded, line, frame, last, torn>>
-----------------------------------------------------------------------------
Next ==
  \/ Receive \/ USART3_IRQHandler
  \/ LineTest \/ LineEmpty \/ LineChar
  \/ CharFetch \/ CharAdvance \/ CharMask \/ CharDec
  \/ ClearWrite \/ ClearCount \/ ClearRead

Spec == Init /\ [][Next]_vars
-----------------------------------------------------------------------------
\* The indices stay inside the ring, whatever interrupts what.
TypeOK ==
  /\ uart3_rx_buf \in [0..(Size - 1) -> 0..Len(Stream)]
  /\ uart3_rx_wr_index \in 0..(Size - 1) /\ uart3_rx_re_index \in 0..(Size - 1)
  /\ uart3_rx_count \in 0..(CountWrap - 1) /\ loaded \in 0..(CountWrap - 1)
  /\ hw \in 0..Len(Stream) /\ sent \in 0..Len(Stream)
  /\ masked \in BOOLEAN /\ torn \in BOOLEAN
  /\ pc \in {"idle", "line", "fetch", "advance", "mask", "dec", "char", "clear2", "clear3"}
  /\ data \in 0..Len(Stream) /\ last \in 0..Len(Stream)
  /\ line \in Seq(0..Len(Stream)) /\ frame \in Seq(0..Len(Stream))

\* The reader is between two of its updates of the ring.
Settled == pc \in {"idle", "line", "fetch", "char"}

\* The three cursors agree, and the cells between them are the bytes received and
\* not read, in order and later than every byte read: no interrupt between the
\* statements of get_char_form_uart3 loses, repeats or reorders a byte.  Only a
\* reset of the ring under the other side (torn) breaks it.
Coherent ==
  /\ TypeOK
  /\ Settled /\ ~torn =>
    /\ uart3_rx_wr_index = (uart3_rx_re_index + uart3_rx_count) % Size
    /\ LET Cell(i) == uart3_rx_buf[(uart3_rx_re_index + i) % Size]
       IN  \A i \in 0..(uart3_rx_count - 1) :
             /\ Cell(i) > last
             /\ \A j \in 0..(i - 1) : Cell(j) < Cell(i)

\* A line never joins bytes from both sides of a carriage return.
FrameInOneLine ==
  ~torn /\ frame # <<>> =>
    \A i \in 1..Len(Stream) : frame[1] <= i /\ i <= frame[Len(frame)] => Stream[i] # "CR"

\* ibox_wifi.c 63 and ibox_gprs.c 76: one call gets one frame, so what is
\* returned ends where the modem ended it.
FrameIsWhole ==
  ~torn /\ frame # <<>> =>
    frame[Len(frame)] < Len(Stream) /\ Stream[frame[Len(frame)] + 1] = "CR"

\* ibox_uart.c 236: uart3_rx_buf_clear leaves an empty ring, or one that holds what
\* arrived since; either way the cursors agree.
ClearLeavesRing ==
  [][pc = "clear3" /\ pc' = "idle" => uart3_rx_wr_index' = (uart3_rx_re_index' + uart3_rx_count') % Size]_vars
=============================================================================
