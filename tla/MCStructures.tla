---------------------------- MODULE MCStructures ----------------------------
(* The data structures that threads and interrupts share, side by side: a    *)
(* behaviour uses one of them.                                               *)
(* UART3: a ring of four cells and a modem that sends three lines, more than *)
(* it holds: lines split over two reads, overflows and clears at any point.  *)
(* net_rx_fifo: chunks up to the capacity, more bytes than two full rings.   *)
(* The heap of two threads; the hard timers of a thread and the tick.        *)
EXTENDS Uart3Ring, NetFifo, RtMem, RtTimer

VARIABLE part

MCStream == <<"x", "x", "CR", "LF", "x", "CR", "LF", "x">>

MCInit == part \in {"uart3", "net_rx_fifo", "heap", "timers"} /\ Init /\ FifoInit /\ MemInit /\ TimerInit

\* The bytes of a ring are used up; the heap and the timers never stop.
Exhausted == (part = "uart3" /\ ~ENABLED Next) \/ (part = "net_rx_fifo" /\ ~ENABLED FifoNext)

MCNext ==
  /\ UNCHANGED part
  /\ \/ part = "uart3" /\ Next /\ UNCHANGED <<fifoVars, memVars, timerVars>>
     \/ part = "net_rx_fifo" /\ FifoNext /\ UNCHANGED <<vars, memVars, timerVars>>
     \/ part = "heap" /\ MemNext /\ UNCHANGED <<vars, fifoVars, timerVars>>
     \/ part = "timers" /\ TimerNext /\ UNCHANGED <<vars, fifoVars, memVars>>
     \/ Exhausted /\ UNCHANGED <<vars, fifoVars, memVars, timerVars>>

MCSpec == MCInit /\ [][MCNext]_<<part, vars, fifoVars, memVars, timerVars>>

Symmetry == HeapSymmetry \cup TimerSymmetry
=============================================================================
