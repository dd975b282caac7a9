SPECIFICATION MCSpec
CONSTANTS
  Size = 4
  CountWrap = 8
  Stream <- MCStream
  FifoSize = 4
  MaxChunk = 3
  MaxBytes = 9
  Threads = {a, b}
  MemSize = 10
  Header = 1
  MinSize = 1
  Requests = {0, 1, 2, 4, 10}
  Timers = {s, t}
  TickCount = 12
  Times = {1, 3}
  Spared = {"busy", "own"}
  MaxDelay = 2
SYMMETRY Symmetry
INVARIANTS Coherent FrameInOneLine IsBoundedQueue HeapSound HoldsWhatItAskedFor TimerListSound
PROPERTIES RunsWhenDue
