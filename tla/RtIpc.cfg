SPECIFICATION Spec
CONSTANTS
    Threads = {a, b, c}
    Priorities = {1, 2}
    Idle = idle
    Kinds = {"sem", "mutex", "event"}
    Mutexes = {m}
    Bits = {e, f}
    Options = {{"AND", "CLEAR"}, {}}
    MaxValue = 1
    MaxHold = 2
SYMMETRY IpcSymmetry
CHECK_DEADLOCK FALSE
INVARIANTS QueuedOnce TokensKept MutexSound NoLostEvent MostUrgentRunsUnlocked
