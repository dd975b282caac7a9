SPECIFICATION MCSpec
CONSTANTS
    MaxDays = 24000
    Seconds = {0, 43261, 86399}
    Lengths = {0, 1, 2, 125, 126, 127, 128, 129, 16381, 16382, 16383, 16384, 16385, 2097149, 2097150, 2097151, 2097152, 268435455}
    Payloads = {0, 1, 119, 120, 121, 122, 123, 124, 125, 126}
    Ids = {1, 255, 256, 65535}
    BufLens = {4, 127, 128, 129, 130, 131, 132, 1024}
    MaxTopic = 5
CHECK_DEADLOCK FALSE
INVARIANTS PacketsWritten PacketsRead MatchesByLevel RightButOnFirsts
