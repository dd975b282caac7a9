SPECIFICATION FairSpec
CONSTANTS
    Poll = 5
    Late = 1
    PacketTimeout = 10
    Window = 3
    Air = 1
    MaxPackets = 3
    MaxSends = 2
INVARIANTS PacketsKept
PROPERTIES KeepsListening SendCompletes
