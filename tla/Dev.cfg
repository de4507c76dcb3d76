CONSTANTS
    b1 = b1
    b2 = b2
    Bufs = {b1, b2}
    Host <- MCHost
    Peer <- MCPeer
    Blocks <- MCBlocks
    Ours <- MCOurs
    SendMax = 1
    MaxFrames = 1
    MaxSends = 1
    Slow = {"close"}
    NONE = NONE
SPECIFICATION FairSpec
CHECK_DEADLOCK FALSE
INVARIANTS
    BuffersKept
    PairSequenced
    StorageOutlives
PROPERTIES
    PairMoves
