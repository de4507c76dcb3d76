SPECIFICATION FairSpec
CONSTANTS
    NoTcb = NoTcb
    SeqMod = 64
    RcvWnd = 1
    SndBuf = 1
    Mss = 1
    RxqMax = 4
    MaxTries = 1
    Slot = {1, 2, 3}
    HostOf <- MCHostOf
    EphemLo = 101
    EphemHi = 102
    Service = 9
    Iss <- MCThreeIss
    Backlogs = {1}
    Servers = {2}
    Subtasks = FALSE
    Shuts <- MCShutsBoth
    Closers = {1, 2}
    Early = FALSE
    NetMax = 1
    ByteMax <- MCNoBytes
    NoBufMax = 1
CHECK_DEADLOCK FALSE
INVARIANTS
    AcceptQueueExact
PROPERTIES
    ReclaimsTheDead
    ConnectEnds
