SPECIFICATION Spec
CONSTANTS
    NoTcb = NoTcb
    SeqMod = 64
    RcvWnd = 2
    SndBuf = 2
    Mss = 1
    RxqMax = 4
    MaxTries = 1
    Slot = {1, 2, 3}
    HostOf <- MCHostOf
    EphemLo = 101
    EphemHi = 102
    Service = 9
    Iss <- MCIss
    Backlogs = {1}
    Servers = {2}
    Subtasks = FALSE
    Shuts <- MCNoShuts
    Closers = {1, 2}
    Early = TRUE
    NetMax = 1
    ByteMax <- MCBytes
    NoBufMax = 0
CHECK_DEADLOCK FALSE
INVARIANTS
    CloseSendsAll
