SPECIFICATION Spec
CONSTANTS
    NULL = NULL
    AVAIL = AVAIL
    c1 = c1
    c2 = c2
    c3 = c3
    Clients = {c1, c2, c3}
    NSlots = 2
    MaxCalls = 1
    MaxDeaths = 0
    MaxBirths = 0
    MaxStarts = 1
    MaxStops = 1
    MaxAbends = 1
    DrainMax = 3
    Wrap = 8
    LongPauses = TRUE
    Unreadable = {"complete", "scan"}
SYMMETRY Symmetry
CHECK_DEADLOCK FALSE
INVARIANTS
    ExclusiveOwner
    RightAnswer
    InServiceIntact
    InflightCovers
    NoHotSpin
PROPERTIES
    NotPulledAway
    KeepsPromise
