SPECIFICATION RestartSpec
CONSTANTS
    NULL = NULL
    AVAIL = AVAIL
    c1 = c1
    c2 = c2
    c3 = c3
    Clients = {c1, c2}
    NSlots = 2
    MaxCalls = 1
    MaxDeaths = 1
    MaxBirths = 1
    MaxStarts = 1
    MaxStops = 0
    MaxAbends = 1
    DrainMax = 2
    Wrap = 8
    LongPauses = TRUE
    Unreadable = {}
CHECK_DEADLOCK FALSE
PROPERTIES
    DispatchOnce
    CallReturns
    AdoptionReleases
