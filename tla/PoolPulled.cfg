SPECIFICATION Spec
CONSTANTS
    NULL = NULL
    AVAIL = AVAIL
    c1 = c1
    c2 = c2
    c3 = c3
    Clients = {c1, c2, c3}
    NSlots = 2
    MaxCalls = 1
    MaxDeaths = 1
    MaxBirths = 0
    MaxStarts = 0
    MaxStops = 1
    MaxAbends = 0
    DrainMax = 2
    Wrap = 8
    LongPauses = TRUE
    Unreadable = {}
CHECK_DEADLOCK FALSE
PROPERTIES
    NotPulledAway
