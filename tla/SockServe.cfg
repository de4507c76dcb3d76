CONSTANTS
    t1 = t1
    t2 = t2
    a1 = a1
    a2 = a2
    Task = {t1, t2}
    Space = {a1, a2}
    Home <- MCHome
    Phases = {1, 2}
    AppMax = 1
    SockMax = 2
    PcbMax = 2
    SelMax = 1
    RxMax = 1
    GenMax = 6
    HomeAddr = {home}
    Port = {1}
    Ephem = {1}
    OpenMax = 4
    ItemMax = 2
    AnyAddr = any
    NoTask = none
    NoSpace = nobody
SPECIFICATION Spec
CHECK_DEADLOCK FALSE
SYMMETRY Symmetry
INVARIANTS
    HeldOnce
    NobodySleeps
    DemuxExact
PROPERTIES
    SelectsKept
    OnlyOwnerTouches
    KeepsDescriptors
