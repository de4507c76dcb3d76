CONSTANTS
    t1 = t1
    t2 = t2
    t3 = t3
    Timers = {t1, t2, t3}
    MaxTicks = 3
    Asks <- MCAsks
    Moved = {t1}
    NONE = NONE
SPECIFICATION FairSpec
INVARIANTS
    ArmedForHead
PROPERTIES
    KeepsDeadlines
    EarlyBounded
    EveryTimerFires
