CONSTANTS
    a1 = a1
    a2 = a2
    Apps = {a1, a2}
    NIL = NIL
    PoolMax = 2
    Budget = 1
    MaxCalls <- MCCalls
    ExitMax = 1
    Sources = {"timer", "stop"}
SPECIFICATION FairSpec
CHECK_DEADLOCK FALSE
INVARIANTS
    NoLostWake
PROPERTIES
    FirstComeFirstServed
    WorkServed
    StopHonoured
