CONSTANTS
    i1 = i1
    i2 = i2
    i3 = i3
    c1 = c1
    p1 = p1
    p2 = p2
    Instances = {i1, i2}
    c2 = c2
    Clients = {c1, c2}
    Keys = {"nsfs", "0001"}
    Jobs <- MCJobs
    Ascbs = {p1, p2}
    NONE = NONE
SPECIFICATION Spec
SYMMETRY Symmetric
CHECK_DEADLOCK FALSE
INVARIANTS
    StorageHeld
    RetainedFound
