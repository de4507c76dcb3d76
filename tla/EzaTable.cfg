\* The table of numbers beside the stack: two programs, resets, refused calls,
\* a stack that ends once, and generations past the sign.
CONSTANTS
    Space = {s1, s2}
    NoSpace = NoSpace
    AppMax = 2
    SockMax = 3
    GenMax = 5
    SignGen = 3
    OpenMax = 4
    EndMax = 1
SYMMETRY Spaces
SPECIFICATION Spec
INVARIANTS
    NumbersTrue
    NothingOrphaned
    ParkedOnOwn
