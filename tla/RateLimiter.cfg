SPECIFICATION Spec
CONSTANTS
    Request = {r1, r2, r3, r4}
    Key = {alice, bob}
    MaxRequests = 2
    Window = 3
    Second = 2
    LastTime = 5
SYMMETRY Symmetry
INVARIANTS
    IndInv
    LimitKept
    PromiseKept
PROPERTIES
    NoNeedlessRefusal
CHECK_DEADLOCK FALSE
