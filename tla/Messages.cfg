SPECIFICATION Spec
CONSTANTS
    Account = {u1, u2}
    RequestId = {}
    Task = {t1, t2}
    Ops = {"send", "clear", "read", "read_all", "relations"}
    LastId = 2
    Choosers = {u1}
    None = None
SYMMETRY Symmetry
INVARIANTS
    TypeOK
    ClearHidesTheOld
PROPERTIES
    OnlyOwnClearHides
CHECK_DEADLOCK FALSE
