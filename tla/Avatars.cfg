SPECIFICATION Spec
CONSTANTS
    Task = {t1, t2, t3}
    Name = {n1, n2, n3, n4}
    Faults = TRUE
    None = None
SYMMETRY Symmetry
INVARIANTS
    AvatarThere
CHECK_DEADLOCK FALSE
