SPECIFICATION Spec
CONSTANTS
    Account = {u1, u2}
    RequestId = {}
    Task = {t1, t2}
    Ops = {"send", "clear"}
    LastId = 2
    Choosers = {}
    None = None
SYMMETRY Symmetry
PROPERTIES
    NewMessagesShow
CHECK_DEADLOCK FALSE
