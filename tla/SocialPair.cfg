SPECIFICATION Spec
CONSTANTS
    Account = {u1, u2}
    Stranger = {}
    RequestId = {r1, r2}
    Task = {t1, t2}
    Connections = 5
    Ops = {"create", "accept", "reject", "cancel", "remove", "block", "unblock"}
    Watching = {}
    Faults = {"statement", "commit", "answer"}
    None = None
SYMMETRY Symmetry
INVARIANTS
    IndInv
    TablesConsistent
    RowsNeverContended
PROPERTIES
    FriendshipNeedsAcceptance
    HandledIsFinal
    CreateAnswersOpenRequest
    ImplementsGraph
