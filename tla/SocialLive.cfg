SPECIFICATION FairSpec
CONSTANTS
    Account = {u1, u2}
    Stranger = {ghost}
    RequestId = {r1}
    Task = {t1, t2, t3}
    Connections = 2
    Ops = {"create", "accept", "preferences"}
    Watching = {u1, u2}
    Faults = {}
    None = None
PROPERTIES
    EveryCallEnds
    EveryChangeAnnounced
