SPECIFICATION FairSpec
CONSTANTS
    alice = alice
    bob = bob
    tab1 = tab1
    tab2 = tab2
    watcher = watcher
    User = {alice}
    Socket = {tab1, tab2}
    Logout = {out}
    Owner <- TwoTabs
    Capacity = 1
    Traffic = {"event", "reply", "auth_error"}
    Cookies = {tab1}
    Unstable = {tab1}
    None = None
INVARIANTS
    TypeOK
    LiveSocketsReachable
    BroadcastsMatchRegistry
PROPERTIES
    OrphansEnd
    TransitionsEnd
CHECK_DEADLOCK FALSE
