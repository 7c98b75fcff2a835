SPECIFICATION Spec
CONSTANTS
    alice = alice
    bob = bob
    tab1 = tab1
    tab2 = tab2
    watcher = watcher
    User = {alice}
    Socket = {tab1, tab2}
    Logout = {out}
    Owner <- TwoTabs
    Capacity = 2
    Traffic = {"event"}
    Cookies = {tab1, tab2}
    Unstable = {tab1}
    None = None
PROPERTIES
    OnlineOnlyOnce
CHECK_DEADLOCK FALSE
