SPECIFICATION Spec
CONSTANTS
    alice = alice
    bob = bob
    tab1 = tab1
    tab2 = tab2
    watcher = watcher
    User = {alice, bob}
    Socket = {tab1, tab2, watcher}
    Logout = {out}
    Owner <- TwoTabsAndWatcher
    Capacity = 2
    Traffic = {}
    Cookies = {tab1, tab2, watcher}
    Unstable = {}
    None = None
SYMMETRY Tabs
INVARIANTS
    OfflineAfterLast
    ObserversConverge
PROPERTIES
    ImplementsService
CHECK_DEADLOCK FALSE
