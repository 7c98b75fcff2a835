SPECIFICATION Spec
CONSTANTS
    ann = ann
    bob = bob
    root = root
    User = {ann, bob, root}
    Admins = {root}
    Task = {t1, t2}
    Scenes <- AllScenes
    Limit = 2
    Key <- Keys
    Rank <- Ranks
    MaxOffset = 3
    None = None
SYMMETRY Symmetry
INVARIANTS
    ForumInv
    NothingTwice
    StayersShown
PROPERTIES
    LikeTurns
    OnlyModerators
CHECK_DEADLOCK FALSE
