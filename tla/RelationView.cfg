SPECIFICATION Spec
CONSTANTS
    Account = {me, you}
    Viewer = me
    Target = you
    Choosers = {you}
    RequestId = {r1, r2}
SYMMETRY Symmetry
INVARIANTS
    AnswersAgree
    StableRelationshipShown
    BlockAlwaysShows
