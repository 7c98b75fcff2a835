SPECIFICATION FairSpec
CONSTANTS
    Task = {t1, t2}
    Code = {right, wrong}
    Resend = 2
    Validity = 3
    MaxAttempts = 2
    LastTime = 4
    Losses = 1
    None = None
INVARIANTS
    IndInv
    TriesCounted
PROPERTIES
    AccountsOpenByCode
    CooldownKept
    EveryCallEnds
