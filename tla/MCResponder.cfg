SPECIFICATION FairSpec
CHECK_DEADLOCK FALSE
CONSTANTS
    u1 = u1
    u2 = u2
    l1 = l1
    l2 = l2
    t1 = t1
    t2 = t2
    None = None
    Uuids = {u1, u2}
    Locators = {l1, l2}
    Txs = {t1, t2}
    LocatorOf <- MCLocatorOf
    PenaltyOf <- TwoPenalties
    OutdatedAt <- MCOutdatedAt
    CONFIRMATIONS_BEFORE_RETRY = 2
    IRREVOCABLY_RESOLVED = 2
    MaxHeight = 5
    MaxReorgs = 0
    MaxRestarts = 0
    Rare = {}
INVARIANTS
    NeverDies
    ResentInTime
    UnconfirmedAreUnconfirmed
PROPERTIES
    BuriedAreCompleted
