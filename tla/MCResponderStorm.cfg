SPECIFICATION Spec
CHECK_DEADLOCK FALSE
CONSTANTS
    u1 = u1
    u2 = u2
    l1 = l1
    l2 = l2
    t1 = t1
    t2 = t2
    None = None
    Uuids = {u1, u2}
    Locators = {l1, l2}
    Txs = {t1}
    LocatorOf <- MCLocatorOf
    PenaltyOf <- OnePenalty
    OutdatedAt <- MCOutdatedAt
    CONFIRMATIONS_BEFORE_RETRY = 2
    IRREVOCABLY_RESOLVED = 3
    MaxHeight = 4
    MaxReorgs = 1
    MaxRestarts = 1
    Rare = {"outdated", "untriggered"}
INVARIANTS
    MapIsIndex
PROPERTIES
    DeletedAreDone
