SPECIFICATION FairSpec
CONSTANTS
    g = g
    a1 = a1
    a2 = a2
    a3 = a3
    a4 = a4
    b2 = b2
    b3 = b3
    b4 = b4
    b5 = b5
    t = t
    v = v
    p = p
    q = q
    None = None
    Blocks <- MCBlocks
    Txs <- MCTxs
    Path <- MCPath
    TxsIn <- MCTxsIn
    Appts <- MCAppts
    LocatorOf <- MCLocatorOf
    OutdatedAt <- MCOutdatedAt
    CacheSize = 3
    ExpiryDelta = 1
    MaxAppointments = 2
    MaxCrashes = 1
    Rare = {}
INVARIANTS
    WatchedFromStartBlock
PROPERTIES
    PromiseKept
CHECK_DEADLOCK FALSE
