SPECIFICATION Spec
CONSTANTS
    g = g
    a1 = a1
    a2 = a2
    a3 = a3
    a4 = a4
    b2 = b2
    b3 = b3
    b4 = b4
    b5 = b5
    t = t
    v = v
    p = p
    q = q
    None = None
    Blocks <- SmallBlocks
    Txs <- MCTxs
    Path <- SmallPath
    TxsIn <- SmallTxsIn
    Appts <- MCAppts
    LocatorOf <- MCLocatorOf
    OutdatedAt <- MCOutdatedAt
    CacheSize = 2
    ExpiryDelta = 1
    MaxAppointments = 2
    MaxCrashes = 1
    Rare = {"live reorg", "idle restart", "early api"}
INVARIANTS
    TypeOK
    MapIsIndex
    WatchedAreReadable
    PromisesSurvive
    
    CacheServes
PROPERTIES
    CacheSpec
    NoForgetting
CHECK_DEADLOCK FALSE
