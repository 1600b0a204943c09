SPECIFICATION FairSpec
CONSTANTS
    g = g
    a1 = a1
    b1 = b1
    b2 = b2
    b3 = b3
    None = None
    END = END
    Blocks <- MCBlocks
    Txs <- MCTxs
    Path <- MCPath
    TxsIn <- MCTxsIn
    MaxStarts = 2
    Rare = {}
INVARIANTS
    NoBlockLost
    WatcherLeads
    ClosedIsQuiet
PROPERTIES
    Settles
CHECK_DEADLOCK FALSE
