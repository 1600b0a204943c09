SPECIFICATION FairSpec
CONSTANTS
    a = a
    b = b
    Appts = {a, b}
    Delay <- MCDelay
    DelayBits = 2
    MinToSelfDelay = 1
    SubscriptionSlots = 1
    SubscriptionDuration = 1
    ExpiryDelta = 1
    MaxSlots = 1
    Ids = {1, 2}
    None = None
    MaxHeight = 2
    MaxLost = 1
    Rare = {}
INVARIANTS PaidAreTaken FiledIsTrue QueriesAreTrue
PROPERTIES Served
CHECK_DEADLOCK FALSE
