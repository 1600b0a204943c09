SPECIFICATION Spec
CONSTANTS
    alice = alice
    bob = bob
    a1 = a1
    a2 = a2
    None = None
    Users = {alice, bob}
    Uuids = {a1, a2}
    OwnerOf <- MCOwnerOf
    SubscriptionSlots = 2
    Duration = 1
    ExpiryDelta = 1
    CacheBlocks = 2
    MaxU4 = 6
    BlobSlots = {1, 2}
    MaxHeight = 3
    MaxRegistrations = 2
    MaxCrashes = 1
    Rare = {}
INVARIANTS
    SlotsConserved
    NobodyDies
    DbMirrors
    OutdatedAreDeleted
    DeletedAreServed
PROPERTIES
    GraceTime
CHECK_DEADLOCK FALSE
