SPECIFICATION FairSpec
CONSTANTS
    None = None
    Towers = {t1, t2}
    Appts = {u1, u2}
    Retriers = {r1, r2}
    MaxTries = 2
    MaxRestarts = 0
    Answers = {"accepted", "forged", "unreachable", "subscription", "invalid"}
    Rare = {}
INVARIANTS
    RevokedAreKept
    OneAtATime
PROPERTIES
    MisbehavingIsAbandoned
    PendingAreSettled
CHECK_DEADLOCK FALSE
