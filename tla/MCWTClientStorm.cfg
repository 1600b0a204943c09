SPECIFICATION Spec
CONSTANTS
    None = None
    Towers = {t1}
    Appts = {u1, u2, u3}
    Retriers = {r1, r2}
    MaxTries = 1
    MaxRestarts = 1
    Answers = {"accepted", "forged", "unreachable", "subscription", "unexpected"}
    Rare = {"overlap", "retry again", "register", "restart", "unknown"}
INVARIANTS MemoryIsDisk
PROPERTIES OutboxSpec
CHECK_DEADLOCK FALSE
