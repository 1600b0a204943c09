SPECIFICATION Spec
CONSTANTS
    MaxTip = 3
    MaxOutages = 0
    MaxLag = 1
    WindowSize = 2
    Subs = 2
    Terminates = TRUE
    Queries = FALSE
INVARIANTS SentInBounds SeenIsNotified
CHECK_DEADLOCK FALSE
