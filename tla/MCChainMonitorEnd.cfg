SPECIFICATION FairSpec
CONSTANTS
    MaxTip = 1
    MaxOutages = 0
    MaxLag = 1
    WindowSize = 2
    Subs = 2
    Terminates = TRUE
    Queries = FALSE
PROPERTIES EndIsSent
CHECK_DEADLOCK FALSE
