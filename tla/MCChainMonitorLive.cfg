SPECIFICATION FairSpec
CONSTANTS
    MaxTip = 2
    MaxOutages = 1
    MaxLag = 1
    WindowSize = 2
    Subs = 2
    Terminates = FALSE
    Queries = TRUE
PROPERTIES TipIsNotified QueryAnswered
CHECK_DEADLOCK FALSE
