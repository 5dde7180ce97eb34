CONSTANTS
    Grace = 1
    FinalWindow = 1
    Trial = 1
    Term = 1
    Workspaces = {w1}
    Photos = {p1, p2}
    NoRow = NoRow
    Billing = FALSE
    Deriving = FALSE
    Stalls = TRUE
    MaxDay = 2
    MaxCrashes = 1
SPECIFICATION FairSpec
PROPERTY OverdueIsEmptied
PROPERTY LapseIsAnnounced
CHECK_DEADLOCK FALSE
