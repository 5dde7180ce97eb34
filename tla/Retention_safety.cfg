CONSTANTS
    Grace = 2
    FinalWindow = 1
    Trial = 1
    Term = 1
    Workspaces = {w1}
    Photos = {p1}
    NoRow = NoRow
    Billing = TRUE
    Deriving = TRUE
    Stalls = TRUE
    MaxDay = 3
    MaxCrashes = 1
SPECIFICATION Spec
INVARIANT TypeOK
INVARIANT EndedIsBlocked
INVARIANT PaidPeriodIsRespected
PROPERTY NoSilentPurge
PROPERTY KeptUntilPromised
INVARIANT PurgeOrphansNothing
CONSTRAINT OneAtATime
CHECK_DEADLOCK FALSE
