CONSTANTS
    Grace = 1
    FinalWindow = 1
    Trial = 1
    Term = 1
    Subs = {s1, s2}
    NoSub = NoSub
    MaxDay = 1
    MaxInflight = 2
SPECIFICATION FairSpec
INVARIANT TypeOK
PROPERTY ActiveWasAuthorised
PROPERTY OnlyAnEndedMandateFrees
PROPERTY CancellationTakesEffect
CONSTRAINT OneAtATime
CHECK_DEADLOCK FALSE
