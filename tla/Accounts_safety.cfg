CONSTANTS
    Grace = 1
    FinalWindow = 1
    Trial = 1
    Term = 1
    Customers = {c}
    SelfServe = {g}
    Submissions = {s1, s2}
    Creators = {r1, r2}
    Studios = {w1, w2}
    NoStudio = NoStudio
    FreeEvents = 2
    MaxEvents = 4
    MaxDay = 1
    MaxAttempts = 3
    Lockout = 2
    MaxGuessDay = 0
    Gateway = TRUE
SYMMETRY Symmetry
SPECIFICATION Spec
INVARIANT TypeOK
INVARIANT SoldTermIsKept
INVARIANT PillTellsTheGate
INVARIANT CapsHold
CONSTRAINT OneAtATime
CHECK_DEADLOCK FALSE
