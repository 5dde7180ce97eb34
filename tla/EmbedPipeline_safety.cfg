CONSTANTS
    Photos = {p1}
    Slots = {e1, e2}
    NoPhoto = NoPhoto
    Attempts = 2
    MaxStalled = 1
    MaxCrashes = 1
    MaxFaults = 1
    MaxPurges = 1
SPECIFICATION FairSpec
INVARIANT TypeOK
INVARIANT ReadyIsSearchable
INVARIANT VariantsAreStored
PROPERTY NeverStuckProcessing
CHECK_DEADLOCK FALSE
