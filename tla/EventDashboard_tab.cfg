CONSTANTS
    f1 = f1
    f2 = f2
    x = x
    e1 = e1
    e2 = e2
    Files = {f1, f2, x}
    Unsupported = {x}
    Elders = {e1, e2}
    Shown = {e1}
    Content <- MCContent
    Batches = {b1, b2}
    Clicks = {c1, c2}
    NoPhoto = NoPhoto
    MaxEvents = 2
SPECIFICATION FairSpec
INVARIANT TypeOK
INVARIANT UploadedMeansStored
INVARIANT StoredIsShown
INVARIANT ShownCoverIsStored
PROPERTY NothingSpinsForever
CHECK_DEADLOCK FALSE
