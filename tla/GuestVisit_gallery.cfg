CONSTANTS
    p = p
    q = q
    r = r
    Photos = {p, q}
    Faces <- MCFaces
    Thresholds = {2, 4}
    Others = {o1}
    MaxResults = 2
    MaxViews = 2
    RateMax = 2
    Window = 2
    MaxClock = 2
    MaxOwner = 1
SPECIFICATION Spec
INVARIANT TypeOK
INVARIANT CameraIsReleased
INVARIANT ScreenHoldsTogether
INVARIANT RateIsBounded
INVARIANT AnswersAreFair
CHECK_DEADLOCK FALSE
