CONSTANTS
    Grace = 1
    FinalWindow = 1
    Trial = 1
    Term = 1
    Workspaces = {w1}
    Photos = {p1}
    NoRow = NoRow
    Billing = FALSE
    Deriving = FALSE
    Stalls = FALSE
    MaxDay = 4
    MaxCrashes = 0
SYMMETRY Symmetry
SPECIFICATION Spec
INVARIANT RenewedIsOpen
CHECK_DEADLOCK FALSE
