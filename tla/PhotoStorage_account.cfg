CONSTANTS
    small = small
    middle = middle
    large = large
    Photos <- MCPhotos
    Bytes <- MCBytes
    Quotas = {2, 4}
    Requests = {r1, r2}
    Resubmits = {small}
    Purging = FALSE
    Recounting = TRUE
SPECIFICATION Spec
INVARIANT CounterIsExact
INVARIANT RowsHaveObjects
PROPERTY ImplementsAccount
CHECK_DEADLOCK FALSE
