CONSTANTS
    small = small
    middle = middle
    large = large
    Photos <- MCPhotos
    Bytes <- MCBytes
    Quotas = {4}
    Requests = {r1}
    Resubmits = {}
    Purging = TRUE
    Recounting = TRUE
SPECIFICATION FairSpec
INVARIANT TypeOK
PROPERTY DriftIsHealed
CHECK_DEADLOCK FALSE
