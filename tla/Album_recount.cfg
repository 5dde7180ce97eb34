CONSTANTS
    a = a
    b = b
    c = c
    Pages = {a, b, c}
    Batches <- MCBatches
    Uploads = {u1, u2}
    Bytes <- MCBytes
    EventBytes = 1
    Quota = 5
    NoPage = NoPage
    Ratio <- MCRatio
    Recounting = TRUE
SPECIFICATION Spec
PROPERTY RecountHeals
CHECK_DEADLOCK FALSE
