SPECIFICATION Spec
CONSTANTS
    Handles = {h1, h2}
    Nifs <- BothNifs
    WdsQuery = TRUE
    BadApn = FALSE
    MaxQueue = 3
    MaxWds = 1
    MaxRestarts = 0
INVARIANTS ConnectionAgrees
CHECK_DEADLOCK FALSE
