SPECIFICATION Spec
CONSTANTS
    Handles = {h1}
    Nifs <- BothNifs
    WdsQuery = FALSE
    BadApn = FALSE
    MaxQueue = 3
    MaxWds = 1
    MaxRestarts = 1
INVARIANTS NoOrphanSubscriber
CHECK_DEADLOCK FALSE
