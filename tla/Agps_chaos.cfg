SPECIFICATION Spec
CONSTANTS
    Handles = {h1}
    Nifs <- BothNifs
    WdsQuery = TRUE
    BadApn = TRUE
    MaxQueue = 2
    MaxWds = 1
    MaxRestarts = 1
INVARIANTS ReleasedIsEmpty DemandedOnly
