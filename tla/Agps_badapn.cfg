SPECIFICATION FairSpec
CONSTANTS
    Handles = {h1}
    Nifs <- BothNifs
    WdsQuery = FALSE
    BadApn = TRUE
    MaxQueue = 3
    MaxWds = 1
    MaxRestarts = 0
PROPERTIES OpenIsAnswered
CHECK_DEADLOCK FALSE
