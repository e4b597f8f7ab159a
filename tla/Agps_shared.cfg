SPECIFICATION FairSpec
CONSTANTS
    Handles = {h1, h2, h3}
    Nifs <- BothNifs
    WdsQuery = FALSE
    BadApn = FALSE
    MaxQueue = 3
    MaxWds = 1
    MaxRestarts = 0
INVARIANTS NoUnsolicitedAnswer OpenIsHeld ConnectionAgrees NoOrphanSubscriber
PROPERTIES OpenIsAnswered ReleaseEnds
