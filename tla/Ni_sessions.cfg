SPECIFICATION FairSpec
CONSTANTS
    Kinds <- Served
    DenyLocked = TRUE
    NoEmergencyServices = FALSE
    CpMtlrEs = TRUE
    MaxRequests = 2
    MaxRestarts = 1
    MaxChanges = 1
INVARIANTS EndedOnce
PROPERTIES RequestEnds
CHECK_DEADLOCK FALSE
