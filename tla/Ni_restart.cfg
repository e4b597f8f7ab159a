SPECIFICATION Spec
CONSTANTS
    Kinds <- Asked
    DenyLocked = FALSE
    NoEmergencyServices = FALSE
    CpMtlrEs = TRUE
    MaxRequests = 1
    MaxRestarts = 1
    MaxChanges = 0
INVARIANTS NoAnswerAfterRestart
CHECK_DEADLOCK FALSE
