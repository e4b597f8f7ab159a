\* What another thread may break.  TLC stops at the first that is violated: leave one
\* to see its counterexample.
SPECIFICATION Spec
CONSTANTS
    Kinds <- Asked
    DenyLocked = FALSE
    NoEmergencyServices = FALSE
    CpMtlrEs = TRUE
    MaxRequests = 2
    MaxRestarts = 0
    MaxChanges = 0
INVARIANTS EsWins IdIsShown AnswerIsForRequest
CHECK_DEADLOCK FALSE
