SPECIFICATION Spec
CONSTANTS
    Timers = {t1}
    Delays = {1, 2}
    MaxTime = 2
    MaxStarts = 1
    Stops = FALSE
    Deletes = TRUE
INVARIANTS NoDeadClient
CHECK_DEADLOCK FALSE
