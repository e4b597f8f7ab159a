SPECIFICATION FairSpec
CONSTANTS
    Timers = {t1, t2}
    Delays = {1, 2}
    MaxTime = 3
    MaxStarts = 2
    Stops = TRUE
    Deletes = TRUE
INVARIANTS NoDeletedDelegate
PROPERTIES TimerEnds DelegateDeleted
CHECK_DEADLOCK FALSE
