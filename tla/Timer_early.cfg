SPECIFICATION Spec
CONSTANTS
    Timers = {t1, t2, t3}
    Delays = {1, 2}
    MaxTime = 3
    MaxStarts = 3
    Stops = FALSE
    Deletes = FALSE
PROPERTIES NeverEarly
CHECK_DEADLOCK FALSE
