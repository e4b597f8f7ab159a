SPECIFICATION Spec
CONSTANTS
    Handlers = {1}
    Period = 2
    MaxTime = 4
    MaxQueue = 3
    MaxRestarts = 0
INVARIANTS NoSpam
CHECK_DEADLOCK FALSE
