SPECIFICATION FairSpec
CONSTANTS
    Handlers = {1, 2}
    Period = 2
    MaxTime = 3
    MaxQueue = 2
    MaxRestarts = 1
INVARIANTS ActiveIsTimed OnlyWhatIsWanted
PROPERTIES StartServed
CHECK_DEADLOCK FALSE
