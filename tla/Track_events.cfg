SPECIFICATION Spec
CONSTANTS
    c1 = c1
    c2 = c2
    s1 = s1
    s2 = s2
    s3 = s3
    Sessions = {s1, s2}
    Clients = {c1, c2}
    ClientOf <- Owner
    Mute = {}
    Options <- Mixed
    MinInterval = 1
    DistanceSupported = TRUE
    EngineErrors = FALSE
    BadOptions = FALSE
    AwaitEngine = FALSE
    MaxUps = 2
    MaxNHz = 1
    MaxQueue = 2
    MaxOwed = 1
INVARIANTS IntervalServed DistanceServed AnsweredOnce
CHECK_DEADLOCK FALSE
