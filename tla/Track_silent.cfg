SPECIFICATION Spec
CONSTANTS
    c1 = c1
    c2 = c2
    s1 = s1
    s2 = s2
    s3 = s3
    Sessions = {s1}
    Clients = {c1, c2}
    ClientOf <- Owner
    Mute = {}
    Options <- Distances
    MinInterval = 1
    DistanceSupported = TRUE
    EngineErrors = TRUE
    BadOptions = FALSE
    AwaitEngine = FALSE
    MaxUps = 1
    MaxNHz = 0
    MaxQueue = 2
    MaxOwed = 2
INVARIANTS AnsweredOnce SessionsAreWanted
CHECK_DEADLOCK FALSE
