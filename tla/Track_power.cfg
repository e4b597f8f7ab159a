SPECIFICATION Spec
CONSTANTS
    c1 = c1
    c2 = c2
    s1 = s1
    s2 = s2
    s3 = s3
    Sessions = {s1, s2, s3}
    Clients = {c1, c2}
    ClientOf <- Owner
    Mute = {}
    Options <- Rivals
    MinInterval = 1
    DistanceSupported = TRUE
    EngineErrors = FALSE
    BadOptions = FALSE
    AwaitEngine = FALSE
    MaxUps = 1
    MaxNHz = 0
    MaxQueue = 1
    MaxOwed = 1
INVARIANTS PowerServed
CHECK_DEADLOCK FALSE
