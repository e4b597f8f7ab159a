SPECIFICATION Spec
CONSTANTS
    Clients = {"c"}
    Opts <- TripOpts
    W = 16
    MaxSessions = 2
    MaxCmds = 3
    MaxMoves = 4
    MaxUps = 0
    Refusable = {"start"}
    Supported = TRUE
    Calm = FALSE
INVARIANTS NoneLost
CHECK_DEADLOCK FALSE
