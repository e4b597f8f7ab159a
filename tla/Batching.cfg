SPECIFICATION Spec
CONSTANTS
    Clients = {c, d}
    Opts <- BatchOpts
    W = 16
    MaxSessions = 2
    MaxCmds = 3
    MaxMoves = 4
    MaxUps = 1
    Refusable = {"start"}
    Supported = TRUE
    Calm = TRUE
SYMMETRY ClientSymmetry
INVARIANTS RunsWhatIsAsked FullWhenNeeded NotEarly AllAnswered
CHECK_DEADLOCK FALSE
