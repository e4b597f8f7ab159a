SPECIFICATION Spec
CONSTANTS
    Clients = {ca, cb}
    Opts = {"o", "p"}
    MaxFences = 2
    MaxCmds = 3
    AddCounts = {1, 2}
    Counts = {1}
    MaxRestarts = 1
    Refusable = {}
    ReuseIds = FALSE
    Calm = TRUE
    MaxBreaches = 1
SYMMETRY ClientSymmetry
INVARIANTS WatchesWhatIsTold BreachIsKnown ReportedOnce
CHECK_DEADLOCK FALSE
