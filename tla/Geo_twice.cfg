SPECIFICATION Spec
CONSTANTS
    Clients = {"c"}
    Opts = {"o", "p"}
    MaxFences = 2
    MaxCmds = 3
    AddCounts = {1, 2}
    Counts = {1}
    MaxRestarts = 2
    Refusable = {}
    ReuseIds = FALSE
    Calm = TRUE
    MaxBreaches = 1
INVARIANTS WatchesWhatIsTold
CHECK_DEADLOCK FALSE
