SPECIFICATION Spec
CONSTANTS
    Clients = {"c"}
    Opts = {"o", "p"}
    MaxFences = 2
    MaxCmds = 2
    AddCounts = {1, 2}
    Counts = {1, 2}
    MaxRestarts = 0
    Refusable = {}
    ReuseIds = FALSE
    Calm = TRUE
    MaxBreaches = 1
INVARIANTS ReportedOnce
CHECK_DEADLOCK FALSE
