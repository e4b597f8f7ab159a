\* What the code breaks about trips and refusals.  TLC stops at the first invariant that is
\* violated: leave one to see its counterexample.
SPECIFICATION Spec
CONSTANTS
    Clients = {"c"}
    Opts <- ThreeOpts
    W = 16
    MaxSessions = 3
    MaxCmds = 3
    MaxMoves = 4
    MaxUps = 1
    Refusable = {"start"}
    Supported = TRUE
    Calm = TRUE
INVARIANTS BooksBalance NeverStalls NeverEarly RefusalsAreTold
CHECK_DEADLOCK FALSE
