\* A flush or a start right behind a stop: the start is refused and told as a success, and the
\* error of what follows comes before the answer of the stop.  TLC stops at the first invariant
\* that is violated: leave one to see its counterexample.
CONSTANTS
    MaxClients = 1
    MaxCalls = 6
    MaxLocs = 2
    Refusable = {}
    Calm = FALSE
SPECIFICATION Spec
INVARIANTS AnswerIsForRequest FlushReports DictionaryIsTrue CleanupStops
CHECK_DEADLOCK FALSE
