\* The HAL and its adapter under every interleaving; two clients one after another.
CONSTANTS
    MaxClients = 2
    MaxCalls = 6
    MaxLocs = 2
    Refusable = {"stop"}
    Calm = TRUE
SPECIFICATION Spec
INVARIANTS AnswerIsForRequest DictionaryIsTrue FlushReports CleanupStops DeletedIsUnknown
CHECK_DEADLOCK FALSE
