\* A start is refused while the stop is under way.
CONSTANTS
    MaxClients = 1
    MaxCalls = 6
    MaxLocs = 2
    Refusable = {"start"}
    Calm = TRUE
SPECIFICATION Spec
INVARIANTS DictionaryIsTrue
CHECK_DEADLOCK FALSE
