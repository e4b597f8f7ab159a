SPECIFICATION FairSpec
CONSTANTS
    Senders = {"a", "b"}
    Self = "self"
    MaxSends = 2
    SendersLeave = TRUE
INVARIANTS QueueAlive NoLostWakeUp
PROPERTIES ImplementsChannel AllHandled StopFrees
CHECK_DEADLOCK FALSE
