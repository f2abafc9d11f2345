CONSTANTS
    Callers = {k1}
    Calls = {"connect", "close"}
    Commands = {c1}
    Matched = {}
    Capacity = 1
    DropOldest = FALSE
    MaxRetries = 1
    Reconnect = TRUE
    MaxAttempts = 2
    Blocking = TRUE
    MaxGen = 3
    MaxCalls = 1
    MaxFaults = 1
    MaxRx = 0
    NoCommand = NoCommand
SPECIFICATION Spec
INVARIANTS
    AttemptsBounded
    OneStray
PROPERTIES
    NoWriteAfterCompletion
CHECK_DEADLOCK FALSE
