CONSTANTS
    Callers = {k1}
    Calls = {"connect"}
    Commands = {c1, c2}
    Matched = {}
    Capacity = 1
    DropOldest = FALSE
    MaxRetries = 0
    Reconnect = TRUE
    MaxAttempts = 1
    Blocking = FALSE
    MaxGen = 2
    MaxCalls = 1
    MaxFaults = 1
    MaxRx = 0
    NoCommand = NoCommand
SPECIFICATION Spec
INVARIANTS
    SingleWriter
CHECK_DEADLOCK FALSE
