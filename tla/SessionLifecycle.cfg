CONSTANTS
    Callers = {k1}
    Calls = {"connect", "disconnect", "close"}
    Commands = {c1}
    Matched = {c1}
    Capacity = 1
    DropOldest = FALSE
    MaxRetries = 0
    Reconnect = FALSE
    MaxAttempts = 1
    Blocking = TRUE
    MaxGen = 2
    MaxCalls = 4
    MaxFaults = 1
    MaxRx = 0
    NoCommand = NoCommand
SPECIFICATION Spec
INVARIANTS
    ConnectedIsUsable
    
    OnePort
CHECK_DEADLOCK FALSE
