CONSTANTS
    Callers = {k1}
    Calls = {"connect"}
    Commands = {c1}
    Matched = {c1}
    Capacity = 1
    DropOldest = FALSE
    MaxRetries = 1
    Reconnect = TRUE
    MaxAttempts = 2
    Blocking = FALSE
    MaxGen = 2
    MaxCalls = 1
    MaxFaults = 2
    MaxRx = 0
    NoCommand = NoCommand
SPECIFICATION FairSpec
PROPERTIES
    AcceptedCompletes
    ReconnectEnds
CHECK_DEADLOCK FALSE
