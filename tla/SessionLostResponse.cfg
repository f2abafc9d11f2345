CONSTANTS
    Callers = {k1}
    Calls = {"connect"}
    Commands = {c1, c2}
    Matched = {c1, c2}
    Capacity = 2
    DropOldest = FALSE
    MaxRetries = 0
    Reconnect = FALSE
    MaxAttempts = 1
    Blocking = FALSE
    MaxGen = 1
    MaxCalls = 1
    MaxFaults = 0
    MaxRx = 0
    NoCommand = NoCommand
SPECIFICATION FairSpec
PROPERTIES
    AcceptedCompletes
CHECK_DEADLOCK FALSE
