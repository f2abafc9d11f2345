CONSTANTS
    Callers = {k1}
    Calls = {"connect"}
    Commands = {c1, c2, c3}
    Matched = {c1, c2}
    Capacity = 2
    DropOldest = TRUE
    MaxRetries = 1
    Reconnect = FALSE
    MaxAttempts = 1
    Blocking = FALSE
    MaxGen = 1
    MaxCalls = 1
    MaxFaults = 0
    MaxRx = 1
    NoCommand = NoCommand
SPECIFICATION Spec
INVARIANTS
    TypeOK
    OnePlace
    WriteOrder
    ResultIsHonest
    PendingHasTimer
PROPERTIES
    ImplementsHandle
CHECK_DEADLOCK FALSE
