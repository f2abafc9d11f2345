CONSTANTS
    Callers = {k1}
    Clients = {c1, c2}
    Ports = {p1}
    MaxStarts = 2
    MaxEvents = 1
    MaxFaults = 1
SPECIFICATION FairSpec
INVARIANTS
    TypeOK
    ServedBothWays
    NoOrphan
PROPERTIES
    LeaverIsReleased
CHECK_DEADLOCK FALSE
