CONSTANTS
    binary = binary
    comport = comport
    other = other
    Options = {binary, comport, other}
    Supported = {binary, comport}
    InitialOffers <- MCInitialOffers
    ComPort = comport
    ClientWill = {comport, other}
    ClientDo = {binary}
    MaxAsks = 2
    MaxSubs = 1
    MaxClients = 2
SPECIFICATION FairSpec
INVARIANTS
    TypeOK
    Agreement
    SubsHandled
PROPERTIES
    NegotiationEnds
CHECK_DEADLOCK FALSE
