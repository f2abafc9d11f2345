CONSTANTS
    Speeds <- MCSpeeds
    Speed9600 <- MCSpeed9600
    SizeofLong = 8
    Data <- MCData
    Opened <- MCOpened
    Params <- MCParams
    Lines = {16, 32}
    MaxItems = 3
    MaxLines = 2
    MaxClients = 2
SPECIFICATION Spec
INVARIANTS
    TypeOK
    InSync
    ToldIsTrue
    Obeyed
    NotifiedIsTrue
PROPERTIES
    ReplyIsWhole
    CostBounded
CHECK_DEADLOCK FALSE
