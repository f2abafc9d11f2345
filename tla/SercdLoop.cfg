CONSTANTS
    BufferSize = 5
    EscWriteChar_bytes = 2
    SendCPCByteCommand_bytes = 2
    HandleIACCommand_bytes = 4
    InitialOptions_bytes = 3
    ReadBufSize = 2
    SsizeBits = {32, 64}
    MaxClients = 2
    MaxFaults = 1
SPECIFICATION FairSpec
INVARIANTS
    TypeOK
    StreamsKept
    ThreeStates
PROPERTIES
    OnlyModemAsserts
    DropIsJustified
    ClientIsServed
    ExitEnds
CHECK_DEADLOCK FALSE
