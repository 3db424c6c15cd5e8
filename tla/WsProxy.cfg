SPECIFICATION FairSpec
CONSTANTS
    MaxPending = 2
    TcpBuffer = 2
    WsBuffer = 1
    ReadSize = 2
    MessageBytes = 2
    MaxWire = 2
    MaxClient = 5
    MaxServer = 3
CHECK_DEADLOCK FALSE
INVARIANTS
    ServerSeesStream
    ClientSeesStream
    ClosedOnce
PROPERTIES
    ImplementsStreams
    TornDown

