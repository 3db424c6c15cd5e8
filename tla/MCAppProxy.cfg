SPECIFICATION RelayFairSpec
CONSTANTS
    Requests <- MCRequests
    Answers <- MCAnswers
    MaxBody = 1
    MaxResponse = 4
    ChunkSize = 2
    SocketBytes = 3
    UsizeLimit = 8
CHECK_DEADLOCK FALSE
INVARIANTS
    WholeAnswers
    InHandIsPassed
PROPERTY Answered
