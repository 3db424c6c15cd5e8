SPECIFICATION FairSpec
CONSTANTS
    Conns = {c1, c2}
    Messages <- MCMessages
    Permits = 1
    MaxHttp = 2
    MaxSocketFails = 1
    MaxAcceptFails = 1
CHECK_DEADLOCK FALSE
INVARIANTS
    StopHasCause
PROPERTIES
    AnsweredStops
    StdinStops
    PermitsReturn
