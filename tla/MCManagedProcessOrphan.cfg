SPECIFICATION FairSpec
CONSTANTS
    Conns = {c1}
    Messages <- MCMessages
    Permits = 1
    MaxHttp = 1
    MaxSocketFails = 0
    MaxAcceptFails = 1
CHECK_DEADLOCK FALSE
PROPERTIES
    OrphanStops
