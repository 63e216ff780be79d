SPECIFICATION FairSpec
CONSTANTS
    c1 = c1
    c2 = c2
    c3 = c3
    Connections = {c1, c2, c3}
    NULL = NULL
    MaxClients = 3
CHECK_DEADLOCK FALSE
INVARIANTS
    TypeOK
    SharedInTime
    RecordExact
PROPERTIES
    StartsAndStops
