SPECIFICATION FairSpec
CONSTANTS
    Worker = {k1, k2}
    Warning = {w1, w2, w3}
    Below = {w1, w2}
    UP = UP
    SELF = SELF
    NULL = NULL
    CONNECT = CONNECT
    EOF = EOF
    MaxConnections = 1
INVARIANTS
    TypeOK
    WorkersUseLiveObjects
    NoDoubleFree
    NothingLeaked
    AcceptedIsDispatched
PROPERTIES
    ShutdownCompletes
CHECK_DEADLOCK FALSE
