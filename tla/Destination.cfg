SPECIFICATION ParentExitsSpec
CONSTANTS
    Warning = {w1, w2, w3}
    NULL = NULL
    CONNECT = CONNECT
    EOF = EOF
    NoFile = NoFile
    MaxConnections = 2
INVARIANTS
    TypeOK
    ThreadsUseLiveContext
    DrainedAtExit
PROPERTIES
    DestroyReturns
CHECK_DEADLOCK FALSE
