SPECIFICATION Spec
CONSTANTS
    Warning = {w1, w2}
    NULL = NULL
    CONNECT = CONNECT
    EOF = EOF
    NoFile = NoFile
    MaxConnections = 1
SYMMETRY Symmetry
INVARIANTS
    CountFileIsFinal
CHECK_DEADLOCK FALSE
