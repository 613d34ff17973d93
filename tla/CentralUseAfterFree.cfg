SPECIFICATION Spec
CONSTANTS
    Worker = {k1, k2}
    Warning = {w1, w2}
    Below = {w1, w2}
    UP = UP
    SELF = SELF
    NULL = NULL
    CONNECT = CONNECT
    EOF = EOF
    MaxConnections = 1
SYMMETRY Symmetry
INVARIANTS
    NoUseAfterFree
CHECK_DEADLOCK FALSE
