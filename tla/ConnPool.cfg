SPECIFICATION Spec
CONSTANTS
    Thread = {t1, t2, t3}
    Node = {n1, n2}
    Handle = {h1, h2, h3}
    INVALID = INVALID
SYMMETRY Symmetry
INVARIANTS
    TypeOK
    PooledIsConnected
    NoHandleLeak
CHECK_DEADLOCK FALSE
