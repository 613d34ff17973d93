SPECIFICATION Spec
CONSTANTS
    Thread = {t1, t2}
    Node = {n1, n2}
    Handle = {h1, h2, h3}
    INVALID = INVALID
SYMMETRY Symmetry
INVARIANTS
    SendReachesHop
CHECK_DEADLOCK FALSE
