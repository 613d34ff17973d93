SPECIFICATION FairSpec
CONSTANTS
    root = root
    mid = mid
    low = low
    leafA = leafA
    leafB = leafB
    NoNode = NoNode
    Node <- TreeNode
    Parent <- TreeParent
    NUMBER_OF_WARNINGS = 2
    Worker = {k1, k2}
    DS = DS
    NULL = NULL
    CONNECT = CONNECT
    EOF = EOF
    MaxFailures = 1
INVARIANTS
    TypeOK
    NoMisdelivery
    AlongTreeEdges
    ExactlyOnePlace
PROPERTIES
    EventuallyLogged
    SentIsLogged
    SourceFinishes
    ImplementsDelivery
CHECK_DEADLOCK FALSE
