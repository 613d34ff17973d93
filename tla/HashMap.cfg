CONSTANTS
    k1 = k1
    k2 = k2
    k3 = k3
    k4 = k4
    Key = {k1, k2, k3, k4}
    Value = {v1, v2, v3, v4, v5}
    NULL = NULL
    Hash <- Hashes
    InitialCapacity = 1
SPECIFICATION Spec
INVARIANTS TypeOK GetFindsStored LoadBounded
PROPERTY ImplementsMap
CHECK_DEADLOCK FALSE
