SPECIFICATION FairSpec
CONSTANTS
    Producer = {p1, p2, p3}
    Consumer = {c1, c2, c3}
    Poller = {t}
    Data = {d}
    NULL = NULL
    Capacities = {0, 2}
    MaxCalls = 5
    MaxAllocFailures = 1
INVARIANTS
    TypeOK
    WithinCapacity
    NoLostItem
    NoLostSlot
PROPERTIES
    Drains
    EnqueueReturns
CHECK_DEADLOCK FALSE
