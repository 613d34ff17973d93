SPECIFICATION Spec
CONSTANTS
    Radix = 3
    Batches <- MCBatches
    MaxFailures = 2
\* Once everything is sent and read, the receiver waits for a connection.
CHECK_DEADLOCK FALSE
INVARIANTS TypeOK ReceivedAsSent
PROPERTIES EverythingArrives BigEndianOnTheWire
