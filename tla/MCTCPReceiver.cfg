SPECIFICATION FairSpec
CONSTANTS
    Wrap = 8
    Wraps = 4
    recv_capacity = 5
    Isn = 6
    StreamLen = 7
    MaxPayload = 4
INVARIANTS
    DeliveredInOrder
    AcksOnlyArrived
    ChunksApart
    CountsOnce
    WithinCapacity
PROPERTIES
    NoByteDropped
    WindowNeverShrinks
    Completes
CHECK_DEADLOCK FALSE
