SPECIFICATION FairSpec
CONSTANTS
    Wrap = 16
    Wraps = 2
    U16 = 8
    MAX_PAYLOAD_SIZE = 2
    MAX_RETX_ATTEMPTS = 1
    rt_timeout = 1
    send_capacity = 2
    recv_capacity = 2
    linger_time = 1
    CopyMax = 2
    pair_capacity = 1
    buffer_capacity = 1
    max_copy_length = 1
    Programs = {"webget"}
    Roles = {"connect"}
    InputBytes = 1
    PeerBytes = 2
    MayReset = FALSE
PROPERTIES
    WaitReturns
CHECK_DEADLOCK FALSE
