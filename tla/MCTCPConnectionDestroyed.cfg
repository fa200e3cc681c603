SPECIFICATION FairSpec
CONSTANTS
    Wrap = 16
    Wraps = 2
    U16 = 8
    MAX_PAYLOAD_SIZE = 1
    MAX_RETX_ATTEMPTS = 1
    rt_timeout = 1
    send_capacity = 2
    recv_capacity = 1
    linger_time = 2
    BytesA = 1
    BytesB = 0
    MaxToA = 6
    MaxToB = 6
    Lossy = FALSE
    Prompt = TRUE
    Crashes = TRUE
PROPERTIES
    DestructionEndsBoth
CHECK_DEADLOCK FALSE
