SPECIFICATION Spec
CONSTANTS
    Wrap = 16
    Wraps = 2
    U16 = 8
    MAX_PAYLOAD_SIZE = 1
    MAX_RETX_ATTEMPTS = 1
    rt_timeout = 1
    send_capacity = 2
    recv_capacity = 2
    linger_time = 0
    BytesA = 1
    BytesB = 0
    MaxToA = 1
    MaxToB = 2
    Lossy = TRUE
    Prompt = FALSE
    Crashes = FALSE
INVARIANTS
    Delivered
    AckBetween
    CleanClose
    OneLingers
    StatesAgree
CHECK_DEADLOCK FALSE
