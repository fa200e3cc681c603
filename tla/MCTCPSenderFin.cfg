SPECIFICATION FairSpec
CONSTANTS
    Wrap = 8
    Wraps = 4
    U16 = 8
    MAX_PAYLOAD_SIZE = 2
    MAX_RETX_ATTEMPTS = 1
    rt_timeout = 2
    send_capacity = 3
    Isn = 6
    MaxWritten = 4
    MaxWindow = 3
    MaxMs = 1
PROPERTIES
    FinWithinWindow
CHECK_DEADLOCK FALSE
