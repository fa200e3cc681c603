SPECIFICATION CheckpointSpec
CONSTANTS
    Wrap = 8
    Wraps = 6
INVARIANTS
    UnwrapIsClosest
    RoundTrip
CHECK_DEADLOCK FALSE
