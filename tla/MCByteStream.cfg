SPECIFICATION Spec
CONSTANTS
    max_capacity = 3
    SizeT = 64
    MaxOffer = 4
    MaxWritten = 10
INVARIANTS
    PeekInOrder
PROPERTIES
    ImplementsByteQueue
