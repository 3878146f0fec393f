SPECIFICATION Spec
CONSTANTS
    a = a
    b = b
    T <- MCT
    N = 4
INVARIANTS
    TypeOK
    SlotOwnership
PROPERTY
    ImplementsFifo
