SPECIFICATION SpecUnordered
CONSTANTS
    a = a
    b = b
    T <- MCT
    N = 4
INVARIANTS
    SlotOwnership
