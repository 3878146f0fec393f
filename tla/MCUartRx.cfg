SPECIFICATION Spec
CONSTANTS
    N = 4
    Calls = {"receive", "get_and_clear_errors"}
    Timeouts = {0, 1}
    TickMod = 2
    QuietInit = FALSE
    MaxLen = 0
    MaxSend = 0
    MaxRejects = 1
    MaxErrorCalls = 1
    MaxFrames = 4
    LineFaults <- AnyFault
INVARIANTS
    RxInOrder
    RxConserved
    NoCorruptDelivered
    HandlerAccounts
    IntactLostAfterOverrun
PROPERTY
    ImplementsPort
