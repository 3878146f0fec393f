SPECIFICATION Spec
CONSTANTS
    N = 4
    Calls = {"send"}
    Timeouts = {0, 1}
    TickMod = 2
    QuietInit = TRUE
    MaxLen = 1
    MaxSend = 1
    MaxRejects = 1
    MaxErrorCalls = 0
    MaxFrames = 3
    LineFaults <- AnyFault
INVARIANT
    NoCorruptDelivered
