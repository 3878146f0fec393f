SPECIFICATION Spec
CONSTANTS
    N = 4
    Calls = {"get_and_clear_errors"}
    Timeouts = {0, 1}
    TickMod = 2
    QuietInit = TRUE
    MaxLen = 0
    MaxSend = 0
    MaxRejects = 1
    MaxErrorCalls = 1
    MaxFrames = 3
    LineFaults <- AnyFault
INVARIANT
    RxAccounted
