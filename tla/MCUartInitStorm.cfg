SPECIFICATION FairSpec
CONSTANTS
    N = 4
    Calls = {"receive"}
    Timeouts = {0, 1}
    TickMod = 2
    QuietInit = FALSE
    MaxLen = 0
    MaxSend = 0
    MaxRejects = 1
    MaxErrorCalls = 0
    MaxFrames = 3
    LineFaults <- AnyFault
PROPERTY
    CallsReturn
