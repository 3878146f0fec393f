SPECIFICATION FairSpec
CONSTANTS
    N = 2
    Calls = {"send", "flush_tx", "receive"}
    Timeouts = {1}
    TickMod = 2
    QuietInit = TRUE
    MaxLen = 2
    MaxSend = 2
    MaxRejects = 1
    MaxErrorCalls = 0
    MaxFrames = 2
    LineFaults <- OneFault
PROPERTIES
    CallsReturn
    AcceptedIsSent
    NoStorm
