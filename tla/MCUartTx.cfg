SPECIFICATION Spec
CONSTANTS
    N = 4
    Calls = {"send", "flush_tx"}
    Timeouts = {0, 1}
    TickMod = 3
    QuietInit = TRUE
    MaxLen = 3
    MaxSend = 4
    MaxRejects = 1
    MaxErrorCalls = 0
    MaxFrames = 1
    LineFaults <- AnyFault
INVARIANTS
    TypeOK
    TxInOrder
    NoLostKick
    FlushMeansSent
    TimeoutNotEarly
PROPERTY
    ImplementsPort
