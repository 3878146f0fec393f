SPECIFICATION FairSpec
CONSTANTS
    s_uart = s_uart
    rival = rival
    slow = slow
    fast = fast
    bad = bad
    None = None
    Objects = {s_uart, rival, slow, bad}
    Singleton = s_uart
    Asked <- AskedTwo
    QuietInit = TRUE
    Polls = 2
    MaxQueue = 1
    MaxSend = 3
    MaxResets = 1
INVARIANTS
    TypeOK
    ClockLimits
    MainKnowsClock
    InitializedIsSetUp
    OtherPinsUntouched
    BaudIsRight
    TickIsOneMs
    NoHang
    StrandedOnlyByTakeover
PROPERTIES
    MainComesBack
    RegisteredDrains
