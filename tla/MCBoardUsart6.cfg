SPECIFICATION Spec
CONSTANTS
    s_uart = s_uart
    rival = rival
    slow = slow
    fast = fast
    bad = bad
    None = None
    Objects = {s_uart, fast}
    Singleton = s_uart
    Asked <- AskedSix
    QuietInit = FALSE
    Polls = 2
    MaxQueue = 1
    MaxSend = 1
    MaxResets = 1
INVARIANT NoHang
