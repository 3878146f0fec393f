SPECIFICATION Spec
CONSTANTS
    Others = {"a", "NUL"}
    N = 3
    TickMod = 5
    SizeMod = 8
    Slack = 1
    MaxFrames = 3
    Args <- TwoCharacters
    TxN = 3
    StatsInterval = 2
INVARIANTS
    TypeOK
    InBounds
    LineIsWhatWasTaken
    LineNotEarly
    LineNotLate
    EchoIsFaithful
    StatsOfTheMoment
PROPERTY
    EveryByteRead
