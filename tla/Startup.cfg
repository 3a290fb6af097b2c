SPECIFICATION FairSpec
CONSTANTS
    NP = 3
    CommandLines <- CommandLinesSmall
    KnownCalls <- Calls
    TypeSize <- Sizes4
    Operations <- Ops
    IntBits = 5
    SizeBits = 8
    NotANumber = NotANumber
    NULL = NULL
    Uninitialized = Uninitialized
    LEN_JOB_BATCH = 2
    Half = 16
    NoFile = NoFile
    Unreadable = Unreadable
    BadLine = BadLine
INVARIANTS
    RoomForNextJob
    CollectivesMatch
    SameSchedule
    TimingMethodSet
PROPERTY EveryProcessEnds
