SPECIFICATION FairSpec
CONSTANTS
    NP = 3
    Jobs <- JobsTwo
    Wait = 1
    Errs <- ErrsSmall
    MaxStall = 1
    NoOption = NoOption
INVARIANTS
    TypeOK
    InStep
    SynchronisedStart
    ReportedAreValid
    AtMostOneDropped
    SameResults
    NoRoundAfterTimeUp
    ShortOnlyWhenTimeUp
PROPERTY EveryJobEnds
