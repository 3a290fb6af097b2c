SPECIFICATION Spec
CONSTANTS
    NP = 2
    Jobs <- JobsPGCheck
    Wait = 1
    Errs <- ErrsSmall
    MaxStall = 1
    NoOption = NoOption
INVARIANT ClockModeByDefault
