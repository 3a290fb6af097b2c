SPECIFICATION Spec
CONSTANTS
    NP = 2
    Envs <- EnvsSmall
    Results <- ResultsSmall
    Default = "default"
    Missing = Missing
    NoMockup = NoMockup
    NoResults = NoResults
INVARIANT VerdictOfFastest
CHECK_DEADLOCK FALSE
