SPECIFICATION FairSpec
CONSTANTS
    NP = 3
    Envs <- EnvsSmall
    Results <- ResultsSmall
    Default = "default"
    Missing = Missing
    NoMockup = NoMockup
    NoResults = NoResults
INVARIANTS
    TypeOK
    CollectivesMatch
    FastestIsMinimum
    TTestVerdict
PROPERTY OthersLeaveTogether
\* A process whose partner has left waits for ever.
CHECK_DEADLOCK FALSE
