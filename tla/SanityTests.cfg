SPECIFICATION Spec
CONSTANTS
    NFit = 2
    Configs <- Jobs
INVARIANTS
    GlobalClocksAgree
    TestedAgree
    RowsAreMeasured
PROPERTIES
    EveryTestEnds
