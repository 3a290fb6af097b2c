SPECIFICATION FairSpec
CONSTANTS
    NP = 2
    NReps <- NRepsTwoJobs
    WaitTime = 2
    WindowSize = 2
    Errs <- ErrsSmall
    MaxStall = 2
    Reports <- ReportsVerbose
    OUTPUT_NITERATIONS_CHUNK = 1
INVARIANT EveryRowRight
