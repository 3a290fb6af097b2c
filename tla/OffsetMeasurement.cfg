SPECIFICATION Spec
CONSTANTS
    Setups <- SetupsSmall
    Measurements = 2
    Warmups = 1
    Minimum_ping_pongs = 1
    Number_ping_pongs = 3
    nexchanges_rtt = 3
    MaxTime = 6
    None = None
INVARIANTS
    PingPongsMatch
    BoundsHold
    OffsetIsEstimate
PROPERTY EveryMeasurementEnds
