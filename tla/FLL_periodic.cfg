SPECIFICATION PeriodicSpec
CONSTANTS
    M <- MCM
    Periods <- MCPeriods
    InSamples <- MCSamples
    GenSamples <- MCSamples
    Reading = "event"
INVARIANTS
    BothFresh
    Exact
    ReleasedOneClockLate
PROPERTIES
    HoldEnds
    HoldCompletes
