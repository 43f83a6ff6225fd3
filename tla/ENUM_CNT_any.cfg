SPECIFICATION Spec
CONSTANTS
    M <- MCM
    Samples <- MCSamples
    NoOffer <- MCNoOffer
INVARIANTS
    CountFollowsSignal
    NeverMeasures
PROPERTIES
    ImplementsPeriodMeter
    KeepsMeasuring
