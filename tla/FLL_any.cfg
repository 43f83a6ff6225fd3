SPECIFICATION Spec
CONSTANTS
    M <- MCM
    InSamples <- MCSamples
    GenSamples <- MCSamples
    Reading = "event"
INVARIANTS
    SubtractsHeldCounts
    EveryPairIsFresh
    HeldOnCrossing
