SPECIFICATION SpecH
CONSTANTS
    T <- MCT
    Latency <- MCLatency
    Signals <- MCSignals
    Labels <- MCLabels
INVARIANTS
    StartsOnSamples
PROPERTIES
    SamplesSettled
    Starts
