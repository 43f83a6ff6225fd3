SPECIFICATION HSpec
CONSTANTS
    Code <- MCCode
INVARIANTS
    OneToken
    Lockstep
    NoOverrun
    NeverEarly
PROPERTIES
    KeepsDelivering
