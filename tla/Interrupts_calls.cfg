SPECIFICATION Spec
CONSTANTS
    h1 = h1
    h2 = h2
    c1 = c1
    c2 = c2
    Irq <- MCIrq
    Registered <- MCRegistered
    Null = Null
    Inside = FALSE
INVARIANTS
    TypeOK
    OnlyHigher
    PairsIntact
    MaskUndone
    SteadyIsFound
PROPERTIES
    HighestServed
