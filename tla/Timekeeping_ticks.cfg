SPECIFICATION TimeSpec
CONSTANTS
    a1 = a1
    a2 = a2
    a3 = a3
    Alarm <- MCAlarm
    Wrap <- MCWrap
    Delays <- MCDelays
    Periods <- MCPeriods
    Rates <- MCRates
    US <- MCUS
    Times <- MCTimes
    Head = Head
    Null = Null
    Reckless = FALSE
INVARIANTS
    Woven
    WallClock
PROPERTIES
    OnlyRegistered
    ImplementsTimerSet
    TickEnds
