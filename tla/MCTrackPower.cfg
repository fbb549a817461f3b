CONSTANTS
    Modules = {"XN"}
    Faults = {"bridge", "cde", "stall"}
    MaxRestart = 2
    StartupPower = FALSE
    CommandSlots = 2
    EventSlots = 1
    Feedback = TRUE
    MaxRequests = 2
    Bridge = {"DCC", "SM"}
    IgnoreTime = 1
    WatchTime = 2
    InrushTime = 2
    VerifyTime = 1
    Packet = 1
    VerifyEdges = 1
    SkipItrip = FALSE
    ItripMax = 0
    Grace = 0
    EdgeSlots = 1
    MaxLate = 2
    MaxSwitches = 1
SPECIFICATION PowerSpec
INVARIANTS TypeOK RestartJustified StallHolds PatternOwned
PROPERTIES PowerOnJustified StallCutsPower LastingShortEndsOff ChargeTime FaultCutsPower
