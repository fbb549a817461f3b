CONSTANTS
    Modules = {"XN"}
    Faults = {"bridge"}
    MaxRestart = 1
    StartupPower = TRUE
    CommandSlots = 2
    EventSlots = 3
    Feedback = FALSE
    MaxRequests = 1
SPECIFICATION Spec
INVARIANT FlagTracksPower
