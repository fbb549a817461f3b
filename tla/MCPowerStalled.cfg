CONSTANTS
    Modules = {"XN"}
    Faults = {"stall"}
    MaxRestart = 1
    StartupPower = TRUE
    CommandSlots = 2
    EventSlots = 2
    Feedback = FALSE
    MaxRequests = 1
SPECIFICATION Spec
INVARIANT StalledMeansOff
