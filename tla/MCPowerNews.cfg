CONSTANTS
    Modules = {"XN"}
    Faults = {"stall"}
    MaxRestart = 1
    StartupPower = TRUE
    CommandSlots = 2
    EventSlots = 2
    Feedback = TRUE
    MaxRequests = 0
SPECIFICATION Spec
INVARIANT ClientsKnow
