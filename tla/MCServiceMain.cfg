CONSTANTS
    Client = {a}
    PowerCmds = {}
    Faults = {"bridge"}
    Z21 = FALSE
    Timeouts = TRUE
    PollFirst = TRUE
    CommandSlots = 2
    MaxRequests = 1
    None = None
SPECIFICATION Spec
INVARIANT MainIsolated
