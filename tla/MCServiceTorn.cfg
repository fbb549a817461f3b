CONSTANTS
    Client = {a}
    PowerCmds = {}
    Faults = {}
    Z21 = FALSE
    Timeouts = FALSE
    PollFirst = TRUE
    CommandSlots = 2
    MaxRequests = 1
    None = None
SPECIFICATION Spec
INVARIANT ReplyIsTheResult
