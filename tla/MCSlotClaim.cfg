SPECIFICATION Spec
CONSTANTS
    Addr = {a1}
    RepoSize = 1
    MaxSlot = 1
    QueueSize = 4
    NoAddr = NoAddr
PROPERTY ClaimIsFresh
CHECK_DEADLOCK FALSE
