SPECIFICATION Spec
CONSTANTS
    Addr = {a1, a2, a3}
    RepoSize = 3
    MaxSlot = 2
    QueueSize = 4
    NoAddr = NoAddr
SYMMETRY Locos
INVARIANTS TypeOK SlotsDistinct BusKnows GetHandsOutThePut
CHECK_DEADLOCK FALSE
