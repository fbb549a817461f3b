SPECIFICATION PathsSpec
CONSTANTS
    Command = {c1, c2}
    Event = {e1, e2}
    None = None
    RingSize = 3
    DropLogSize = 2
    MaxDispatch = 5
    MaxSlaves = 3
    ProbeEvery = 2
    ProbeLimit = 1
    MissValues = 2
    Turnout = {t1, t2}
    RelayRequests = 3
    Devices = TRUE
    RelaySlots = 2
    NoRequest = NoRequest
    Client = {a}
    PowerCmds = {"on", "off"}
    Faults = {"bridge", "cde", "stall"}
    Z21 = TRUE
    Timeouts = TRUE
    PollFirst = FALSE
    CommandSlots = 2
    MaxRequests = 3
INVARIANTS TypeOK NoSlotRace RingHoldsBacklog TypesOK LastCommandWins
    IsolatedUntilPowerOn MainRestored ProgModeHasSession
PROPERTIES ImplementsBus BothDelivered ImplementsEventBus RelayComesToRest PresentCalled
    SessionEnds Answered
CHECK_DEADLOCK FALSE
