SPECIFICATION ClientsSpec
CONSTANTS
    Conn = {c1, c2}
    NoConn = NoConn
    MaxClients = 2
    RxBuf = 1
    MaxSent = 2
    Client = {k1, k2}
    Decoder = {d1}
    Value = {0, 1}
    FeedbackSlots = 2
    MaxReports = 2
    Setting = {s1, s2}
    Text = {s2}
    Setpoint = {v0, v1}
    Default = v0
    Empty = Empty
    CommandSlots = 4
    EventSlots = 8
    MaxRequests = 4
    Loco = {l1, l2}
    NoLoco = NoLoco
    Entries = 2
    Speeds = {0, 5}
    FnStates = {0, 1}
    MaxWrites = 4
    Peer = {p1, p2, p3}
    Nobody = Nobody
    Places = 2
    Flag = {f0, f1}
    SystemState = f0
    Limits = {1, 2}
SYMMETRY AnyOrder
INVARIANTS TypesOK PlacesAccounted FeedbackTold SettingsStored PowerAgreed WrittenIsSent
    SubscriptionKept
CHECK_DEADLOCK FALSE
