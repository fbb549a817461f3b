CONSTANTS
    Loco = {l1, l2}
    Running = {5}
    Features = {"LAN", "LN", "lost", "web"}
    OwnerSlots = 2
    CommandSlots = 3
    MaxRequests = 4
    None = None
SPECIFICATION DriveSpec
INVARIANTS TypesOK LostAreStopped TrackFollowsRepo
PROPERTY OthersCarryOn
SYMMETRY Locos
