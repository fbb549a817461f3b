CONSTANTS
    Loco = {l1}
    Running = {5}
    Features = {"RS485", "estop"}
    OwnerSlots = 1
    CommandSlots = 2
    MaxRequests = 2
    None = None
SPECIFICATION Spec
PROPERTY StopHolds
