CONSTANTS
    Loco = {l1, l2}
    NoLoco = NoLoco
    Entries = 2
    Speeds = {0, 5}
    FnStates = {0, 1}
    Deletes = TRUE
    MaxWrites = 3
SPECIFICATION Spec
INVARIANT OnlyLocosAddressed
CHECK_DEADLOCK FALSE
