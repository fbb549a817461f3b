CONSTANTS
    MaxSlaves = 2
    ProbeEvery = 3
    ProbeLimit = 2
    MissValues = 4
SPECIFICATION Spec
PROPERTY AttachedCalled
CHECK_DEADLOCK FALSE
