CONSTANTS
    Event = {e1, e2}
    None = None
    RingSize = 3
    Publisher = {0, 1}
    MaxPublish = 5
SPECIFICATION Spec
INVARIANT RingHoldsBacklog
CHECK_DEADLOCK FALSE
