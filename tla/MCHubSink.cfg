CONSTANTS
    Order <- SinkOrder
    Kind <- MCKind
    Monitored <- None
    Apps = {"a"}
    MaxCookie = 2
SPECIFICATION Spec
INVARIANT
    SharedState
CHECK_DEADLOCK FALSE
