CONSTANTS
    Order <- HelperOrder
    Kind <- MCKind
    Monitored <- HelperMonitored
    Apps = {"a"}
    MaxCookie = 2
    Commands <- MCCommands
SPECIFICATION EventSpec
INVARIANTS
    TypeOK
    ForwardTracksCause
    NothingOutlivesCause
PROPERTIES
    CopiesWithdrawn
    HandlerEnds
CHECK_DEADLOCK FALSE
