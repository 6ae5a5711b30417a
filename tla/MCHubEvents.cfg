CONSTANTS
    Order <- MCOrder
    Kind <- MCKind
    Monitored <- MCMonitored
    Apps = {"a"}
    MaxCookie = 2
    Commands <- MCCommands
SPECIFICATION EventSpec
INVARIANTS
    PlanDisjoint
    NumberedShared
    NoStrayForward
    HeldIsPlanned
    OutsideShared
    ExitClean
    ForwardedUnlessAborted
    SessionFollowed
    PowerFollowed
    CommandsFollow
    LockerReturns
PROPERTIES
    NoEarlyRelease
    KeepsPromise
CHECK_DEADLOCK FALSE
