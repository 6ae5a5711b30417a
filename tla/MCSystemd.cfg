CONSTANTS
    Locks <- AppLocks
    Delay <- DelayLocks
    Forwards <- HubForwards
    FirstFd = 10
    HelperFd = 11
    HubThrows = TRUE
    MaxPlaced = 2
SPECIFICATION FairSpec
INVARIANTS
    TypeOK
    HelperAgrees
    ReleaseComes
PROPERTIES
    LockLasts
    AllReleased
CHECK_DEADLOCK FALSE
