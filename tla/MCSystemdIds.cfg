CONSTANTS
    Locks <- AppLocks
    Delay <- NoDelay
    Forwards <- HubForwards
    FirstFd = 10
    HelperFd = 11
    HubThrows = FALSE
    MaxPlaced = 3
SPECIFICATION Spec
INVARIANT
    IdsUnique
CHECK_DEADLOCK FALSE
