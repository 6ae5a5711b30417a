CONSTANTS
    Names <- Apart
    Kinds <- Both
    MaxTakes <- Takes
    MaxAsks <- Asks
    MaxQueue = 2
    MaxEvents = 2
SPECIFICATION Spec
PROPERTIES
    OwnNotRegistered
CHECK_DEADLOCK FALSE
