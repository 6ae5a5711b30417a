CONSTANTS
    Names <- Apart
    Kinds <- Both
    MaxTakes <- Takes
    MaxAsks <- Asks
    MaxQueue = 2
    MaxEvents = 2
SPECIFICATION FairSpec
INVARIANTS
    TypeOK
    GivenBack
    TokensKnown
PROPERTIES
    AppSeen
    AppWithdrawn
CHECK_DEADLOCK FALSE
