CONSTANTS
    Clients <- Two
    Modes <- Both
    Faces <- AllFaces
    Modulus = 3
    FirstCookie = 1
    Lifetime = 1
    FirstSerial <- Apart
    StraySerials <- Elsewhere
    HubThrows = TRUE
    MaxCalls <- Few
    MaxTime = 1
SPECIFICATION FairSpec
INVARIANTS
    TypeOK
    RegistryAgrees
    OwnersComplete
    
PROPERTIES
    InhibitLasts
    
    
CHECK_DEADLOCK FALSE
