CONSTANTS
    Clients <- Two
    Modes <- Monitoring
    Faces <- JustSimple
    Modulus = 4
    FirstCookie = 0
    Lifetime = 1
    FirstSerial <- Same
    StraySerials <- NoStray
    HubThrows = FALSE
    MaxCalls <- More
    MaxTime = 0
SPECIFICATION Spec
INVARIANTS
    RegistryAgrees
CHECK_DEADLOCK FALSE
