CONSTANTS
    Clients <- Two
    Modes <- Serving
    Faces <- JustGnome
    Modulus = 4
    FirstCookie = 0
    Lifetime = 1
    FirstSerial <- Same
    StraySerials <- NoStray
    HubThrows = FALSE
    MaxCalls <- More
    MaxTime = 2
SPECIFICATION Spec
INVARIANTS
    DeadHoldNothing
CHECK_DEADLOCK FALSE
