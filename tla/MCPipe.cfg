CONSTANTS
    Helpers <- Both
    BufSize = 5
    MaxLines = 3
SPECIFICATION FairSpec
INVARIANTS
    TypeOK
    HoldsAsAsked
PROPERTIES
    KeepsLines
    AllEnded
    Answered
CHECK_DEADLOCK FALSE
