CONSTANTS
    Helpers <- Both
    BufSize = 5
    MaxLines = 3
SPECIFICATION Spec
PROPERTIES
    HandledWhole
CHECK_DEADLOCK FALSE
