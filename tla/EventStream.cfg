SPECIFICATION LiveSpec
CONSTANTS
    Line <- MCLine
    Letter <- MCLetter
    BUFFER = 2
    RESPONSE_BYTES = 12
    EVENT_BYTES = 7
    TEXT_BYTES = 2
INVARIANTS
    ReferenceResult
    LimitsExact
PROPERTIES
    Terminates
CHECK_DEADLOCK FALSE
