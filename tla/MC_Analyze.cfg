SPECIFICATION Spec
CONSTANTS
    a = a
    b = b
    Ids <- MCIds
    NoName = NoName
    MaxBlocks = 2
INVARIANTS TypeOK EveryRequestReachable NamesAsWritten
CHECK_DEADLOCK FALSE
