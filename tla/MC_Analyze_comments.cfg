SPECIFICATION Spec
CONSTANTS
    a = a
    b = b
    Ids <- MCIds
    NoName = NoName
    MaxBlocks = 2
INVARIANT CommentsIgnored
CHECK_DEADLOCK FALSE
