SPECIFICATION Spec
CONSTANTS
    None = None
    Pieces <- MCPieces
    Args <- MCArgs
    Written <- MCWritten
    Bindings <- MCBindings
    Origins <- MCOrigins
    MaxArgs = 3
INVARIANTS TypeOK OnlyTheseLostSilently FileHoldsRequest SendsAsCurl CommandSendsSame
CHECK_DEADLOCK FALSE
