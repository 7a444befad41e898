SPECIFICATION Spec
CONSTANTS
    None = None
    Pieces <- MCPieces
    Args <- MCArgs
    Written <- MCWritten
    Bindings <- MCBindings
    Origins <- MCOrigins
    MaxArgs = 3
INVARIANT PlaceholdersResolved
CHECK_DEADLOCK FALSE
