CONSTANTS
    p = p
    q = q
    Paths <- MCPaths
    MaxMoves = 2
    Overlap = TRUE
SPECIFICATION Spec
INVARIANT DeclineSettles
CHECK_DEADLOCK FALSE
