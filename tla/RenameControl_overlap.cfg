CONSTANTS
    p = p
    q = q
    Paths <- MCPaths
    MaxMoves = 3
    Overlap = TRUE
SPECIFICATION Spec
INVARIANT MailboxInv
INVARIANT HandleIsNewest
PROPERTY ImplementsWatch
PROPERTY HandlesAreReleased
CHECK_DEADLOCK FALSE
