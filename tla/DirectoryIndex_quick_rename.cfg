CONSTANTS
    a = a
    b = b
    ra = ra
    dash = dash
    inv = inv
    empty = empty
    f = f
    g = g
    rf = rf
    dot = dot
    Names <- MCNames
    FileNames <- MCFileNames
    MaxDepth = 2
    Dot <- dot
    RawNames <- MCRawNames
    RawFiles <- MCRawFiles
    Norm <- MCNorm
    Empty <- empty
    Invalid <- inv
    InitialDirs <- MCDirs
    InitialFiles <- MCFiles
    Acts <- Renames
    MaxActs = 3
    MaxLost = 3
SPECIFICATION Spec
INVARIANT Survives
CHECK_DEADLOCK FALSE
