CONSTANTS
    a = a
    b = b
    bad = bad
    dash = dash
    inv = inv
    empty = empty
    f = f
    rf = rf
    xf = xf
    Names <- MCNames
    FileNames <- MCFileNames
    MaxDepth = 2
    RawNames <- MCRawNames
    RawFiles <- MCRawFiles
    Norm <- MCNorm
    Empty <- empty
    Lossy <- MCLossy
    Invalid <- inv
    Layouts <- OnlyPlain
    MaxCrashes = 0
    MaxFaults = 0
    MaxActs = 0
SPECIFICATION Spec
INVARIANT ObjectsHaveRecords
CHECK_DEADLOCK FALSE
