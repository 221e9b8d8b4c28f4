CONSTANTS
    a = a
    b = b
    bad = bad
    dash = dash
    inv = inv
    empty = empty
    f = f
    rf = rf
    xf = xf
    Names <- MCNames
    FileNames <- MCFileNames
    MaxDepth = 2
    RawNames <- MCRawNames
    RawFiles <- MCRawFiles
    Norm <- MCNorm
    Empty <- empty
    Lossy <- MCLossy
    Invalid <- inv
    Layouts <- Usual
    MaxCrashes = 1
    MaxFaults = 1
    MaxActs = 2
SPECIFICATION Spec
INVARIANT TypeOK
INVARIANT IndexIsDirectory
INVARIANT NoStrayRecords
PROPERTY KnownRecordsStay
PROPERTY Starts
CHECK_DEADLOCK FALSE
