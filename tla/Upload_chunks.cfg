CONSTANTS
    f = f
    g = g
    Partial = Partial
    FileNames <- MCFileNames
    Bodies <- MCBodies
    Capacity = 3
    FileMax = 4
    MaxFaults = 2
SPECIFICATION Spec
INVARIANT TypeOK
INVARIANT InOrder
INVARIANT FilesWhole
PROPERTY KeepsPromise
CHECK_DEADLOCK FALSE
