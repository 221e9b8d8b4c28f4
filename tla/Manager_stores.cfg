CONSTANTS
    x = x
    y = y
    f = f
    g = g
    NoName = NoName
    Names <- MCNames
    FileNames <- MCFileNames
    MaxDepth = 3
    InitialTrees <- AllTrees
    Changes <- MCChanges
    MaxTells = 2
    MaxFaults = 1
SPECIFICATION Spec
INVARIANT TypeOK
INVARIANT InStep
PROPERTY Isolation
PROPERTY NameKeyKeepsObjects
PROPERTY Drains
CHECK_DEADLOCK FALSE
