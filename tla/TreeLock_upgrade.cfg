CONSTANTS
    r1 = r1
    r2 = r2
    s1 = s1
    s2 = s2
    Manager = manager
    Readers <- MCReaders
    Sockets <- MCSockets
    MaxMessages = 2
    HangUps = FALSE
SPECIFICATION Spec
PROPERTY Upgrades
CHECK_DEADLOCK FALSE
