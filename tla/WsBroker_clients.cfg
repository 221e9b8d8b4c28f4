CONSTANTS
    c1 = c1
    c2 = c2
    Clients <- MCClients
    BrokerCapacity = 2
    ClientCapacity = 1
    MaxMessages = 5
SPECIFICATION Spec
INVARIANT TypeOK
INVARIANT InOrder
INVARIANT NoOneForgotten
PROPERTY Leaves
CHECK_DEADLOCK FALSE
