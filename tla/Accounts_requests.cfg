CONSTANTS
    c1 = c1
    c2 = c2
    nil = nil
    u1 = u1
    admin = admin
    bob = bob
    Clients <- MCClients
    Ids <- MCIds
    Nil <- nil
    Usernames <- MCUsernames
    Admin <- admin
    Passwords <- MCPasswords
    Default = "admin"
    mail = mail
    Mail <- mail
    Null = Null
    NoToken = NoToken
    Tables <- MCTables
    SelfChanges <- MCSelfChanges
    UserChanges <- MCUserChanges
    MaxStarts = 3
    MaxRequests = 3
SPECIFICATION AccountsSpec
SYMMETRY Symmetry
INVARIANT AccountsOK
INVARIANT TokensOfThisRun
INVARIANT SomebodyCanLogIn
PROPERTY DeletedAreHarmless
PROPERTY ChangesAsAsked
CHECK_DEADLOCK FALSE
