------------------------------ MODULE Accounts ------------------------------
(***************************************************************************)
(* The accounts of auth (src/auth): the table of users, the start of the   *)
(* service, which makes the default account and the keys that sign tokens, *)
(* logins, and the requests that change users.                             *)
(*                                                                         *)
(* A request is checked, waits for the database, and acts on what it was   *)
(* told; others are served meanwhile, and the service may be restarted.    *)
(*                                                                         *)
(* What changes nothing is left out: reading, and every request that is    *)
(* refused before the database is asked.  POST /user is refused, because   *)
(* api() takes every method of that path for the sender's own account, and *)
(* so is what inserts or updates buckets, by the columns of their table.   *)
(***************************************************************************)
EXTENDS Naturals, Sequences, FiniteSets

CONSTANTS
    Clients,
    Ids, Nil,       \* the ids of users; Nil is Uuid::default()
    Usernames, Admin,   \* Admin is "admin", the name of the default account
    Passwords, Default, \* Default is "admin", its password
    Mail,           \* an address
    Null,           \* of SQL
    NoToken,
    Tables,         \* the tables of users an operator may have prepared
    SelfChanges,    \* what UpdateSelf may ask for: functions from columns to values
    UserChanges,    \* what UpdateUser may ask for
    MaxStarts,      \* bound on starts
    MaxRequests     \* bound on requests

Hash(p) == <<"hash", p>>
Plain(p) == <<"plain", p>>

\* The columns of a user that are modelled.
Columns == {"username", "passwd", "email", "role"}

User ==
    [username : Usernames \cup {Null},
     passwd : {Hash(p) : p \in Passwords} \cup {Plain(p) : p \in Passwords} \cup {Null},
     email : {Mail, Null},
     role : {"SuperUser", "Other"}]

ASSUME UsersAssumption ==
    /\ Nil \in Ids /\ Admin \in Usernames /\ Default \in Passwords
    /\ Null \notin Usernames \cup {Hash(p) : p \in Passwords}
    /\ \A t \in Tables : DOMAIN t \subseteq Ids /\ t \in [DOMAIN t -> User]
    /\ \A items \in SelfChanges \cup UserChanges :
          /\ IsFiniteSet(DOMAIN items)
          /\ \A col \in DOMAIN items \cap Columns : \E user \in User : items[col] = user[col]
    /\ MaxStarts \in Nat /\ MaxRequests \in Nat

VARIABLES
    users,      \* the table: a function from the ids in it to users
    pc,         \* the service: "down", "keys", "pub", "up"
    run,        \* which start this is
    priv, pub,  \* ec_priv_key.pem and ec_pub_key.pem: the run they are from, or 0
    token,      \* per client its token
    phase,      \* per client its request: "idle", "checking", "acting"
    ask,        \* that request
    requests,   \* history: their number
    ghost,      \* history: was the sender gone when the request came?
    refused,    \* history: did the database refuse the default account of this run?
    deleted,    \* history: was a user deleted in this run?
    spoiled     \* history: was a password replaced, or a name removed?

keys == <<run, priv, pub>>
served == <<token, phase, ask, requests, ghost>>
history == <<refused, deleted, spoiled>>
accountsVars == <<users, pc, keys, served, history>>

NoRequest == [op |-> "none"]

AccountsInit ==
    /\ users \in Tables
    /\ pc = "down" /\ run = 0 /\ priv = 0 /\ pub = 0
    /\ token = [c \in Clients |-> NoToken]
    /\ phase = [c \in Clients |-> "idle"]
    /\ ask = [c \in Clients |-> NoRequest]
    /\ requests = 0
    /\ ghost = [c \in Clients |-> FALSE]
    /\ refused = FALSE /\ deleted = FALSE /\ spoiled = FALSE

-----------------------------------------------------------------------------
(***************************************************************************)
(* The table.  The ROLE of initdb.sql and the Role of the program have one *)
(* value in common, SuperUser: a row with another cannot be read, nor one  *)
(* with a null where the program expects a value (the task panics), and    *)
(* the program can write no other.                                         *)
(***************************************************************************)
Readable(id) ==
    /\ id \in DOMAIN users
    /\ users[id].role = "SuperUser"
    /\ users[id].username # Null /\ users[id].passwd # Null

DefaultAccount ==
    [username |-> Admin, passwd |-> Hash(Default), email |-> Null, role |-> "SuperUser"]

\* The primary key, and username TEXT UNIQUE.
Unique(table) ==
    \A i, j \in DOMAIN table :
        i # j /\ table[i].username = table[j].username => table[i].username = Null

\* What an operator prepares: names are unique and passwords are hashed.
ASSUME TablesAssumption ==
    \A t \in Tables :
        /\ Unique(t)
        /\ \A id \in DOMAIN t : t[id].passwd # Null => \E p \in Passwords : t[id].passwd = Hash(p)

Inserted(id, user) ==
    [i \in DOMAIN users \cup {id} |-> IF i = id THEN user ELSE users[i]]

Orders(S) ==
    {o \in [1 .. Cardinality(S) -> S] : \A i, j \in DOMAIN o : i # j => o[i] # o[j]}

\* UpdateStatement that counts before it writes the number of a value.
UpdateStatementShifted(items, id) ==
    {[set |-> [i \in DOMAIN o |-> <<o[i], i + 1>>],
      where |-> Len(o) + 1,
      values |-> [i \in 1 .. Len(o) + 1 |-> IF i <= Len(o) THEN items[o[i]] ELSE id]] :
        o \in Orders(DOMAIN items)}

\* UpdateStatement that collects columns and values in two passes over the map.
UpdateStatementTwice(items, id) ==
    {[set |-> [i \in DOMAIN o |-> <<o[i], i>>],
      where |-> Len(o) + 1,
      values |-> [i \in 1 .. Len(o) + 1 |-> IF i <= Len(o) THEN items[p[i]] ELSE id]] :
        o \in Orders(DOMAIN items), p \in Orders(DOMAIN items)}

(***************************************************************************)
(* UpdateOwn: UPDATE users SET .. WHERE id = .., the columns in the order  *)
(* of a HashMap, each with the number of its value.                        *)
(***************************************************************************)
UpdateStatement(items, id) ==
    {[set |-> [i \in DOMAIN o |-> <<o[i], i>>],
      where |-> Len(o) + 1,
      values |-> [i \in 1 .. Len(o) + 1 |-> IF i <= Len(o) THEN items[o[i]] ELSE id]] :
        o \in Orders(DOMAIN items)}

\* What the database makes of it.
Written(user, st) ==
    [col \in Columns |->
        IF \E i \in DOMAIN st.set : st.set[i][1] = col
        THEN st.values[st.set[CHOOSE i \in DOMAIN st.set : st.set[i][1] = col][2]]
        ELSE user[col]]

Executed(st) ==
    [id \in DOMAIN users |->
        IF id = st.values[st.where] THEN Written(users[id], st) ELSE users[id]]

\* A column that does not exist, or a role the table does not know.
Accepted(items) ==
    /\ DOMAIN items \subseteq Columns
    /\ "role" \in DOMAIN items => items["role"] = "SuperUser"

-----------------------------------------------------------------------------
(***************************************************************************)
(* main: the default account, then gen_ecdsa.  An insertion that fails is  *)
(* reported, and the start goes on, whatever made it fail.                 *)
(***************************************************************************)
Start ==
    /\ pc = "down" /\ run < MaxStarts
    /\ run' = run + 1
    /\ pc' = "keys"
    /\ deleted' = FALSE
    /\ UNCHANGED <<priv, pub, served, spoiled>>

\* InsertDefault into an empty table only.
InsertDefaultWhenEmpty ==
    /\ Start
    /\ users' = IF DOMAIN users = {} THEN Inserted(Nil, DefaultAccount) ELSE users
    /\ refused' = FALSE

\* The row goes in, unless its id or its name is taken.
InsertDefault ==
    /\ Start
    /\ users' = IF Nil \notin DOMAIN users /\ Unique(Inserted(Nil, DefaultAccount))
                THEN Inserted(Nil, DefaultAccount) ELSE users
    /\ refused' = FALSE

\* The database refuses or cannot be reached.
InsertFails ==
    /\ Start
    /\ refused' = TRUE
    /\ UNCHANGED users

\* WritePriv that keeps the keys there are.
WritePrivOnce ==
    /\ pc = "keys"
    /\ priv' = IF priv = 0 THEN run ELSE priv
    /\ pc' = IF priv = 0 THEN "pub" ELSE "up"
    /\ UNCHANGED <<users, run, pub, served, history>>

WritePriv ==
    /\ pc = "keys"
    /\ priv' = run
    /\ pc' = "pub"
    /\ UNCHANGED <<users, run, pub, served, history>>

WritePub ==
    /\ pc = "pub"
    /\ pub' = run
    /\ pc' = "up"
    /\ UNCHANGED <<users, run, priv, served, history>>

\* The requests it was serving end with the service; clients keep tokens.
Crash ==
    /\ pc # "down"
    /\ pc' = "down"
    /\ phase' = [c \in Clients |-> "idle"]
    /\ ask' = [c \in Clients |-> NoRequest]
    /\ ghost' = [c \in Clients |-> FALSE]
    /\ UNCHANGED <<users, keys, token, requests, history>>

-----------------------------------------------------------------------------
(***************************************************************************)
(* EPoint::call.                                                           *)
(***************************************************************************)
CanLogIn(id, p) == Readable(id) /\ users[id].passwd = Hash(p)

\* The row that was fetched, its password and the token: one wait.
Login(c) ==
    /\ pc = "up" /\ phase[c] = "idle"
    /\ \E id \in DOMAIN users, p \in Passwords :
          /\ CanLogIn(id, p)
          /\ token' = [token EXCEPT ![c] = [sub |-> id, key |-> priv, run |-> run]]
    /\ UNCHANGED <<users, pc, keys, phase, ask, requests, ghost, history>>

Verifies(t) == t.key = pub

\* A request comes with a token that verifies; with one that does not the
\* task panics, and the request has no answer.
Ask(c, request, next) ==
    /\ pc = "up" /\ phase[c] = "idle" /\ requests < MaxRequests
    /\ token[c] # NoToken /\ Verifies(token[c])
    /\ requests' = requests + 1
    /\ ask' = [ask EXCEPT ![c] = request]
    /\ phase' = [phase EXCEPT ![c] = next]
    /\ ghost' = [ghost EXCEPT ![c] = token[c].sub \notin DOMAIN users]
    /\ UNCHANGED <<users, pc, keys, token, history>>

Update(id, items) == [op |-> "update", id |-> id, items |-> items]

Delete(id) == [op |-> "delete", id |-> id]

AskSelf(c) ==
    \E items \in SelfChanges : Ask(c, Update(token[c].sub, items), "acting")

AskUpdate(c) ==
    \E id \in Ids, items \in UserChanges : Ask(c, Update(id, items), "checking")

\* DELETE of a user, or of a bucket, which deletes the user with that id.
AskDelete(c) == \E id \in Ids : Ask(c, Delete(id), "checking")

Become(c, new) ==
    /\ phase' = [phase EXCEPT ![c] = new]
    /\ ask' = IF new = "idle" THEN [ask EXCEPT ![c] = NoRequest] ELSE ask
    /\ ghost' = IF new = "idle" THEN [ghost EXCEPT ![c] = FALSE] ELSE ghost
    /\ UNCHANGED <<pc, keys, token, requests>>

\* Check that believes the token.
CheckToken(c) ==
    /\ phase[c] = "checking"
    /\ Become(c, "acting")
    /\ UNCHANGED <<users, history>>

\* middleware_user_admin; a row that can be read is an administrator's.
Check(c) ==
    /\ phase[c] = "checking"
    /\ Readable(token[c].sub)
    /\ Become(c, "acting")
    /\ UNCHANGED <<users, history>>

\* No row, or one whose conversion panics.
CheckFails(c) ==
    /\ phase[c] = "checking"
    /\ ~Readable(token[c].sub)
    /\ Become(c, "idle")
    /\ UNCHANGED <<users, history>>

DoUpdate(c) ==
    /\ phase[c] = "acting" /\ ask[c].op = "update"
    /\ ask[c].items # <<>> /\ Accepted(ask[c].items)
    /\ \E st \in UpdateStatement(ask[c].items, ask[c].id) :
          Unique(Executed(st)) /\ users' = Executed(st)
    /\ Become(c, "idle")
    /\ spoiled' = (spoiled \/ \E id \in DOMAIN users :
                        \/ users'[id].passwd # users[id].passwd
                        \/ users'[id].username = Null)
    /\ UNCHANGED <<refused, deleted>>

\* The database refuses or cannot be reached, or there is nothing to update
\* and unwrap panics.
ActFails(c) ==
    /\ phase[c] = "acting"
    /\ Become(c, "idle")
    /\ UNCHANGED <<users, history>>

DoDelete(c) ==
    /\ phase[c] = "acting" /\ ask[c].op = "delete"
    /\ users' = [i \in DOMAIN users \ {ask[c].id} |-> users[i]]
    /\ deleted' = (deleted \/ ask[c].id \in DOMAIN users)
    /\ Become(c, "idle")
    /\ UNCHANGED <<refused, spoiled>>

Serve(c) ==
    \/ Login(c) \/ AskSelf(c) \/ AskUpdate(c) \/ AskDelete(c)
    \/ Check(c) \/ CheckFails(c)
    \/ DoUpdate(c) \/ DoDelete(c) \/ ActFails(c)

AccountsNext ==
    \/ InsertDefault \/ InsertFails \/ WritePriv \/ WritePub \/ Crash
    \/ \E c \in Clients : Serve(c)

AccountsSpec == AccountsInit /\ [][AccountsNext]_accountsVars

-----------------------------------------------------------------------------
\* Types; no two users have one name; requests only of a service that is up.
AccountsOK ==
    /\ DOMAIN users \subseteq Ids
    /\ \A id \in DOMAIN users : users[id] \in User
    /\ Unique(users)
    /\ pc \in {"down", "keys", "pub", "up"}
    /\ {run, priv, pub} \subseteq 0 .. MaxStarts
    /\ \A c \in Clients :
          /\ token[c] # NoToken => token[c].sub \in Ids /\ token[c].run \in 1 .. run
          /\ phase[c] \in {"idle", "checking", "acting"}
          /\ phase[c] # "idle" => pc = "up" /\ token[c] # NoToken
          /\ (ask[c] = NoRequest) = (phase[c] = "idle")

(***************************************************************************)
(* A start makes all tokens of earlier starts worthless and its own good,  *)
(* also after a start that came to its end between the two files of keys.  *)
(***************************************************************************)
TokensOfThisRun ==
    pc = "up" =>
        \A c \in Clients : token[c] # NoToken => (Verifies(token[c]) <=> token[c].run = run)

(***************************************************************************)
(* A user who is gone when a request in the user's name comes changes      *)
(* nothing with it, whatever the token says and others do meanwhile.  (One *)
(* who is deleted after the check of the request still does.)              *)
(***************************************************************************)
DeletedAreHarmless ==
    [][\A c \in Clients :
          phase[c] # "idle" /\ phase'[c] = "idle" /\ ghost[c] => users' = users]_accountsVars

(***************************************************************************)
(* A request changes the user it names and the columns it names, to the    *)
(* values it gives, whatever the order of the map and whoever else is      *)
(* served between its check and its statement.                             *)
(***************************************************************************)
ChangesAsAsked ==
    [][\A c \in Clients :
          phase[c] = "acting" /\ ask[c].op = "update" /\ users' # users /\ phase'[c] = "idle" =>
              /\ DOMAIN users' = DOMAIN users
              /\ \A id \in DOMAIN users, col \in Columns :
                    users'[id][col] = IF id = ask[c].id /\ col \in DOMAIN ask[c].items
                                      THEN ask[c].items[col] ELSE users[id][col]]_accountsVars

(***************************************************************************)
(* Somebody can log in after every start whose insertion the database did  *)
(* not refuse for other reasons than a row in its way, as long as users    *)
(* are not deleted in it and neither passwords nor names were taken away:  *)
(* the default account, or the one that has its id or name, unless that is *)
(* one the program cannot read.  (A replaced password is stored as it      *)
(* came, and no login accepts it.)                                         *)
(***************************************************************************)
SomebodyCanLogIn ==
    pc = "up" /\ ~refused /\ ~deleted /\ ~spoiled =>
        \/ \E id \in Ids, p \in Passwords : CanLogIn(id, p)
        \/ \E id \in DOMAIN users : (id = Nil \/ users[id].username = Admin) /\ ~Readable(id)
=============================================================================
