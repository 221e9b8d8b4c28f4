-------------------------- MODULE HandlersProofs ----------------------------
(***************************************************************************)
(* Proofs about the handlers of HTTP requests that write: those of auth,   *)
(* which change users, and that of upload_files, which takes files.        *)
(***************************************************************************)
EXTENDS Accounts, Upload, FiniteSetTheorems, FunctionTheorems, SequenceTheorems,
        WellFoundedInduction, TLAPS

-----------------------------------------------------------------------------
(***************************************************************************)
(* Proofs about Accounts: which tokens verify, what a request whose sender *)
(* was deleted can still do, that the rows and names of the table stay     *)
(* right, and that after every start somebody can log in.                  *)
(***************************************************************************)
-----------------------------------------------------------------------------
(***************************************************************************)
(* Tokens.  A token was signed with the key of the run it is from, and a   *)
(* service that is up has made both keys itself: a start goes through      *)
(* WritePriv and WritePub, whichever files it found.                       *)
(***************************************************************************)
TokensInv ==
    /\ DOMAIN token = Clients
    /\ \A c \in Clients : token[c] # NoToken => token[c].key = token[c].run
    /\ pc \in {"down", "keys", "pub", "up"}
    /\ pc \in {"pub", "up"} => priv = run
    /\ pc = "up" => pub = run

\* The invariant TokensInv holds of the tables an operator prepared, and no
\* start, crash or request breaks it.
LEMMA TokensInvariant == AccountsSpec => []TokensInv
<1>1. AccountsInit => TokensInv
  BY DEF AccountsInit, TokensInv
<1>2. TokensInv /\ [AccountsNext]_accountsVars => TokensInv'
  <2>. SUFFICES ASSUME TokensInv, [AccountsNext]_accountsVars PROVE TokensInv'
    OBVIOUS
  <2>1. CASE InsertDefault \/ InsertFails
    BY <2>1 DEF TokensInv, InsertDefault, InsertFails, Start, served
  <2>2. CASE WritePriv
    BY <2>2 DEF TokensInv, WritePriv, served
  <2>3. CASE WritePub
    BY <2>3 DEF TokensInv, WritePub, served
  <2>4. CASE Crash
    BY <2>4 DEF TokensInv, Crash, keys
  <2>5. ASSUME NEW c \in Clients, Login(c) PROVE TokensInv'
    BY <2>5 DEF TokensInv, Login, keys
  <2>6. ASSUME NEW c \in Clients, Serve(c), ~Login(c) PROVE TokensInv'
    <3>1. UNCHANGED <<pc, keys, token>>
      BY <2>6 DEF Serve, AskSelf, AskUpdate, AskDelete, Ask, Check, CheckFails,
                  DoUpdate, DoDelete, ActFails, Become
    <3>. QED BY <3>1 DEF TokensInv, keys
  <2>7. CASE UNCHANGED accountsVars
    BY <2>7 DEF TokensInv, accountsVars, keys, served
  <2>. QED BY <2>1, <2>2, <2>3, <2>4, <2>5, <2>6, <2>7 DEF AccountsNext
<1>. QED BY <1>1, <1>2, PTL DEF AccountsSpec

\* A service that is up accepts the tokens of this run and no others, after
\* any number of starts, complete or not.
THEOREM TokensAreOfTheirRun == AccountsSpec => []TokensOfThisRun
<1>1. TokensInv => TokensOfThisRun
  BY DEF TokensInv, TokensOfThisRun, Verifies
<1>. QED BY <1>1, TokensInvariant, PTL

-----------------------------------------------------------------------------
(***************************************************************************)
(* Deleted users.  A request whose sender was gone when it came either     *)
(* waits for its check, which fails as long as the sender stays away, or   *)
(* is an update of the sender, which finds no row; and only a start brings *)
(* a row back, with no request of an earlier run.                          *)
(***************************************************************************)
OwnUpdate(c) ==
    /\ ask[c].op = "update"
    /\ ask[c].id = token[c].sub
    /\ IsFiniteSet(DOMAIN ask[c].items)

GhostsInv ==
    /\ users = [id \in DOMAIN users |-> users[id]]
    /\ DOMAIN token = Clients /\ DOMAIN ask = Clients
    /\ phase \in [Clients -> {"idle", "checking", "acting"}]
    /\ ghost \in [Clients -> BOOLEAN]
    /\ \A c \in Clients : phase[c] # "idle" => pc = "up"
    /\ \A c \in Clients : ghost[c] =>
          /\ phase[c] # "idle"
          /\ token[c].sub \notin DOMAIN users
          /\ phase[c] = "acting" => OwnUpdate(c)

\* The statement of an update names its user in the place of the condition.
LEMMA StatementNamesUser ==
    ASSUME NEW items, NEW id, IsFiniteSet(DOMAIN items), NEW st \in UpdateStatement(items, id)
    PROVE  st.values[st.where] = id
<1>1. PICK o \in Orders(DOMAIN items) :
        st = [set |-> [i \in DOMAIN o |-> <<o[i], i>>],
              where |-> Len(o) + 1,
              values |-> [i \in 1 .. Len(o) + 1 |-> IF i <= Len(o) THEN items[o[i]] ELSE id]]
  BY DEF UpdateStatement
<1>2. Cardinality(DOMAIN items) \in Nat
  BY FS_CardinalityType
<1>3. o \in Seq(DOMAIN items) /\ Len(o) \in Nat
  BY <1>2 DEF Orders
<1>. QED BY <1>1, <1>3

\* An update of a user who is not in the table changes nothing.
LEMMA UpdateOfNobody ==
    ASSUME users = [id \in DOMAIN users |-> users[id]],
           NEW st, st.values[st.where] \notin DOMAIN users
    PROVE  Executed(st) = users
  BY DEF Executed

\* No step adds a row while requests are served.
LEMMA RowsOnlyGo ==
    ASSUME GhostsInv, AccountsNext, pc = "up", pc' = "up"
    PROVE  DOMAIN users' \subseteq DOMAIN users
<1>1. ~InsertDefault /\ ~InsertFails /\ ~WritePriv /\ ~WritePub /\ ~Crash
  BY DEF InsertDefault, InsertFails, Start, WritePriv, WritePub, Crash
<1>2. PICK c \in Clients : Serve(c)
  BY <1>1 DEF AccountsNext
<1>3. CASE DoUpdate(c)
  BY <1>3 DEF DoUpdate, Executed
<1>4. CASE DoDelete(c)
  BY <1>4 DEF DoDelete
<1>5. CASE ~DoUpdate(c) /\ ~DoDelete(c)
  <2>1. UNCHANGED users
    BY <1>2, <1>5 DEF Serve, Login, AskSelf, AskUpdate, AskDelete, Ask, Check,
                      CheckFails, ActFails
  <2>. QED BY <2>1
<1>. QED BY <1>3, <1>4, <1>5

\* What a request does to the fields of its client only.
OthersServed(c) ==
    \A d \in Clients \ {c} :
        phase'[d] = phase[d] /\ ask'[d] = ask[d] /\ ghost'[d] = ghost[d] /\ token'[d] = token[d]

\* Become leaves the request as it was, or ends it.
LEMMA BecomeFacts ==
    ASSUME GhostsInv, NEW c \in Clients, NEW new \in {"acting", "idle"}, Become(c, new)
    PROVE  /\ OthersServed(c)
           /\ phase'[c] = new /\ token' = token /\ pc' = pc
           /\ DOMAIN ask' = Clients
           /\ phase' \in [Clients -> {"idle", "checking", "acting"}]
           /\ ghost' \in [Clients -> BOOLEAN]
           /\ new = "acting" => ask' = ask /\ ghost' = ghost
           /\ new = "idle" => ghost'[c] = FALSE
  BY DEF GhostsInv, Become, OthersServed

\* A request that comes notes whether its sender is gone.
LEMMA AskFacts ==
    ASSUME GhostsInv, NEW c \in Clients, NEW request, NEW next \in {"checking", "acting"},
           Ask(c, request, next)
    PROVE  /\ OthersServed(c)
           /\ phase'[c] = next /\ ask'[c] = request
           /\ UNCHANGED <<token, users, pc>>
           /\ DOMAIN ask' = Clients
           /\ phase' \in [Clients -> {"idle", "checking", "acting"}]
           /\ ghost' \in [Clients -> BOOLEAN]
           /\ ghost'[c] <=> token[c].sub \notin DOMAIN users
           /\ pc = "up"
<1>1. ghost' \in [Clients -> BOOLEAN] /\ (ghost'[c] <=> token[c].sub \notin DOMAIN users)
  <2>. DEFINE gone == token[c].sub \notin DOMAIN users
  <2>1. gone \in BOOLEAN
    OBVIOUS
  <2>2. ghost' = [ghost EXCEPT ![c] = gone]
    BY DEF Ask
  <2>. HIDE DEF gone
  <2>3. ghost' \in [Clients -> BOOLEAN] /\ ghost'[c] = gone
    BY <2>1, <2>2 DEF GhostsInv
  <2>. QED BY <2>3 DEF gone
<1>2. \A d \in Clients \ {c} : ghost'[d] = ghost[d]
  BY DEF Ask, GhostsInv
<1>. QED BY <1>1, <1>2 DEF GhostsInv, Ask, OthersServed, keys

\* The clients a step does not serve keep their part of the invariant.
LEMMA OthersKeepInv ==
    ASSUME GhostsInv, AccountsNext, NEW c \in Clients, OthersServed(c), pc = "up", pc' = "up"
    PROVE  \A d \in Clients \ {c} : ghost'[d] =>
              /\ phase'[d] # "idle"
              /\ token'[d].sub \notin DOMAIN users'
              /\ phase'[d] = "acting" => OwnUpdate(d)'
<1>1. DOMAIN users' \subseteq DOMAIN users
  BY RowsOnlyGo
<1>. QED BY <1>1 DEF OthersServed, GhostsInv, OwnUpdate

\* The invariant GhostsInv holds for any users, tables and requests.
LEMMA GhostsInvariant == AccountsSpec => []GhostsInv
<1>1. AccountsInit => GhostsInv
  <2>. SUFFICES ASSUME AccountsInit PROVE GhostsInv
    OBVIOUS
  <2>1. users = [id \in DOMAIN users |-> users[id]]
    BY UsersAssumption DEF AccountsInit
  <2>. QED BY <2>1 DEF AccountsInit, GhostsInv
<1>2. GhostsInv /\ [AccountsNext]_accountsVars => GhostsInv'
  <2>. SUFFICES ASSUME GhostsInv, [AccountsNext]_accountsVars PROVE GhostsInv'
    OBVIOUS
  <2>1. CASE InsertDefault \/ InsertFails
    <3>1. \A c \in Clients : phase[c] = "idle" /\ ~ghost[c]
      BY <2>1 DEF InsertDefault, InsertFails, Start, GhostsInv
    <3>2. users' = [id \in DOMAIN users' |-> users'[id]]
      BY <2>1 DEF InsertDefault, InsertFails, Inserted, GhostsInv
    <3>. QED BY <2>1, <3>1, <3>2 DEF InsertDefault, InsertFails, Start, GhostsInv, served
  <2>2. CASE WritePriv \/ WritePub
    <3>1. \A c \in Clients : phase[c] = "idle" /\ ~ghost[c]
      BY <2>2 DEF WritePriv, WritePub, GhostsInv
    <3>. QED BY <2>2, <3>1 DEF WritePriv, WritePub, GhostsInv, served
  <2>3. CASE Crash
    BY <2>3 DEF Crash, GhostsInv
  <2>4. ASSUME NEW c \in Clients, Login(c) PROVE GhostsInv'
    <3>1. ~ghost[c] /\ UNCHANGED <<users, pc, phase, ask, ghost>> /\ DOMAIN token' = Clients
      BY <2>4 DEF Login, GhostsInv
    <3>2. \A d \in Clients \ {c} : token'[d] = token[d]
      BY <2>4 DEF Login, GhostsInv
    <3>. QED BY <3>1, <3>2 DEF GhostsInv, OwnUpdate
  <2>5. ASSUME NEW c \in Clients, AskSelf(c) PROVE GhostsInv'
    <3>1. PICK items \in SelfChanges : Ask(c, Update(token[c].sub, items), "acting")
      BY <2>5 DEF AskSelf
    <3>2. AccountsNext /\ pc = "up" /\ pc' = "up"
      BY <2>5, <3>1, AskFacts DEF AccountsNext, Serve
    <3>3. OwnUpdate(c)'
      BY <3>1, AskFacts, UsersAssumption DEF OwnUpdate, Update
    <3>. QED BY <3>1, <3>2, <3>3, AskFacts, OthersKeepInv DEF GhostsInv
  <2>6. ASSUME NEW c \in Clients, AskUpdate(c) \/ AskDelete(c) PROVE GhostsInv'
    <3>1. PICK request : Ask(c, request, "checking")
      BY <2>6 DEF AskUpdate, AskDelete
    <3>2. AccountsNext /\ pc = "up" /\ pc' = "up"
      BY <2>6, <3>1, AskFacts DEF AccountsNext, Serve
    <3>. QED BY <3>1, <3>2, AskFacts, OthersKeepInv DEF GhostsInv
  <2>7. ASSUME NEW c \in Clients, Check(c) PROVE GhostsInv'
    <3>1. Become(c, "acting") /\ UNCHANGED users /\ ~ghost[c]
      BY <2>7 DEF Check, Readable, GhostsInv
    <3>2. AccountsNext /\ pc = "up" /\ pc' = "up"
      BY <2>7, <3>1, BecomeFacts DEF AccountsNext, Serve, Check, GhostsInv
    <3>. QED BY <3>1, <3>2, BecomeFacts, OthersKeepInv DEF GhostsInv
  <2>8. ASSUME NEW c \in Clients, CheckFails(c) \/ DoUpdate(c) \/ DoDelete(c) \/ ActFails(c)
        PROVE GhostsInv'
    <3>1. Become(c, "idle") /\ phase[c] # "idle"
      BY <2>8 DEF CheckFails, DoUpdate, DoDelete, ActFails
    <3>2. AccountsNext /\ pc = "up" /\ pc' = "up"
      BY <2>8, <3>1, BecomeFacts DEF AccountsNext, Serve, GhostsInv
    <3>3. users' = [id \in DOMAIN users' |-> users'[id]]
      BY <2>8 DEF CheckFails, DoUpdate, DoDelete, ActFails, Executed, GhostsInv
    <3>. QED BY <3>1, <3>2, <3>3, BecomeFacts, OthersKeepInv DEF GhostsInv
  <2>9. CASE UNCHANGED accountsVars
    BY <2>9 DEF GhostsInv, OwnUpdate, accountsVars, served
  <2>. QED BY <2>1, <2>2, <2>3, <2>4, <2>5, <2>6, <2>7, <2>8, <2>9 DEF AccountsNext, Serve
<1>. QED BY <1>1, <1>2, PTL DEF AccountsSpec

\* A request of a user who was gone when it came ends without a change of the
\* table, for any table, any requests and any restarts.
THEOREM DeletedChangeNothing == AccountsSpec => DeletedAreHarmless
<1>1. GhostsInv /\ [AccountsNext]_accountsVars =>
        [\A c \in Clients :
            phase[c] # "idle" /\ phase'[c] = "idle" /\ ghost[c] => users' = users]_accountsVars
  <2>. SUFFICES ASSUME GhostsInv, AccountsNext,
                       NEW c \in Clients, phase[c] # "idle", phase'[c] = "idle", ghost[c]
                PROVE  users' = users
    OBVIOUS
  <2>1. token[c].sub \notin DOMAIN users /\ (phase[c] = "acting" => OwnUpdate(c))
    BY DEF GhostsInv
  <2>2. CASE InsertDefault \/ InsertFails \/ WritePriv \/ WritePub \/ Crash
    BY <2>2 DEF InsertDefault, InsertFails, Start, WritePriv, WritePub, Crash, GhostsInv
  <2>3. ASSUME NEW d \in Clients, Serve(d) PROVE users' = users
    <3>1. CASE DoUpdate(d)
      <4>1. d = c
        BY <3>1, BecomeFacts DEF DoUpdate, OthersServed
      <4>2. OwnUpdate(c)
        BY <2>1, <3>1, <4>1 DEF DoUpdate
      <4>3. PICK st \in UpdateStatement(ask[c].items, ask[c].id) : users' = Executed(st)
        BY <3>1, <4>1 DEF DoUpdate
      <4>4. st.values[st.where] = token[c].sub
        BY <4>2, <4>3, StatementNamesUser DEF OwnUpdate
      <4>. QED BY <2>1, <4>3, <4>4, UpdateOfNobody DEF GhostsInv
    <3>2. CASE DoDelete(d)
      <4>1. d = c
        BY <3>2, BecomeFacts DEF DoDelete, OthersServed
      <4>. QED BY <2>1, <3>2, <4>1 DEF DoDelete, OwnUpdate
    <3>3. CASE ~DoUpdate(d) /\ ~DoDelete(d)
      BY <2>3, <3>3 DEF Serve, Login, AskSelf, AskUpdate, AskDelete, Ask, Check,
                        CheckFails, ActFails
    <3>. QED BY <3>1, <3>2, <3>3
  <2>. QED BY <2>2, <2>3 DEF AccountsNext
<1>. QED BY <1>1, GhostsInvariant, PTL DEF AccountsSpec, DeletedAreHarmless

-----------------------------------------------------------------------------
(***************************************************************************)
(* Statements.  The columns of a statement come in the order of a HashMap, *)
(* which is any order, but each comes once and with its own value.         *)
(***************************************************************************)
LEMMA OrdersAreOnto ==
    ASSUME NEW S, IsFiniteSet(S), NEW o \in Orders(S)
    PROVE  /\ o \in Seq(S) /\ Len(o) \in Nat /\ DOMAIN o = 1 .. Len(o)
           /\ \A x \in S : \E i \in DOMAIN o : o[i] = x
<1>. DEFINE n == Cardinality(S)
<1>1. n \in Nat
  BY FS_CardinalityType
<1>2. o \in [1 .. n -> S] /\ \A i, j \in 1 .. n : i # j => o[i] # o[j]
  BY DEF Orders
<1>3. o \in Seq(S) /\ Len(o) = n
  BY <1>1, <1>2
<1>4. o \in Injection(1 .. n, S)
  BY <1>2 DEF Injection, IsInjective
<1>5. IsFiniteSet(1 .. n) /\ Cardinality(1 .. n) = n
  BY <1>1, FS_Interval
<1>6. o \in Surjection(1 .. n, S)
  BY <1>4, <1>5, FS_Injection
<1>. QED BY <1>1, <1>2, <1>3, <1>6 DEF Surjection

\* What a statement writes to a row: the values asked for, and nothing else.
LEMMA WrittenAsAsked ==
    ASSUME NEW items, NEW id, IsFiniteSet(DOMAIN items), NEW st \in UpdateStatement(items, id)
    PROVE  \A user : \A col \in Columns :
              Written(user, st)[col] = IF col \in DOMAIN items THEN items[col] ELSE user[col]
<1>. SUFFICES ASSUME NEW user, NEW col \in Columns
              PROVE  /\ col \in DOMAIN items => Written(user, st)[col] = items[col]
                     /\ col \notin DOMAIN items => Written(user, st)[col] = user[col]
  OBVIOUS
<1>1. PICK o \in Orders(DOMAIN items) :
        st = [set |-> [i \in DOMAIN o |-> <<o[i], i>>],
              where |-> Len(o) + 1,
              values |-> [i \in 1 .. Len(o) + 1 |-> IF i <= Len(o) THEN items[o[i]] ELSE id]]
  BY DEF UpdateStatement
<1>2. /\ o \in Seq(DOMAIN items) /\ Len(o) \in Nat /\ DOMAIN o = 1 .. Len(o)
      /\ \A x \in DOMAIN items : \E i \in DOMAIN o : o[i] = x
  BY OrdersAreOnto
<1>3. \A i \in DOMAIN o : o[i] \in DOMAIN items
  BY <1>2
<1>4. /\ DOMAIN st.set = DOMAIN o
      /\ \A i \in DOMAIN o : st.set[i][1] = o[i] /\ st.set[i][2] = i
      /\ \A i \in DOMAIN o : st.values[i] = items[o[i]]
  BY <1>1, <1>2
<1>5. CASE col \in DOMAIN items
  <2>. DEFINE i == CHOOSE j \in DOMAIN st.set : st.set[j][1] = col
  <2>1. \E j \in DOMAIN st.set : st.set[j][1] = col
    BY <1>2, <1>4, <1>5
  <2>2. i \in DOMAIN o /\ o[i] = col
    BY <2>1, <1>4
  <2>3. Written(user, st)[col] = st.values[st.set[i][2]]
    BY <2>1 DEF Written
  <2>. HIDE DEF i
  <2>. QED BY <1>4, <1>5, <2>2, <2>3
<1>6. CASE col \notin DOMAIN items
  <2>1. ~\E j \in DOMAIN st.set : st.set[j][1] = col
    BY <1>3, <1>4, <1>6
  <2>. QED BY <2>1, <1>6 DEF Written
<1>. QED BY <1>5, <1>6

\* The updates clients are waiting for are of those they may ask for.
RequestsInv ==
    \A c \in Clients :
        phase[c] # "idle" /\ ask[c].op = "update" => ask[c].items \in SelfChanges \cup UserChanges

\* RequestsInv holds whatever is asked for.
LEMMA RequestsInvariant == AccountsSpec => []RequestsInv
<1>1. AccountsInit => RequestsInv
  BY DEF AccountsInit, RequestsInv
<1>2. GhostsInv /\ RequestsInv /\ [AccountsNext]_accountsVars => RequestsInv'
  <2>. SUFFICES ASSUME GhostsInv, RequestsInv, [AccountsNext]_accountsVars PROVE RequestsInv'
    OBVIOUS
  <2>1. CASE InsertDefault \/ InsertFails \/ WritePriv \/ WritePub
    BY <2>1 DEF RequestsInv, InsertDefault, InsertFails, Start, WritePriv, WritePub, served
  <2>2. CASE Crash
    BY <2>2 DEF RequestsInv, Crash
  <2>3. ASSUME NEW c \in Clients, Login(c) PROVE RequestsInv'
    BY <2>3 DEF RequestsInv, Login
  <2>4. ASSUME NEW c \in Clients, AskSelf(c) \/ AskUpdate(c) \/ AskDelete(c) PROVE RequestsInv'
    <3>1. CASE AskSelf(c)
      <4>1. PICK items \in SelfChanges : Ask(c, Update(token[c].sub, items), "acting")
        BY <3>1 DEF AskSelf
      <4>. QED BY <4>1, AskFacts DEF RequestsInv, OthersServed, Update
    <3>2. CASE AskUpdate(c)
      <4>1. PICK id \in Ids, items \in UserChanges : Ask(c, Update(id, items), "checking")
        BY <3>2 DEF AskUpdate
      <4>. QED BY <4>1, AskFacts DEF RequestsInv, OthersServed, Update
    <3>3. CASE AskDelete(c)
      <4>1. PICK id \in Ids : Ask(c, Delete(id), "checking")
        BY <3>3 DEF AskDelete
      <4>. QED BY <4>1, AskFacts DEF RequestsInv, OthersServed, Delete
    <3>. QED BY <2>4, <3>1, <3>2, <3>3
  <2>5. ASSUME NEW c \in Clients, NEW new \in {"acting", "idle"}, Become(c, new),
               phase[c] # "idle"
        PROVE  RequestsInv'
    <3>1. /\ phase'[c] = new
          /\ new = "acting" => ask' = ask
          /\ \A d \in Clients \ {c} : phase'[d] = phase[d] /\ ask'[d] = ask[d]
      BY <2>5, BecomeFacts DEF OthersServed
    <3>. QED BY <2>5, <3>1 DEF RequestsInv
  <2>6. ASSUME NEW c \in Clients,
               Check(c) \/ CheckFails(c) \/ DoUpdate(c) \/ DoDelete(c) \/ ActFails(c)
        PROVE  RequestsInv'
    BY <2>5, <2>6 DEF Check, CheckFails, DoUpdate, DoDelete, ActFails
  <2>7. CASE UNCHANGED accountsVars
    BY <2>7 DEF RequestsInv, accountsVars, served
  <2>. QED BY <2>1, <2>2, <2>3, <2>4, <2>6, <2>7 DEF AccountsNext, Serve
<1>. QED BY <1>1, <1>2, GhostsInvariant, PTL DEF AccountsSpec

\* An update changes the row and the columns it names, to the values it gives,
\* for any set of values and any order the map gives them in.
THEOREM UpdatesChangeAsAsked == AccountsSpec => ChangesAsAsked
<1>1. GhostsInv /\ RequestsInv /\ [AccountsNext]_accountsVars =>
        [\A c \in Clients :
            phase[c] = "acting" /\ ask[c].op = "update" /\ users' # users /\ phase'[c] = "idle" =>
              /\ DOMAIN users' = DOMAIN users
              /\ \A id \in DOMAIN users, col \in Columns :
                    users'[id][col] = IF id = ask[c].id /\ col \in DOMAIN ask[c].items
                                      THEN ask[c].items[col] ELSE users[id][col]]_accountsVars
  <2>. SUFFICES ASSUME GhostsInv, RequestsInv, AccountsNext, NEW c \in Clients,
                       phase[c] = "acting", ask[c].op = "update",
                       users' # users, phase'[c] = "idle"
                PROVE  /\ DOMAIN users' = DOMAIN users
                       /\ \A id \in DOMAIN users, col \in Columns :
                             users'[id][col] = IF id = ask[c].id /\ col \in DOMAIN ask[c].items
                                               THEN ask[c].items[col] ELSE users[id][col]
    OBVIOUS
  <2>1. ~InsertDefault /\ ~InsertFails /\ ~WritePriv /\ ~WritePub /\ ~Crash
    BY DEF InsertDefault, InsertFails, Start, WritePriv, WritePub, Crash, GhostsInv
  <2>2. PICK d \in Clients : DoUpdate(d) \/ DoDelete(d)
    BY <2>1 DEF AccountsNext, Serve, Login, AskSelf, AskUpdate, AskDelete, Ask, Check,
                CheckFails, ActFails
  <2>3. d = c
    BY <2>2, BecomeFacts DEF DoUpdate, DoDelete, OthersServed
  <2>4. PICK st \in UpdateStatement(ask[c].items, ask[c].id) : users' = Executed(st)
    BY <2>2, <2>3 DEF DoUpdate, DoDelete
  <2>5. IsFiniteSet(DOMAIN ask[c].items)
    BY UsersAssumption DEF RequestsInv
  <2>6. st.values[st.where] = ask[c].id
    BY <2>4, <2>5, StatementNamesUser
  <2>7. /\ DOMAIN users' = DOMAIN users
        /\ \A id \in DOMAIN users :
              users'[id] = IF id = ask[c].id THEN Written(users[id], st) ELSE users[id]
    BY <2>4, <2>6 DEF Executed
  <2>8. \A user : \A col \in Columns :
          Written(user, st)[col] =
            IF col \in DOMAIN ask[c].items THEN ask[c].items[col] ELSE user[col]
    BY <2>4, <2>5, WrittenAsAsked
  <2>. QED BY <2>7, <2>8
<1>. QED BY <1>1, GhostsInvariant, RequestsInvariant, PTL DEF AccountsSpec, ChangesAsAsked
-----------------------------------------------------------------------------
(***************************************************************************)
(* The table: what is in it are users, of whom no two have one name.       *)
(***************************************************************************)
TableInv ==
    /\ DOMAIN users \subseteq Ids
    /\ \A id \in DOMAIN users : users[id] \in User
    /\ Unique(users)

\* A user whose columns are written is still one.
LEMMA WrittenIsUser ==
    ASSUME NEW items \in SelfChanges \cup UserChanges, NEW id,
           NEW st \in UpdateStatement(items, id), NEW user \in User
    PROVE  Written(user, st) \in User
<1>. DEFINE w == Written(user, st)
<1>1. /\ w.username = IF "username" \in DOMAIN items THEN items["username"] ELSE user.username
      /\ w.passwd = IF "passwd" \in DOMAIN items THEN items["passwd"] ELSE user.passwd
      /\ w.email = IF "email" \in DOMAIN items THEN items["email"] ELSE user.email
      /\ w.role = IF "role" \in DOMAIN items THEN items["role"] ELSE user.role
  BY UsersAssumption, WrittenAsAsked DEF Columns
<1>2. \A col \in DOMAIN items \cap Columns : \E u \in User : items[col] = u[col]
  BY UsersAssumption
<1>3. /\ w.username \in Usernames \cup {Null}
      /\ w.passwd \in {Hash(p) : p \in Passwords} \cup {Plain(p) : p \in Passwords} \cup {Null}
      /\ w.email \in {Mail, Null}
      /\ w.role \in {"SuperUser", "Other"}
  <2>1. w.username \in Usernames \cup {Null}
    BY <1>1, <1>2 DEF User, Columns
  <2>2. w.passwd \in {Hash(p) : p \in Passwords} \cup {Plain(p) : p \in Passwords} \cup {Null}
    BY <1>1, <1>2 DEF User, Columns
  <2>3. w.email \in {Mail, Null}
    BY <1>1, <1>2 DEF User, Columns
  <2>4. w.role \in {"SuperUser", "Other"}
    BY <1>1, <1>2 DEF User, Columns
  <2>. QED BY <2>1, <2>2, <2>3, <2>4
<1>4. w = [col \in Columns |-> w[col]]
  BY DEF Written
<1>. HIDE DEF w
<1>5. [username |-> w.username, passwd |-> w.passwd, email |-> w.email, role |-> w.role] \in User
  BY <1>3 DEF User
<1>6. w = [username |-> w.username, passwd |-> w.passwd, email |-> w.email, role |-> w.role]
  BY <1>4 DEF Columns
<1>. QED BY <1>5, <1>6 DEF w

\* The default account is a user.
LEMMA DefaultIsUser == DefaultAccount \in User
BY UsersAssumption DEF DefaultAccount, User

\* TableInv holds for any table an operator prepared and any changes.
LEMMA TableInvariant == AccountsSpec => []TableInv
<1>1. AccountsInit => TableInv
  BY UsersAssumption, TablesAssumption DEF AccountsInit, TableInv
<1>2. RequestsInv /\ TableInv /\ [AccountsNext]_accountsVars => TableInv'
  <2>. SUFFICES ASSUME RequestsInv, TableInv, [AccountsNext]_accountsVars PROVE TableInv'
    OBVIOUS
  <2>1. CASE InsertDefault
    <3>1. CASE users' = users
      BY <3>1 DEF TableInv, Unique
    <3>2. CASE Unique(Inserted(Nil, DefaultAccount)) /\ users' = Inserted(Nil, DefaultAccount)
      <4>1. DOMAIN users' = DOMAIN users \cup {Nil}
        BY <3>2 DEF Inserted
      <4>2. \A id \in DOMAIN users' : users'[id] = DefaultAccount \/ (id \in DOMAIN users /\ users'[id] = users[id])
        BY <3>2 DEF Inserted
      <4>3. \A id \in DOMAIN users' : users'[id] \in User
        BY <4>2, DefaultIsUser DEF TableInv
      <4>4. Unique(users')
        BY <3>2
      <4>. QED BY <4>1, <4>3, <4>4, UsersAssumption DEF TableInv, Unique
    <3>. QED BY <2>1, <3>1, <3>2 DEF InsertDefault
  <2>2. ASSUME NEW c \in Clients, DoUpdate(c) PROVE TableInv'
    <3>1. ask[c].items \in SelfChanges \cup UserChanges
      BY <2>2 DEF DoUpdate, RequestsInv
    <3>2. PICK st \in UpdateStatement(ask[c].items, ask[c].id) :
            Unique(Executed(st)) /\ users' = Executed(st)
      BY <2>2 DEF DoUpdate
    <3>3. DOMAIN users' = DOMAIN users
      BY <3>2 DEF Executed
    <3>4. \A id \in DOMAIN users : users'[id] \in {users[id], Written(users[id], st)}
      BY <3>2 DEF Executed
    <3>5. \A id \in DOMAIN users : users'[id] \in User
      BY <3>1, <3>2, <3>4, WrittenIsUser DEF TableInv
    <3>6. Unique(users')
      BY <3>2
    <3>. QED BY <3>3, <3>5, <3>6 DEF TableInv, Unique
  <2>3. ASSUME NEW c \in Clients, DoDelete(c) PROVE TableInv'
    <3>1. DOMAIN users' \subseteq DOMAIN users /\ \A id \in DOMAIN users' : users'[id] = users[id]
      BY <2>3 DEF DoDelete
    <3>. QED BY <3>1 DEF TableInv, Unique
  <2>4. CASE UNCHANGED users
    BY <2>4 DEF TableInv, Unique
  <2>5. CASE InsertFails \/ WritePriv \/ WritePub \/ Crash \/ UNCHANGED accountsVars
    BY <2>4, <2>5 DEF InsertFails, WritePriv, WritePub, Crash, accountsVars
  <2>6. ASSUME NEW c \in Clients, Serve(c), ~DoUpdate(c), ~DoDelete(c) PROVE TableInv'
    BY <2>4, <2>6 DEF Serve, Login, AskSelf, AskUpdate, AskDelete, Ask, Check, CheckFails, ActFails
  <2>. QED BY <2>1, <2>2, <2>3, <2>5, <2>6 DEF AccountsNext
<1>. QED BY <1>1, <1>2, RequestsInvariant, PTL DEF AccountsSpec

-----------------------------------------------------------------------------
(***************************************************************************)
(* The service: its runs, tokens and requests.                             *)
(***************************************************************************)
ServiceInv ==
    /\ run \in 0 .. MaxStarts /\ priv \in 0 .. MaxStarts /\ pub \in 0 .. MaxStarts
    /\ pc # "down" => run >= 1
    /\ \A c \in Clients : token[c] # NoToken => token[c].sub \in Ids /\ token[c].run \in 1 .. run
    /\ \A c \in Clients : phase[c] # "idle" => token[c] # NoToken /\ Verifies(token[c])
    /\ \A c \in Clients : ask[c] = NoRequest <=> phase[c] = "idle"

\* A request that goes on, or ends.
LEMMA RequestsGoOn ==
    ASSUME GhostsInv, ServiceInv, NEW c \in Clients, NEW new \in {"acting", "idle"},
           Become(c, new), phase[c] # "idle"
    PROVE  ServiceInv'
<1>1. /\ phase'[c] = new /\ UNCHANGED <<token, pc, run, priv, pub>>
      /\ new = "acting" => ask' = ask
      /\ \A d \in Clients \ {c} : phase'[d] = phase[d] /\ ask'[d] = ask[d]
  BY BecomeFacts DEF OthersServed, Become, keys
<1>2. new = "idle" => ask'[c] = NoRequest
  BY DEF Become, GhostsInv
<1>. QED BY <1>1, <1>2 DEF ServiceInv, Verifies

\* A request that comes.
LEMMA RequestsCome ==
    ASSUME GhostsInv, ServiceInv, NEW c \in Clients, NEW next \in {"checking", "acting"},
           NEW request, Ask(c, request, next), request # NoRequest
    PROVE  ServiceInv'
<1>1. /\ phase'[c] = next /\ ask'[c] = request
      /\ UNCHANGED <<token, pc, run, priv, pub>>
      /\ \A d \in Clients \ {c} : phase'[d] = phase[d] /\ ask'[d] = ask[d]
  BY AskFacts DEF OthersServed, Ask, keys
<1>2. token[c] # NoToken /\ Verifies(token[c])
  BY DEF Ask
<1>. QED BY <1>1, <1>2 DEF ServiceInv, Verifies

\* ServiceInv holds for any clients, any requests and any number of starts.
LEMMA ServiceInvariant == AccountsSpec => []ServiceInv
<1>1. AccountsInit => ServiceInv
  BY UsersAssumption DEF AccountsInit, ServiceInv
<1>2. TokensInv /\ GhostsInv /\ TableInv /\ ServiceInv /\ [AccountsNext]_accountsVars => ServiceInv'
  <2>. SUFFICES ASSUME TokensInv, GhostsInv, TableInv, ServiceInv,
                       [AccountsNext]_accountsVars
                PROVE  ServiceInv'
    OBVIOUS
  <2>0. MaxStarts \in Nat
    BY UsersAssumption
  <2>1. CASE InsertDefault \/ InsertFails
    <3>1. /\ \A c \in Clients : phase[c] = "idle"
          /\ run' = run + 1 /\ run' \in 0 .. MaxStarts
          /\ UNCHANGED <<priv, pub, token, phase, ask>>
      BY <2>0, <2>1 DEF InsertDefault, InsertFails, Start, GhostsInv, ServiceInv, served
    <3>2. \A c \in Clients : token[c] # NoToken => token[c].sub \in Ids /\ token[c].run \in 1 .. run'
      BY <2>0, <3>1 DEF ServiceInv
    <3>. QED BY <2>0, <3>1, <3>2 DEF ServiceInv
  <2>2. CASE WritePriv \/ WritePub
    <3>1. /\ \A c \in Clients : phase[c] = "idle"
          /\ UNCHANGED <<run, token, phase, ask>> /\ run >= 1
          /\ priv' \in 0 .. MaxStarts /\ pub' \in 0 .. MaxStarts
      BY <2>2 DEF WritePriv, WritePub, GhostsInv, ServiceInv, served
    <3>. QED BY <3>1 DEF ServiceInv
  <2>3. CASE Crash
    <3>1. /\ UNCHANGED <<run, priv, pub, token>> /\ pc' = "down"
          /\ \A c \in Clients : phase'[c] = "idle" /\ ask'[c] = NoRequest
      BY <2>3 DEF Crash, keys
    <3>. QED BY <3>1 DEF ServiceInv
  <2>4. ASSUME NEW c \in Clients, Login(c) PROVE ServiceInv'
    <3>1. /\ UNCHANGED <<users, pc, run, priv, pub, phase, ask>> /\ pc = "up" /\ phase[c] = "idle"
          /\ \A d \in Clients \ {c} : token'[d] = token[d]
      BY <2>4 DEF Login, keys, TokensInv
    <3>2. token'[c].sub \in DOMAIN users /\ token'[c].run = run
      BY <2>4 DEF Login, TokensInv
    <3>3. token'[c].sub \in Ids /\ token'[c].run \in 1 .. run
      BY <2>0, <3>1, <3>2 DEF ServiceInv, TableInv
    <3>. QED BY <3>1, <3>3 DEF ServiceInv, Verifies
  <2>5. ASSUME NEW c \in Clients, AskSelf(c) \/ AskUpdate(c) \/ AskDelete(c) PROVE ServiceInv'
    BY <2>5, RequestsCome DEF AskSelf, AskUpdate, AskDelete, Update, Delete, NoRequest
  <2>6. ASSUME NEW c \in Clients,
               Check(c) \/ CheckFails(c) \/ DoUpdate(c) \/ DoDelete(c) \/ ActFails(c)
        PROVE  ServiceInv'
    BY <2>6, RequestsGoOn DEF Check, CheckFails, DoUpdate, DoDelete, ActFails
  <2>7. CASE UNCHANGED accountsVars
    BY <2>7 DEF ServiceInv, Verifies, accountsVars, keys, served
  <2>. QED BY <2>1, <2>2, <2>3, <2>4, <2>5, <2>6, <2>7 DEF AccountsNext, Serve
<1>. QED BY <1>1, <1>2, TokensInvariant, GhostsInvariant, TableInvariant, PTL DEF AccountsSpec

\* The table holds users with names of their own, tokens name users and runs
\* there were, and only a service that is up has requests, each with a token
\* that verifies: for any table, requests and number of starts.
THEOREM AccountsAreTyped == AccountsSpec => []AccountsOK
<1>1. TokensInv /\ GhostsInv /\ TableInv /\ ServiceInv => AccountsOK
  BY DEF TokensInv, GhostsInv, TableInv, ServiceInv, AccountsOK
<1>. QED BY <1>1, TokensInvariant, GhostsInvariant, TableInvariant, ServiceInvariant, PTL

-----------------------------------------------------------------------------
(***************************************************************************)
(* Logging in.  As long as no password was replaced and no name taken      *)
(* away, who could log in still can; after a start whose insertion the     *)
(* database did not refuse, the default account is there or a user who has *)
(* its id or its name.  What holds of the senders of requests is needed    *)
(* where that user cannot log in: the name goes by a request of somebody   *)
(* who can.                                                                *)
(***************************************************************************)
KnownInv ==
    ~spoiled =>
        \A id \in DOMAIN users :
            users[id].passwd # Null => \E p \in Passwords : users[id].passwd = Hash(p)

Somebody ==
    \/ \E id \in Ids, p \in Passwords : CanLogIn(id, p)
    \/ \E id \in DOMAIN users : (id = Nil \/ users[id].username = Admin) /\ ~Readable(id)

SomebodyInv ==
    ~deleted /\ ~spoiled =>
        /\ pc # "down" /\ ~refused => Somebody
        /\ \A c \in Clients :
              token[c] # NoToken /\ token[c].run = run =>
                  \E p \in Passwords : CanLogIn(token[c].sub, p)

\* An update that takes no name away leaves readable rows readable, and with
\* them their passwords.
LEMMA UpdateKeepsRows ==
    ASSUME RequestsInv, NEW c \in Clients, DoUpdate(c), ~spoiled'
    PROVE  /\ ~spoiled /\ DOMAIN users' = DOMAIN users
           /\ \A id \in DOMAIN users : users'[id].passwd = users[id].passwd
           /\ \A id : Readable(id) => Readable(id)'
<1>1. /\ ~spoiled
      /\ \A id \in DOMAIN users : users'[id].passwd = users[id].passwd /\ users'[id].username # Null
  BY DEF DoUpdate
<1>2. ask[c].items \in SelfChanges \cup UserChanges /\ Accepted(ask[c].items)
  BY DEF DoUpdate, RequestsInv
<1>3. PICK st \in UpdateStatement(ask[c].items, ask[c].id) : users' = Executed(st)
  BY DEF DoUpdate
<1>4. /\ DOMAIN users' = DOMAIN users
      /\ \A id \in DOMAIN users : users'[id] \in {users[id], Written(users[id], st)}
  BY <1>3 DEF Executed
<1>5. "role" \in DOMAIN ask[c].items => ask[c].items["role"] = "SuperUser"
  BY <1>2 DEF Accepted
<1>6. \A user : Written(user, st).role =
                  IF "role" \in DOMAIN ask[c].items THEN ask[c].items["role"] ELSE user.role
  BY <1>2, <1>3, UsersAssumption, WrittenAsAsked DEF Columns
<1>7. \A id \in DOMAIN users : users[id].role = "SuperUser" => users'[id].role = "SuperUser"
  BY <1>4, <1>5, <1>6
<1>8. \A id : Readable(id) => Readable(id)'
  BY <1>1, <1>4, <1>7 DEF Readable
<1>. QED BY <1>1, <1>4, <1>8

\* Who could log in still can.
LEMMA UpdateKeepsLogIns ==
    ASSUME RequestsInv, NEW c \in Clients, DoUpdate(c), ~spoiled'
    PROVE  \A id, p : CanLogIn(id, p) => CanLogIn(id, p)'
BY UpdateKeepsRows DEF CanLogIn, Readable

\* A delete takes rows away, or none.
LEMMA DeleteFacts ==
    ASSUME GhostsInv, NEW c \in Clients, DoDelete(c)
    PROVE  /\ DOMAIN users' \subseteq DOMAIN users
           /\ \A id \in DOMAIN users' : users'[id] = users[id]
           /\ ~deleted' => ~deleted /\ users' = users
<1>1. /\ DOMAIN users' \subseteq DOMAIN users
      /\ \A id \in DOMAIN users' : users'[id] = users[id]
  BY DEF DoDelete
<1>2. ASSUME ~deleted' PROVE ~deleted /\ users' = users
  <2>1. ~deleted /\ ask[c].id \notin DOMAIN users
    BY <1>2 DEF DoDelete
  <2>2. users = [i \in DOMAIN users |-> users[i]]
    BY DEF GhostsInv
  <2>3. users' = [i \in DOMAIN users |-> users[i]]
    BY <2>1 DEF DoDelete
  <2>. QED BY <2>1, <2>2, <2>3
<1>. QED BY <1>1, <1>2

\* What the insertion of the default account makes of the table.
LEMMA InsertFacts ==
    ASSUME InsertDefault
    PROVE  \/ UNCHANGED users /\ (Nil \in DOMAIN users \/ ~Unique(Inserted(Nil, DefaultAccount)))
           \/ /\ Nil \notin DOMAIN users
              /\ DOMAIN users' = DOMAIN users \cup {Nil}
              /\ users'[Nil] = DefaultAccount
              /\ \A id \in DOMAIN users : users'[id] = users[id]
BY DEF InsertDefault, Inserted

\* The default account can be read, and its password is known.
LEMMA DefaultFacts ==
    /\ DefaultAccount.role = "SuperUser"
    /\ DefaultAccount.username = Admin /\ Admin # Null
    /\ DefaultAccount.passwd = Hash(Default) /\ Hash(Default) # Null /\ Default \in Passwords
BY UsersAssumption DEF DefaultAccount

\* KnownInv holds for any table an operator prepared.
LEMMA KnownInvariant == AccountsSpec => []KnownInv
<1>1. AccountsInit => KnownInv
  BY TablesAssumption DEF AccountsInit, KnownInv
<1>2. GhostsInv /\ RequestsInv /\ KnownInv /\ [AccountsNext]_accountsVars => KnownInv'
  <2>. SUFFICES ASSUME GhostsInv, RequestsInv, KnownInv, [AccountsNext]_accountsVars, ~spoiled',
                       NEW id \in DOMAIN users', users'[id].passwd # Null
                PROVE  \E p \in Passwords : users'[id].passwd = Hash(p)
    BY DEF KnownInv
  <2>1. CASE UNCHANGED <<users, spoiled>>
    BY <2>1 DEF KnownInv
  <2>2. CASE InsertDefault
    <3>1. ~spoiled
      BY <2>2 DEF InsertDefault, Start
    <3>2. CASE UNCHANGED users
      BY <3>1, <3>2 DEF KnownInv
    <3>3. CASE /\ DOMAIN users' = DOMAIN users \cup {Nil}
               /\ users'[Nil] = DefaultAccount
               /\ \A i \in DOMAIN users : users'[i] = users[i]
      <4>1. \/ id \in DOMAIN users /\ users'[id] = users[id]
            \/ users'[id].passwd = Hash(Default)
        BY <3>3, DefaultFacts
      <4>. QED BY <3>1, <4>1, DefaultFacts DEF KnownInv
    <3>. QED BY <2>2, <3>2, <3>3, InsertFacts
  <2>3. ASSUME NEW c \in Clients, DoUpdate(c)
        PROVE  \E p \in Passwords : users'[id].passwd = Hash(p)
    BY <2>3, UpdateKeepsRows DEF KnownInv
  <2>4. ASSUME NEW c \in Clients, DoDelete(c)
        PROVE  \E p \in Passwords : users'[id].passwd = Hash(p)
    <3>1. ~spoiled
      BY <2>4 DEF DoDelete
    <3>. QED BY <2>4, <3>1, DeleteFacts DEF KnownInv
  <2>5. CASE InsertFails \/ WritePriv \/ WritePub \/ Crash \/ UNCHANGED accountsVars
    BY <2>1, <2>5 DEF InsertFails, Start, WritePriv, WritePub, Crash, accountsVars, history
  <2>6. ASSUME NEW c \in Clients, Serve(c), ~DoUpdate(c), ~DoDelete(c)
        PROVE  UNCHANGED <<users, spoiled>>
    BY <2>6 DEF Serve, Login, AskSelf, AskUpdate, AskDelete, Ask, Check, CheckFails, ActFails, history
  <2>. QED BY <2>1, <2>2, <2>3, <2>4, <2>5, <2>6 DEF AccountsNext
<1>. QED BY <1>1, <1>2, GhostsInvariant, RequestsInvariant, PTL DEF AccountsSpec

\* After the insertion of the default account somebody can log in, or a row that
\* cannot be read stands in its way.
LEMMA InsertLetsIn ==
    ASSUME TableInv, KnownInv, InsertDefault, ~spoiled
    PROVE  Somebody'
<1>1. CASE /\ DOMAIN users' = DOMAIN users \cup {Nil}
           /\ users'[Nil] = DefaultAccount
  <2>1. CanLogIn(Nil, Default)'
    BY <1>1, DefaultFacts DEF CanLogIn, Readable
  <2>. QED BY <2>1, DefaultFacts, UsersAssumption DEF Somebody
<1>2. CASE UNCHANGED users /\ Nil \in DOMAIN users
  <2>1. CASE ~Readable(Nil)
    BY <1>2, <2>1 DEF Somebody, Readable
  <2>2. CASE Readable(Nil)
    <3>1. \E p \in Passwords : CanLogIn(Nil, p)'
      BY <1>2, <2>2 DEF CanLogIn, Readable, KnownInv
    <3>. QED BY <3>1, UsersAssumption DEF Somebody
  <2>. QED BY <2>1, <2>2
<1>3. CASE UNCHANGED users /\ Nil \notin DOMAIN users /\ ~Unique(Inserted(Nil, DefaultAccount))
  <2>1. PICK id \in DOMAIN users : users[id].username = Admin
    BY <1>3, DefaultFacts DEF TableInv, Unique, Inserted
  <2>2. CASE ~Readable(id)
    BY <1>3, <2>1, <2>2 DEF Somebody, Readable
  <2>3. CASE Readable(id)
    <3>1. \E p \in Passwords : CanLogIn(id, p)'
      BY <1>3, <2>3 DEF CanLogIn, Readable, KnownInv
    <3>. QED BY <3>1 DEF TableInv, Somebody
  <2>. QED BY <2>2, <2>3
<1>. QED BY <1>1, <1>2, <1>3, InsertFacts

\* SomebodyInv holds whatever is asked for and however often the service starts.
LEMMA SomebodyInvariant == AccountsSpec => []SomebodyInv
<1>1. AccountsInit => SomebodyInv
  BY DEF AccountsInit, SomebodyInv
<1>2. /\ TokensInv /\ GhostsInv /\ RequestsInv /\ TableInv /\ ServiceInv /\ KnownInv
      /\ SomebodyInv /\ [AccountsNext]_accountsVars
      => SomebodyInv'
  <2>. DEFINE Senders == \A c \in Clients :
                            token[c] # NoToken /\ token[c].run = run =>
                                \E p \in Passwords : CanLogIn(token[c].sub, p)
  <2>. SUFFICES ASSUME TokensInv, GhostsInv, RequestsInv, TableInv, ServiceInv, KnownInv,
                       SomebodyInv, [AccountsNext]_accountsVars, ~deleted', ~spoiled'
                PROVE  (pc' # "down" /\ ~refused' => Somebody') /\ Senders'
    BY DEF SomebodyInv
  <2>0. ~deleted /\ ~spoiled => Senders /\ (pc # "down" /\ ~refused => Somebody)
    BY DEF SomebodyInv
  <2>1. CASE InsertDefault \/ InsertFails
    <3>1. ~spoiled /\ run' = run + 1 /\ UNCHANGED token /\ (InsertFails => refused')
      BY <2>1 DEF InsertDefault, InsertFails, Start, served
    <3>2. run \in Nat /\ \A c \in Clients : token[c] # NoToken => token[c].run \in 1 .. run
      BY UsersAssumption DEF ServiceInv
    <3>3. \A c \in Clients : token'[c] # NoToken => token'[c].run # run'
      BY <3>1, <3>2
    <3>. QED BY <2>1, <3>1, <3>3, InsertLetsIn
  <2>2. CASE UNCHANGED <<users, run, token, history>> /\ (pc' # "down" => pc # "down")
    <3>1. \A id, p : CanLogIn(id, p) => CanLogIn(id, p)'
      BY <2>2 DEF CanLogIn, Readable
    <3>2. Somebody => Somebody'
      BY <2>2 DEF Somebody, CanLogIn, Readable
    <3>. QED BY <2>0, <2>2, <3>1, <3>2 DEF history
  <2>3. CASE WritePriv \/ WritePub \/ Crash \/ UNCHANGED accountsVars
    BY <2>2, <2>3 DEF WritePriv, WritePub, Crash, accountsVars, keys, served, history
  <2>4. ASSUME NEW c \in Clients, Login(c) PROVE Somebody' /\ Senders'
    <3>1. UNCHANGED <<users, pc, run, history>> /\ pc = "up"
      BY <2>4 DEF Login, keys
    <3>2. PICK id \in DOMAIN users, p \in Passwords :
            CanLogIn(id, p) /\ token' = [token EXCEPT ![c] = [sub |-> id, key |-> priv, run |-> run]]
      BY <2>4 DEF Login
    <3>3. \A d \in Clients : token'[d] = token[d] \/ token'[d].sub = id
      BY <3>2 DEF TokensInv
    <3>4. \A i, q : CanLogIn(i, q) => CanLogIn(i, q)'
      BY <3>1 DEF CanLogIn, Readable
    <3>5. Somebody'
      BY <3>1, <3>2, <3>4 DEF Somebody, TableInv
    <3>. QED BY <2>0, <3>1, <3>2, <3>3, <3>4, <3>5 DEF history
  <2>5. ASSUME NEW c \in Clients, DoUpdate(c) PROVE Somebody' /\ Senders'
    <3>1. UNCHANGED <<run, token>> /\ ~deleted /\ ~spoiled /\ phase[c] = "acting"
      BY <2>5, UpdateKeepsRows DEF DoUpdate, Become, keys
    <3>2. \A id, p : CanLogIn(id, p) => CanLogIn(id, p)'
      BY <2>5, UpdateKeepsLogIns
    <3>3. token[c] # NoToken /\ token[c].run = run /\ token[c].sub \in Ids
      BY <3>1 DEF ServiceInv, Verifies, TokensInv, GhostsInv
    <3>4. PICK p \in Passwords : CanLogIn(token[c].sub, p)'
      BY <2>0, <3>1, <3>2, <3>3
    <3>5. Somebody'
      BY <3>1, <3>3, <3>4 DEF Somebody
    <3>6. Senders'
      BY <2>0, <3>1, <3>2
    <3>. QED BY <3>5, <3>6
  <2>6. ASSUME NEW c \in Clients, DoDelete(c)
        PROVE  (pc' # "down" /\ ~refused' => Somebody') /\ Senders'
    <3>1. UNCHANGED <<run, pc, token, refused, spoiled>> /\ ~deleted /\ ~spoiled /\ users' = users
      BY <2>6, DeleteFacts DEF DoDelete, Become, keys
    <3>2. UNCHANGED <<users, run, token>>
      BY <3>1
    <3>3. \A id, p : CanLogIn(id, p) => CanLogIn(id, p)'
      BY <3>1 DEF CanLogIn, Readable
    <3>4. Somebody => Somebody'
      BY <3>1 DEF Somebody, CanLogIn, Readable
    <3>. QED BY <2>0, <3>1, <3>3, <3>4
  <2>7. ASSUME NEW c \in Clients, Serve(c), ~Login(c), ~DoUpdate(c), ~DoDelete(c)
        PROVE  (pc' # "down" /\ ~refused' => Somebody') /\ Senders'
    <3>1. UNCHANGED <<users, pc, run, token, history>>
      BY <2>7 DEF Serve, AskSelf, AskUpdate, AskDelete, Ask, Check, CheckFails, ActFails,
                  Become, keys
    <3>. QED BY <2>2, <3>1
  <2>. QED BY <2>1, <2>3, <2>4, <2>5, <2>6, <2>7 DEF AccountsNext
<1>. QED BY <1>1, <1>2, TokensInvariant, GhostsInvariant, RequestsInvariant, TableInvariant,
            ServiceInvariant, KnownInvariant, PTL DEF AccountsSpec

\* After every start, of any number, of a service with any users and requests,
\* somebody can log in unless the database refused the default account for
\* another reason than a row in its way, users are deleted in this start,
\* passwords or names were taken away, or a row the program cannot read has the
\* nil id or the name "admin".
THEOREM NobodyIsLockedOut == AccountsSpec => []SomebodyCanLogIn
<1>1. SomebodyInv => SomebodyCanLogIn
  BY DEF SomebodyInv, Somebody, SomebodyCanLogIn
<1>. QED BY <1>1, SomebodyInvariant, PTL

-----------------------------------------------------------------------------
(***************************************************************************)
(* Proofs about Upload: no byte of a part is lost, doubled or overtaken on *)
(* its way into the file, what was logged as saved is saved whole, and     *)
(* every step is one UploadPromise allows, for all bodies, capacities and  *)
(* numbers of faults.                                                      *)
(***************************************************************************)
-----------------------------------------------------------------------------
(***************************************************************************)
(* Offsets.  Offset is the value of a recursive function: that there is a  *)
(* function which meets the equations is shown by taking the least length  *)
(* for which there is none.                                                *)
(***************************************************************************)
\* A set of numbers has a least element.
LEMMA LeastNumber ==
    ASSUME NEW T \in SUBSET Nat, T # {}
    PROVE  \E m \in T : \A k \in T : m <= k
<1>. DEFINE R == {ss \in Nat \X Nat : ss[1] < ss[2]}
<1>1. IsWellFoundedOn(R, Nat)
  BY NatLessThanWellFounded DEF OpToRel
<1>2. \A k, m \in T : k < m => <<k, m>> \in R
  OBVIOUS
<1>. HIDE DEF R
<1>3. PICK m \in T : \A k \in T : ~(<<k, m>> \in R)
  BY <1>1, WFMin
<1>4. \A k \in T : ~(k < m)
  BY <1>2, <1>3
<1>. QED BY <1>4

\* f adds up the first n elements of c.
Adds(f, c, n) ==
    /\ f \in [0 .. n -> Nat]
    /\ f[0] = 0
    /\ \A i \in 1 .. n : f[i] = f[i - 1] + c[i]

\* The sum goes on.
LEMMA AddsOneMore ==
    ASSUME NEW c \in Seq(Nat), NEW n \in Nat, n + 1 <= Len(c), NEW f, Adds(f, c, n)
    PROVE  \E g : Adds(g, c, n + 1)
<1>. DEFINE g == [i \in 0 .. n + 1 |-> IF i = n + 1 THEN f[n] + c[n + 1] ELSE f[i]]
<1>1. f[n] \in Nat /\ c[n + 1] \in Nat
  BY DEF Adds
<1>2. g \in [0 .. n + 1 -> Nat]
  BY <1>1 DEF Adds
<1>3. g[0] = 0
  BY DEF Adds
<1>4. ASSUME NEW i \in 1 .. n + 1
      PROVE  g[i] = g[i - 1] + c[i]
  <2>1. CASE i = n + 1
    BY <2>1
  <2>2. CASE i # n + 1
    <3>1. i \in 1 .. n /\ i - 1 \in 0 .. n + 1 /\ i - 1 # n + 1
      BY <2>2
    <3>2. g[i] = f[i] /\ g[i - 1] = f[i - 1]
      BY <3>1, <2>2
    <3>. QED BY <3>1, <3>2 DEF Adds
  <2>. QED BY <2>1, <2>2
<1>. HIDE DEF g
<1>. QED BY <1>2, <1>3, <1>4 DEF Adds

LEMMA SumsExist ==
    ASSUME NEW c \in Seq(Nat), NEW n \in 0 .. Len(c)
    PROVE  \E f : Adds(f, c, n)
<1>. DEFINE T == {k \in 0 .. Len(c) : ~\E f : Adds(f, c, k)}
<1>. SUFFICES ASSUME T # {} PROVE FALSE
  OBVIOUS
<1>1. PICK m \in T : \A k \in T : m <= k
  <2>1. T \in SUBSET Nat
    OBVIOUS
  <2>. HIDE DEF T
  <2>. QED BY <2>1, LeastNumber
<1>2. m # 0
  <2>. DEFINE g == [i \in 0 .. 0 |-> 0]
  <2>1. Adds(g, c, 0)
    BY DEF Adds
  <2>. QED BY <2>1
<1>3. m - 1 \in 0 .. Len(c) /\ m - 1 \notin T /\ (m - 1) + 1 = m
  <2>1. m \in Nat /\ m <= Len(c) /\ Len(c) \in Nat
    OBVIOUS
  <2>2. m - 1 \in 0 .. Len(c) /\ ~(m <= m - 1) /\ (m - 1) + 1 = m
    BY ONLY <1>2, <2>1
  <2>. HIDE DEF T
  <2>. QED BY <1>1, <2>2
<1>4. PICK f : Adds(f, c, m - 1)
  BY <1>3
<1>5. \E g : Adds(g, c, m)
  <2>1. m - 1 \in Nat /\ (m - 1) + 1 <= Len(c)
    BY <1>3
  <2>2. \E g : Adds(g, c, (m - 1) + 1)
    BY <1>4, <2>1, AddsOneMore
  <2>. QED BY <1>3, <2>2
<1>. QED BY <1>5

\* The equations of Offset.
LEMMA OffsetFacts ==
    ASSUME NEW p \in Part
    PROVE  /\ Offset(p, 0) = 0
           /\ \A n \in 0 .. Len(p.chunks) : Offset(p, n) \in Nat
           /\ \A n \in 1 .. Len(p.chunks) :
                 Offset(p, n) = Offset(p, n - 1) + p.chunks[n]
<1>. DEFINE c == p.chunks
            D == 0 .. Len(c)
            Eq(f) == f = [i \in D |-> IF i = 0 THEN 0 ELSE f[i - 1] + c[i]]
            sum == CHOOSE f : Eq(f)
<1>1. c \in Seq(Nat) /\ Len(c) \in Nat
  BY DEF Part
<1>2. PICK f : Adds(f, c, Len(c))
  BY <1>1, SumsExist
<1>3. Eq(f)
  <2>1. \A i \in D : f[i] = IF i = 0 THEN 0 ELSE f[i - 1] + c[i]
    BY <1>1, <1>2 DEF Adds
  <2>2. f \in [D -> Nat]
    BY <1>2 DEF Adds
  <2>. QED BY <2>1, <2>2
<1>4. Eq(sum)
  BY <1>3
<1>5. \A n : Offset(p, n) = sum[n]
  BY DEF Offset
<1>. HIDE DEF c, sum
<1>6. sum[0] = 0
  BY <1>1, <1>4
<1>7. \A n \in 1 .. Len(c) : sum[n] = sum[n - 1] + c[n]
  BY <1>1, <1>4
<1>. DEFINE T == {k \in D : sum[k] \notin Nat}
<1>8. T = {}
  <2>. SUFFICES ASSUME T # {} PROVE FALSE
    OBVIOUS
  <2>1. PICK m \in T : \A k \in T : m <= k
    <3>1. T \in SUBSET Nat
      BY <1>1
    <3>. HIDE DEF T
    <3>. QED BY <3>1, LeastNumber
  <2>2. m # 0
    BY <1>6
  <2>3. m - 1 \in D /\ m - 1 \notin T /\ m \in 1 .. Len(c)
    BY <1>1, <2>1, <2>2
  <2>4. sum[m - 1] \in Nat /\ c[m] \in Nat
    BY <1>1, <2>3
  <2>. QED BY <1>7, <2>3, <2>4
<1>9. \A n \in D : sum[n] \in Nat
  BY <1>8
<1>. QED BY <1>5, <1>6, <1>7, <1>9 DEF c

-----------------------------------------------------------------------------
(***************************************************************************)
(* The invariant.                                                          *)
(***************************************************************************)
Byte == Nat \X Nat

Log == [part : Nat, size : Nat]

Types ==
    /\ parts \in Bodies
    /\ part \in 0 .. Len(parts) /\ handle \in 0 .. part /\ chunk \in Nat
    /\ sstate \in {"field", "reading", "done"}
    /\ ustate \in {"Reading", "Create", "Writting", "Flush", "Done"}
    /\ creating \in {"no", "begun", "made", "refused"}
    /\ rest \in Seq(Byte) /\ bytes \in Seq(Byte) /\ inflight \in Seq(Byte)
    /\ written \in Nat
    /\ disk \in [FileNames -> Seq(Byte)]
    /\ log \in Seq(Log)
    /\ answer \in {"none", "created", "dropped"}
    /\ faults \in 0 .. MaxFaults

Limits == Len(bytes) < Capacity /\ Len(inflight) <= FileMax

\* A part is on its way into its file.
Filling ==
    \/ ustate \in {"Writting", "Flush"}
    \/ ustate = "Reading" /\ sstate = "reading"

\* A part has been saved, or none was begun.
Between == ustate = "Reading" /\ sstate = "field"

\* What each state of Upload implies: nothing is left of a part that was saved
\* when the next one is begun.
States ==
    /\ answer # "none" => ustate = "Done"
    /\ sstate = "done" => ustate = "Done"
    /\ ustate = "Writting" => sstate = "reading"
    /\ ustate = "Flush" => sstate = "field"
    /\ ustate \in {"Reading", "Flush", "Create"} => rest = <<>>
    /\ Between \/ ustate = "Create" => bytes = <<>> /\ ~failed /\ written = 0
    /\ Between => handle = part /\ Len(log) = handle
    /\ ustate = "Create" =>
          sstate = "reading" /\ chunk = 0 /\ part = handle + 1 /\ Len(log) = handle
    /\ Filling => handle = part /\ part # 0 /\ Len(log) = handle - 1

\* The chunks of the part that is received, and its bytes so far.
Counts ==
    /\ (Filling \/ Between) /\ part # 0 =>
          /\ chunk \in 0 .. Len(parts[part].chunks)
          /\ sstate = "field" => chunk = Len(parts[part].chunks)
    /\ Filling => written + Len(rest) = Offset(parts[part], chunk)

\* The parts are saved one after the other, and what is saved is written.
Logged ==
    /\ Len(log) \in {handle, handle - 1}
    /\ Len(log) = handle => inflight = <<>>
    /\ \A i \in 1 .. Len(log) : log[i] = [part |-> i, size |-> Size(parts[i])]

\* The file of a part that was saved holds it, or a later one was taken up.
Saved ==
    \A i \in 1 .. Len(log) :
        \/ disk[parts[i].name] = Content(parts, i)
        \/ \E q \in i + 1 .. part : parts[q].name = parts[i].name /\ parts[q].header = "good"

\* The part that was taken up last, and the file that is created for it, perhaps
\* when the upload is over.
Opened ==
    /\ part = handle \/ (part = handle + 1 /\ Len(log) = handle)
    /\ \A i \in 1 .. handle : parts[i].header = "good"
    /\ ustate = "Create" => creating # "no"
    /\ creating # "no" =>
          /\ ustate \in {"Create", "Done"}
          /\ part = handle + 1 /\ Len(log) = handle
          /\ parts[part].header = "good"
    /\ creating = "made" => disk[parts[part].name] = <<>>

\* What is on disk, in the File, in the Buffer, in hand and still to come.
Line == disk[parts[part].name] \o inflight \o bytes \o rest \o Unread

Complete == Filling /\ ~failed => Line = Content(parts, part)

\* The inductive invariant.
UploadInv ==
    Types /\ Limits /\ States /\ Counts /\ Logged /\ Saved /\ Opened /\ Complete

-----------------------------------------------------------------------------
(***************************************************************************)
(* Bytes and sequences.                                                    *)
(***************************************************************************)
\* What was received of a part is not more than there is.
LEMMA OffsetInSize ==
    ASSUME NEW p \in Part, NEW n \in 0 .. Len(p.chunks)
    PROVE  Offset(p, n) <= Size(p)
<1>. DEFINE N == Len(p.chunks)
            T == {k \in Nat : k <= N /\ ~(Offset(p, N - k) <= Size(p))}
<1>1. N \in Nat /\ p.chunks \in Seq(Nat)
  BY DEF Part
<1>2. Offset(p, N) = Size(p) /\ Size(p) \in Nat
  BY <1>1, OffsetFacts DEF Size
<1>3. T = {}
  <2>. SUFFICES ASSUME T # {} PROVE FALSE
    OBVIOUS
  <2>1. T \in SUBSET Nat
    OBVIOUS
  <2>2. PICK m \in T : \A k \in T : m <= k
    <3>. HIDE DEF T
    <3>. QED BY <2>1, LeastNumber
  <2>3. m \in Nat /\ m <= N /\ ~(Offset(p, N - m) <= Size(p))
    OBVIOUS
  <2>. DEFINE j == N - (m - 1)
  <2>4. m # 0
    <3>. SUFFICES ASSUME m = 0 PROVE FALSE
      OBVIOUS
    <3>1. N - m = N
      BY <1>1
    <3>. QED BY <1>2, <2>3, <3>1
  <2>5. /\ m - 1 \in Nat /\ m - 1 <= N /\ ~(m <= m - 1)
        /\ j \in 1 .. N /\ j - 1 = N - m /\ N - (m - 1) = j /\ j - 1 \in 0 .. N
    BY <1>1, <2>3, <2>4
  <2>6. Offset(p, j) <= Size(p)
    BY <2>2, <2>5
  <2>. HIDE DEF j, T
  <2>7. Offset(p, j) = Offset(p, j - 1) + p.chunks[j]
    BY <2>5, OffsetFacts
  <2>8. Offset(p, j - 1) \in Nat /\ p.chunks[j] \in Nat
    <3>1. \A i \in 0 .. N : Offset(p, i) \in Nat
      BY OffsetFacts
    <3>2. Offset(p, j - 1) \in Nat
      BY <2>5, <3>1
    <3>. QED BY <1>1, <2>5, <3>2
  <2>9. Offset(p, j - 1) <= Size(p)
    BY <1>2, <2>6, <2>7, <2>8
  <2>. QED BY <2>3, <2>5, <2>9
<1>4. N - n \in Nat /\ N - n <= N /\ N - (N - n) = n
  BY <1>1
<1>5. N - n \notin T
  BY <1>3
<1>. QED BY <1>4, <1>5

\* The bytes after the first a of a part, up to the b-th.
Span(p, a, b) == Bytes(p, a + 1, b)

LEMMA BytesFacts ==
    ASSUME NEW p \in Nat, NEW a \in Nat, NEW b \in Nat, a <= b
    PROVE  /\ Span(p, a, b) \in Seq(Byte)
           /\ Len(Span(p, a, b)) = b - a
           /\ \A i \in 1 .. b - a : Span(p, a, b)[i] = <<p, a + i>>
<1>1. b - (a + 1) + 1 = b - a /\ b - a \in Nat
  OBVIOUS
<1>2. Bytes(p, a + 1, b) = [i \in 1 .. b - a |-> <<p, (a + 1) + i - 1>>]
  BY <1>1 DEF Bytes
<1>3. \A i \in 1 .. b - a : (a + 1) + i - 1 = a + i /\ <<p, a + i>> \in Byte
  BY DEF Byte
<1>4. Bytes(p, a + 1, b) = [i \in 1 .. b - a |-> <<p, a + i>>]
  BY <1>2, <1>3
<1>. DEFINE k == b - a
            s == [i \in 1 .. k |-> <<p, a + i>>]
<1>5. k \in Nat /\ s \in [1 .. k -> Byte]
  BY <1>1, <1>3
<1>6. \A i \in 1 .. k : s[i] = <<p, a + i>>
  OBVIOUS
<1>7. s = Bytes(p, a + 1, b)
  BY <1>4
<1>. HIDE DEF s
<1>8. s \in Seq(Byte) /\ Len(s) = k
  <2>. HIDE DEF k
  <2>. QED BY <1>5
<1>. QED BY <1>6, <1>7, <1>8 DEF Span

\* What is received next and what is still to come after it.
LEMMA BytesSplit ==
    ASSUME NEW p \in Nat, NEW a \in Nat, NEW b \in Nat, NEW c \in Nat, a <= b, b <= c
    PROVE  Span(p, a, b) \o Span(p, b, c) = Span(p, a, c)
<1>. DEFINE s == Span(p, a, b)
            t == Span(p, b, c)
            u == Span(p, a, c)
<1>1. a <= c
  OBVIOUS
<1>2. /\ s \in Seq(Byte) /\ Len(s) = b - a
      /\ \A i \in 1 .. b - a : s[i] = <<p, a + i>>
  BY BytesFacts
<1>3. /\ t \in Seq(Byte) /\ Len(t) = c - b
      /\ \A i \in 1 .. c - b : t[i] = <<p, b + i>>
  BY BytesFacts
<1>4. /\ u \in Seq(Byte) /\ Len(u) = c - a
      /\ \A i \in 1 .. c - a : u[i] = <<p, a + i>>
  BY <1>1, BytesFacts
<1>. HIDE DEF s, t, u
<1>5. /\ s \o t \in Seq(Byte) /\ Len(s \o t) = Len(s) + Len(t)
      /\ \A i \in 1 .. Len(s) + Len(t) :
            (s \o t)[i] = IF i <= Len(s) THEN s[i] ELSE t[i - Len(s)]
  BY <1>2, <1>3, ConcatProperties
<1>6. Len(s \o t) = Len(u)
  BY <1>2, <1>3, <1>4, <1>5
<1>7. ASSUME NEW i \in 1 .. Len(s \o t)
      PROVE  (s \o t)[i] = u[i]
  <2>1. i \in 1 .. c - a
    BY <1>4, <1>6
  <2>2. CASE i <= b - a
    <3>1. i \in 1 .. b - a
      BY <2>1, <2>2
    <3>2. (s \o t)[i] = s[i]
      BY <1>2, <1>3, <1>5, <2>2
    <3>. QED BY <1>2, <1>4, <2>1, <3>1, <3>2
  <2>3. CASE ~(i <= b - a)
    <3>1. i - (b - a) \in 1 .. c - b /\ b + (i - (b - a)) = a + i
      BY <2>1, <2>3
    <3>2. t[i - (b - a)] = <<p, a + i>>
      BY <1>3, <3>1
    <3>3. (s \o t)[i] = t[i - (b - a)]
      BY <1>2, <1>3, <1>5, <2>3
    <3>. QED BY <1>4, <2>1, <3>2, <3>3
  <2>. QED BY <2>2, <2>3
<1>8. s \o t = u
  BY <1>4, <1>5, <1>6, <1>7, SeqEqual
<1>. QED BY <1>8 DEF s, t, u

\* Nothing is left of a part of which all has come.
LEMMA NoBytes ==
    ASSUME NEW p \in Nat, NEW a \in Nat
    PROVE  Span(p, a, a) = <<>>
<1>1. Span(p, a, a) \in Seq(Byte) /\ Len(Span(p, a, a)) = 0
  <2>1. a <= a /\ a - a = 0
    OBVIOUS
  <2>2. Span(p, a, a) \in Seq(Byte) /\ Len(Span(p, a, a)) = a - a
    BY <2>1, BytesFacts
  <2>. QED BY <2>1, <2>2
<1>. QED BY <1>1

\* Concatenation is associative.
Leftmost(s, t, u) == (s \o t) \o u

Rightmost(s, t, u) == s \o (t \o u)

LEMMA Regroup ==
    ASSUME NEW s \in Seq(Byte), NEW t \in Seq(Byte), NEW u \in Seq(Byte)
    PROVE  Leftmost(s, t, u) = Rightmost(s, t, u)
BY ConcatAssociative DEF Leftmost, Rightmost

\* What File takes of a sequence, and what is left of it.
LEMMA PassFacts ==
    ASSUME NEW s \in Seq(Byte)
    PROVE  /\ Taken(s) \in 0 .. Len(s) /\ Taken(s) <= FileMax
           /\ SubSeq(s, 1, Taken(s)) \in Seq(Byte)
           /\ Len(SubSeq(s, 1, Taken(s))) = Taken(s)
           /\ Advance(s) \in Seq(Byte)
           /\ Len(Advance(s)) = Len(s) - Taken(s)
           /\ SubSeq(s, 1, Taken(s)) \o Advance(s) = s
<1>. DEFINE k == Taken(s)
<1>1. k \in 0 .. Len(s) /\ k <= FileMax /\ Len(s) \in Nat
  BY CapacityAssumption DEF Taken
<1>. HIDE DEF k
<1>2. SubSeq(s, 1, k) \in Seq(Byte) /\ Len(SubSeq(s, 1, k)) = k
  BY <1>1
<1>3. /\ SubSeq(s, k + 1, Len(s)) \in Seq(Byte)
      /\ Len(SubSeq(s, k + 1, Len(s))) = Len(s) - k
  BY <1>1
<1>4. SubSeq(s, 1, k) \o SubSeq(s, k + 1, Len(s)) = s
  <2>1. SubSeq(s, 1, k) \o SubSeq(s, k + 1, Len(s)) = SubSeq(s, 1, Len(s))
    <3>1. 1 \in 1 .. Len(s) + 1 /\ k \in 1 - 1 .. Len(s) /\ Len(s) \in k .. Len(s)
      BY <1>1
    <3>. QED BY <3>1, ConcatAdjacentSubSeq
  <2>2. SubSeq(s, 1, Len(s)) = s
    BY SubSeqFull
  <2>. QED BY <2>1, <2>2
<1>. QED BY <1>1, <1>2, <1>3, <1>4 DEF k, Advance

-----------------------------------------------------------------------------
(***************************************************************************)
(* The steps.                                                              *)
(***************************************************************************)
\* A body is a sequence of parts.
LEMMA PartFacts ==
    ASSUME parts \in Bodies
    PROVE  /\ parts \in Seq(Part) /\ Len(parts) \in Nat
           /\ \A i \in 1 .. Len(parts) :
                 /\ parts[i] \in Part /\ parts[i].name \in FileNames
                 /\ parts[i].chunks \in Seq(Nat) /\ Len(parts[i].chunks) \in Nat
                 /\ Size(parts[i]) \in Nat
<1>1. parts \in Seq(Part)
  BY BodiesAssumption
<1>2. ASSUME NEW i \in 1 .. Len(parts)
      PROVE  /\ parts[i] \in Part /\ parts[i].name \in FileNames
             /\ parts[i].chunks \in Seq(Nat) /\ Len(parts[i].chunks) \in Nat
             /\ Size(parts[i]) \in Nat
  <2>1. parts[i] \in Part
    BY <1>1
  <2>2. parts[i].name \in FileNames /\ parts[i].chunks \in Seq(Nat)
    BY <2>1 DEF Part
  <2>3. Len(parts[i].chunks) \in Nat
    BY <2>2
  <2>4. \A n \in 0 .. Len(parts[i].chunks) : Offset(parts[i], n) \in Nat
    BY <2>1, OffsetFacts
  <2>. QED BY <2>1, <2>2, <2>3, <2>4 DEF Size
<1>. QED BY <1>1, <1>2

\* The first state.
LEMMA Begins == Init => UploadInv
<1>. SUFFICES ASSUME Init PROVE UploadInv
  OBVIOUS
<1>1. Len(parts) \in Nat
  BY PartFacts DEF Init
<1>2. <<>> \in Seq(Byte) /\ <<>> \in Seq(Log) /\ Len(<<>>) = 0
  OBVIOUS
<1>3. Types /\ Limits
  BY <1>1, <1>2, CapacityAssumption DEF Init, Types, Limits
<1>4. States /\ Counts /\ Complete
  BY DEF Init, States, Counts, Complete, Filling, Between
<1>5. Logged /\ Saved /\ Opened
  BY <1>2 DEF Init, Logged, Saved, Opened
<1>. QED BY <1>3, <1>4, <1>5 DEF UploadInv

\* What was saved stays as long as neither the log nor a file changes.
LEMMA SavedStays ==
    ASSUME Saved, UNCHANGED <<parts, log, disk>>,
           part' = part \/ (part \in Nat /\ part' = part + 1)
    PROVE  Saved'
<1>1. \A i \in Nat : \A q \in i + 1 .. part : q \in i + 1 .. part'
  OBVIOUS
<1>. QED BY <1>1 DEF Saved, Content

\* So does what was taken up, when no file is created or asked for.
LEMMA OpenedStays ==
    ASSUME Opened, UNCHANGED <<parts, part, handle, log, creating, disk>>,
           \/ ustate' = ustate
           \/ ustate' = "Done"
           \/ ustate \notin {"Create", "Done"} /\ ustate' # "Create"
    PROVE  Opened'
BY DEF Opened

\* The same of the log, and the bytes that are written.
LEMMA LoggedStays ==
    ASSUME Logged, UNCHANGED <<parts, log, handle>>,
           inflight' = inflight \/ inflight' = <<>> \/ Len(log) # handle
    PROVE  Logged'
BY DEF Logged

\* A step after which the upload is over.
LEMMA EndingKeeps ==
    ASSUME UploadInv,
           \/ ReadRefused \/ ReadEnd \/ ReadFails \/ CreateFails
           \/ WriteFails \/ FlushFails \/ HangUp
    PROVE  UploadInv'
<1>1. /\ UNCHANGED <<parts, log, handle, disk, inflight, written, chunk>>
      /\ ustate' = "Done"
      /\ creating' \in {creating, "no"}
      /\ \/ part' = part
         \/ part < Len(parts) /\ part' = part + 1 /\ Between /\ creating' = creating
      /\ rest' = rest \/ rest' = <<>>
      /\ bytes' = bytes \/ bytes' = <<>>
      /\ sstate' \in {sstate, "field", "done"}
      /\ answer' \in {answer, "dropped"}
      /\ faults' = faults \/ (faults < MaxFaults /\ faults' = faults + 1)
  <2>. USE DEF Fail, Fault, stream, buffer, file, handler
  <2>1. CASE ReadRefused
    BY <2>1 DEF ReadRefused, Reading, Between
  <2>2. CASE ReadEnd
    BY <2>2 DEF ReadEnd, Reading
  <2>3. CASE ReadFails
    BY <2>3 DEF ReadFails
  <2>4. CASE CreateFails
    BY <2>4 DEF CreateFails
  <2>5. CASE WriteFails
    BY <2>5 DEF WriteFails
  <2>6. CASE FlushFails
    BY <2>6 DEF FlushFails
  <2>7. CASE HangUp
    BY <2>7 DEF HangUp
  <2>. QED BY <2>1, <2>2, <2>3, <2>4, <2>5, <2>6, <2>7
<1>2. Types'
  <2>1. /\ Len(parts) \in Nat /\ part \in 0 .. Len(parts) /\ handle \in 0 .. part
        /\ faults \in 0 .. MaxFaults
    BY PartFacts DEF UploadInv, Types
  <2>2. part' \in 0 .. Len(parts) /\ handle \in 0 .. part'
    BY <1>1, <2>1
  <2>3. rest' \in Seq(Byte) /\ bytes' \in Seq(Byte)
    <3>1. <<>> \in Seq(Byte)
      OBVIOUS
    <3>2. rest \in Seq(Byte) /\ bytes \in Seq(Byte)
      BY DEF UploadInv, Types
    <3>. QED BY <1>1, <3>1, <3>2
  <2>4. faults' \in 0 .. MaxFaults
    BY <1>1, <2>1, CapacityAssumption
  <2>. QED BY <1>1, <2>2, <2>3, <2>4 DEF UploadInv, Types
<1>3. Limits'
  BY <1>1, CapacityAssumption DEF UploadInv, Limits
<1>4. States' /\ Counts' /\ Complete'
  BY <1>1 DEF States, Counts, Complete, Filling, Between
<1>5. Logged' /\ Saved'
  <2>1. part \in Nat
    BY PartFacts DEF UploadInv, Types
  <2>. QED BY <1>1, <2>1, LoggedStays, SavedStays DEF UploadInv
<1>6. Opened'
  <2>1. CASE part' = part /\ creating' = creating
    BY <1>1, <2>1, OpenedStays DEF UploadInv
  <2>2. CASE part' = part /\ creating' = "no"
    BY <1>1, <2>2 DEF UploadInv, Opened
  <2>3. CASE part' = part + 1 /\ Between /\ creating' = creating
    <3>1. handle = part /\ Len(log) = handle /\ creating = "no"
      BY <2>3 DEF UploadInv, States, Opened, Between
    <3>. QED BY <1>1, <2>3, <3>1 DEF UploadInv, Opened
  <2>. QED BY <1>1, <2>1, <2>2, <2>3
<1>. QED BY <1>2, <1>3, <1>4, <1>5, <1>6 DEF UploadInv

\* The answer to an upload that is over.
LEMMA AnswerKeeps ==
    ASSUME UploadInv, Answer
    PROVE  UploadInv'
<1>. USE DEF Answer, stream, buffer, file
<1>1. Types' /\ Limits'
  BY DEF UploadInv, Types, Limits
<1>2. States' /\ Counts' /\ Complete'
  BY DEF States, Counts, Complete, Filling, Between
<1>3. Logged' /\ Saved' /\ Opened'
  BY LoggedStays, SavedStays, OpenedStays DEF UploadInv
<1>. QED BY <1>1, <1>2, <1>3 DEF UploadInv

\* A new part: nothing of the one before is left.
LEMMA ReadNewKeeps ==
    ASSUME UploadInv, ReadNew
    PROVE  UploadInv'
<1>1. /\ UNCHANGED <<parts, rest, handle, bytes, written, inflight, failed, disk,
                     log, answer, faults>>
      /\ ustate = "Reading" /\ sstate = "field" /\ answer = "none"
      /\ part < Len(parts) /\ part' = part + 1 /\ chunk' = 0
      /\ parts[part + 1].header = "good"
      /\ sstate' = "reading" /\ ustate' = "Create" /\ creating' = "begun"
  BY DEF ReadNew, Reading, buffer, handler
<1>2. Types'
  <2>1. Len(parts) \in Nat /\ part \in 0 .. Len(parts) /\ handle \in 0 .. part
    BY PartFacts DEF UploadInv, Types
  <2>2. part' \in 0 .. Len(parts) /\ handle \in 0 .. part'
    BY <1>1, <2>1
  <2>. QED BY <1>1, <2>2 DEF UploadInv, Types
<1>3. Limits'
  BY <1>1 DEF UploadInv, Limits
<1>4. States' /\ Counts' /\ Complete'
  BY <1>1 DEF UploadInv, States, Counts, Complete, Filling, Between
<1>5. Logged' /\ Saved'
  <2>1. part \in Nat
    BY PartFacts DEF UploadInv, Types
  <2>. QED BY <1>1, <2>1, LoggedStays, SavedStays DEF UploadInv
<1>6. Opened'
  <2>1. handle = part /\ Len(log) = handle
    BY <1>1 DEF UploadInv, States, Between
  <2>. QED BY <1>1, <2>1 DEF UploadInv, Opened
<1>. QED BY <1>2, <1>3, <1>4, <1>5, <1>6 DEF UploadInv

\* Its file is created, perhaps when the upload is over: what was saved under
\* its name has a later part.
LEMMA DiskCreatesKeeps ==
    ASSUME UploadInv, DiskCreates
    PROVE  UploadInv'
<1>1. /\ UNCHANGED <<parts, part, chunk, sstate, ustate, rest, handle, bytes, written,
                     inflight, failed, log, answer, faults>>
      /\ creating = "begun" /\ creating' = "made"
      /\ disk' = [disk EXCEPT ![parts[part].name] = <<>>]
  BY DEF DiskCreates, stream, buffer, handler
<1>2. /\ ustate \in {"Create", "Done"} /\ part = handle + 1 /\ Len(log) = handle
      /\ parts[part].header = "good"
  BY <1>1 DEF UploadInv, Opened
<1>3. /\ Len(parts) \in Nat /\ part \in 1 .. Len(parts) /\ handle \in Nat
      /\ parts[part].name \in FileNames
  <2>1. /\ Len(parts) \in Nat /\ part \in 0 .. Len(parts) /\ handle \in 0 .. part
    BY PartFacts DEF UploadInv, Types
  <2>2. part \in 1 .. Len(parts) /\ handle \in Nat
    BY <1>2, <2>1
  <2>. QED BY <2>1, <2>2, PartFacts DEF UploadInv, Types
<1>4. /\ disk' \in [FileNames -> Seq(Byte)] /\ disk'[parts[part].name] = <<>>
      /\ \A n \in FileNames : n # parts[part].name => disk'[n] = disk[n]
  <2>1. <<>> \in Seq(Byte)
    OBVIOUS
  <2>. QED BY <1>1, <1>3, <2>1 DEF UploadInv, Types
<1>5. Types' /\ Limits'
  BY <1>1, <1>4 DEF UploadInv, Types, Limits
<1>6. States' /\ Counts'
  BY <1>1 DEF UploadInv, States, Counts, Filling, Between
<1>7. Logged' /\ Opened'
  BY <1>1, <1>2, <1>4 DEF UploadInv, Logged, Opened
<1>8. Saved'
  <2>. SUFFICES ASSUME NEW i \in 1 .. Len(log)
                PROVE  \/ disk'[parts[i].name] = Content(parts, i)
                       \/ \E q \in i + 1 .. part :
                             parts[q].name = parts[i].name /\ parts[q].header = "good"
    BY <1>1 DEF Saved, Content
  <2>1. part \in i + 1 .. part /\ i \in 1 .. Len(parts)
    BY <1>2, <1>3
  <2>2. parts[i].name \in FileNames
    BY <2>1, PartFacts DEF UploadInv, Types
  <2>3. CASE parts[i].name = parts[part].name
    BY <1>2, <2>1, <2>3
  <2>4. CASE parts[i].name # parts[part].name
    <3>1. disk'[parts[i].name] = disk[parts[i].name]
      BY <1>4, <2>2, <2>4
    <3>. QED BY <3>1 DEF UploadInv, Saved
  <2>. QED BY <2>3, <2>4
<1>9. Complete'
  BY <1>1, <1>2 DEF Complete, Filling
<1>. QED BY <1>5, <1>6, <1>7, <1>8, <1>9 DEF UploadInv

\* It is refused.
LEMMA DiskRefusesKeeps ==
    ASSUME UploadInv, DiskRefuses
    PROVE  UploadInv'
<1>1. /\ UNCHANGED <<parts, part, chunk, sstate, ustate, rest, handle, bytes, written,
                     inflight, failed, disk, log, answer>>
      /\ creating = "begun" /\ creating' = "refused"
      /\ faults < MaxFaults /\ faults' = faults + 1
  BY DEF DiskRefuses, Fault, stream, buffer, handler
<1>2. Types' /\ Limits'
  BY <1>1, CapacityAssumption DEF UploadInv, Types, Limits
<1>3. States' /\ Counts' /\ Opened'
  BY <1>1 DEF UploadInv, States, Counts, Opened, Filling, Between
<1>4. Logged' /\ Saved'
  BY <1>1, LoggedStays, SavedStays DEF UploadInv
<1>5. Complete'
  BY <1>1 DEF UploadInv, Opened, Complete, Filling
<1>. QED BY <1>2, <1>3, <1>4, <1>5 DEF UploadInv

\* The upload goes on with it.
LEMMA CreateFileKeeps ==
    ASSUME UploadInv, CreateFile
    PROVE  UploadInv'
<1>1. /\ UNCHANGED <<parts, part, chunk, sstate, rest, written, inflight, failed,
                     disk, log, answer, faults>>
      /\ ustate = "Create" /\ answer = "none" /\ ustate' = "Reading"
      /\ creating = "made" /\ creating' = "no"
      /\ handle' = part /\ bytes' = <<>>
  BY DEF CreateFile, stream, handler
<1>2. /\ rest = <<>> /\ bytes = <<>> /\ ~failed /\ written = 0
      /\ sstate = "reading" /\ chunk = 0 /\ part = handle + 1 /\ Len(log) = handle
  BY <1>1 DEF UploadInv, States
<1>3. /\ Len(parts) \in Nat /\ part \in 1 .. Len(parts) /\ handle \in Nat
      /\ parts[part] \in Part /\ parts[part].name \in FileNames
      /\ Len(parts[part].chunks) \in Nat /\ Size(parts[part]) \in Nat
  <2>1. /\ Len(parts) \in Nat /\ part \in 0 .. Len(parts) /\ handle \in 0 .. part
    BY PartFacts DEF UploadInv, Types
  <2>2. part \in 1 .. Len(parts) /\ handle \in Nat
    BY <1>2, <2>1
  <2>. QED BY <2>1, <2>2, PartFacts DEF UploadInv, Types
<1>4. inflight = <<>>
  BY <1>2 DEF UploadInv, Logged
<1>5. <<>> \in Seq(Byte) /\ Len(<<>>) = 0
  OBVIOUS
<1>6. disk'[parts[part].name] = <<>> /\ parts[part].header = "good"
  BY <1>1 DEF UploadInv, Opened
<1>7. Types'
  <2>1. handle' \in 0 .. part
    BY <1>1, <1>3
  <2>. QED BY <1>1, <1>5, <2>1 DEF UploadInv, Types
<1>8. Limits'
  BY <1>1, <1>5, CapacityAssumption DEF UploadInv, Limits
<1>9. States'
  <2>1. part # 0 /\ Len(log) = part - 1
    BY <1>2, <1>3
  <2>. QED BY <1>1, <1>2, <2>1 DEF UploadInv, States, Filling, Between
<1>10. Counts'
  <2>1. Offset(parts[part], 0) = 0
    BY <1>3, OffsetFacts
  <2>2. 0 \in 0 .. Len(parts[part].chunks)
    BY <1>3
  <2>. QED BY <1>1, <1>2, <1>5, <2>1, <2>2 DEF Counts, Filling, Between
<1>11. Logged'
  BY <1>1, <1>2, <1>3, <1>4 DEF UploadInv, Logged
<1>12. Saved' /\ Opened'
  <2>1. \A i \in 1 .. part : i \in 1 .. handle \/ i = part
    BY <1>2, <1>3
  <2>. QED BY <1>1, <1>6, <2>1, SavedStays DEF UploadInv, Opened
<1>13. Complete'
  <2>. DEFINE U == Span(part, 0, Size(parts[part]))
  <2>1. Unread' = U /\ Content(parts', part') = U
    <3>1. Offset(parts[part], 0) = 0 /\ 0 + 1 = 1
      BY <1>3, OffsetFacts
    <3>. QED BY <1>1, <1>2, <3>1 DEF Unread, Content, Span
  <2>2. U \in Seq(Byte)
    <3>1. part \in Nat /\ 0 \in Nat /\ 0 <= Size(parts[part])
      BY <1>3
    <3>. QED BY <1>3, <3>1, BytesFacts
  <2>. HIDE DEF U
  <2>3. <<>> \o <<>> \o <<>> \o <<>> \o U = U
    BY <1>5, <2>2, ConcatEmptySeq
  <2>4. Line' = U
    BY <1>1, <1>2, <1>4, <1>6, <2>1, <2>3 DEF Line
  <2>. QED BY <2>1, <2>4 DEF Complete
<1>. QED BY <1>7, <1>8, <1>9, <1>10, <1>11, <1>12, <1>13 DEF UploadInv

\* What is known of the part that is on its way.
LEMMA FillingFacts ==
    ASSUME UploadInv, Filling
    PROVE  /\ part \in Nat /\ part \in 1 .. Len(parts) /\ handle = part /\ Len(log) = part - 1
           /\ Len(log) # handle
           /\ parts[part] \in Part /\ parts[part].name \in FileNames
           /\ Size(parts[part]) \in Nat
           /\ chunk \in 0 .. Len(parts[part].chunks) /\ Len(parts[part].chunks) \in Nat
           /\ Offset(parts[part], chunk) \in 0 .. Size(parts[part])
           /\ Unread \in Seq(Byte)
           /\ disk[parts[part].name] \in Seq(Byte)
<1>1. handle = part /\ part # 0 /\ Len(log) = handle - 1
  BY DEF UploadInv, States
<1>2. part \in 1 .. Len(parts) /\ Len(parts) \in Nat
  BY <1>1, PartFacts DEF UploadInv, Types
<1>3. /\ parts[part] \in Part /\ parts[part].name \in FileNames
      /\ Len(parts[part].chunks) \in Nat /\ Size(parts[part]) \in Nat
  BY <1>2, PartFacts DEF UploadInv, Types
<1>4. chunk \in 0 .. Len(parts[part].chunks)
  BY <1>1 DEF UploadInv, Counts
<1>5. Offset(parts[part], chunk) \in Nat
  BY <1>3, <1>4, OffsetFacts
<1>6. Offset(parts[part], chunk) <= Size(parts[part])
  BY <1>3, <1>4, OffsetInSize
<1>7. Unread \in Seq(Byte)
  <2>. DEFINE a == Offset(parts[part], chunk)
  <2>1. a \in Nat /\ a <= Size(parts[part]) /\ part \in Nat
    BY <1>2, <1>5, <1>6
  <2>. HIDE DEF a
  <2>2. Span(part, a, Size(parts[part])) \in Seq(Byte)
    BY <1>3, <2>1, BytesFacts
  <2>. QED BY <2>2 DEF Unread, Span, a
<1>8. disk[parts[part].name] \in Seq(Byte)
  BY <1>3 DEF UploadInv, Types
<1>. QED BY <1>1, <1>2, <1>3, <1>4, <1>5, <1>6, <1>7, <1>8

\* The file, and what is between it and the body.
Held(i, b, r) == i \o b \o r

Joined(d, i, b, r) == d \o i \o b \o r

Pieced(d, i, b, r) == d \o Held(i, b, r)

LEMMA Pieces ==
    ASSUME NEW d \in Seq(Byte), NEW i \in Seq(Byte), NEW b \in Seq(Byte),
           NEW r \in Seq(Byte)
    PROVE  Joined(d, i, b, r) = Pieced(d, i, b, r)
<1>1. i \o b \in Seq(Byte)
  OBVIOUS
<1>2. Leftmost(d, i, b) = Rightmost(d, i, b)
  BY Regroup
<1>3. Leftmost(d, i \o b, r) = Rightmost(d, i \o b, r)
  BY <1>1, Regroup
<1>. QED BY <1>2, <1>3 DEF Joined, Pieced, Held, Leftmost, Rightmost

\* Bytes move on without a change of their order.
LEMMA MovingKeeps ==
    ASSUME UploadInv, Filling,
           UNCHANGED <<parts, part, chunk, sstate, handle, creating, failed, disk, log,
                       answer, faults>>,
           rest' \in Seq(Byte), bytes' \in Seq(Byte), inflight' \in Seq(Byte),
           Len(inflight') <= FileMax, Len(bytes') < Capacity,
           written' \in Nat, written' + Len(rest') = written + Len(rest),
           \/ ustate' = ustate /\ (ustate = "Flush" => rest' = rest)
           \/ ustate' = "Reading" /\ ustate = "Writting" /\ rest' = <<>>,
           ustate # "Reading",
           Held(inflight', bytes', rest') = Held(inflight, bytes, rest)
    PROVE  UploadInv'
<1>1. Len(log) # handle /\ handle = part /\ Len(log) = handle - 1 /\ part # 0
  BY FillingFacts
<1>2. Types'
  BY DEF UploadInv, Types
<1>3. Limits'
  BY DEF Limits
<1>4. Filling'
  BY DEF Filling, UploadInv, States
<1>5. States'
  BY <1>1, <1>4 DEF UploadInv, States, Filling, Between
<1>6. Counts'
  BY <1>4 DEF UploadInv, Counts
<1>7. Logged' /\ Saved' /\ Opened'
  BY <1>1, LoggedStays, SavedStays, OpenedStays DEF UploadInv
<1>8. Complete'
  <2>. DEFINE onDisk == disk[parts[part].name]
  <2>1. Unread' = Unread /\ onDisk' = onDisk
    BY DEF Unread
  <2>2. onDisk \in Seq(Byte)
    BY FillingFacts
  <2>3. rest \in Seq(Byte) /\ bytes \in Seq(Byte) /\ inflight \in Seq(Byte)
    BY DEF UploadInv, Types
  <2>4. inflight' \in Seq(Byte) /\ bytes' \in Seq(Byte) /\ rest' \in Seq(Byte)
    OBVIOUS
  <2>5. Line = Joined(onDisk, inflight, bytes, rest) \o Unread
    BY DEF Line, Joined
  <2>6. Line' = Joined(onDisk, inflight', bytes', rest') \o Unread
    BY <2>1 DEF Line, Joined
  <2>. HIDE DEF onDisk
  <2>7. Joined(onDisk, inflight, bytes, rest) = Pieced(onDisk, inflight, bytes, rest)
    BY ONLY <2>2, <2>3, Pieces
  <2>8. Joined(onDisk, inflight', bytes', rest') = Pieced(onDisk, inflight', bytes', rest')
    BY ONLY <2>2, <2>4, Pieces
  <2>9. Pieced(onDisk, inflight', bytes', rest') = Pieced(onDisk, inflight, bytes, rest)
    BY DEF Pieced
  <2>10. Line' = Line
    BY <2>5, <2>6, <2>7, <2>8, <2>9
  <2>. QED BY <2>10 DEF UploadInv, Complete, Content
<1>. QED BY <1>2, <1>3, <1>5, <1>6, <1>7, <1>8 DEF UploadInv

\* The Buffer is emptied into the File, before a write or for a flush.
LEMMA EmptyingKeeps ==
    ASSUME UploadInv, WriteFlush \/ FlushBuffer
    PROVE  UploadInv'
<1>1. /\ UNCHANGED <<parts, part, chunk, sstate, ustate, rest, handle, written,
                     creating, failed, disk, log, answer, faults>>
      /\ ustate \in {"Writting", "Flush"} /\ inflight = <<>>
      /\ inflight' = SubSeq(bytes, 1, Taken(bytes))
      /\ bytes' = Advance(bytes)
  <2>. USE DEF Pass, FileReady, stream, handler
  <2>1. CASE WriteFlush
    BY <2>1 DEF WriteFlush, Writing
  <2>2. CASE FlushBuffer
    BY <2>2 DEF FlushBuffer, Flushing
  <2>. QED BY <2>1, <2>2
<1>2. bytes \in Seq(Byte) /\ rest \in Seq(Byte) /\ written \in Nat /\ Len(bytes) < Capacity
  BY DEF UploadInv, Types, Limits
<1>3. /\ Taken(bytes) \in 0 .. Len(bytes) /\ Taken(bytes) <= FileMax
      /\ inflight' \in Seq(Byte) /\ Len(inflight') = Taken(bytes)
      /\ bytes' \in Seq(Byte) /\ Len(bytes') = Len(bytes) - Taken(bytes)
      /\ inflight' \o bytes' = bytes
  BY <1>1, <1>2, PassFacts
<1>4. inflight \o bytes = bytes
  BY <1>1, <1>2, ConcatEmptySeq
<1>5. Held(inflight', bytes', rest') = Held(inflight, bytes, rest)
  BY <1>1, <1>3, <1>4 DEF Held
<1>6. Len(inflight') <= FileMax /\ Len(bytes') < Capacity
  BY <1>2, <1>3, CapacityAssumption
<1>7. Filling
  BY <1>1 DEF Filling
<1>8. rest' \in Seq(Byte) /\ written' \in Nat /\ written' + Len(rest') = written + Len(rest)
  BY <1>1, <1>2
<1>. QED BY <1>1, <1>3, <1>5, <1>6, <1>7, <1>8, MovingKeeps

\* Bytes that are written past the Buffer.
LEMMA WriteDirectKeeps ==
    ASSUME UploadInv, WriteDirect
    PROVE  UploadInv'
<1>1. /\ UNCHANGED <<parts, part, chunk, sstate, handle, bytes, creating, failed, disk,
                     log, answer, faults>>
      /\ ustate = "Writting" /\ inflight = <<>> /\ bytes = <<>>
      /\ inflight' = SubSeq(rest, 1, Taken(rest))
      /\ rest' = Advance(rest)
      /\ written' = written + Taken(rest)
      /\ ustate' = IF rest' = <<>> THEN "Reading" ELSE "Writting"
  BY DEF WriteDirect, Writing, Pass, FileReady, stream, buffer, handler
<1>2. bytes \in Seq(Byte) /\ rest \in Seq(Byte) /\ written \in Nat /\ Len(bytes) < Capacity
  BY DEF UploadInv, Types, Limits
<1>3. /\ Taken(rest) \in 0 .. Len(rest) /\ Taken(rest) <= FileMax
      /\ inflight' \in Seq(Byte) /\ Len(inflight') = Taken(rest)
      /\ rest' \in Seq(Byte) /\ Len(rest') = Len(rest) - Taken(rest)
      /\ inflight' \o rest' = rest
  BY <1>1, <1>2, PassFacts
<1>4. inflight' \o bytes' = inflight' /\ inflight \o bytes = <<>> /\ <<>> \o rest = rest
  BY <1>1, <1>2, <1>3, ConcatEmptySeq
<1>5. Held(inflight', bytes', rest') = Held(inflight, bytes, rest)
  BY <1>1, <1>3, <1>4 DEF Held
<1>6. Filling
  BY <1>1 DEF Filling
<1>7. /\ Len(inflight') <= FileMax /\ Len(bytes') < Capacity /\ bytes' \in Seq(Byte)
      /\ written' \in Nat /\ written' + Len(rest') = written + Len(rest)
  <2>1. Len(inflight') <= FileMax /\ Len(bytes') < Capacity /\ bytes' \in Seq(Byte)
    BY <1>1, <1>2, <1>3
  <2>2. Len(rest) \in Nat /\ Taken(rest) \in Nat
    BY <1>2, <1>3
  <2>3. written' \in Nat /\ written' + Len(rest') = written + Len(rest)
    <3>1. Len(rest') = Len(rest) - Taken(rest) /\ written' = written + Taken(rest)
      BY <1>1, <1>3
    <3>. QED BY ONLY <1>2, <2>2, <3>1
  <2>. QED BY <2>1, <2>3
<1>8. \/ ustate' = ustate /\ (ustate = "Flush" => rest' = rest)
      \/ ustate' = "Reading" /\ ustate = "Writting" /\ rest' = <<>>
  BY <1>1
<1>. QED BY <1>1, <1>3, <1>5, <1>6, <1>7, <1>8, MovingKeeps

\* Bytes that the Buffer collects.
LEMMA ExtendKeeps ==
    ASSUME UploadInv, Extend
    PROVE  UploadInv'
<1>1. /\ UNCHANGED <<parts, part, chunk, sstate, handle, creating, inflight, failed,
                     disk, log, answer, faults>>
      /\ ustate = "Writting" /\ ~(Len(rest) + Len(bytes) >= Capacity)
      /\ bytes' = bytes \o rest /\ rest' = <<>>
      /\ written' = written + Len(rest)
      /\ ustate' = "Reading"
  BY DEF Extend, Writing, Full, stream, file, handler
<1>2. /\ bytes \in Seq(Byte) /\ rest \in Seq(Byte) /\ inflight \in Seq(Byte)
      /\ written \in Nat /\ Len(inflight) <= FileMax
  BY DEF UploadInv, Types, Limits
<1>3. <<>> \in Seq(Byte) /\ Len(<<>>) = 0
  OBVIOUS
<1>4. bytes' \in Seq(Byte) /\ Len(bytes') = Len(bytes) + Len(rest)
  BY <1>1, <1>2
<1>5. Held(inflight', bytes', rest') = Held(inflight, bytes, rest)
  <2>1. Leftmost(inflight, bytes, rest) = Rightmost(inflight, bytes, rest)
    BY <1>2, Regroup
  <2>2. inflight \o bytes' \in Seq(Byte)
    BY <1>2, <1>4
  <2>3. (inflight \o bytes') \o <<>> = inflight \o bytes'
    BY <2>2, ConcatEmptySeq
  <2>. QED BY <1>1, <2>1, <2>3 DEF Held, Leftmost, Rightmost
<1>6. Filling
  BY <1>1 DEF Filling
<1>7. /\ Len(bytes') < Capacity
      /\ written' \in Nat /\ written' + Len(rest') = written + Len(rest)
  BY <1>1, <1>2, <1>3, <1>4, CapacityAssumption
<1>. QED BY <1>1, <1>2, <1>3, <1>4, <1>5, <1>6, <1>7, MovingKeeps

\* A chunk: what is to come gives up its first bytes.
LEMMA ReadBytesKeeps ==
    ASSUME UploadInv, ReadBytes
    PROVE  UploadInv'
<1>. DEFINE p == parts[part]
            start == Offset(p, chunk)
            end == Offset(p, chunk + 1)
<1>1. /\ UNCHANGED <<parts, part, sstate, handle, bytes, written, creating, inflight,
                     failed, disk, log, answer, faults>>
      /\ ustate = "Reading" /\ sstate = "reading" /\ answer = "none"
      /\ chunk < Len(p.chunks) /\ chunk' = chunk + 1
      /\ rest' = Span(part, start, end) /\ ustate' = "Writting"
  BY DEF ReadBytes, Reading, Span, buffer, file, handler
<1>2. Filling
  BY <1>1 DEF Filling
<1>3. rest = <<>> /\ handle = part /\ part # 0 /\ Len(log) = handle - 1
  BY <1>1, <1>2 DEF UploadInv, States
<1>4. /\ part \in Nat /\ p \in Part /\ Size(p) \in Nat /\ chunk \in Nat
      /\ Len(p.chunks) \in Nat /\ chunk + 1 \in 1 .. Len(p.chunks)
      /\ (chunk + 1) - 1 = chunk /\ disk[p.name] \in Seq(Byte)
  <2>1. /\ part \in Nat /\ p \in Part /\ Size(p) \in Nat /\ Len(p.chunks) \in Nat
        /\ chunk \in 0 .. Len(p.chunks) /\ disk[p.name] \in Seq(Byte)
    BY <1>2, FillingFacts
  <2>. QED BY <1>1, <2>1
<1>5. /\ start \in Nat /\ end \in Nat /\ start <= end /\ end <= Size(p)
      /\ end - start = p.chunks[chunk + 1]
  <2>1. chunk \in 0 .. Len(p.chunks) /\ chunk + 1 \in 0 .. Len(p.chunks)
    BY <1>4
  <2>2. p.chunks[chunk + 1] \in Nat
    BY <1>4 DEF Part
  <2>3. start \in Nat /\ end \in Nat
    BY <1>4, <2>1, OffsetFacts
  <2>4. end = Offset(p, (chunk + 1) - 1) + p.chunks[chunk + 1]
    BY <1>4, OffsetFacts
  <2>5. end = start + p.chunks[chunk + 1]
    BY <1>4, <2>4
  <2>6. end <= Size(p)
    BY <1>4, <2>1, OffsetInSize
  <2>. HIDE DEF start, end
  <2>. QED BY <2>2, <2>3, <2>5, <2>6
<1>6. written + Len(rest) = start /\ written \in Nat
  BY <1>2 DEF UploadInv, Counts, Types
<1>7. Unread = Span(part, start, Size(p)) /\ Unread' = Span(part, end, Size(p))
  BY <1>1 DEF Unread, Span
<1>. HIDE DEF p, start, end
<1>8. rest' \in Seq(Byte) /\ Len(rest') = end - start /\ rest' \o Unread' = Unread
  <2>1. Span(part, start, end) \in Seq(Byte) /\ Len(Span(part, start, end)) = end - start
    BY <1>4, <1>5, BytesFacts
  <2>2. Span(part, start, end) \o Span(part, end, Size(p)) = Span(part, start, Size(p))
    <3>. DEFINE N == Size(p)
    <3>1. part \in Nat /\ start \in Nat /\ end \in Nat /\ N \in Nat /\ start <= end /\ end <= N
      BY <1>4, <1>5
    <3>. HIDE DEF N
    <3>2. Span(part, start, end) \o Span(part, end, N) = Span(part, start, N)
      BY ONLY <3>1, BytesSplit
    <3>. QED BY <3>2 DEF N
  <2>. QED BY <1>1, <1>7, <2>1, <2>2
<1>9. Types' /\ Limits'
  BY <1>1, <1>4, <1>8 DEF UploadInv, Types, Limits
<1>10. States'
  BY <1>1, <1>3 DEF UploadInv, States, Filling, Between
<1>11. Counts'
  <2>1. Offset(parts'[part'], chunk') = end /\ Len(parts'[part'].chunks) = Len(p.chunks)
    BY <1>1 DEF p, end
  <2>2. chunk' \in 0 .. Len(p.chunks)
    BY <1>1, <1>4
  <2>3. written' + Len(rest') = end
    <3>1. Len(rest) = 0
      BY <1>3
    <3>. QED BY <1>1, <1>5, <1>6, <1>8, <3>1
  <2>. QED BY <1>1, <2>1, <2>2, <2>3 DEF Counts, Filling, Between
<1>12. Logged' /\ Saved' /\ Opened'
  BY <1>1, LoggedStays, SavedStays, OpenedStays DEF UploadInv
<1>13. Complete'
  <2>. DEFINE before == disk[p.name] \o inflight \o bytes
  <2>1. before \in Seq(Byte) /\ Unread' \in Seq(Byte)
    <3>1. Unread' \in Seq(Byte)
      BY <1>4, <1>5, <1>7, BytesFacts
    <3>2. inflight \in Seq(Byte) /\ bytes \in Seq(Byte)
      BY DEF UploadInv, Types
    <3>. QED BY <1>4, <3>1, <3>2
  <2>2. Line = (before \o <<>>) \o Unread
    BY <1>3 DEF Line, p
  <2>3. Line' = (before \o rest') \o Unread'
    BY <1>1 DEF Line, p
  <2>. HIDE DEF before
  <2>4. before \o <<>> = before
    BY <2>1, ConcatEmptySeq
  <2>5. Leftmost(before, rest', Unread') = Rightmost(before, rest', Unread')
    <3>1. rest' \in Seq(Byte)
      BY <1>8
    <3>. QED BY ONLY <2>1, <3>1, Regroup
  <2>6. Line' = Line
    BY <1>8, <2>2, <2>3, <2>4, <2>5 DEF Leftmost, Rightmost
  <2>. QED BY <1>1, <1>2, <2>6 DEF UploadInv, Complete, Content
<1>. QED BY <1>9, <1>10, <1>11, <1>12, <1>13 DEF UploadInv

\* The last chunk has been read: nothing is to come.
LEMMA ReadEofKeeps ==
    ASSUME UploadInv, ReadEof
    PROVE  UploadInv'
<1>1. /\ UNCHANGED <<parts, part, chunk, rest, handle, bytes, written, creating, inflight,
                     failed, disk, log, answer, faults>>
      /\ ustate = "Reading" /\ sstate = "reading" /\ answer = "none"
      /\ chunk = Len(parts[part].chunks)
      /\ sstate' = "field" /\ ustate' = "Flush"
  BY DEF ReadEof, Reading, buffer, file, handler
<1>2. Filling
  BY <1>1 DEF Filling
<1>3. Types' /\ Limits'
  BY <1>1 DEF UploadInv, Types, Limits
<1>4. States' /\ Counts'
  BY <1>1, <1>2 DEF UploadInv, States, Counts, Filling, Between
<1>5. Logged' /\ Saved' /\ Opened'
  BY <1>1, LoggedStays, SavedStays, OpenedStays DEF UploadInv
<1>6. Complete'
  <2>1. Line' = Line
    BY <1>1 DEF Line, Unread
  <2>. QED BY <1>1, <1>2, <2>1 DEF UploadInv, Complete, Content
<1>. QED BY <1>3, <1>4, <1>5, <1>6 DEF UploadInv

\* A part whose last chunk was read, with nothing on its way, is in its file.
LEMMA Arrived ==
    ASSUME UploadInv, ustate = "Flush"
    PROVE  /\ Unread = <<>>
           /\ written = Size(parts[part])
           /\ bytes = <<>> /\ inflight = <<>> /\ ~failed =>
                  disk[parts[part].name] = Content(parts, part)
<1>1. Filling
  BY DEF Filling
<1>2. rest = <<>> /\ sstate = "field" /\ part # 0
  BY <1>1 DEF UploadInv, States
<1>3. part \in Nat /\ Size(parts[part]) \in Nat /\ disk[parts[part].name] \in Seq(Byte)
  BY <1>1, FillingFacts
<1>4. Offset(parts[part], chunk) = Size(parts[part])
  BY <1>1, <1>2 DEF UploadInv, Counts, Size
<1>5. Unread = <<>>
  <2>1. Unread = Span(part, Size(parts[part]), Size(parts[part]))
    BY <1>4 DEF Unread, Span
  <2>. QED BY <1>3, <2>1, NoBytes
<1>6. written = Size(parts[part])
  <2>1. written + Len(rest) = Size(parts[part])
    BY <1>1, <1>4 DEF UploadInv, Counts
  <2>2. Len(rest) = 0 /\ written \in Nat
    BY <1>2 DEF UploadInv, Types
  <2>. QED BY <1>3, <2>1, <2>2
<1>7. ASSUME bytes = <<>>, inflight = <<>>, ~failed
      PROVE  disk[parts[part].name] = Content(parts, part)
  <2>. DEFINE onDisk == disk[parts[part].name]
  <2>1. Line = onDisk \o <<>> \o <<>> \o <<>> \o <<>>
    BY <1>2, <1>5, <1>7 DEF Line
  <2>. HIDE DEF onDisk
  <2>2. onDisk \in Seq(Byte)
    BY <1>3 DEF onDisk
  <2>3. onDisk \o <<>> = onDisk
    BY <2>2, ConcatEmptySeq
  <2>4. Line = onDisk
    BY <2>1, <2>3
  <2>5. Line = Content(parts, part)
    BY <1>1, <1>7 DEF UploadInv, Complete
  <2>. QED BY <2>4, <2>5 DEF onDisk
<1>. QED BY <1>5, <1>6, <1>7

\* A part is saved.
LEMMA FlushedKeeps ==
    ASSUME UploadInv, Flushed
    PROVE  UploadInv'
<1>1. /\ UNCHANGED <<parts, part, chunk, sstate, rest, handle, bytes, creating, inflight,
                     failed, disk, answer, faults>>
      /\ ustate = "Flush" /\ answer = "none" /\ bytes = <<>> /\ inflight = <<>> /\ ~failed
      /\ log' = Append(log, [part |-> handle, size |-> written])
      /\ written' = 0 /\ ustate' = "Reading"
  BY DEF Flushed, Flushing, FileReady, stream, buffer, file
<1>2. Filling
  BY <1>1 DEF Filling
<1>3. /\ part \in Nat /\ part \in 1 .. Len(parts) /\ handle = part
      /\ Len(log) = part - 1 /\ Len(log) \in Nat /\ Size(parts[part]) \in Nat
  <2>1. Len(log) \in Nat
    BY DEF UploadInv, Types
  <2>. QED BY <1>2, <2>1, FillingFacts
<1>4. written = Size(parts[part]) /\ disk[parts[part].name] = Content(parts, part)
  BY <1>1, Arrived
<1>5. sstate = "field" /\ rest = <<>>
  BY <1>1 DEF UploadInv, States
<1>6. /\ log' \in Seq(Log) /\ Len(log') = part
      /\ \A i \in 1 .. Len(log) : log'[i] = log[i]
      /\ log'[part] = [part |-> part, size |-> Size(parts[part])]
  <2>. DEFINE e == [part |-> handle, size |-> written]
  <2>1. log \in Seq(Log) /\ e \in Log
    BY <1>3, <1>4 DEF UploadInv, Types, Log
  <2>2. e = [part |-> part, size |-> Size(parts[part])]
    BY <1>3, <1>4
  <2>3. log' = Append(log, e)
    BY <1>1
  <2>. HIDE DEF e
  <2>. QED BY <1>3, <2>1, <2>2, <2>3
<1>7. Types' /\ Limits'
  BY <1>1, <1>6 DEF UploadInv, Types, Limits
<1>8. States' /\ Complete'
  BY <1>1, <1>3, <1>5, <1>6 DEF States, Complete, Filling, Between
<1>9. Counts'
  BY <1>1, <1>2, <1>5 DEF UploadInv, Counts, Filling, Between
<1>10. Logged'
  <2>1. \A i \in 1 .. Len(log) : log[i] = [part |-> i, size |-> Size(parts[i])]
    BY DEF UploadInv, Logged
  <2>2. \A i \in 1 .. Len(log') : i \in 1 .. Len(log) \/ i = part
    BY <1>3, <1>6
  <2>3. \A i \in 1 .. Len(log') : log'[i] = [part |-> i, size |-> Size(parts[i])]
    BY <1>6, <2>1, <2>2
  <2>. QED BY <1>1, <1>3, <1>6, <2>3 DEF Logged
<1>11. Saved'
  <2>. SUFFICES ASSUME NEW i \in 1 .. Len(log')
                PROVE  \/ disk[parts[i].name] = Content(parts, i)
                       \/ \E q \in i + 1 .. part :
                             parts[q].name = parts[i].name /\ parts[q].header = "good"
    BY <1>1 DEF Saved, Content
  <2>1. i \in 1 .. Len(log) \/ i = part
    BY <1>3, <1>6
  <2>2. CASE i \in 1 .. Len(log)
    BY <2>2 DEF UploadInv, Saved
  <2>3. CASE i = part
    BY <1>4, <2>3
  <2>. QED BY <2>1, <2>2, <2>3
<1>12. Opened'
  BY <1>1, <1>3 DEF UploadInv, Opened
<1>. QED BY <1>7, <1>8, <1>9, <1>10, <1>11, <1>12 DEF UploadInv

\* Bytes that reach the disk are of a part that has not been saved, and every
\* part saved before under its name is one that gave way to it.
LEMMA DiskChanges ==
    ASSUME UploadInv, inflight # <<>>, NEW w \in Seq(Byte),
           disk' = [disk EXCEPT ![parts[handle].name] = @ \o w],
           UNCHANGED <<parts, part, ustate, creating, log, handle>>
    PROVE  /\ Saved' /\ Opened' /\ disk' \in [FileNames -> Seq(Byte)]
           /\ Len(log) = handle - 1 /\ Len(log) # handle
           /\ parts[handle].name \in FileNames
<1>1. Len(log) = handle - 1 /\ Len(log) \in Nat /\ handle \in 1 .. Len(parts)
  <2>1. Len(log) = handle - 1 /\ Len(log) \in Nat /\ handle \in 0 .. part
    BY DEF UploadInv, Logged, Types
  <2>2. Len(parts) \in Nat /\ part \in 0 .. Len(parts)
    BY PartFacts DEF UploadInv, Types
  <2>. QED BY <2>1, <2>2
<1>2. parts[handle].name \in FileNames
  BY <1>1, PartFacts DEF UploadInv, Types
<1>3. disk \in [FileNames -> Seq(Byte)] /\ disk[parts[handle].name] \o w \in Seq(Byte)
  BY <1>2 DEF UploadInv, Types
<1>4. disk' \in [FileNames -> Seq(Byte)]
  BY <1>3
<1>5. \A n \in FileNames : n # parts[handle].name => disk'[n] = disk[n]
  BY <1>3
<1>6. Saved'
  <2>. SUFFICES ASSUME NEW i \in 1 .. Len(log)
                PROVE  \/ disk'[parts[i].name] = Content(parts, i)
                       \/ \E q \in i + 1 .. part :
                             parts[q].name = parts[i].name /\ parts[q].header = "good"
    BY DEF Saved, Content
  <2>1. i \in 1 .. Len(parts) /\ handle \in i + 1 .. part
    <3>1. Len(parts) \in Nat /\ part \in Nat /\ handle \in 0 .. part
      BY PartFacts DEF UploadInv, Types
    <3>. QED BY <1>1, <3>1
  <2>2. CASE parts[i].name = parts[handle].name
    <3>1. parts[handle].header = "good"
      <4>1. handle \in 1 .. handle
        BY <1>1
      <4>. QED BY <4>1 DEF UploadInv, Opened
    <3>. QED BY <2>1, <2>2, <3>1
  <2>3. CASE parts[i].name # parts[handle].name
    <3>1. parts[i].name \in FileNames
      BY <2>1, PartFacts DEF UploadInv, Types
    <3>2. disk'[parts[i].name] = disk[parts[i].name]
      BY <1>5, <2>3, <3>1
    <3>. QED BY <3>2 DEF UploadInv, Saved
  <2>. QED BY <2>2, <2>3
<1>7. Opened'
  <2>1. creating = "no"
    BY <1>1 DEF UploadInv, Opened
  <2>. QED BY <2>1 DEF UploadInv, Opened
<1>. QED BY <1>1, <1>2, <1>4, <1>6, <1>7

\* What File was given reaches the disk.
LEMMA DiskWritesKeeps ==
    ASSUME UploadInv, DiskWrites
    PROVE  UploadInv'
<1>1. /\ UNCHANGED <<parts, part, chunk, sstate, ustate, rest, handle, bytes, written,
                     creating, failed, log, answer, faults>>
      /\ inflight # <<>> /\ inflight' = <<>>
      /\ disk' = Write(Len(inflight))
  BY DEF DiskWrites, stream, buffer, handler
<1>2. inflight \in Seq(Byte) /\ SubSeq(inflight, 1, Len(inflight)) = inflight
  <2>1. inflight \in Seq(Byte)
    BY DEF UploadInv, Types
  <2>. QED BY <2>1, SubSeqFull
<1>3. disk' = [disk EXCEPT ![parts[handle].name] = @ \o inflight]
  BY <1>1, <1>2 DEF Write
<1>4. /\ Saved' /\ Opened' /\ disk' \in [FileNames -> Seq(Byte)]
      /\ Len(log) = handle - 1 /\ Len(log) # handle /\ parts[handle].name \in FileNames
  BY <1>1, <1>2, <1>3, DiskChanges
<1>5. <<>> \in Seq(Byte) /\ Len(<<>>) = 0
  OBVIOUS
<1>6. Types' /\ Limits'
  BY <1>1, <1>4, <1>5, CapacityAssumption DEF UploadInv, Types, Limits
<1>7. States' /\ Counts'
  BY <1>1 DEF UploadInv, States, Counts, Filling, Between
<1>8. Logged'
  BY <1>1, LoggedStays DEF UploadInv
<1>9. Complete'
  <2>. SUFFICES ASSUME Filling, ~failed
                PROVE  Line' = Content(parts, part)
    BY <1>1 DEF Complete, Filling, Content
  <2>. DEFINE onDisk == disk[parts[part].name]
  <2>1. onDisk \in Seq(Byte) /\ handle = part
    BY FillingFacts
  <2>2. disk'[parts[part].name] = onDisk \o inflight
    BY <1>3, <1>4, <2>1 DEF UploadInv, Types
  <2>3. Unread' = Unread
    BY <1>1 DEF Unread
  <2>4. Line = (onDisk \o inflight) \o bytes \o rest \o Unread
    BY DEF Line
  <2>5. Line' = ((onDisk \o inflight) \o <<>>) \o bytes \o rest \o Unread
    BY <1>1, <2>2, <2>3 DEF Line
  <2>. HIDE DEF onDisk
  <2>6. (onDisk \o inflight) \o <<>> = onDisk \o inflight
    <3>1. onDisk \o inflight \in Seq(Byte)
      BY <1>2, <2>1
    <3>. QED BY <3>1, ConcatEmptySeq
  <2>7. Line' = Line
    BY <2>4, <2>5, <2>6
  <2>. QED BY <2>7 DEF UploadInv, Complete
<1>. QED BY <1>4, <1>6, <1>7, <1>8, <1>9 DEF UploadInv

\* The disk fails: the File has an error to report.
LEMMA DiskFailsKeeps ==
    ASSUME UploadInv, DiskFails
    PROVE  UploadInv'
<1>1. /\ UNCHANGED <<parts, part, chunk, sstate, ustate, rest, handle, bytes, written,
                     creating, log, answer>>
      /\ inflight # <<>> /\ inflight' = <<>> /\ failed'
      /\ faults < MaxFaults /\ faults' = faults + 1
  BY DEF DiskFails, Fault, stream, buffer, handler
<1>2. PICK n \in 0 .. Len(inflight) - 1 : disk' = Write(n)
  BY DEF DiskFails
<1>3. inflight \in Seq(Byte) /\ SubSeq(inflight, 1, n) \in Seq(Byte)
  <2>1. inflight \in Seq(Byte)
    BY DEF UploadInv, Types
  <2>. QED BY <2>1
<1>4. /\ Saved' /\ Opened' /\ disk' \in [FileNames -> Seq(Byte)]
      /\ Len(log) = handle - 1 /\ Len(log) # handle
  <2>. DEFINE w == SubSeq(inflight, 1, n)
  <2>1. disk' = [disk EXCEPT ![parts[handle].name] = @ \o w]
    BY <1>2 DEF Write
  <2>2. w \in Seq(Byte)
    BY <1>3
  <2>. HIDE DEF w
  <2>. QED BY <1>1, <2>1, <2>2, DiskChanges
<1>5. Types' /\ Limits'
  <2>1. faults' \in 0 .. MaxFaults
    BY <1>1, CapacityAssumption DEF UploadInv, Types
  <2>2. <<>> \in Seq(Byte) /\ Len(<<>>) = 0
    OBVIOUS
  <2>. QED BY <1>1, <1>4, <2>1, <2>2, CapacityAssumption DEF UploadInv, Types, Limits
<1>6. States' /\ Counts' /\ Complete'
  BY <1>1, <1>4 DEF UploadInv, States, Counts, Complete, Filling, Between
<1>7. Logged'
  BY <1>1, LoggedStays DEF UploadInv
<1>. QED BY <1>4, <1>5, <1>6, <1>7 DEF UploadInv

\* Every step keeps the invariant.
LEMMA StepKeeps ==
    ASSUME UploadInv, [Next]_vars
    PROVE  UploadInv'
<1>1. CASE ReadRefused \/ ReadEnd \/ ReadFails \/ CreateFails
           \/ WriteFails \/ FlushFails \/ HangUp
  BY <1>1, EndingKeeps
<1>2. CASE Answer
  BY <1>2, AnswerKeeps
<1>3. CASE ReadNew
  BY <1>3, ReadNewKeeps
<1>4. CASE CreateFile
  BY <1>4, CreateFileKeeps
<1>5. CASE ReadBytes
  BY <1>5, ReadBytesKeeps
<1>6. CASE ReadEof
  BY <1>6, ReadEofKeeps
<1>7. CASE WriteFlush \/ FlushBuffer
  BY <1>7, EmptyingKeeps
<1>8. CASE WriteDirect
  BY <1>8, WriteDirectKeeps
<1>9. CASE Extend
  BY <1>9, ExtendKeeps
<1>10. CASE Flushed
  BY <1>10, FlushedKeeps
<1>11. CASE DiskWrites
  BY <1>11, DiskWritesKeeps
<1>12. CASE DiskFails
  BY <1>12, DiskFailsKeeps
<1>13. CASE DiskCreates
  BY <1>13, DiskCreatesKeeps
<1>14. CASE DiskRefuses
  BY <1>14, DiskRefusesKeeps
<1>15. CASE UNCHANGED vars
  <2>1. UNCHANGED <<parts, part, chunk, sstate, ustate, rest, handle, bytes, written,
                    creating, inflight, failed, disk, log, answer, faults>>
    BY <1>15 DEF vars, stream, buffer, file, handler
  <2>2. Types' /\ Limits' /\ States' /\ Counts'
    BY <2>1 DEF UploadInv, Types, Limits, States, Counts, Filling, Between
  <2>3. Logged' /\ Saved' /\ Opened' /\ Complete'
    BY <2>1 DEF UploadInv, Logged, Saved, Opened, Complete, Filling, Line, Unread, Content
  <2>. QED BY <2>2, <2>3 DEF UploadInv
<1>. QED BY <1>1, <1>2, <1>3, <1>4, <1>5, <1>6, <1>7, <1>8, <1>9, <1>10, <1>11, <1>12,
            <1>13, <1>14, <1>15 DEF Next, Service

\* The inductive invariant holds in every state.
THEOREM UploadInvariant == Spec => []UploadInv
<1>. QED BY Begins, StepKeeps, PTL DEF Spec

-----------------------------------------------------------------------------
(***************************************************************************)
(* What follows.                                                           *)
(***************************************************************************)
\* The types, the bound of the Buffer and what each state implies.
THEOREM UploadTypes == Spec => []TypeOK
<1>1. UploadInv => TypeOK
  <2>. SUFFICES ASSUME UploadInv PROVE TypeOK
    OBVIOUS
  <2>1. rest # <<>> => ustate \in {"Writting", "Done"}
    BY DEF UploadInv, Types, States
  <2>2. ustate \in {"Writting", "Flush"} => handle = part /\ part # 0
    BY DEF UploadInv, States, Filling
  <2>3. answer # "none" => ustate = "Done"
    BY DEF UploadInv, States
  <2>4. ustate = "Create" => creating # "no"
    BY DEF UploadInv, Opened
  <2>. QED BY <2>1, <2>2, <2>3, <2>4 DEF UploadInv, Types, Limits, TypeOK
<1>. QED BY <1>1, UploadInvariant, PTL

\* No byte is lost, doubled or overtaken between the body and the file.
THEOREM UploadInOrder == Spec => []InOrder
<1>1. UploadInv => InOrder
  <2>. SUFFICES ASSUME UploadInv, Receiving, ~failed
                PROVE  /\ Line = Content(parts, part)
                       /\ ustate = "Flush" => Unread = <<>>
    BY DEF InOrder, Line
  <2>1. CASE Filling
    BY <2>1, Arrived DEF UploadInv, Complete
  <2>2. CASE ~Filling
    <3>1. Between /\ handle = part /\ part # 0 /\ ustate = "Reading"
      BY <2>2 DEF Receiving, Filling, Between, UploadInv, Types, States
    <3>2. /\ Len(log) = handle /\ bytes = <<>> /\ rest = <<>>
          /\ sstate = "field"
      BY <3>1 DEF UploadInv, States, Between
    <3>3. inflight = <<>>
      BY <3>2 DEF UploadInv, Logged
    <3>4. /\ part \in 1 .. Len(parts) /\ part \in Nat /\ Size(parts[part]) \in Nat
          /\ parts[part].name \in FileNames
      <4>1. part \in 0 .. Len(parts) /\ Len(parts) \in Nat
        BY PartFacts DEF UploadInv, Types
      <4>2. part \in 1 .. Len(parts) /\ part \in Nat
        BY <3>1, <4>1
      <4>. QED BY <4>2, PartFacts DEF UploadInv, Types
    <3>5. disk[parts[part].name] = Content(parts, part)
      <4>1. part \in 1 .. Len(log) /\ ~\E q \in part + 1 .. part : TRUE
        BY <3>1, <3>2, <3>4
      <4>. QED BY <4>1 DEF UploadInv, Saved
    <3>6. Unread = <<>>
      <4>1. Offset(parts[part], chunk) = Size(parts[part])
        BY <3>1, <3>2 DEF UploadInv, Counts, Size
      <4>2. Unread = Span(part, Size(parts[part]), Size(parts[part]))
        BY <4>1 DEF Unread, Span
      <4>. QED BY <3>4, <4>2, NoBytes
    <3>. DEFINE onDisk == disk[parts[part].name]
    <3>7. onDisk \in Seq(Byte)
      BY <3>4 DEF UploadInv, Types
    <3>8. Line = onDisk \o <<>> \o <<>> \o <<>> \o <<>>
      BY <3>2, <3>3, <3>6 DEF Line
    <3>9. onDisk \o <<>> = onDisk
      BY <3>7, ConcatEmptySeq
    <3>. QED BY <3>1, <3>5, <3>8, <3>9
  <2>. QED BY <2>1, <2>2
<1>. QED BY <1>1, UploadInvariant, PTL

\* What was logged as a success is a file with the whole content of its part.
THEOREM UploadFilesWhole == Spec => []FilesWhole
<1>1. UploadInv => FilesWhole
  <2>. SUFFICES ASSUME UploadInv PROVE FilesWhole
    OBVIOUS
  <2>1. DOMAIN log = 1 .. Len(log)
    BY DEF UploadInv, Types
  <2>2. ASSUME NEW i \in 1 .. Len(log)
        PROVE  log[i].part = i /\ log[i].size = Size(parts[i])
    <3>1. log[i] = [part |-> i, size |-> Size(parts[i])]
      BY DEF UploadInv, Logged
    <3>. QED BY <3>1
  <2>. QED BY <2>1, <2>2 DEF UploadInv, Saved, FilesWhole
<1>. QED BY <1>1, UploadInvariant, PTL

-----------------------------------------------------------------------------
(***************************************************************************)
(* The refinement: what UploadPromise sees of a state.                     *)
(***************************************************************************)
files == [n \in FileNames |->
             IF Unsaved /\ parts[part].name = n THEN Partial ELSE disk[n]]

open == IF Unsaved THEN part ELSE 0

over == ustate = "Done"

\* The open file is the one of the part after those that are logged.
LEMMA UnsavedIsNext ==
    ASSUME UploadInv
    PROVE  /\ Unsaved <=> Len(log) # part /\ parts[part].header = "good"
           /\ Len(log) # handle => Unsaved /\ part = handle
           /\ Len(log) \in Nat /\ part \in Nat
           /\ Unsaved => part = Len(log) + 1 /\ part \in 1 .. Len(parts)
<1>. DEFINE k == Len(log)
<1>1. k = part \/ k = part - 1
  BY DEF UploadInv, Logged, Opened, Types
<1>2. k \in Nat /\ part \in Nat /\ DOMAIN log = 1 .. k
  BY PartFacts DEF UploadInv, Types
<1>3. part <= Len(parts) /\ Len(parts) \in Nat
  BY PartFacts DEF UploadInv, Types
<1>4. ASSUME NEW i \in 1 .. k
      PROVE  log[i].part = i
  <2>1. log[i] = [part |-> i, size |-> Size(parts[i])]
    BY DEF UploadInv, Logged
  <2>. QED BY <2>1
<1>. HIDE DEF k
<1>5. k # part => part = k + 1 /\ part \in 1 .. Len(parts)
  BY <1>1, <1>2, <1>3
<1>6. Unsaved <=> k # part /\ parts[part].header = "good"
  <2>1. CASE k = part
    <3>1. part = 0 \/ part \in 1 .. k
      BY <1>2, <2>1
    <3>. QED BY <1>2, <1>4, <2>1, <3>1 DEF Unsaved
  <2>2. CASE k # part
    <3>1. part # 0 /\ \A i \in 1 .. k : i # part
      BY <1>2, <1>5, <2>2
    <3>. QED BY <1>2, <1>4, <2>2, <3>1 DEF Unsaved
  <2>. QED BY <2>1, <2>2
<1>7. k # handle => part = handle /\ parts[part].header = "good"
  <2>. SUFFICES ASSUME k # handle PROVE part = handle /\ parts[part].header = "good"
    OBVIOUS
  <2>1. part = handle
    BY DEF UploadInv, Opened, k
  <2>2. handle \in 1 .. handle
    BY <1>2, <1>5, <2>1
  <2>. QED BY <2>1, <2>2 DEF UploadInv, Opened
<1>. QED BY <1>2, <1>5, <1>6, <1>7 DEF k

\* A step that changes neither the files nor the log, and takes up no part that
\* is not refused.
LEMMA QuietStutters ==
    ASSUME UploadInv, UploadInv', UNCHANGED <<parts, log, disk>>,
           part' = part \/ (~Unsaved /\ part' = part + 1 /\ parts[part + 1].header # "good")
    PROVE  UNCHANGED <<parts, files, open, log>>
<1>1. CASE part' = part
  BY <1>1 DEF files, open, Unsaved
<1>2. CASE ~Unsaved /\ part' = part + 1 /\ parts[part + 1].header # "good"
  <2>1. ~Unsaved'
    BY <1>2 DEF Unsaved
  <2>. QED BY <1>2, <2>1 DEF files, open
<1>. QED BY <1>1, <1>2

\* A part is being saved as soon as its file is asked for.
LEMMA ReadNewOpens ==
    ASSUME UploadInv, UploadInv', ReadNew
    PROVE  Promise!Open
<1>1. /\ UNCHANGED <<parts, log, disk>>
      /\ ustate = "Reading" /\ sstate = "field" /\ ustate' = "Create"
      /\ part' = part + 1 /\ part < Len(parts) /\ parts[part + 1].header = "good"
  BY DEF ReadNew, Reading, handler
<1>2. part = handle /\ Len(log) = part
  BY <1>1 DEF UploadInv, States, Between
<1>3. Len(log) \in Nat /\ part \in Nat /\ ~Unsaved
  BY <1>2, UnsavedIsNext
<1>4. (Unsaved <=> Len(log) # part /\ parts[part].header = "good")'
  BY UnsavedIsNext, PTL
<1>5. Unsaved'
  BY <1>1, <1>2, <1>3, <1>4
<1>6. parts[part + 1].name \in FileNames /\ Len(parts) \in Nat
  <2>1. Len(parts) \in Nat
    BY PartFacts DEF UploadInv, Types
  <2>2. part + 1 \in 1 .. Len(parts)
    BY <1>1, <1>3, <2>1
  <2>. QED BY <2>1, <2>2, PartFacts DEF UploadInv, Types
<1>7. open = 0 /\ open' = Len(log) + 1 /\ Len(log) < Len(parts)
  BY <1>1, <1>2, <1>3, <1>5 DEF open
<1>8. files' = [files EXCEPT ![parts[part + 1].name] = Partial]
  <2>1. files = [n \in FileNames |-> disk[n]]
    BY <1>3 DEF files
  <2>2. files' = [n \in FileNames |->
                     IF parts[part + 1].name = n THEN Partial ELSE disk[n]]
    BY <1>1, <1>5 DEF files
  <2>. QED BY <2>1, <2>2
<1>9. ~over /\ over' = over
  BY <1>1 DEF over
<1>10. files' = [files EXCEPT ![parts[open'].name] = Partial]
  BY <1>2, <1>7, <1>8
<1>. QED BY <1>1, <1>7, <1>9, <1>10 DEF Promise!Open, files, open, over

LEMMA FlushedSaves ==
    ASSUME UploadInv, UploadInv', Flushed
    PROVE  Promise!Save
<1>1. /\ UNCHANGED <<parts, part, handle, disk>>
      /\ ustate = "Flush" /\ ustate' = "Reading"
      /\ bytes = <<>> /\ inflight = <<>> /\ ~failed
      /\ log' = Append(log, [part |-> handle, size |-> written])
  BY DEF Flushed, Flushing, FileReady, stream, buffer, file
<1>2. /\ handle = part /\ part # 0 /\ Len(log) # handle
      /\ Len(log) = part - 1 /\ parts[part].name \in FileNames
  BY <1>1, FillingFacts DEF Filling
<1>3. Unsaved /\ open = part
  BY <1>2, UnsavedIsNext DEF open
<1>4. ~Unsaved' /\ open' = 0
  <2>1. Len(log') = part
    <3>1. log \in Seq(Log) /\ Len(log) \in Nat
      BY DEF UploadInv, Types
    <3>2. Len(log') = Len(log) + 1
      BY <1>1, <3>1
    <3>3. part \in Nat
      BY <1>1, FillingFacts DEF Filling
    <3>. QED BY <1>2, <3>1, <3>2, <3>3
  <2>2. (Unsaved <=> Len(log) # part /\ parts[part].header = "good")'
    BY UnsavedIsNext, PTL
  <2>. QED BY <1>1, <2>1, <2>2 DEF open
<1>5. written = Size(parts[part]) /\ disk[parts[part].name] = Content(parts, part)
  BY <1>1, Arrived
<1>6. files' = [files EXCEPT ![parts[open].name] = Content(parts, open)]
  <2>1. files = [n \in FileNames |-> IF parts[part].name = n THEN Partial ELSE disk[n]]
    BY <1>2, <1>3 DEF files
  <2>2. files' = [n \in FileNames |-> disk[n]]
    BY <1>1, <1>4 DEF files
  <2>. QED BY <1>2, <1>3, <1>5, <2>1, <2>2
<1>7. log' = Append(log, [part |-> open, size |-> Size(parts[open])])
  BY <1>1, <1>2, <1>3, <1>5
<1>8. ~over /\ over' = over
  BY <1>1 DEF over
<1>9. open # 0
  BY <1>2, <1>3
<1>10. /\ Promise!Size(parts[open]) = Size(parts[open])
       /\ Promise!Content(parts, open) = Content(parts, open)
  BY DEF Promise!Size, Size, Promise!Offset, Offset, Promise!Content, Content,
         Promise!Bytes, Bytes
<1>11. /\ files' = [files EXCEPT ![parts[open].name] = Promise!Content(parts, open)]
       /\ log' = Append(log, [part |-> open, size |-> Promise!Size(parts[open])])
  BY <1>6, <1>7, <1>10
<1>. QED BY <1>1, <1>4, <1>8, <1>9, <1>11 DEF Promise!Save, files, open, over

\* What reaches the disk is in the open file: its creation too, though the
\* upload may be over.
LEMMA DiskStutters ==
    ASSUME UploadInv, DiskCreates \/ DiskWrites \/ DiskFails
    PROVE  UNCHANGED <<parts, files, open, log, over>>
<1>1. UNCHANGED <<parts, part, log, ustate>>
  BY DEF DiskCreates, DiskWrites, DiskFails, stream, handler
<1>2. /\ Unsaved
      /\ \A n \in FileNames : n # parts[part].name => disk'[n] = disk[n]
  <2>1. CASE DiskCreates
    <3>1. /\ creating = "begun"
          /\ disk' = [disk EXCEPT ![parts[part].name] = <<>>]
      BY <2>1 DEF DiskCreates
    <3>2. Len(log) # part /\ parts[part].header = "good"
      BY <3>1 DEF UploadInv, Opened, Types
    <3>3. Unsaved
      BY <3>2, UnsavedIsNext
    <3>. QED BY <3>1, <3>3 DEF UploadInv, Types
  <2>2. CASE DiskWrites \/ DiskFails
    <3>1. inflight # <<>> /\ \E n : disk' = Write(n)
      BY <2>2 DEF DiskWrites, DiskFails
    <3>2. Len(log) # handle
      BY <3>1 DEF UploadInv, Logged
    <3>3. Unsaved /\ part = handle
      BY <3>2, UnsavedIsNext
    <3>. QED BY <3>1, <3>3 DEF Write, UploadInv, Types
  <2>. QED BY <2>1, <2>2
<1>3. Unsaved' /\ open' = open /\ over' = over
  BY <1>1, <1>2 DEF Unsaved, open, over
<1>4. files' = files
  <2>1. files = [n \in FileNames |-> IF parts[part].name = n THEN Partial ELSE disk[n]]
    BY <1>2 DEF files
  <2>2. files' = [n \in FileNames |-> IF parts[part].name = n THEN Partial ELSE disk'[n]]
    BY <1>1, <1>3 DEF files
  <2>. QED BY <1>2, <2>1, <2>2
<1>. QED BY <1>1, <1>3, <1>4

LEMMA PromiseStep ==
    ASSUME UploadInv, UploadInv', [Next]_vars
    PROVE  [Promise!Next]_<<parts, files, open, log, over>>
<1>1. CASE ReadNew
  BY <1>1, ReadNewOpens DEF Promise!Next
<1>2. CASE Flushed
  BY <1>2, FlushedSaves DEF Promise!Next
<1>3. CASE DiskCreates \/ DiskWrites \/ DiskFails
  BY <1>3, DiskStutters
<1>4. CASE ReadRefused \/ ReadEnd \/ ReadFails \/ CreateFails
           \/ WriteFails \/ FlushFails \/ HangUp
  <2>1. /\ UNCHANGED <<parts, log, disk>> /\ ustate' = "Done"
        /\ \/ part' = part
           \/ ~Unsaved /\ part' = part + 1 /\ parts[part + 1].header # "good"
    <3>. USE DEF Fail, Fault, stream, file, handler
    <3>1. CASE ReadRefused
      <4>1. Len(log) = part
        BY <3>1 DEF ReadRefused, Reading, UploadInv, States, Between
      <4>. QED BY <3>1, <4>1, UnsavedIsNext DEF ReadRefused
    <3>2. CASE ReadEnd
      BY <3>2 DEF ReadEnd
    <3>3. CASE ReadFails
      BY <3>3 DEF ReadFails
    <3>4. CASE CreateFails
      BY <3>4 DEF CreateFails
    <3>5. CASE WriteFails
      BY <3>5 DEF WriteFails
    <3>6. CASE FlushFails
      BY <3>6 DEF FlushFails
    <3>7. CASE HangUp
      BY <3>7 DEF HangUp
    <3>. QED BY <1>4, <3>1, <3>2, <3>3, <3>4, <3>5, <3>6, <3>7
  <2>2. UNCHANGED <<parts, files, open, log>> /\ over'
    BY <2>1, QuietStutters DEF over
  <2>3. CASE over
    <3>1. over' = over
      BY <2>1, <2>3 DEF over
    <3>. QED BY <2>2, <3>1
  <2>4. CASE ~over
    <3>1. over' = TRUE
      BY <2>1 DEF over
    <3>. QED BY <2>2, <2>4, <3>1 DEF Promise!Next, Promise!End, files, open, over
  <2>. QED BY <2>3, <2>4
<1>5. CASE CreateFile \/ DiskRefuses \/ ReadBytes \/ ReadEof \/ WriteFlush \/ WriteDirect
           \/ Extend \/ FlushBuffer \/ Answer \/ UNCHANGED vars
  <2>1. /\ UNCHANGED <<parts, part, log, disk>>
        /\ ustate' = ustate \/ (ustate # "Done" /\ ustate' # "Done")
    <3>. USE DEF stream, file, handler, Pass
    <3>1. CASE CreateFile
      BY <3>1 DEF CreateFile
    <3>2. CASE ReadBytes
      BY <3>2 DEF ReadBytes, Reading
    <3>3. CASE ReadEof
      BY <3>3 DEF ReadEof, Reading
    <3>4. CASE WriteFlush
      BY <3>4 DEF WriteFlush
    <3>5. CASE WriteDirect
      BY <3>5 DEF WriteDirect, Writing
    <3>6. CASE Extend
      BY <3>6 DEF Extend, Writing
    <3>7. CASE FlushBuffer
      BY <3>7 DEF FlushBuffer
    <3>8. CASE Answer
      BY <3>8 DEF Answer
    <3>9. CASE DiskRefuses
      BY <3>9 DEF DiskRefuses
    <3>10. CASE UNCHANGED vars
      BY <3>10 DEF vars
    <3>. QED BY <1>5, <3>1, <3>2, <3>3, <3>4, <3>5, <3>6, <3>7, <3>8, <3>9, <3>10
  <2>2. UNCHANGED <<parts, files, open, log>>
    BY <2>1, QuietStutters
  <2>3. over' = over
    BY <2>1 DEF over
  <2>. QED BY <2>2, <2>3
<1>. QED BY <1>1, <1>2, <1>3, <1>4, <1>5 DEF Next, Service

(***************************************************************************)
(* An upload does no more than UploadPromise allows, however the body      *)
(* comes in chunks and whatever fails: a part is begun when the one before *)
(* is saved whole, it is logged when its file has all of its content, and  *)
(* no file but that of the part being received is touched.                 *)
(***************************************************************************)
THEOREM PromiseSafety ==
    Spec => Promise!Init /\ [][Promise!Next]_<<parts, files, open, log, over>>
<1>1. Init => Promise!Init
  <2>. SUFFICES ASSUME Init PROVE Promise!Init
    OBVIOUS
  <2>1. ~Unsaved /\ ~over /\ open = 0
    BY DEF Init, Unsaved, over, open
  <2>2. files = [n \in FileNames |-> <<>>]
    BY <2>1 DEF Init, files
  <2>. QED BY <2>1, <2>2 DEF Init, Promise!Init, files, open, over
<1>. QED BY <1>1, UploadInvariant, PromiseStep, PTL DEF Spec
=============================================================================
