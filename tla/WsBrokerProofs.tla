--------------------------- MODULE WsBrokerProofs ---------------------------
(***************************************************************************)
(* Proofs about WsBroker: what the two kinds of mailboxes hold, that a     *)
(* handler whose task is over is removed from the observers, and that a    *)
(* client gets the messages in order and without a gap.                    *)
(***************************************************************************)
EXTENDS WsBroker, FiniteSetTheorems, SequenceTheorems, TLAPS

-----------------------------------------------------------------------------
(***************************************************************************)
(* Sequences.                                                              *)
(***************************************************************************)
Distinct(q) == \A i, j \in DOMAIN q : q[i] = q[j] => i = j

Holds(q, x) == \E i \in DOMAIN q : q[i] = x

\* Each number is the successor of the one before it.
Up(q) == \A i \in 1 .. Len(q) - 1 : q[i + 1] = q[i] + 1

\* Taking the first element.
LEMMA TailFacts ==
    ASSUME NEW S, NEW q \in Seq(S), q # <<>>
    PROVE  /\ Head(q) \in S /\ Head(q) = q[1] /\ 1 \in DOMAIN q
           /\ Tail(q) \in Seq(S) /\ Len(Tail(q)) = Len(q) - 1 /\ Len(q) \in Nat \ {0}
           /\ \A i \in DOMAIN Tail(q) : Tail(q)[i] = q[i + 1] /\ i + 1 \in DOMAIN q
           /\ \A i \in DOMAIN q : i # 1 => i - 1 \in DOMAIN Tail(q) /\ Tail(q)[i - 1] = q[i]
  OBVIOUS

\* Adding an element.
LEMMA AppendFacts ==
    ASSUME NEW S, NEW q \in Seq(S), NEW x \in S
    PROVE  /\ Append(q, x) \in Seq(S) /\ Len(Append(q, x)) = Len(q) + 1 /\ Len(q) \in Nat
           /\ DOMAIN Append(q, x) = DOMAIN q \cup {Len(q) + 1}
           /\ \A i \in DOMAIN q : Append(q, x)[i] = q[i] /\ i # Len(q) + 1
           /\ Append(q, x)[Len(q) + 1] = x
  OBVIOUS

\* What is held when the first element was taken.
LEMMA TailHolds ==
    ASSUME NEW S, NEW q \in Seq(S), q # <<>>, Distinct(q)
    PROVE  /\ Distinct(Tail(q))
           /\ \A x : Holds(Tail(q), x) <=> Holds(q, x) /\ x # Head(q)
<1>1. ASSUME NEW i \in DOMAIN Tail(q), NEW j \in DOMAIN Tail(q), Tail(q)[i] = Tail(q)[j]
      PROVE  i = j
  <2>1. i + 1 = j + 1
    BY <1>1, TailFacts DEF Distinct
  <2>2. i \in Nat /\ j \in Nat
    BY TailFacts
  <2>. QED BY <2>1, <2>2
<1>2. ASSUME NEW x, Holds(Tail(q), x)
      PROVE  Holds(q, x) /\ x # Head(q)
  <2>1. PICK i \in DOMAIN Tail(q) : Tail(q)[i] = x
    BY <1>2 DEF Holds
  <2>2. i + 1 \in DOMAIN q /\ q[i + 1] = x /\ i + 1 # 1
    BY <2>1, TailFacts
  <2>. QED BY <2>2, TailFacts DEF Holds, Distinct
<1>3. ASSUME NEW x, Holds(q, x), x # Head(q)
      PROVE  Holds(Tail(q), x)
  <2>1. PICK i \in DOMAIN q : q[i] = x
    BY <1>3 DEF Holds
  <2>2. i # 1
    BY <1>3, <2>1, TailFacts
  <2>. QED BY <2>1, <2>2, TailFacts DEF Holds
<1>. QED BY <1>1, <1>2, <1>3 DEF Distinct

\* What is held when an element was added.
LEMMA AppendHolds ==
    ASSUME NEW S, NEW q \in Seq(S), NEW x \in S
    PROVE  /\ \A y : Holds(Append(q, x), y) <=> Holds(q, y) \/ y = x
           /\ Distinct(q) /\ ~Holds(q, x) => Distinct(Append(q, x))
<1>1. \A y : Holds(Append(q, x), y) <=> Holds(q, y) \/ y = x
  BY AppendFacts DEF Holds
<1>2. ASSUME Distinct(q), ~Holds(q, x)
      PROVE  Distinct(Append(q, x))
  BY <1>2, AppendFacts DEF Holds, Distinct
<1>. QED BY <1>1, <1>2

\* A sequence of a set is one of a larger set.
LEMMA SeqOfMore ==
    ASSUME NEW S, NEW T, NEW q \in Seq(S), \A i \in DOMAIN q : q[i] \in T
    PROVE  q \in Seq(T)
  OBVIOUS

\* A number that follows the last one.
LEMMA UpAppend ==
    ASSUME NEW q \in Seq(Nat), NEW n \in Nat, Up(q), q # <<>> => q[Len(q)] = n - 1
    PROVE  /\ Append(q, n) \in Seq(Nat) /\ Up(Append(q, n)) /\ Append(q, n) # <<>>
           /\ Append(q, n)[Len(Append(q, n))] = n
<1>. DEFINE r == Append(q, n)
<1>1. /\ r \in Seq(Nat) /\ Len(r) = Len(q) + 1 /\ Len(q) \in Nat
      /\ \A i \in 1 .. Len(q) : r[i] = q[i]
      /\ r[Len(q) + 1] = n
  OBVIOUS
<1>2. ASSUME NEW i \in 1 .. Len(r) - 1 PROVE r[i + 1] = r[i] + 1
  <2>1. CASE i < Len(q)
    <3>1. i \in 1 .. Len(q) - 1 /\ i + 1 \in 1 .. Len(q) /\ i \in 1 .. Len(q)
      BY <1>1, <2>1
    <3>. QED BY <1>1, <3>1 DEF Up
  <2>2. CASE i = Len(q)
    <3>1. q[i] = n - 1
      BY <1>1, <1>2, <2>2
    <3>2. r[i] = q[i] /\ r[i + 1] = n
      BY <1>1, <1>2, <2>2
    <3>. HIDE DEF r
    <3>. QED BY <3>1, <3>2
  <2>. QED BY <1>1, <1>2, <2>1, <2>2
<1>. HIDE DEF r
<1>3. Up(r)
  BY <1>2 DEF Up
<1>4. r # <<>> /\ r[Len(r)] = n
  BY <1>1
<1>. QED BY <1>1, <1>3, <1>4 DEF r

\* The beginning of a sequence.
LEMMA UpBeginning ==
    ASSUME NEW q \in Seq(Nat), NEW r \in Seq(Nat), Up(q \o r)
    PROVE  Up(q)
<1>1. /\ Len(q) \in Nat /\ Len(r) \in Nat /\ Len(q \o r) = Len(q) + Len(r)
      /\ \A i \in 1 .. Len(q) : (q \o r)[i] = q[i]
  OBVIOUS
<1>2. ASSUME NEW i \in 1 .. Len(q) - 1 PROVE q[i + 1] = q[i] + 1
  <2>1. i \in 1 .. Len(q \o r) - 1 /\ i \in 1 .. Len(q) /\ i + 1 \in 1 .. Len(q)
    BY <1>1, <1>2
  <2>. QED BY <1>1, <2>1 DEF Up
<1>. QED BY <1>2 DEF Up

\* An element that moves from the beginning of one sequence to the end of
\* another.
LEMMA Moved ==
    ASSUME NEW q \in Seq(Nat), NEW r \in Seq(Nat), r # <<>>
    PROVE  Append(q, Head(r)) \o Tail(r) = q \o r
<1>1. /\ Head(r) \in Nat /\ Tail(r) \in Seq(Nat)
      /\ r = <<Head(r)>> \o Tail(r)
  OBVIOUS
<1>2. Append(q, Head(r)) = q \o <<Head(r)>>
  BY <1>1, AppendIsConcat
<1>3. (q \o <<Head(r)>>) \o Tail(r) = q \o (<<Head(r)>> \o Tail(r))
  BY <1>1, ConcatAssociative
<1>. QED BY <1>1, <1>2, <1>3

\* An element that is added at the end.
LEMMA AddedAtEnd ==
    ASSUME NEW q \in Seq(Nat), NEW r \in Seq(Nat), NEW n \in Nat
    PROVE  q \o Append(r, n) = Append(q \o r, n)
  OBVIOUS

-----------------------------------------------------------------------------
(***************************************************************************)
(* The mailbox of the broker.  It holds a message at most once, a          *)
(* Subscriber only of a handler that waits for the broker to have it, and  *)
(* an Ubsubscriber only of an observer whose task is over.                 *)
(***************************************************************************)
States == {"off", "joining", "joined", "open", "sending", "leaving", "gone"}

Mail == [type : {"subscribe", "unsubscribe"}, of : Clients] \cup [type : {"message"}, of : Nat]

Has(type, x) == Holds(mailbox, Msg(type, x))

MailInv ==
    /\ mailbox \in Seq(Mail) /\ Distinct(mailbox)
    /\ state \in [Clients -> States]
    /\ observers \subseteq Clients
    /\ \A s \in Clients :
          /\ s \in observers => state[s] \in {"open", "sending", "leaving", "gone"}
          /\ state[s] \in {"open", "sending", "leaving"} => s \in observers
          /\ Has("subscribe", s) => state[s] = "joined"
          /\ Has("unsubscribe", s) => state[s] = "gone"
          /\ Has("unsubscribe", s) <=> state[s] = "gone" /\ s \in observers

NumbersInv ==
    /\ published \in Nat
    /\ \A n : Has("message", n) => n \in 1 .. published

\* What Tell adds to the mailbox.
LEMMA TellFacts ==
    ASSUME MailInv, NEW m \in Mail, mailbox' = Append(mailbox, m)
    PROVE  /\ mailbox' \in Seq(Mail)
           /\ ~Holds(mailbox, m) => Distinct(mailbox')
           /\ \A type, x : Has(type, x)' <=> Has(type, x) \/ Msg(type, x) = m
BY AppendFacts, AppendHolds DEF MailInv, Has

\* What the broker takes from it.
LEMMA TakesFacts ==
    ASSUME MailInv, NEW type, Takes(type), mailbox' = Tail(mailbox)
    PROVE  /\ Head(mailbox) \in Mail /\ Head(mailbox).type = type
           /\ Holds(mailbox, Head(mailbox))
           /\ Head(mailbox) = Msg(type, Head(mailbox).of)
           /\ mailbox' \in Seq(Mail) /\ Distinct(mailbox')
           /\ \A t, x : Has(t, x)' <=> Has(t, x) /\ Msg(t, x) # Head(mailbox)
<1>1. mailbox \in Seq(Mail) /\ mailbox # <<>> /\ Head(mailbox).type = type
  BY DEF MailInv, Takes
<1>2. Head(mailbox) \in Mail /\ Holds(mailbox, Head(mailbox)) /\ mailbox' \in Seq(Mail)
  BY <1>1, TailFacts DEF Holds
<1>3. Head(mailbox) = Msg(type, Head(mailbox).of)
  BY <1>1, <1>2 DEF Mail, Msg
<1>4. Distinct(mailbox') /\ \A t, x : Has(t, x)' <=> Has(t, x) /\ Msg(t, x) # Head(mailbox)
  BY <1>1, TailHolds DEF MailInv, Has
<1>. QED BY <1>1, <1>2, <1>3, <1>4

\* Messages are different if their types or what they are of are.
LEMMA MsgFacts ==
    /\ \A t1, x1, t2, x2 : Msg(t1, x1) = Msg(t2, x2) <=> t1 = t2 /\ x1 = x2
    /\ \A s \in Clients : Msg("subscribe", s) \in Mail /\ Msg("unsubscribe", s) \in Mail
    /\ \A n \in Nat : Msg("message", n) \in Mail
BY DEF Msg, Mail

\* A handler that changes its state while the broker and the others wait.
LEMMA StateChanges ==
    ASSUME MailInv, NEW s \in Clients, NEW new \in States, Become(s, new),
           UNCHANGED <<mailbox, observers>>,
           \/ state[s] \in {"open", "sending"} /\ new \in {"open", "sending", "leaving"}
           \/ state[s] = "off" /\ new = "joining"
    PROVE  MailInv'
<1>1. /\ state' \in [Clients -> States] /\ state'[s] = new
      /\ \A r \in Clients \ {s} : state'[r] = state[r]
  BY DEF MailInv, Become
<1>2. \A t, x : Has(t, x)' <=> Has(t, x)
  BY DEF Has
<1>3. mailbox' \in Seq(Mail) /\ Distinct(mailbox') /\ observers' = observers
  BY DEF MailInv
<1>. QED BY <1>1, <1>2, <1>3 DEF MailInv

\* MailInv and NumbersInv hold for any clients and any capacities.
LEMMA MailInvariant == Spec => [](MailInv /\ NumbersInv)
<1>1. Init => MailInv /\ NumbersInv
  BY DEF Init, MailInv, NumbersInv, Has, Holds, Distinct, States
<1>2. MailInv /\ NumbersInv /\ [Next]_vars => MailInv' /\ NumbersInv'
  <2>. SUFFICES ASSUME MailInv, NumbersInv, [Next]_vars PROVE MailInv' /\ NumbersInv'
    OBVIOUS
  <2>1. CASE Publish
    <3>1. /\ mailbox' = Append(mailbox, Msg("message", published + 1))
          /\ UNCHANGED <<state, observers>> /\ published' = published + 1
      BY <2>1 DEF Publish, Tell, sockets
    <3>2. /\ Msg("message", published + 1) \in Mail
          /\ ~Holds(mailbox, Msg("message", published + 1))
      BY MsgFacts DEF NumbersInv, Has
    <3>3. /\ mailbox' \in Seq(Mail) /\ Distinct(mailbox')
          /\ \A t, x : Has(t, x)' <=> Has(t, x) \/ (t = "message" /\ x = published + 1)
      BY <3>1, <3>2, TellFacts, MsgFacts
    <3>4. MailInv'
      BY <3>1, <3>3 DEF MailInv
    <3>. QED BY <3>1, <3>3, <3>4 DEF NumbersInv
  <2>2. CASE Subscribe
    <3>. DEFINE s == Head(mailbox).of
    <3>1. /\ Has("subscribe", s) /\ s \in Clients
          /\ mailbox' \in Seq(Mail) /\ Distinct(mailbox')
          /\ \A t, x : Has(t, x)' <=> Has(t, x) /\ ~(t = "subscribe" /\ x = s)
      BY <2>2, TakesFacts, MsgFacts DEF Subscribe, Mail, Has
    <3>2. observers' = observers \cup {s} /\ Become(s, "open") /\ UNCHANGED published
      BY <2>2 DEF Subscribe, outside
    <3>. HIDE DEF s
    <3>3. /\ state' \in [Clients -> States] /\ state'[s] = "open"
          /\ \A r \in Clients \ {s} : state'[r] = state[r]
      BY <3>1, <3>2 DEF MailInv, Become, States
    <3>4. state[s] = "joined" /\ ~Has("unsubscribe", s)
      BY <3>1 DEF MailInv
    <3>5. MailInv'
      BY <3>1, <3>2, <3>3, <3>4 DEF MailInv
    <3>. QED BY <3>1, <3>2, <3>5 DEF NumbersInv
  <2>3. CASE Unsubscribe
    <3>. DEFINE s == Head(mailbox).of
    <3>1. /\ Has("unsubscribe", s) /\ s \in Clients
          /\ mailbox' \in Seq(Mail) /\ Distinct(mailbox')
          /\ \A t, x : Has(t, x)' <=> Has(t, x) /\ ~(t = "unsubscribe" /\ x = s)
      BY <2>3, TakesFacts, MsgFacts DEF Unsubscribe, Mail, Has
    <3>2. observers' = observers \ {s} /\ UNCHANGED <<state, published>>
      BY <2>3 DEF Unsubscribe, sockets, outside
    <3>. HIDE DEF s
    <3>3. MailInv'
      BY <3>1, <3>2 DEF MailInv
    <3>. QED BY <3>1, <3>2, <3>3 DEF NumbersInv
  <2>4. CASE Broadcast
    <3>1. /\ mailbox' \in Seq(Mail) /\ Distinct(mailbox')
          /\ \A x : Has("subscribe", x)' <=> Has("subscribe", x)
          /\ \A x : Has("unsubscribe", x)' <=> Has("unsubscribe", x)
          /\ \A t, x : Has(t, x)' => Has(t, x)
      BY <2>4, TakesFacts, MsgFacts DEF Broadcast
    <3>2. UNCHANGED <<observers, state, published>>
      BY <2>4 DEF Broadcast, sockets, outside
    <3>3. MailInv'
      BY <3>1, <3>2 DEF MailInv
    <3>. QED BY <3>1, <3>2, <3>3 DEF NumbersInv
  <2>5. ASSUME NEW s \in Clients, Join(s) PROVE MailInv' /\ NumbersInv'
    <3>1. /\ mailbox' = Append(mailbox, Msg("subscribe", s))
          /\ UNCHANGED <<observers, published>>
          /\ state[s] = "joining" /\ Become(s, "joined")
      BY <2>5 DEF Join, Tell, outside
    <3>2. ~Has("subscribe", s)
      BY <3>1 DEF MailInv
    <3>3. /\ mailbox' \in Seq(Mail) /\ Distinct(mailbox')
          /\ \A t, x : Has(t, x)' <=> Has(t, x) \/ (t = "subscribe" /\ x = s)
      BY <3>1, <3>2, TellFacts, MsgFacts DEF Has
    <3>4. /\ state' \in [Clients -> States] /\ state'[s] = "joined"
          /\ \A r \in Clients \ {s} : state'[r] = state[r]
      BY <3>1 DEF MailInv, Become, States
    <3>5. MailInv'
      BY <3>1, <3>3, <3>4 DEF MailInv
    <3>. QED BY <3>1, <3>3, <3>5 DEF NumbersInv
  <2>6. ASSUME NEW s \in Clients, Leave(s) PROVE MailInv' /\ NumbersInv'
    <3>1. /\ mailbox' = Append(mailbox, Msg("unsubscribe", s))
          /\ UNCHANGED <<observers, published>>
          /\ state[s] = "leaving" /\ Become(s, "gone")
      BY <2>6 DEF Leave, Tell, outside
    <3>2. ~Has("unsubscribe", s) /\ s \in observers
      BY <3>1 DEF MailInv
    <3>3. /\ mailbox' \in Seq(Mail) /\ Distinct(mailbox')
          /\ \A t, x : Has(t, x)' <=> Has(t, x) \/ (t = "unsubscribe" /\ x = s)
      BY <3>1, <3>2, TellFacts, MsgFacts DEF Has
    <3>4. /\ state' \in [Clients -> States] /\ state'[s] = "gone"
          /\ \A r \in Clients \ {s} : state'[r] = state[r]
      BY <3>1 DEF MailInv, Become, States
    <3>5. MailInv'
      BY <3>1, <3>2, <3>3, <3>4 DEF MailInv
    <3>. QED BY <3>1, <3>3, <3>5 DEF NumbersInv
  <2>7. ASSUME UNCHANGED <<mailbox, published>> PROVE NumbersInv'
    BY <2>7 DEF NumbersInv, Has
  <2>8. ASSUME NEW s \in Clients,
               Start(s) \/ Take(s) \/ Send(s) \/ SendFails(s) \/ TakeShutdown(s)
        PROVE  MailInv' /\ NumbersInv'
    <3>1. MailInv'
      BY <2>8, StateChanges DEF Start, Take, Send, SendFails, TakeShutdown, broker, States
    <3>. QED BY <2>7, <2>8, <3>1 DEF Start, Take, Send, SendFails, TakeShutdown, broker, outside
  <2>9. ASSUME UNCHANGED <<mailbox, state, observers, published>>
        PROVE  MailInv' /\ NumbersInv'
    BY <2>7, <2>9 DEF MailInv, Has
  <2>10. CASE Update \/ UNCHANGED vars
    BY <2>9, <2>10 DEF Update, vars, broker, sockets, outside
  <2>11. ASSUME NEW s \in Clients, Close(s) \/ Shutdown(s) PROVE MailInv' /\ NumbersInv'
    BY <2>9, <2>11 DEF Close, Shutdown, broker, sockets, outside
  <2>. QED BY <2>1, <2>2, <2>3, <2>4, <2>5, <2>6, <2>8, <2>10, <2>11 DEF Next, Broker, Handler
<1>. QED BY <1>1, <1>2, PTL DEF Spec

\* An observer whose handler is over has an Ubsubscriber in the broker's
\* mailbox, for any clients, capacities and messages.
THEOREM NobodyForgotten == Spec => []NoOneForgotten
<1>1. MailInv => NoOneForgotten
  BY DEF MailInv, NoOneForgotten, Told, Has, Holds
<1>. QED BY <1>1, MailInvariant, PTL

-----------------------------------------------------------------------------
(***************************************************************************)
(* The numbers of the messages.  Those in the broker's mailbox are the     *)
(* ones after the message the broker has, in their order.                  *)
(***************************************************************************)
Ordered(q) ==
    \A i, j \in DOMAIN q :
        i < j /\ q[i].type = "message" /\ q[j].type = "message" => q[i].of < q[j].of

NextInv ==
    /\ message \in 0 .. published
    /\ \A n \in message + 1 .. published : Has("message", n)
    /\ \A n : Has("message", n) => n \in message + 1 .. published
    /\ Ordered(mailbox)

\* Taking a message leaves the others in order.
LEMMA OrderedTail ==
    ASSUME NEW q \in Seq(Mail), q # <<>>, Ordered(q)
    PROVE  Ordered(Tail(q))
<1>1. ASSUME NEW i \in DOMAIN Tail(q), NEW j \in DOMAIN Tail(q), i < j,
             Tail(q)[i].type = "message", Tail(q)[j].type = "message"
      PROVE  Tail(q)[i].of < Tail(q)[j].of
  <2>1. /\ i + 1 \in DOMAIN q /\ j + 1 \in DOMAIN q /\ i + 1 < j + 1
        /\ Tail(q)[i] = q[i + 1] /\ Tail(q)[j] = q[j + 1]
    BY <1>1, TailFacts
  <2>. QED BY <1>1, <2>1 DEF Ordered
<1>. QED BY <1>1 DEF Ordered

\* Adding the latest one, or what is no message, leaves them in order.
LEMMA OrderedAppend ==
    ASSUME NEW q \in Seq(Mail), NEW x \in Mail, Ordered(q),
           x.type = "message" =>
               \A i \in DOMAIN q : q[i].type = "message" => q[i].of < x.of
    PROVE  Ordered(Append(q, x))
<1>1. /\ Len(q) \in Nat /\ DOMAIN q = 1 .. Len(q)
      /\ DOMAIN Append(q, x) = DOMAIN q \cup {Len(q) + 1}
      /\ \A i \in DOMAIN q : Append(q, x)[i] = q[i]
      /\ Append(q, x)[Len(q) + 1] = x
  BY AppendFacts
<1>2. ASSUME NEW i \in DOMAIN Append(q, x), NEW j \in DOMAIN Append(q, x), i < j,
             Append(q, x)[i].type = "message", Append(q, x)[j].type = "message"
      PROVE  Append(q, x)[i].of < Append(q, x)[j].of
  <2>1. i \in DOMAIN q
    BY <1>1, <1>2
  <2>2. CASE j \in DOMAIN q
    BY <1>1, <1>2, <2>1, <2>2 DEF Ordered
  <2>3. CASE j = Len(q) + 1
    BY <1>1, <1>2, <2>1, <2>3
  <2>. QED BY <1>1, <1>2, <2>2, <2>3
<1>. QED BY <1>2 DEF Ordered

\* The message the broker takes is the one after the last it took.
LEMMA NextMessage ==
    ASSUME MailInv, NumbersInv, NextInv, Takes("message")
    PROVE  Head(mailbox).of = message + 1
<1>. DEFINE k == Head(mailbox).of
<1>1. /\ mailbox \in Seq(Mail) /\ mailbox # <<>> /\ Head(mailbox) = Msg("message", k)
      /\ Head(mailbox) = mailbox[1] /\ 1 \in DOMAIN mailbox /\ DOMAIN mailbox = 1 .. Len(mailbox)
      /\ Len(mailbox) \in Nat
  <2>1. mailbox \in Seq(Mail) /\ mailbox # <<>> /\ Head(mailbox).type = "message"
    BY DEF MailInv, Takes
  <2>2. Head(mailbox) \in Mail /\ Head(mailbox) = mailbox[1] /\ 1 \in DOMAIN mailbox
    BY <2>1, TailFacts
  <2>3. Head(mailbox) = Msg("message", k)
    BY <2>1, <2>2 DEF Mail, Msg
  <2>. QED BY <2>1, <2>2, <2>3
<1>. HIDE DEF k
<1>2. k \in message + 1 .. published /\ message \in Nat /\ published \in Nat
  <2>1. Has("message", k)
    BY <1>1 DEF Has, Holds
  <2>. QED BY <2>1 DEF NextInv, NumbersInv
<1>3. ASSUME k # message + 1 PROVE FALSE
  <2>1. message + 1 \in message + 1 .. published /\ message + 1 < k
    BY <1>2, <1>3
  <2>2. PICK j \in DOMAIN mailbox : mailbox[j] = Msg("message", message + 1)
    BY <2>1 DEF NextInv, Has, Holds
  <2>3. j # 1
    BY <1>1, <1>3, <2>2, MsgFacts
  <2>4. 1 < j
    BY <1>1, <2>3
  <2>5. mailbox[1].of < mailbox[j].of
    BY <1>1, <2>2, <2>4 DEF NextInv, Ordered, Msg
  <2>6. k < message + 1
    BY <1>1, <2>2, <2>5 DEF Msg
  <2>. QED BY <1>2, <2>1, <2>6
<1>. QED BY <1>3 DEF k

\* NextInv holds for any clients, capacities and messages.
LEMMA NextInvariant == Spec => []NextInv
<1>1. Init => NextInv
  BY DEF Init, NextInv, Has, Holds, Ordered
<1>2. MailInv /\ NumbersInv /\ NextInv /\ [Next]_vars => NextInv'
  <2>. SUFFICES ASSUME MailInv, NumbersInv, NextInv, [Next]_vars PROVE NextInv'
    OBVIOUS
  <2>0. mailbox \in Seq(Mail) /\ published \in Nat /\ message \in Nat
    BY DEF MailInv, NumbersInv, NextInv
  <2>1. CASE Publish
    <3>. DEFINE m == Msg("message", published + 1)
    <3>1. /\ mailbox' = Append(mailbox, m) /\ message' = message
          /\ published' = published + 1
      BY <2>1 DEF Publish, Tell
    <3>2. m \in Mail /\ m.of = published + 1
      BY <2>0, MsgFacts DEF Msg
    <3>3. \A t, x : Has(t, x)' <=> Has(t, x) \/ (t = "message" /\ x = published + 1)
      BY <3>1, <3>2, TellFacts, MsgFacts
    <3>4. \A i \in DOMAIN mailbox : mailbox[i].type = "message" => mailbox[i].of < m.of
      <4>1. ASSUME NEW i \in DOMAIN mailbox, mailbox[i].type = "message"
            PROVE  mailbox[i].of < m.of
        <5>1. mailbox[i] \in Mail
          BY <2>0
        <5>2. mailbox[i] = Msg("message", mailbox[i].of)
          BY <4>1, <5>1 DEF Mail, Msg
        <5>3. Has("message", mailbox[i].of)
          BY <5>2 DEF Has, Holds
        <5>4. mailbox[i].of \in 1 .. published
          BY <5>3 DEF NumbersInv
        <5>. QED BY <2>0, <3>2, <5>4
      <4>. QED BY <4>1
    <3>5. Ordered(mailbox')
      BY <2>0, <3>1, <3>2, <3>4, OrderedAppend DEF NextInv
    <3>6. \A n \in message + 1 .. published + 1 : n = published + 1 \/ n \in message + 1 .. published
      BY <2>0
    <3>7. /\ message' \in 0 .. published'
          /\ \A n \in message' + 1 .. published' : Has("message", n)'
      BY <2>0, <3>1, <3>3, <3>6 DEF NextInv
    <3>8. \A n : Has("message", n)' => n \in message' + 1 .. published'
      <4>1. published + 1 \in message + 1 .. published + 1
        BY <2>0 DEF NextInv
      <4>2. \A n \in message + 1 .. published : n \in message + 1 .. published + 1
        BY <2>0
      <4>. QED BY <3>1, <3>3, <4>1, <4>2 DEF NextInv
    <3>. QED BY <3>5, <3>7, <3>8 DEF NextInv
  <2>2. CASE Broadcast
    <3>1. /\ mailbox' = Tail(mailbox) /\ mailbox # <<>> /\ Takes("message")
          /\ message' = message + 1 /\ published' = published
      BY <2>2, NextMessage DEF Broadcast, Takes, outside
    <3>2. Head(mailbox) = Msg("message", message + 1) /\ Has("message", message + 1)
      BY <3>1, TakesFacts, NextMessage DEF Has
    <3>3. \A n : Has("message", n)' <=> Has("message", n) /\ n # message + 1
      BY <3>1, <3>2, TakesFacts, MsgFacts
    <3>4. Ordered(mailbox')
      BY <2>0, <3>1, OrderedTail DEF NextInv
    <3>5. message + 1 \in 0 .. published
      BY <2>0, <3>2 DEF NextInv
    <3>6. /\ \A n \in message + 2 .. published : n \in message + 1 .. published /\ n # message + 1
          /\ \A n \in message + 1 .. published : n # message + 1 => n \in message + 2 .. published
          /\ message' + 1 = message + 2
      BY <2>0, <3>1
    <3>. QED BY <3>1, <3>3, <3>4, <3>5, <3>6 DEF NextInv
  <2>3. CASE Subscribe \/ Unsubscribe
    <3>1. /\ mailbox' = Tail(mailbox) /\ mailbox # <<>> /\ UNCHANGED <<message, published>>
          /\ Takes("subscribe") \/ Takes("unsubscribe")
      BY <2>3 DEF Subscribe, Unsubscribe, Takes, outside
    <3>2. \A n : Has("message", n)' <=> Has("message", n)
      BY <3>1, TakesFacts, MsgFacts
    <3>3. Ordered(mailbox')
      BY <2>0, <3>1, OrderedTail DEF NextInv
    <3>. QED BY <3>1, <3>2, <3>3 DEF NextInv
  <2>4. ASSUME NEW s \in Clients, Join(s) \/ Leave(s) PROVE NextInv'
    <3>1. /\ UNCHANGED <<message, published>>
          /\ \E t \in {"subscribe", "unsubscribe"} : mailbox' = Append(mailbox, Msg(t, s))
      BY <2>4 DEF Join, Leave, Tell, outside
    <3>2. PICK t \in {"subscribe", "unsubscribe"} : mailbox' = Append(mailbox, Msg(t, s))
      BY <3>1
    <3>3. Msg(t, s) \in Mail /\ Msg(t, s).type # "message"
      BY MsgFacts DEF Msg
    <3>4. \A n : Has("message", n)' <=> Has("message", n)
      BY <3>2, <3>3, TellFacts, MsgFacts
    <3>5. Ordered(mailbox')
      BY <2>0, <3>2, <3>3, OrderedAppend DEF NextInv
    <3>. QED BY <3>1, <3>4, <3>5 DEF NextInv
  <2>5. ASSUME UNCHANGED <<mailbox, message, published>> PROVE NextInv'
    BY <2>5 DEF NextInv, Has
  <2>6. CASE Update \/ UNCHANGED vars
    BY <2>5, <2>6 DEF Update, vars, broker, outside
  <2>7. ASSUME NEW s \in Clients,
               \/ Start(s) \/ Take(s) \/ Send(s) \/ SendFails(s) \/ TakeShutdown(s)
               \/ Close(s) \/ Shutdown(s)
        PROVE  NextInv'
    BY <2>5, <2>7 DEF Start, Take, Send, SendFails, TakeShutdown, Close, Shutdown, broker, outside
  <2>. QED BY <2>1, <2>2, <2>3, <2>4, <2>6, <2>7 DEF Next, Broker, Handler
<1>. QED BY <1>1, <1>2, MailInvariant, PTL DEF Spec

-----------------------------------------------------------------------------
(***************************************************************************)
(* What the clients get.  What was sent to a client that is served and     *)
(* what waits in its mailbox are consecutive messages, up to the one the   *)
(* broker has or, if the broker is still on its way to the client, the one *)
(* before.                                                                 *)
(***************************************************************************)
Run(s) == sent[s] \o inbox[s]

Latest(s) == IF Holds(todo, s) THEN message - 1 ELSE message

Served(s) ==
    state[s] \in {"open", "sending"} =>
        Up(Run(s)) /\ (Run(s) # <<>> => Run(s)[Len(Run(s))] = Latest(s))

TodoInv == todo \in Seq(observers) /\ Distinct(todo)

RunInv ==
    /\ sent \in [Clients -> Seq(Nat)] /\ inbox \in [Clients -> Seq(Nat)]
    /\ \A s \in Clients :
          /\ state[s] \in {"off", "joining", "joined"} => sent[s] = <<>> /\ inbox[s] = <<>>
          /\ state[s] = "sending" => inbox[s] # <<>>
          /\ Up(sent[s])
          /\ Served(s)

\* Any order of a finite set has each of its elements once.
LEMMA OrdersFacts ==
    ASSUME NEW S, IsFiniteSet(S), NEW o \in Orders(S)
    PROVE  /\ o \in Seq(S) /\ Distinct(o)
           /\ \A x \in S : Holds(o, x)
<1>. DEFINE n == Cardinality(S)
<1>1. n \in Nat
  BY FS_CardinalityType
<1>2. o \in [1 .. n -> S] /\ \A i, j \in 1 .. n : i # j => o[i] # o[j]
  BY DEF Orders
<1>3. o \in Seq(S) /\ DOMAIN o = 1 .. n
  BY <1>1, <1>2
<1>4. o \in Injection(1 .. n, S)
  BY <1>2 DEF Injection, IsInjective
<1>5. IsFiniteSet(1 .. n) /\ Cardinality(1 .. n) = n
  BY <1>1, FS_Interval
<1>6. o \in Surjection(1 .. n, S)
  BY <1>4, <1>5, FS_Injection
<1>7. \A x \in S : \E i \in 1 .. n : o[i] = x
  BY <1>6 DEF Surjection
<1>8. Distinct(o)
  BY <1>2, <1>3 DEF Distinct
<1>. QED BY <1>3, <1>7, <1>8 DEF Holds

\* The broker passes a message to observers, to each once.
LEMMA TodoInvariant == Spec => []TodoInv
<1>1. Init => TodoInv
  BY DEF Init, TodoInv, Distinct
<1>2. MailInv /\ TodoInv /\ [Next]_vars => TodoInv'
  <2>. SUFFICES ASSUME MailInv, TodoInv, [Next]_vars PROVE TodoInv'
    OBVIOUS
  <2>1. CASE Subscribe \/ Unsubscribe
    <3>1. todo' = <<>>
      BY <2>1 DEF Subscribe, Unsubscribe, Takes
    <3>. QED BY <3>1 DEF TodoInv, Distinct
  <2>2. CASE Broadcast
    <3>1. todo' \in Orders(observers) /\ observers' = observers /\ IsFiniteSet(observers)
      BY <2>2, CapacityAssumption, FS_Subset DEF Broadcast, MailInv
    <3>. QED BY <3>1, OrdersFacts DEF TodoInv
  <2>3. CASE Update
    <3>1. todo' = Tail(todo) /\ todo # <<>> /\ observers' = observers
      BY <2>3 DEF Update
    <3>2. todo' \in Seq(observers)
      BY <3>1 DEF TodoInv
    <3>. QED BY <3>1, <3>2, TailHolds DEF TodoInv
  <2>4. ASSUME UNCHANGED <<todo, observers>> PROVE TodoInv'
    BY <2>4 DEF TodoInv, Distinct
  <2>5. CASE Publish \/ UNCHANGED vars
    BY <2>4, <2>5 DEF Publish, Tell, vars, broker
  <2>6. ASSUME NEW s \in Clients, Start(s) \/ Handler(s) \/ Close(s) \/ Shutdown(s)
        PROVE  TodoInv'
    BY <2>4, <2>6 DEF Handler, Start, Join, Take, Send, SendFails, TakeShutdown, Leave,
                      Close, Shutdown, Tell, broker
  <2>. QED BY <2>1, <2>2, <2>3, <2>5, <2>6 DEF Next, Broker
<1>. QED BY <1>1, <1>2, MailInvariant, PTL DEF Spec

\* A client whose part of the state does not change is served as before.
LEMMA StillServed ==
    ASSUME NEW s, Served(s),
           UNCHANGED <<state[s], sent[s], inbox[s]>>,
           state[s] \in {"open", "sending"} => Latest(s)' = Latest(s)
    PROVE  Served(s)'
  BY DEF Served, Run

\* RunInv holds for any clients, capacities and messages.
LEMMA RunInvariant == Spec => []RunInv
<1>1. Init => RunInv
  BY DEF Init, RunInv, Served, Up
<1>2. /\ MailInv /\ NumbersInv /\ NextInv /\ TodoInv /\ TodoInv'
      /\ RunInv /\ [Next]_vars
      => RunInv'
  <2>. SUFFICES ASSUME MailInv, NumbersInv, NextInv, TodoInv, TodoInv', RunInv, [Next]_vars
                PROVE  RunInv'
    OBVIOUS
  <2>0. /\ message \in Nat
        /\ \A s \in Clients : sent[s] \in Seq(Nat) /\ inbox[s] \in Seq(Nat) /\ Served(s)
      BY DEF NextInv, NumbersInv, RunInv
  <2>1. CASE Subscribe
    <3>0. Has("subscribe", Head(mailbox).of) /\ Head(mailbox).of \in Clients
      BY <2>1, TakesFacts DEF Subscribe, Mail, Has
    <3>1. PICK s \in Clients : s = Head(mailbox).of /\ Has("subscribe", s)
      BY <3>0
    <3>2. Become(s, "open") /\ UNCHANGED <<inbox, sent, todo, message>>
      BY <2>1, <3>1 DEF Subscribe, outside
    <3>3. sent[s] = <<>> /\ inbox[s] = <<>>
      BY <3>1 DEF MailInv, RunInv
    <3>4. state'[s] = "open" /\ \A r \in Clients \ {s} : state'[r] = state[r]
      BY <3>1, <3>2 DEF MailInv, Become
    <3>5. Run(s)' = <<>>
      BY <3>2, <3>3 DEF Run
    <3>6. Served(s)'
      BY <3>5 DEF Served, Up
    <3>7. \A r \in Clients \ {s} : Served(r)'
      BY <2>0, <3>2, <3>4, StillServed DEF Latest
    <3>. QED BY <3>2, <3>4, <3>6, <3>7 DEF RunInv
  <2>2. ASSUME UNCHANGED <<state, inbox, sent, message, todo>> PROVE RunInv'
    <3>1. \A r \in Clients : Served(r)'
      BY <2>0, <2>2, StillServed DEF Latest
    <3>. QED BY <2>2, <3>1 DEF RunInv
  <2>3. CASE Publish \/ Unsubscribe \/ UNCHANGED vars
    BY <2>2, <2>3 DEF Publish, Tell, Unsubscribe, vars, broker, sockets, outside
  <2>4. CASE Broadcast
    <3>1. /\ message' = message + 1 /\ UNCHANGED <<state, inbox, sent>>
          /\ todo = <<>> /\ todo' \in Orders(observers) /\ IsFiniteSet(observers)
      BY <2>4, NextMessage, CapacityAssumption, FS_Subset
         DEF Broadcast, Takes, sockets, outside, MailInv
    <3>2. ASSUME NEW r \in Clients PROVE Served(r)'
      <4>1. CASE state[r] \in {"open", "sending"}
        <5>1. r \in observers
          BY <4>1 DEF MailInv
        <5>2. Holds(todo, r)' /\ ~Holds(todo, r)
          BY <3>1, <5>1, OrdersFacts DEF Holds
        <5>3. Latest(r)' = Latest(r)
          BY <2>0, <3>1, <5>2 DEF Latest
        <5>. QED BY <2>0, <3>1, <5>3, StillServed
      <4>2. CASE state[r] \notin {"open", "sending"}
        BY <3>1, <4>2 DEF Served
      <4>. QED BY <4>1, <4>2
    <3>. QED BY <3>1, <3>2 DEF RunInv
  <2>5. CASE Update
    <3>0. /\ Head(todo) \in Clients /\ Head(todo) \in observers
          /\ \A x : Holds(todo, x)' <=> Holds(todo, x) /\ x # Head(todo)
          /\ Holds(todo, Head(todo))
      <4>1. todo \in Seq(observers) /\ todo # <<>> /\ todo' = Tail(todo) /\ Distinct(todo)
        BY <2>5 DEF Update, TodoInv
      <4>. QED BY <4>1, TailFacts, TailHolds DEF MailInv, Holds
    <3>1. PICK s \in Clients :
            /\ s = Head(todo) /\ s \in observers
            /\ \A x : Holds(todo, x)' <=> Holds(todo, x) /\ x # s
            /\ Holds(todo, s)
      BY <3>0
    <3>2. /\ inbox' = IF state[s] = "gone" THEN inbox ELSE [inbox EXCEPT ![s] = Append(@, message)]
          /\ UNCHANGED <<state, sent, message>>
      BY <2>5, <3>1 DEF Update, outside
    <3>3. \A r \in Clients \ {s} : inbox'[r] = inbox[r] /\ Latest(r)' = Latest(r)
      BY <3>1, <3>2 DEF RunInv, Latest
    <3>4. \A r \in Clients \ {s} : Served(r)'
      BY <2>0, <3>2, <3>3, StillServed
    <3>5. CASE state[s] = "gone"
      <4>1. Served(s)'
        BY <3>2, <3>5 DEF Served
      <4>. QED BY <3>2, <3>4, <3>5, <4>1 DEF RunInv
    <3>6. CASE state[s] # "gone"
      <4>1. inbox' \in [Clients -> Seq(Nat)] /\ inbox'[s] = Append(inbox[s], message)
        <5>1. Append(inbox[s], message) \in Seq(Nat)
          BY <2>0, <3>1, AppendFacts
        <5>. QED BY <3>1, <3>2, <3>6, <5>1 DEF RunInv
      <4>2. inbox'[s] # <<>>
        BY <2>0, <3>1, <4>1, AppendProperties
      <4>3. Served(s)'
        <5>1. CASE state[s] \in {"open", "sending"}
          <6>0. Run(s) \in Seq(Nat)
            BY <2>0, <3>1 DEF Run
          <6>1. Up(Run(s)) /\ (Run(s) # <<>> => Run(s)[Len(Run(s))] = message - 1)
            BY <2>0, <3>1, <5>1 DEF Served, Latest
          <6>2. Run(s)' = Append(Run(s), message)
            <7>1. sent[s] \o Append(inbox[s], message) = Append(sent[s] \o inbox[s], message)
              BY <2>0, <3>1, AddedAtEnd
            <7>. QED BY <3>2, <4>1, <7>1 DEF Run
          <6>3. Up(Run(s)') /\ Run(s)'[Len(Run(s)')] = message
            BY <2>0, <6>0, <6>1, <6>2, UpAppend
          <6>4. Latest(s)' = message
            BY <3>1, <3>2 DEF Latest
          <6>. QED BY <6>3, <6>4 DEF Served, Up
        <5>2. CASE state[s] \notin {"open", "sending"}
          BY <3>2, <5>2 DEF Served
        <5>. QED BY <5>1, <5>2
      <4>4. state[s] \notin {"off", "joining", "joined"}
        BY <3>1 DEF MailInv
      <4>. QED BY <3>2, <3>3, <3>4, <4>1, <4>2, <4>3, <4>4 DEF RunInv
    <3>. QED BY <3>5, <3>6
  <2>6. ASSUME NEW s \in Clients, NEW new \in States, Become(s, new),
               UNCHANGED <<inbox, sent, todo, message>>,
               new = "sending" => inbox[s] # <<>>,
               \/ state[s] \in {"off", "joining"} /\ new \in {"joining", "joined"}
               \/ state[s] = "open" /\ new = "sending"
               \/ state[s] \in {"open", "sending"} /\ new = "leaving"
        PROVE  RunInv'
    <3>1. state'[s] = new /\ \A r \in Clients \ {s} : state'[r] = state[r]
      BY <2>6 DEF MailInv, Become
    <3>2. \A r \in Clients \ {s} : Served(r)'
      BY <2>0, <2>6, <3>1, StillServed DEF Latest
    <3>3. Served(s)'
      BY <2>0, <2>6, <3>1 DEF Served, Run, Latest
    <3>. QED BY <2>6, <3>1, <3>2, <3>3 DEF RunInv
  <2>7. ASSUME NEW s \in Clients, Start(s) \/ Join(s) \/ Take(s) \/ TakeShutdown(s)
        PROVE  RunInv'
    BY <2>6, <2>7 DEF Start, Join, Take, TakeShutdown, Tell, States, broker, outside
  <2>8. ASSUME NEW s \in Clients, Send(s) PROVE RunInv'
    <3>1. /\ state[s] = "sending" /\ inbox[s] # <<>>
          /\ sent' = [sent EXCEPT ![s] = Append(@, Head(inbox[s]))]
          /\ inbox' = [inbox EXCEPT ![s] = Tail(@)]
          /\ Become(s, "open") /\ UNCHANGED <<todo, message>>
      BY <2>8 DEF Send, broker, RunInv
    <3>2. /\ Append(sent[s], Head(inbox[s])) \in Seq(Nat) /\ Tail(inbox[s]) \in Seq(Nat)
          /\ Append(sent[s], Head(inbox[s])) \o Tail(inbox[s]) = Run(s)
      BY <2>0, <3>1, Moved, TailFacts, AppendFacts DEF Run
    <3>3. /\ sent' \in [Clients -> Seq(Nat)] /\ inbox' \in [Clients -> Seq(Nat)]
          /\ sent'[s] = Append(sent[s], Head(inbox[s])) /\ inbox'[s] = Tail(inbox[s])
          /\ \A r \in Clients \ {s} : sent'[r] = sent[r] /\ inbox'[r] = inbox[r]
      BY <3>1, <3>2 DEF RunInv
    <3>4. state'[s] = "open" /\ \A r \in Clients \ {s} : state'[r] = state[r]
      BY <3>1 DEF MailInv, Become
    <3>5. Run(s)' = Run(s) /\ Latest(s)' = Latest(s)
      BY <3>1, <3>2, <3>3 DEF Run, Latest
    <3>6. Served(s)'
      BY <2>0, <3>1, <3>5 DEF Served, Up
    <3>7. Up(sent'[s])
      <4>1. Up(sent'[s] \o inbox'[s])
        BY <2>0, <3>1, <3>2, <3>3 DEF Served
      <4>. QED BY <3>2, <3>3, <4>1, UpBeginning
    <3>8. \A r \in Clients \ {s} : Served(r)'
      BY <2>0, <3>1, <3>3, <3>4, StillServed DEF Latest
    <3>9. \A r \in Clients : Up(sent'[r])
      BY <3>3, <3>7 DEF RunInv
    <3>. QED BY <3>3, <3>4, <3>6, <3>8, <3>9 DEF RunInv
  <2>9. ASSUME NEW s \in Clients, SendFails(s) \/ Leave(s) PROVE RunInv'
    <3>1. /\ inbox' = [inbox EXCEPT ![s] = Tail(@)] \/ inbox' = [inbox EXCEPT ![s] = <<>>]
          /\ state[s] = "sending" \/ state[s] = "leaving"
          /\ inbox' = [inbox EXCEPT ![s] = Tail(@)] => inbox[s] # <<>> \/ state[s] = "leaving"
          /\ Become(s, "leaving") \/ Become(s, "gone")
          /\ UNCHANGED <<sent, todo, message>>
      BY <2>9 DEF SendFails, Leave, Tell, broker, outside, RunInv
    <3>2. /\ inbox' \in [Clients -> Seq(Nat)]
          /\ \A r \in Clients \ {s} : inbox'[r] = inbox[r]
      <4>1. CASE inbox' = [inbox EXCEPT ![s] = <<>>]
        BY <4>1 DEF RunInv
      <4>2. CASE SendFails(s)
        <5>1. Tail(inbox[s]) \in Seq(Nat) /\ inbox' = [inbox EXCEPT ![s] = Tail(@)]
          BY <2>0, <4>2, TailFacts DEF SendFails, RunInv
        <5>. QED BY <5>1 DEF RunInv
      <4>. QED BY <2>9, <4>1, <4>2 DEF Leave
    <3>3. /\ state'[s] \in {"leaving", "gone"}
          /\ \A r \in Clients \ {s} : state'[r] = state[r]
      BY <3>1 DEF MailInv, Become
    <3>4. \A r \in Clients \ {s} : Served(r)'
      BY <2>0, <3>1, <3>2, <3>3, StillServed DEF Latest
    <3>5. Served(s)'
      BY <3>3 DEF Served
    <3>. QED BY <3>1, <3>2, <3>3, <3>4, <3>5 DEF RunInv
  <2>10. ASSUME NEW s \in Clients, Close(s) \/ Shutdown(s) PROVE RunInv'
    BY <2>2, <2>10 DEF Close, Shutdown, broker, sockets, outside
  <2>. QED BY <2>1, <2>3, <2>4, <2>5, <2>7, <2>8, <2>9, <2>10 DEF Next, Broker, Handler
<1>. QED BY <1>1, <1>2, MailInvariant, NextInvariant, TodoInvariant, PTL DEF Spec

\* A client that is served gets the messages from its first one on, in order,
\* each once and none withheld, for any clients, capacities and messages.
THEOREM MessagesInOrder == Spec => []InOrder
<1>1. RunInv => InOrder
  <2>. SUFFICES ASSUME RunInv, NEW s \in Clients
                PROVE  LET run == sent[s] \o IF state[s] \in {"open", "sending"}
                                             THEN inbox[s] ELSE <<>>
                       IN  /\ \A i \in 1 .. Len(run) - 1 : run[i + 1] = run[i] + 1
                           /\ run # <<>> /\ state[s] \in {"open", "sending"} =>
                                  run[Len(run)] = IF \E i \in DOMAIN todo : todo[i] = s
                                                  THEN message - 1 ELSE message
    BY DEF InOrder
  <2>0. sent[s] \in Seq(Nat) /\ Up(sent[s]) /\ Served(s)
    BY DEF RunInv
  <2>1. CASE state[s] \in {"open", "sending"}
    BY <2>0, <2>1 DEF Served, Run, Up, Latest, Holds
  <2>2. CASE state[s] \notin {"open", "sending"}
    <3>1. sent[s] \o <<>> = sent[s]
      BY <2>0, ConcatEmptySeq
    <3>. QED BY <2>0, <2>2, <3>1 DEF Up
  <2>. QED BY <2>1, <2>2
<1>. QED BY <1>1, RunInvariant, PTL

-----------------------------------------------------------------------------
(***************************************************************************)
(* Bounds: of the mailboxes, and of the numbers clients are sent.          *)
(***************************************************************************)
In(q, n) == \A i \in DOMAIN q : q[i] \in 1 .. n

BoundsInv ==
    /\ Len(mailbox) <= BrokerCapacity
    /\ published \in 0 .. MaxMessages
    /\ todo # <<>> => message \in 1 .. published
    /\ closed \subseteq Clients /\ shutdown \subseteq closed
    /\ \A s \in Clients :
          Waiting(s) \in 0 .. ClientCapacity /\ In(inbox[s], published) /\ In(sent[s], published)

\* Numbers up to n, one more of them, or one less.
LEMMA InFacts ==
    ASSUME NEW q \in Seq(Nat), NEW n \in Nat, In(q, n)
    PROVE  /\ In(q, n + 1)
           /\ \A x \in 1 .. n : In(Append(q, x), n)
           /\ q # <<>> => Head(q) \in 1 .. n /\ In(Tail(q), n)
<1>1. \A i \in DOMAIN q : q[i] \in 1 .. n /\ q[i] \in 1 .. n + 1
  BY DEF In
<1>2. ASSUME NEW x \in 1 .. n PROVE In(Append(q, x), n)
  BY <1>1, AppendFacts DEF In
<1>3. ASSUME q # <<>> PROVE Head(q) \in 1 .. n /\ In(Tail(q), n)
  BY <1>1, <1>3, TailFacts DEF In
<1>. QED BY <1>1, <1>2, <1>3 DEF In

\* BoundsInv holds for any clients, capacities and messages.
LEMMA BoundsInvariant == Spec => []BoundsInv
<1>1. Init => BoundsInv
  BY CapacityAssumption DEF Init, BoundsInv, In, Waiting
<1>2. /\ MailInv /\ NumbersInv /\ NextInv /\ TodoInv /\ RunInv
      /\ BoundsInv /\ [Next]_vars
      => BoundsInv'
  <2>. SUFFICES ASSUME MailInv, NumbersInv, NextInv, TodoInv, RunInv, BoundsInv, [Next]_vars
                PROVE  BoundsInv'
    OBVIOUS
  <2>0. /\ published \in Nat /\ message \in Nat /\ Len(mailbox) \in Nat /\ mailbox \in Seq(Mail)
        /\ BrokerCapacity \in Nat /\ ClientCapacity \in Nat /\ MaxMessages \in Nat
        /\ \A s \in Clients :
              /\ sent[s] \in Seq(Nat) /\ inbox[s] \in Seq(Nat) /\ Len(inbox[s]) \in Nat
              /\ In(inbox[s], published) /\ In(sent[s], published)
    BY CapacityAssumption DEF NumbersInv, NextInv, MailInv, RunInv, BoundsInv
  <2>1. CASE Publish
    <3>1. /\ Len(mailbox') = Len(mailbox) + 1 /\ Len(mailbox) < BrokerCapacity
          /\ published' = published + 1 /\ published < MaxMessages
          /\ UNCHANGED <<todo, message, state, inbox, sent, closed, shutdown>>
      BY <2>0, <2>1 DEF Publish, Room, Tell, sockets
    <3>2. \A s \in Clients : In(inbox[s], published') /\ In(sent[s], published')
      BY <2>0, <3>1, InFacts
    <3>3. todo' # <<>> => message' \in 1 .. published'
      BY <2>0, <3>1 DEF BoundsInv
    <3>. QED BY <2>0, <3>1, <3>2, <3>3 DEF BoundsInv, Waiting
  <2>2. CASE Subscribe \/ Unsubscribe \/ Broadcast
    <3>1. /\ Len(mailbox') = Len(mailbox) - 1
          /\ UNCHANGED <<inbox, sent, closed, shutdown, published>>
          /\ todo = <<>>
      BY <2>0, <2>2, TailFacts DEF Subscribe, Unsubscribe, Broadcast, Takes, sockets, outside
    <3>2. todo' # <<>> => message' \in 1 .. published
      <4>1. CASE Broadcast
        <5>1. message' = message + 1 /\ Has("message", message + 1)
          BY <4>1, NextMessage, TakesFacts DEF Broadcast, Has
        <5>. QED BY <5>1 DEF NumbersInv
      <4>2. CASE Subscribe \/ Unsubscribe
        BY <3>1, <4>2 DEF Subscribe, Unsubscribe
      <4>. QED BY <2>2, <4>1, <4>2
    <3>3. \A s \in Clients : Waiting(s)' = Waiting(s)
      <4>1. CASE Subscribe
        <5>1. Head(mailbox).of \in Clients /\ Has("subscribe", Head(mailbox).of)
          BY <4>1, TakesFacts DEF Subscribe, Mail, Has
        <5>2. state[Head(mailbox).of] = "joined" /\ Become(Head(mailbox).of, "open")
          BY <4>1, <5>1 DEF Subscribe, MailInv
        <5>. QED BY <3>1, <5>1, <5>2 DEF Waiting, Become, MailInv
      <4>2. CASE Unsubscribe \/ Broadcast
        BY <3>1, <4>2 DEF Unsubscribe, Broadcast, Waiting, sockets
      <4>. QED BY <2>2, <4>1, <4>2
    <3>. QED BY <2>0, <3>1, <3>2, <3>3 DEF BoundsInv
  <2>3. CASE Update
    <3>0. Head(todo) \in Clients /\ todo # <<>>
      <4>1. todo \in Seq(observers) /\ todo # <<>>
        BY <2>3 DEF Update, TodoInv
      <4>. QED BY <4>1, TailFacts DEF MailInv
    <3>1. PICK s \in Clients : s = Head(todo)
      BY <3>0
    <3>2. /\ inbox' = IF state[s] = "gone" THEN inbox ELSE [inbox EXCEPT ![s] = Append(@, message)]
          /\ state[s] = "gone" \/ HasRoom(s)
          /\ UNCHANGED <<mailbox, state, sent, message, published, closed, shutdown>>
      BY <2>3, <3>1 DEF Update, outside
    <3>3. message \in 1 .. published
      BY <3>0 DEF BoundsInv
    <3>4. \A r \in Clients \ {s} : inbox'[r] = inbox[r]
      BY <3>2 DEF RunInv
    <3>5. inbox'[s] = inbox[s] \/ (inbox'[s] = Append(inbox[s], message) /\ HasRoom(s))
      BY <3>2 DEF RunInv
    <3>6. In(inbox'[s], published)
      BY <2>0, <3>3, <3>5, InFacts
    <3>7. Len(Append(inbox[s], message)) = Len(inbox[s]) + 1
      BY <2>0
    <3>8. Waiting(s)' \in 0 .. ClientCapacity
      <4>1. Waiting(s) \in 0 .. ClientCapacity /\ state'[s] = state[s]
        BY <3>2 DEF BoundsInv
      <4>2. CASE inbox'[s] = inbox[s]
        BY <4>1, <4>2 DEF Waiting
      <4>3. CASE Len(inbox'[s]) = Len(inbox[s]) + 1 /\ HasRoom(s)
        <5>1. Waiting(s)' = Waiting(s) + 1
          BY <2>0, <4>1, <4>3 DEF Waiting
        <5>. QED BY <2>0, <4>1, <4>3, <5>1 DEF HasRoom
      <4>. QED BY <3>5, <3>7, <4>2, <4>3
    <3>9. \A r \in Clients \ {s} : Waiting(r)' = Waiting(r)
      BY <3>2, <3>4 DEF Waiting
    <3>. QED BY <3>2, <3>3, <3>4, <3>6, <3>8, <3>9 DEF BoundsInv
  <2>4. ASSUME NEW s \in Clients, Join(s) \/ Leave(s) PROVE BoundsInv'
    <3>1. /\ Len(mailbox') = Len(mailbox) + 1 /\ Len(mailbox) < BrokerCapacity
          /\ UNCHANGED <<todo, message, sent, published, closed, shutdown>>
      BY <2>0, <2>4 DEF Join, Leave, Room, Tell, outside
    <3>2. /\ inbox'[s] = inbox[s] \/ inbox'[s] = <<>>
          /\ state[s] # "sending" /\ state'[s] # "sending"
          /\ \A r \in Clients \ {s} : inbox'[r] = inbox[r] /\ state'[r] = state[r]
      BY <2>4 DEF Join, Leave, Become, RunInv, MailInv
    <3>3. In(inbox'[s], published)
      BY <2>0, <3>2 DEF In
    <3>4. Len(inbox'[s]) = Len(inbox[s]) \/ Len(inbox'[s]) = 0
      BY <3>2
    <3>5. Waiting(s) \in 0 .. ClientCapacity /\ Waiting(s) = Len(inbox[s])
      BY <2>0, <3>2 DEF BoundsInv, Waiting
    <3>6. Waiting(s)' = Len(inbox'[s])
      BY <2>0, <3>2, <3>4 DEF Waiting
    <3>7. Waiting(s)' \in 0 .. ClientCapacity
      BY <2>0, <3>4, <3>5, <3>6
    <3>8. \A r \in Clients \ {s} : Waiting(r)' = Waiting(r)
      BY <3>2 DEF Waiting
    <3>9. Len(mailbox') <= BrokerCapacity
      BY <2>0, <3>1
    <3>10. \A r \in Clients :
             /\ Waiting(r)' \in 0 .. ClientCapacity
             /\ In(inbox'[r], published) /\ In(sent'[r], published)
      BY <2>0, <3>1, <3>2, <3>3, <3>7, <3>8 DEF BoundsInv
    <3>11. published' = published
      BY <3>1
    <3>. QED BY <3>1, <3>9, <3>10, <3>11 DEF BoundsInv
  <2>5. ASSUME NEW s \in Clients, Send(s) \/ SendFails(s) PROVE BoundsInv'
    <3>1. /\ state[s] = "sending" /\ inbox[s] # <<>>
          /\ inbox' = [inbox EXCEPT ![s] = Tail(@)]
          /\ UNCHANGED <<mailbox, todo, message, published, closed, shutdown>>
      BY <2>5 DEF Send, SendFails, RunInv, broker, outside
    <3>2. /\ state'[s] # "sending" /\ \A r \in Clients \ {s} : state'[r] = state[r]
      BY <2>5 DEF Send, SendFails, Become, MailInv
    <3>3. inbox'[s] = Tail(inbox[s]) /\ \A r \in Clients \ {s} : inbox'[r] = inbox[r]
      BY <3>1 DEF RunInv
    <3>4. Head(inbox[s]) \in 1 .. published /\ In(Tail(inbox[s]), published)
      BY <2>0, <3>1, InFacts
    <3>5. \A r \in Clients : In(sent'[r], published)
      <4>1. CASE Send(s)
        <5>1. sent'[s] = Append(sent[s], Head(inbox[s])) /\ \A r \in Clients \ {s} : sent'[r] = sent[r]
          BY <4>1 DEF Send, RunInv
        <5>. QED BY <2>0, <3>4, <5>1, InFacts
      <4>2. CASE SendFails(s)
        BY <2>0, <4>2 DEF SendFails, outside
      <4>. QED BY <2>5, <4>1, <4>2
    <3>6. Len(inbox'[s]) = Len(inbox[s]) - 1
      BY <2>0, <3>1, <3>3, TailFacts
    <3>7. Waiting(s)' = Waiting(s)
      BY <2>0, <3>1, <3>2, <3>6 DEF Waiting
    <3>8. \A r \in Clients \ {s} : Waiting(r)' = Waiting(r)
      BY <3>2, <3>3 DEF Waiting
    <3>. QED BY <3>1, <3>3, <3>4, <3>5, <3>7, <3>8 DEF BoundsInv
  <2>6. ASSUME NEW s \in Clients, Take(s) PROVE BoundsInv'
    <3>1. /\ inbox[s] # <<>> /\ state[s] = "open" /\ state'[s] = "sending"
          /\ \A r \in Clients \ {s} : state'[r] = state[r]
          /\ UNCHANGED <<mailbox, todo, message, inbox, sent, published, closed, shutdown>>
      BY <2>6 DEF Take, Become, MailInv, broker, outside
    <3>2. Len(inbox[s]) > 0
      BY <2>0, <3>1
    <3>3. Waiting(s)' \in 0 .. ClientCapacity
      BY <2>0, <3>1, <3>2 DEF BoundsInv, Waiting
    <3>. QED BY <3>1, <3>3 DEF BoundsInv, Waiting
  <2>7. ASSUME NEW s \in Clients, Start(s) \/ TakeShutdown(s) PROVE BoundsInv'
    <3>1. /\ state[s] # "sending" /\ state'[s] # "sending"
          /\ \A r \in Clients \ {s} : state'[r] = state[r]
          /\ UNCHANGED <<mailbox, todo, message, inbox, sent, published, closed, shutdown>>
      BY <2>7 DEF Start, TakeShutdown, Become, MailInv, broker, outside
    <3>. QED BY <3>1 DEF BoundsInv, Waiting
  <2>8. ASSUME NEW s \in Clients, Close(s) \/ Shutdown(s) PROVE BoundsInv'
    <3>1. /\ UNCHANGED <<mailbox, todo, message, state, inbox, sent, published>>
          /\ closed' \subseteq Clients /\ shutdown' \subseteq closed'
      BY <2>8 DEF Close, Shutdown, BoundsInv, broker, sockets, outside
    <3>. QED BY <3>1 DEF BoundsInv, Waiting
  <2>9. CASE UNCHANGED vars
    BY <2>9 DEF BoundsInv, Waiting, vars, broker, sockets, outside
  <2>. QED BY <2>1, <2>2, <2>3, <2>4, <2>5, <2>6, <2>7, <2>8, <2>9 DEF Next, Broker, Handler
<1>. QED BY <1>1, <1>2, MailInvariant, NextInvariant, TodoInvariant, RunInvariant, PTL DEF Spec

\* Mailboxes are never fuller than their capacity, and what is in them are
\* messages of clients there are and numbers that were published, for any
\* clients, capacities and messages.
THEOREM BrokerIsTyped == Spec => []TypeOK
<1>1. MailInv /\ NumbersInv /\ NextInv /\ TodoInv /\ RunInv /\ BoundsInv => TypeOK
  <2>. SUFFICES ASSUME MailInv, NumbersInv, NextInv, TodoInv, RunInv, BoundsInv PROVE TypeOK
    OBVIOUS
  <2>. DEFINE Numbered == [type : {"subscribe", "unsubscribe"}, of : Clients]
                            \cup [type : {"message"}, of : 1 .. published]
  <2>1. mailbox \in Seq(Numbered)
    <3>1. ASSUME NEW i \in DOMAIN mailbox PROVE mailbox[i] \in Numbered
      <4>1. mailbox[i] \in Mail
        BY DEF MailInv
      <4>2. CASE mailbox[i] \in [type : {"message"}, of : Nat]
        <5>1. mailbox[i] = Msg("message", mailbox[i].of)
          BY <4>2 DEF Msg
        <5>2. mailbox[i].of \in 1 .. published
          BY <5>1 DEF NumbersInv, Has, Holds
        <5>. QED BY <5>1, <5>2 DEF Msg
      <4>. QED BY <4>1, <4>2 DEF Mail
    <3>. QED BY <3>1, SeqOfMore DEF MailInv
  <2>2. sent \in [Clients -> Seq(1 .. published)]
    <3>1. ASSUME NEW s \in Clients PROVE sent[s] \in Seq(1 .. published)
      BY SeqOfMore DEF RunInv, BoundsInv, In
    <3>. QED BY <3>1 DEF RunInv
  <2>3. message \in 0 .. published /\ published \in 0 .. MaxMessages /\ Len(mailbox) <= BrokerCapacity
    BY DEF NextInv, BoundsInv
  <2>4. /\ observers \subseteq Clients /\ todo \in Seq(observers)
        /\ state \in [Clients -> States]
    BY DEF MailInv, TodoInv
  <2>5. /\ \A s \in Clients : Waiting(s) \in 0 .. ClientCapacity
        /\ closed \subseteq Clients /\ shutdown \subseteq closed
    BY DEF BoundsInv
  <2>. QED BY <2>1, <2>2, <2>3, <2>4, <2>5 DEF TypeOK, States
<1>. QED BY <1>1, MailInvariant, NextInvariant, TodoInvariant, RunInvariant, BoundsInvariant, PTL
=============================================================================
