------------------------ MODULE RenameControlProofs ------------------------
(***************************************************************************)
(* Proofs about RenameControl.  A Decline finds the timer it is meant for  *)
(* because of the order of the messages in the mailbox, so the inductive   *)
(* invariant says what the mailbox may hold in every state of the timers.  *)
(***************************************************************************)
EXTENDS RenameControl, SequenceTheorems, TLAPS

-----------------------------------------------------------------------------
\* The mailbox after a message was sent to it, and after one was taken.
Sent(type, m) ==
    /\ Len(mailbox) \in Nat
    /\ \A i \in Slots : /\ i \in Nat /\ i < Len(mailbox) + 1
                        /\ i \in Slots' /\ mailbox'[i] = mailbox[i]
    /\ \A i \in Slots' : i \in Slots \/ i = Len(mailbox) + 1
    /\ Len(mailbox) + 1 \in Slots'
    /\ mailbox'[Len(mailbox) + 1].type = type
    /\ mailbox'[Len(mailbox) + 1].path = path[m]
    /\ mailbox'[Len(mailbox) + 1].move = m

Received ==
    /\ 1 \in Slots
    /\ Head(mailbox) = mailbox[1]
    /\ \A i \in Slots' : /\ i \in Nat /\ i > 0
                         /\ i + 1 \in Slots /\ mailbox'[i] = mailbox[i + 1]
    /\ \A i \in Slots : /\ i \in Nat
                        /\ i # 1 => i - 1 \in Slots' /\ mailbox'[i - 1] = mailbox[i]

LEMMA MsgType ==
    ASSUME TypeOK, NEW m \in Moves, NEW t \in {"From", "Decline", "Expire"}
    PROVE  Msg(t, m) \in Message
  BY DEF Msg, Message, TypeOK

LEMMA SendFacts ==
    ASSUME TypeOK, NEW m \in Moves, NEW t \in {"From", "Decline", "Expire"},
           mailbox' = Append(mailbox, Msg(t, m))
    PROVE  mailbox' \in Seq(Message) /\ Sent(t, m)
<1>1. Msg(t, m) \in Message
  BY MsgType
<1>2. /\ Len(mailbox) \in Nat /\ mailbox' \in Seq(Message)
      /\ Len(mailbox') = Len(mailbox) + 1
      /\ \A i \in 1 .. Len(mailbox) : mailbox'[i] = mailbox[i]
      /\ mailbox'[Len(mailbox) + 1] = Msg(t, m)
  BY <1>1, AppendProperties DEF TypeOK
<1>. QED BY <1>2 DEF Sent, Slots, Msg

LEMMA ReceiveFacts ==
    ASSUME TypeOK, mailbox # <<>>, mailbox' = Tail(mailbox)
    PROVE  mailbox' \in Seq(Message) /\ Received /\ Head(mailbox) \in Message
<1>1. Len(mailbox) \in Nat \ {0} /\ Head(mailbox) = mailbox[1]
  BY DEF TypeOK
<1>. QED BY <1>1, HeadTailProperties DEF TypeOK, Received, Slots

LEMMA MailboxTyped ==
    ASSUME TypeOK
    PROVE  \A i \in Slots : mailbox[i].move \in Moves /\ mailbox[i].path \in Paths
<1>. SUFFICES ASSUME NEW i \in Slots PROVE mailbox[i] \in Message
  BY DEF Message
<1>. QED BY ElementOfSeq DEF TypeOK, Slots

LEMMA TypeInductive == TypeOK /\ [Next]_vars => TypeOK'
<1>. SUFFICES ASSUME TypeOK, [Next]_vars PROVE TypeOK'
  OBVIOUS
<1>. USE MovesAssumption DEF Moves
<1>1. ASSUME NEW m \in Moves, TellFrom(m) PROVE TypeOK'
  <2>1. mailbox' \in Seq(Message)
    BY <1>1, SendFacts DEF TellFrom
  <2>2. timer' \in [Moves -> TimerStates]
    BY <1>1 DEF TellFrom, TypeOK, TimerStates
  <2>3. moves' \in 0 .. MaxMoves
    BY <1>1 DEF TellFrom
  <2>. QED BY <1>1, <2>1, <2>2, <2>3 DEF TellFrom, TypeOK
<1>2. ASSUME NEW m \in Moves, TellDecline(m) PROVE TypeOK'
  <2>1. mailbox' \in Seq(Message)
    BY <1>2, SendFacts DEF TellDecline
  <2>2. renamed' \in SUBSET Moves
    BY <1>2 DEF TellDecline, TypeOK
  <2>. QED BY <1>2, <2>1, <2>2 DEF TellDecline, TypeOK
<1>3. ASSUME NEW m \in Moves, Fire(m) PROVE TypeOK'
  <2>1. mailbox' \in Seq(Message)
    BY <1>3, SendFacts DEF Fire
  <2>2. timer' \in [Moves -> TimerStates]
    BY <1>3 DEF Fire, TypeOK, TimerStates
  <2>. QED BY <1>3, <2>1, <2>2 DEF Fire, TypeOK
<1>4. CASE Handle
  <2>. DEFINE msg == Head(mailbox)
  <2>1. mailbox' \in Seq(Message) /\ msg \in Message
    BY <1>4, ReceiveFacts DEF Handle
  <2>. HIDE DEF msg
  <2>2. CASE HandleFrom(msg)
    <3>1. msg.move \in Moves /\ msg.path \in Paths
      BY <2>1 DEF Message
    <3>2. timer' \in [Moves -> TimerStates]
      BY <2>2 DEF HandleFrom, TypeOK, TimerStates
    <3>3. tasks' \in [Paths -> 0 .. MaxMoves]
      BY <2>2, <3>1 DEF HandleFrom, TypeOK
    <3>. QED BY <1>4, <2>1, <2>2, <3>2, <3>3 DEF Handle, HandleFrom, TypeOK
  <2>3. CASE HandleDecline(msg)
    <3>1. timer' \in [Moves -> TimerStates]
      <4>1. ASSUME NEW m \in Moves PROVE timer[m] \in TimerStates
        BY DEF TypeOK
      <4>2. PICK h : timer' = [m \in Moves |-> IF m = h /\ timer[m] = "sleeping"
                                               THEN "aborted" ELSE timer[m]]
        BY <2>3 DEF HandleDecline
      <4>. QED BY <4>1, <4>2 DEF TimerStates
    <3>2. tasks' \in [Paths -> 0 .. MaxMoves]
      <4>1. tasks' = [tasks EXCEPT ![msg.path] = 0]
        BY <2>3 DEF HandleDecline
      <4>2. tasks \in [Paths -> 0 .. MaxMoves] /\ 0 \in 0 .. MaxMoves
        BY DEF TypeOK
      <4>. QED BY <4>1, <4>2
    <3>3. declined' \in SUBSET Moves
      BY <2>1, <2>3 DEF HandleDecline, TypeOK, Message
    <3>. QED BY <1>4, <2>1, <3>1, <3>2, <3>3 DEF Handle, TypeOK
  <2>4. CASE HandleExpire(msg)
    <3>1. timer' \in [Moves -> TimerStates]
      BY <2>4 DEF HandleExpire, TypeOK, TimerStates
    <3>2. tasks' \in [Paths -> 0 .. MaxMoves]
      <4>1. tasks' = [tasks EXCEPT ![msg.path] = 0]
        BY <2>4 DEF HandleExpire
      <4>2. tasks \in [Paths -> 0 .. MaxMoves] /\ 0 \in 0 .. MaxMoves
        BY DEF TypeOK
      <4>. QED BY <4>1, <4>2
    <3>. QED BY <1>4, <2>1, <2>4, <3>1, <3>2 DEF Handle, HandleExpire, TypeOK
  <2>. QED BY <1>4, <2>2, <2>3, <2>4 DEF Handle, msg
<1>5. CASE UNCHANGED vars
  BY <1>5 DEF vars, TypeOK
<1>. QED BY <1>1, <1>2, <1>3, <1>4, <1>5 DEF Next

-----------------------------------------------------------------------------
(***************************************************************************)
(* Sending and receiving preserve the parts of MailboxInv, under what each *)
(* part needs of the action.                                               *)
(***************************************************************************)
LEMMA AddressedSent ==
    ASSUME TypeOK, TypeOK', Addressed, path' = path, moves <= moves',
           NEW t, NEW m \in Moves, m <= moves', Sent(t, m)
    PROVE  Addressed'
<1>. SUFFICES ASSUME NEW i \in Slots'
              PROVE  /\ mailbox'[i].path = path[mailbox'[i].move]
                     /\ mailbox'[i].move <= moves'
  BY DEF Addressed
<1>1. CASE i \in Slots
  <2>1. mailbox'[i] = mailbox[i] /\ mailbox[i].move \in Moves
    BY <1>1, MailboxTyped DEF Sent
  <2>2. mailbox[i].move <= moves /\ mailbox[i].path = path[mailbox[i].move]
    BY <1>1 DEF Addressed
  <2>3. moves \in 0 .. MaxMoves /\ moves' \in 0 .. MaxMoves
    BY DEF TypeOK
  <2>4. mailbox[i].move \in Nat /\ moves \in Nat /\ moves' \in Nat
    BY <2>1, <2>3, MovesAssumption DEF Moves
  <2>. QED BY <2>1, <2>2, <2>4
<1>2. CASE i = Len(mailbox) + 1
  BY <1>2 DEF Sent
<1>. QED BY <1>1, <1>2 DEF Sent

LEMMA AddressedReceived ==
    ASSUME Addressed, path' = path, moves' = moves, Received
    PROVE  Addressed'
  BY DEF Addressed, Received

LEMMA OrderReceived ==
    ASSUME FromsOrdered, Received
    PROVE  FromsOrdered'
<1>1. ASSUME NEW i \in Slots', NEW j \in Slots', IsFrom(i)', i < j, IsFrom(j)'
      PROVE  mailbox'[i].move < mailbox'[j].move
  BY <1>1 DEF FromsOrdered, Received, IsFrom
<1>2. ASSUME NEW i \in Slots', NEW j \in Slots', IsFrom(i)', IsDecline(j)',
             mailbox'[i].move = mailbox'[j].move
      PROVE  i < j
  <2>1. i + 1 < j + 1
    BY <1>2 DEF FromsOrdered, Received, IsFrom, IsDecline
  <2>. QED BY <2>1 DEF Received
<1>. QED BY <1>1, <1>2 DEF FromsOrdered

\* What an action that is not TellFrom or HandleFrom does to waiting timers.
KeepsWaiting ==
    \A m \in Moves : timer'[m] = timer[m]
                     \/ {timer[m], timer'[m]} \cap {"none", "told"} = {}

LEMMA FromsReceived ==
    ASSUME FromsPending, Received, ~IsFrom(1), KeepsWaiting
    PROVE  FromsPending'
<1>1. ASSUME NEW m \in Moves, timer'[m] = "told"
      PROVE  \E i \in Slots' : IsFrom(i)' /\ mailbox'[i].move = m
  <2>1. timer[m] = "told"
    BY <1>1 DEF KeepsWaiting
  <2>2. PICK i \in Slots : IsFrom(i) /\ mailbox[i].move = m
    BY <2>1 DEF FromsPending
  <2>3. i # 1
    BY <2>2
  <2>4. i - 1 \in Slots' /\ mailbox'[i - 1] = mailbox[i]
    BY <2>3 DEF Received
  <2>. QED BY <2>2, <2>4 DEF IsFrom
<1>2. ASSUME NEW i \in Slots', IsFrom(i)', NEW m \in Moves, mailbox'[i].move <= m
      PROVE  timer'[m] \in {"none", "told"}
  <2>1. timer[m] \in {"none", "told"}
    BY <1>2 DEF FromsPending, Received, IsFrom
  <2>. QED BY <2>1 DEF KeepsWaiting
<1>. QED BY <1>1, <1>2 DEF FromsPending

LEMMA FromsSent ==
    ASSUME FromsPending, NEW t \in {"Decline", "Expire"}, NEW n, Sent(t, n), KeepsWaiting
    PROVE  FromsPending'
<1>1. ASSUME NEW m \in Moves, timer'[m] = "told"
      PROVE  \E i \in Slots' : IsFrom(i)' /\ mailbox'[i].move = m
  <2>1. timer[m] = "told"
    BY <1>1 DEF KeepsWaiting
  <2>. QED BY <2>1 DEF FromsPending, Sent, IsFrom
<1>2. ASSUME NEW i \in Slots', IsFrom(i)', NEW m \in Moves, mailbox'[i].move <= m
      PROVE  timer'[m] \in {"none", "told"}
  <2>1. i \in Slots /\ mailbox'[i] = mailbox[i]
    BY <1>2 DEF Sent, IsFrom
  <2>2. timer[m] \in {"none", "told"}
    BY <1>2, <2>1 DEF FromsPending, IsFrom
  <2>. QED BY <2>2 DEF KeepsWaiting
<1>. QED BY <1>1, <1>2 DEF FromsPending

LEMMA ExpiresReceived ==
    ASSUME ExpiresPending, Received,
           \A i \in Slots : IsExpire(i) /\ i # 1 =>
                               timer'[mailbox[i].move] = timer[mailbox[i].move]
    PROVE  ExpiresPending'
<1>1. ASSUME NEW i \in Slots', IsExpire(i)'
      PROVE  timer'[mailbox'[i].move] = "fired"
  <2>1. i + 1 \in Slots /\ i + 1 # 1 /\ mailbox'[i] = mailbox[i + 1]
    BY DEF Received
  <2>. QED BY <1>1, <2>1 DEF ExpiresPending, IsExpire
<1>2. ASSUME NEW i \in Slots', NEW j \in Slots', IsExpire(i)', IsExpire(j)',
             mailbox'[i].move = mailbox'[j].move
      PROVE  i = j
  <2>1. i + 1 = j + 1
    BY <1>2 DEF ExpiresPending, Received, IsExpire
  <2>. QED BY <2>1 DEF Received
<1>. QED BY <1>1, <1>2 DEF ExpiresPending

LEMMA ExpiresSent ==
    ASSUME ExpiresPending, NEW t \in {"From", "Decline"}, NEW n, Sent(t, n),
           \A i \in Slots : IsExpire(i) =>
                               timer'[mailbox[i].move] = timer[mailbox[i].move]
    PROVE  ExpiresPending'
<1>1. ASSUME NEW i \in Slots', IsExpire(i)'
      PROVE  i \in Slots /\ IsExpire(i) /\ mailbox'[i] = mailbox[i]
  BY <1>1 DEF Sent, IsExpire
<1>. QED BY <1>1 DEF ExpiresPending

-----------------------------------------------------------------------------
(***************************************************************************)
(* MailboxInv is inductive: one lemma per action.                          *)
(***************************************************************************)
LEMMA TellFromMailbox ==
    ASSUME MailboxInv, NEW n \in Moves, TellFrom(n)
    PROVE  MailboxInv'
<1>1. TypeOK' /\ TypeOK
  BY TypeInductive DEF Next, MailboxInv
<1>2. Sent("From", n)
  BY <1>1, SendFacts DEF TellFrom
<1>3. /\ \A m \in Moves : timer'[m] = IF m = n THEN "told" ELSE timer[m]
      /\ path' = path /\ moves' = n /\ n = moves + 1
  BY <1>1 DEF TellFrom, TypeOK
<1>4. moves \in Nat /\ (\A m \in Moves : m \in Nat)
  BY <1>1, MovesAssumption DEF TypeOK, Moves
<1>5. \A i \in Slots : mailbox[i].move \in Moves /\ mailbox[i].move <= moves
  BY <1>1, MailboxTyped DEF MailboxInv, Addressed
<1>6. Addressed'
  BY <1>1, <1>2, <1>3, <1>4, AddressedSent DEF MailboxInv
<1>7. Numbered'
  BY <1>3, <1>4 DEF MailboxInv, Numbered
<1>8. FromsPending'
  <2>1. ASSUME NEW m \in Moves, timer'[m] = "told"
        PROVE  \E i \in Slots' : IsFrom(i)' /\ mailbox'[i].move = m
    <3>1. CASE m = n
      BY <1>2, <3>1 DEF Sent, IsFrom
    <3>2. CASE m # n
      BY <1>2, <1>3, <2>1, <3>2 DEF MailboxInv, FromsPending, Sent, IsFrom
    <3>. QED BY <3>1, <3>2
  <2>2. ASSUME NEW i \in Slots', IsFrom(i)', NEW m \in Moves, mailbox'[i].move <= m
        PROVE  timer'[m] \in {"none", "told"}
    <3>1. CASE i \in Slots
      BY <1>2, <1>3, <2>2, <3>1 DEF MailboxInv, FromsPending, Sent, IsFrom
    <3>2. CASE i = Len(mailbox) + 1
      <4>1. m \in Nat /\ n \in Nat /\ n <= m
        BY <1>2, <1>4, <2>2, <3>2 DEF Sent
      <4>2. m = n \/ timer[m] = "none"
        BY <1>3, <1>4, <4>1 DEF MailboxInv, Numbered
      <4>. QED BY <1>3, <4>2
    <3>. QED BY <1>2, <3>1, <3>2 DEF Sent
  <2>. QED BY <2>1, <2>2 DEF FromsPending
<1>9. FromsOrdered'
  <2>1. ASSUME NEW i \in Slots', NEW j \in Slots', i < j, IsFrom(i)', IsFrom(j)'
        PROVE  mailbox'[i].move < mailbox'[j].move
    <3>1. i \in Slots
      BY <1>2, <2>1 DEF Sent
    <3>2. CASE j \in Slots
      BY <1>2, <2>1, <3>1, <3>2 DEF MailboxInv, FromsOrdered, Sent, IsFrom
    <3>3. CASE j = Len(mailbox) + 1
      <4>1. mailbox'[i] = mailbox[i] /\ mailbox'[j].move = n
        BY <1>2, <3>1, <3>3 DEF Sent
      <4>2. mailbox[i].move \in Nat /\ mailbox[i].move <= moves
        BY <1>4, <1>5, <3>1
      <4>. QED BY <1>3, <1>4, <4>1, <4>2
    <3>. QED BY <1>2, <3>2, <3>3 DEF Sent
  <2>2. ASSUME NEW i \in Slots', NEW j \in Slots', IsFrom(i)', IsDecline(j)',
               mailbox'[i].move = mailbox'[j].move
        PROVE  i < j
    <3>1. j \in Slots /\ mailbox'[j] = mailbox[j] /\ mailbox[j].move <= moves
      BY <1>2, <1>5, <2>2 DEF Sent, IsDecline
    <3>2. i \in Slots
      BY <1>2, <1>3, <1>4, <2>2, <3>1 DEF Sent
    <3>. QED BY <1>2, <2>2, <3>1, <3>2
             DEF MailboxInv, FromsOrdered, Sent, IsFrom, IsDecline
  <2>. QED BY <2>1, <2>2 DEF FromsOrdered
<1>10. ExpiresPending'
  <2>1. \A i \in Slots : timer'[mailbox[i].move] = timer[mailbox[i].move]
    BY <1>3, <1>4, <1>5
  <2>. QED BY <1>2, <2>1, ExpiresSent DEF MailboxInv
<1>. QED BY <1>1, <1>6, <1>7, <1>8, <1>9, <1>10 DEF MailboxInv

LEMMA TellDeclineMailbox ==
    ASSUME MailboxInv, NEW n \in Moves, TellDecline(n)
    PROVE  MailboxInv'
<1>1. TypeOK' /\ TypeOK
  BY TypeInductive DEF Next, MailboxInv
<1>2. Sent("Decline", n)
  BY <1>1, SendFacts DEF TellDecline
<1>3. timer' = timer /\ path' = path /\ moves' = moves /\ n <= moves /\ moves \in Nat
  BY <1>1 DEF TellDecline, TypeOK
<1>4. Addressed'
  BY <1>1, <1>2, <1>3, AddressedSent DEF MailboxInv
<1>5. Numbered'
  BY <1>3 DEF MailboxInv, Numbered
<1>6. FromsPending'
  BY <1>2, <1>3, FromsSent DEF MailboxInv, KeepsWaiting
<1>7. FromsOrdered'
  <2>1. ASSUME NEW i \in Slots', IsFrom(i)'
        PROVE  i \in Slots /\ IsFrom(i) /\ mailbox'[i] = mailbox[i] /\ i < Len(mailbox) + 1
    BY <1>2, <2>1 DEF Sent, IsFrom
  <2>. QED BY <1>2, <2>1 DEF MailboxInv, FromsOrdered, Sent, IsDecline
<1>8. ExpiresPending'
  BY <1>2, <1>3, ExpiresSent DEF MailboxInv
<1>. QED BY <1>1, <1>4, <1>5, <1>6, <1>7, <1>8 DEF MailboxInv

LEMMA FireMailbox ==
    ASSUME MailboxInv, NEW n \in Moves, Fire(n)
    PROVE  MailboxInv'
<1>1. TypeOK' /\ TypeOK
  BY TypeInductive DEF Next, MailboxInv
<1>2. Sent("Expire", n)
  BY <1>1, SendFacts DEF Fire
<1>3. /\ \A m \in Moves : timer'[m] = IF m = n THEN "fired" ELSE timer[m]
      /\ path' = path /\ moves' = moves /\ moves \in Nat
      /\ timer[n] = "sleeping"
  BY <1>1 DEF Fire, TypeOK
<1>4. n <= moves
  BY <1>3, MovesAssumption DEF MailboxInv, Numbered, Moves
<1>5. Addressed'
  BY <1>1, <1>2, <1>3, <1>4, AddressedSent DEF MailboxInv
<1>6. Numbered'
  BY <1>3 DEF MailboxInv, Numbered
<1>7. FromsPending'
  BY <1>2, <1>3, FromsSent DEF MailboxInv, KeepsWaiting
<1>8. FromsOrdered'
  <2>1. ASSUME NEW i \in Slots', IsFrom(i)' \/ IsDecline(i)'
        PROVE  i \in Slots /\ mailbox'[i] = mailbox[i]
    BY <1>2, <2>1 DEF Sent, IsFrom, IsDecline
  <2>. QED BY <2>1 DEF MailboxInv, FromsOrdered, IsFrom, IsDecline
<1>9. ExpiresPending'
  <2>1. ASSUME NEW i \in Slots', IsExpire(i)', i \in Slots
        PROVE  /\ IsExpire(i) /\ mailbox'[i] = mailbox[i]
               /\ mailbox[i].move # n
               /\ mailbox[i].move \in Moves
               /\ timer'[mailbox[i].move] = "fired"
    BY <1>1, <1>2, <1>3, <2>1, MailboxTyped DEF MailboxInv, ExpiresPending, Sent, IsExpire
  <2>2. ASSUME NEW i \in Slots', i \notin Slots
        PROVE  i = Len(mailbox) + 1 /\ mailbox'[i].move = n /\ timer'[n] = "fired"
    BY <1>2, <1>3, <2>2 DEF Sent
  <2>. QED BY <2>1, <2>2 DEF MailboxInv, ExpiresPending
<1>. QED BY <1>1, <1>5, <1>6, <1>7, <1>8, <1>9 DEF MailboxInv

LEMMA HandleFromMailbox ==
    ASSUME MailboxInv, Handle, HandleFrom(Head(mailbox))
    PROVE  MailboxInv' /\ timer[mailbox[1].move] = "told"
<1>. DEFINE n == mailbox[1].move
<1>1. TypeOK' /\ TypeOK
  BY TypeInductive DEF Next, MailboxInv
<1>2. Received
  BY <1>1, ReceiveFacts DEF Handle
<1>3. IsFrom(1) /\ n \in Moves /\ path' = path /\ moves' = moves
  BY <1>1, <1>2, MailboxTyped DEF Handle, HandleFrom, Received, IsFrom
<1>4. \A m \in Moves : timer'[m] = IF m = n THEN "sleeping" ELSE timer[m]
  BY <1>1, <1>2 DEF HandleFrom, Received, TypeOK
<1>5. timer[n] = "told"
  <2>1. timer[n] \in {"none", "told"} /\ n <= n
    BY <1>2, <1>3, MovesAssumption DEF MailboxInv, FromsPending, Received, Moves
  <2>2. n <= moves /\ n \in Nat /\ moves \in Nat
    BY <1>1, <1>2, <1>3, MovesAssumption
       DEF MailboxInv, Addressed, Received, TypeOK, Moves
  <2>. QED BY <1>3, <2>1, <2>2 DEF MailboxInv, Numbered
<1>6. \A i \in Slots : i # 1 /\ IsFrom(i) => n < mailbox[i].move
  BY <1>2, <1>3 DEF MailboxInv, FromsOrdered, Received, Slots
<1>. HIDE DEF n
<1>7. Addressed' /\ FromsOrdered'
  BY <1>2, <1>3, AddressedReceived, OrderReceived DEF MailboxInv
<1>8. Numbered'
  BY <1>3, <1>4, <1>5 DEF MailboxInv, Numbered
<1>9. FromsPending'
  <2>1. ASSUME NEW m \in Moves, timer'[m] = "told"
        PROVE  \E i \in Slots' : IsFrom(i)' /\ mailbox'[i].move = m
    <3>1. m # n /\ timer[m] = "told"
      BY <1>4, <2>1
    <3>2. PICK i \in Slots : IsFrom(i) /\ mailbox[i].move = m
      BY <3>1 DEF MailboxInv, FromsPending
    <3>3. i # 1
      BY <3>1, <3>2 DEF n
    <3>4. i - 1 \in Slots' /\ mailbox'[i - 1] = mailbox[i]
      BY <1>2, <3>3 DEF Received
    <3>. QED BY <3>2, <3>4 DEF IsFrom
  <2>2. ASSUME NEW i \in Slots', IsFrom(i)', NEW m \in Moves, mailbox'[i].move <= m
        PROVE  timer'[m] \in {"none", "told"}
    <3>1. i + 1 \in Slots /\ i + 1 # 1 /\ mailbox'[i] = mailbox[i + 1] /\ IsFrom(i + 1)
      BY <1>2, <2>2 DEF Received, IsFrom
    <3>2. n < mailbox[i + 1].move /\ mailbox[i + 1].move <= m
      BY <1>6, <2>2, <3>1
    <3>3. mailbox[i + 1].move \in Nat /\ n \in Nat /\ m \in Nat
      BY <1>1, <1>3, <3>1, MailboxTyped, MovesAssumption DEF Moves
    <3>4. m # n
      BY <3>2, <3>3
    <3>. QED BY <1>4, <3>1, <3>2, <3>4 DEF MailboxInv, FromsPending
  <2>. QED BY <2>1, <2>2 DEF FromsPending
<1>10. ExpiresPending'
  <2>1. ASSUME NEW i \in Slots, IsExpire(i)
        PROVE  timer'[mailbox[i].move] = timer[mailbox[i].move]
    <3>1. mailbox[i].move \in Moves /\ timer[mailbox[i].move] = "fired"
      BY <1>1, <2>1, MailboxTyped DEF MailboxInv, ExpiresPending
    <3>. QED BY <1>4, <1>5, <3>1
  <2>. QED BY <1>2, <2>1, ExpiresReceived DEF MailboxInv
<1>. QED BY <1>1, <1>5, <1>7, <1>8, <1>9, <1>10 DEF MailboxInv, n

LEMMA HandleDeclineMailbox ==
    ASSUME MailboxInv, Handle, HandleDecline(Head(mailbox))
    PROVE  MailboxInv'
<1>1. TypeOK' /\ TypeOK
  BY TypeInductive DEF Next, MailboxInv
<1>2. Received
  BY <1>1, ReceiveFacts DEF Handle
<1>3. ~IsFrom(1) /\ path' = path /\ moves' = moves
  BY <1>2 DEF Handle, HandleDecline, Received, IsFrom
<1>4. \A m \in Moves : \/ timer'[m] = timer[m]
                       \/ timer[m] = "sleeping" /\ timer'[m] = "aborted"
  BY DEF HandleDecline
<1>5. Addressed' /\ FromsOrdered'
  BY <1>2, <1>3, AddressedReceived, OrderReceived DEF MailboxInv
<1>6. Numbered'
  BY <1>3, <1>4 DEF MailboxInv, Numbered
<1>7. FromsPending'
  <2>1. KeepsWaiting
    BY <1>4 DEF KeepsWaiting
  <2>. QED BY <1>2, <1>3, <2>1, FromsReceived DEF MailboxInv
<1>8. ExpiresPending'
  <2>1. ASSUME NEW i \in Slots, IsExpire(i)
        PROVE  timer'[mailbox[i].move] = timer[mailbox[i].move]
    <3>1. mailbox[i].move \in Moves /\ timer[mailbox[i].move] = "fired"
      BY <1>1, <2>1, MailboxTyped DEF MailboxInv, ExpiresPending
    <3>. QED BY <1>4, <3>1
  <2>. QED BY <1>2, <2>1, ExpiresReceived DEF MailboxInv
<1>. QED BY <1>1, <1>5, <1>6, <1>7, <1>8 DEF MailboxInv

LEMMA HandleExpireMailbox ==
    ASSUME MailboxInv, Handle, HandleExpire(Head(mailbox))
    PROVE  MailboxInv' /\ timer[mailbox[1].move] = "fired"
<1>. DEFINE n == mailbox[1].move
<1>1. TypeOK' /\ TypeOK
  BY TypeInductive DEF Next, MailboxInv
<1>2. Received
  BY <1>1, ReceiveFacts DEF Handle
<1>3. IsExpire(1) /\ ~IsFrom(1) /\ n \in Moves /\ path' = path /\ moves' = moves
  BY <1>1, <1>2, MailboxTyped DEF Handle, HandleExpire, Received, IsExpire, IsFrom
<1>4. \A m \in Moves : timer'[m] = IF m = n THEN "expired" ELSE timer[m]
  BY <1>1, <1>2 DEF HandleExpire, Received, TypeOK
<1>5. timer[n] = "fired"
  BY <1>2, <1>3 DEF MailboxInv, ExpiresPending, Received
<1>6. \A i \in Slots : i # 1 /\ IsExpire(i) => mailbox[i].move # n
  BY <1>2, <1>3 DEF MailboxInv, ExpiresPending, Received
<1>. HIDE DEF n
<1>7. Addressed' /\ FromsOrdered'
  BY <1>2, <1>3, AddressedReceived, OrderReceived DEF MailboxInv
<1>8. Numbered'
  BY <1>3, <1>4, <1>5 DEF MailboxInv, Numbered
<1>9. FromsPending'
  <2>1. KeepsWaiting
    BY <1>4, <1>5 DEF KeepsWaiting
  <2>. QED BY <1>2, <1>3, <2>1, FromsReceived DEF MailboxInv
<1>10. ExpiresPending'
  <2>1. ASSUME NEW i \in Slots, IsExpire(i), i # 1
        PROVE  timer'[mailbox[i].move] = timer[mailbox[i].move]
    BY <1>1, <1>4, <1>6, <2>1, MailboxTyped
  <2>. QED BY <1>2, <2>1, ExpiresReceived DEF MailboxInv
<1>. QED BY <1>1, <1>5, <1>7, <1>8, <1>9, <1>10 DEF MailboxInv, n

-----------------------------------------------------------------------------
(***************************************************************************)
(* The theorems.                                                           *)
(***************************************************************************)
LEMMA MailboxInit == Init => MailboxInv
<1>. SUFFICES ASSUME Init PROVE MailboxInv
  OBVIOUS
<1>1. Slots = {} /\ mailbox \in Seq(Message)
  BY DEF Init, Slots
<1>2. TypeOK
  BY <1>1, MovesAssumption DEF Init, TypeOK, TimerStates
<1>3. Numbered
  BY MovesAssumption DEF Init, Numbered, Moves
<1>. QED BY <1>1, <1>2, <1>3
         DEF Init, MailboxInv, Addressed, FromsPending, FromsOrdered, ExpiresPending

LEMMA MailboxStep == MailboxInv /\ [Next]_vars => MailboxInv'
<1>. SUFFICES ASSUME MailboxInv, [Next]_vars PROVE MailboxInv'
  OBVIOUS
<1>1. CASE Handle
  BY <1>1, HandleFromMailbox, HandleDeclineMailbox, HandleExpireMailbox DEF Handle
<1>2. CASE UNCHANGED vars
  BY <1>2 DEF vars, MailboxInv, TypeOK, Addressed, Numbered, FromsPending,
              FromsOrdered, ExpiresPending, Slots, IsFrom, IsDecline, IsExpire
<1>. QED BY <1>1, <1>2, TellFromMailbox, TellDeclineMailbox, FireMailbox DEF Next

(***************************************************************************)
(* The types of the actor's state, and what its mailbox may hold for each  *)
(* state of the timers.                                                    *)
(***************************************************************************)
THEOREM MailboxCorrect == Spec => []MailboxInv
BY MailboxInit, MailboxStep, PTL DEF Spec

NewestInv == MailboxInv /\ HandleIsNewest

LEMMA NewestStep == NewestInv /\ [Next]_vars => HandleIsNewest'
<1>. SUFFICES ASSUME NewestInv, [Next]_vars PROVE HandleIsNewest'
  OBVIOUS
<1>1. TypeOK /\ TypeOK'
  BY TypeInductive DEF NewestInv, MailboxInv
<1>2. ASSUME NEW n \in Moves, TellFrom(n) PROVE HandleIsNewest'
  <2>1. tasks' = tasks /\ path' = path
        /\ \A m \in Moves : timer'[m] = timer[m] \/ timer'[m] = "told"
    BY <1>1, <1>2 DEF TellFrom, TypeOK
  <2>. QED BY <2>1 DEF NewestInv, HandleIsNewest
<1>3. ASSUME NEW n \in Moves, TellDecline(n) PROVE HandleIsNewest'
  BY <1>3 DEF TellDecline, NewestInv, HandleIsNewest
<1>4. ASSUME NEW n \in Moves, Fire(n) PROVE HandleIsNewest'
  <2>1. tasks' = tasks /\ path' = path /\ timer[n] = "sleeping"
        /\ \A m \in Moves : m # n => timer'[m] = timer[m]
    BY <1>1, <1>4 DEF Fire, TypeOK
  <2>. QED BY <2>1 DEF NewestInv, HandleIsNewest
<1>5. CASE Handle
  <2>. DEFINE n == mailbox[1].move
              q == mailbox[1].path
  <2>1. Received /\ path' = path
    BY <1>1, <1>5, ReceiveFacts DEF Handle
  <2>2. n \in Moves /\ q \in Paths /\ path[n] = q
    BY <1>1, <2>1, MailboxTyped DEF Received, NewestInv, MailboxInv, Addressed
  <2>3. CASE HandleFrom(Head(mailbox))
    <3>1. /\ \A p \in Paths : tasks'[p] = IF p = q THEN n ELSE tasks[p]
          /\ \A m \in Moves : timer'[m] = IF m = n THEN "sleeping" ELSE timer[m]
          /\ IsFrom(1)
      BY <1>1, <2>1, <2>3 DEF HandleFrom, Received, TypeOK, IsFrom
    <3>2. \A m \in Moves : n <= m => timer[m] \in {"none", "told"}
      BY <2>1, <3>1 DEF NewestInv, MailboxInv, FromsPending, Received
    <3>. HIDE DEF n, q
    <3>. SUFFICES ASSUME NEW p \in Paths, tasks'[p] # 0
                  PROVE  /\ path[tasks'[p]] = p
                         /\ \A m \in Moves : m > tasks'[p] /\ path[m] = p =>
                                                timer'[m] \in {"none", "told"}
      BY <2>1 DEF HandleIsNewest
    <3>3. CASE p = q
      <4>1. tasks'[p] = n
        BY <3>1, <3>3
      <4>2. ASSUME NEW m \in Moves, m > n PROVE timer'[m] \in {"none", "told"}
        BY <2>2, <3>1, <3>2, <4>2, MovesAssumption DEF Moves
      <4>. QED BY <2>2, <3>3, <4>1, <4>2
    <3>4. CASE p # q
      BY <2>2, <3>1, <3>4 DEF NewestInv, HandleIsNewest
    <3>. QED BY <3>3, <3>4
  <2>4. CASE HandleDecline(Head(mailbox))
    <3>1. \A p \in Paths : tasks'[p] = IF p = q THEN 0 ELSE tasks[p]
      <4>1. tasks' = [tasks EXCEPT ![q] = 0]
        BY <2>1, <2>4 DEF HandleDecline, Received
      <4>. QED BY <1>1, <4>1 DEF TypeOK
    <3>2. \A m \in Moves : \/ timer'[m] = timer[m]
                           \/ timer[m] = "sleeping" /\ timer'[m] = "aborted"
      BY <2>4 DEF HandleDecline
    <3>. HIDE DEF q
    <3>. QED BY <2>1, <3>1, <3>2 DEF NewestInv, HandleIsNewest
  <2>5. CASE HandleExpire(Head(mailbox))
    <3>1. /\ \A p \in Paths : tasks'[p] = IF p = q THEN 0 ELSE tasks[p]
          /\ \A m \in Moves : timer'[m] = IF m = n THEN "expired" ELSE timer[m]
      BY <1>1, <2>1, <2>5 DEF HandleExpire, Received, TypeOK
    <3>2. timer[n] = "fired"
      BY <1>5, <2>5, HandleExpireMailbox DEF NewestInv
    <3>. HIDE DEF n, q
    <3>. QED BY <2>1, <3>1, <3>2 DEF NewestInv, HandleIsNewest
  <2>. QED BY <1>5, <2>3, <2>4, <2>5 DEF Handle
<1>6. CASE UNCHANGED vars
  BY <1>6 DEF vars, NewestInv, HandleIsNewest
<1>. QED BY <1>2, <1>3, <1>4, <1>5, <1>6 DEF Next

(***************************************************************************)
(* The handle kept for a path is always that of the last timer started for *)
(* it: tasks.insert on a From, however Froms, Declines and Expires of that *)
(* path overlap, never leaves the handle of an older timer in the map.     *)
(***************************************************************************)
THEOREM NewestHandle == Spec => []HandleIsNewest
<1>1. Init => NewestInv
  BY MailboxInit DEF NewestInv, Init, HandleIsNewest
<1>2. NewestInv /\ [Next]_vars => NewestInv'
  BY MailboxStep, NewestStep DEF NewestInv
<1>3. NewestInv => HandleIsNewest
  BY DEF NewestInv
<1>. QED BY <1>1, <1>2, <1>3, PTL DEF Spec

-----------------------------------------------------------------------------
(***************************************************************************)
(* ApartInv is inductive when ~Overlap.                                    *)
(***************************************************************************)
\* No action but TellFrom opens a move.
OpensNone == \A m \in Moves : Open(m)' => Open(m)

LEMMA OpenKept ==
    ASSUME AtMostOneOpen, path' = path, OpensNone
    PROVE  AtMostOneOpen'
  BY DEF AtMostOneOpen, OpensNone

LEMMA ApartHandle ==
    ASSUME ApartInv, Handle
    PROVE  AtMostOneOpen' /\ SleepingHasHandle' /\ Settled'
<1>. DEFINE n == mailbox[1].move
            q == mailbox[1].path
<1>1. TypeOK /\ TypeOK'
  BY TypeInductive DEF Next, ApartInv, MailboxInv
<1>2. Received /\ path' = path
  BY <1>1, ReceiveFacts DEF Handle
<1>3. n \in Moves /\ q \in Paths /\ path[n] = q /\ n <= moves
  BY <1>1, <1>2, MailboxTyped DEF Received, ApartInv, MailboxInv, Addressed
<1>4. declined \in SUBSET Moves /\ \A m \in Moves : path[m] \in Paths
  BY <1>1 DEF TypeOK
<1>5. CASE HandleFrom(Head(mailbox))
  <2>1. /\ \A p \in Paths : tasks'[p] = IF p = q THEN n ELSE tasks[p]
        /\ \A m \in Moves : timer'[m] = IF m = n THEN "sleeping" ELSE timer[m]
        /\ declined' = declined
    BY <1>1, <1>2, <1>5 DEF HandleFrom, Received, TypeOK
  <2>2. timer[n] = "told"
    BY <1>5, HandleFromMailbox DEF ApartInv
  <2>. HIDE DEF n, q
  <2>3. OpensNone
    BY <2>1, <2>2 DEF OpensNone, Open
  <2>4. SleepingHasHandle'
    <3>1. ASSUME NEW m \in Moves, m # n, timer[m] = "sleeping" PROVE path[m] # q
      BY <1>3, <2>2, <3>1 DEF ApartInv, AtMostOneOpen, Open
    <3>. QED BY <1>2, <1>3, <1>4, <2>1, <3>1 DEF ApartInv, SleepingHasHandle
  <2>5. Settled'
    BY <1>4, <2>1, <2>2 DEF ApartInv, Settled
  <2>. QED BY <1>2, <2>3, <2>4, <2>5, OpenKept DEF ApartInv
<1>6. CASE HandleDecline(Head(mailbox))
  <2>1. \A p \in Paths : tasks'[p] = IF p = q THEN 0 ELSE tasks[p]
    <3>1. tasks' = [tasks EXCEPT ![q] = 0]
      BY <1>2, <1>6 DEF HandleDecline, Received
    <3>. QED BY <1>1, <3>1 DEF TypeOK
  <2>2. /\ declined' = declined \cup {n}
        /\ \A m \in Moves : timer'[m] = IF m = tasks[q] /\ timer[m] = "sleeping"
                                        THEN "aborted" ELSE timer[m]
    BY <1>2, <1>6 DEF HandleDecline, Received
  <2>3. IsDecline(1)
    BY <1>2, <1>6 DEF HandleDecline, Received, IsDecline
  <2>. HIDE DEF q
  <2>4. timer[n] \notin {"none", "told"}
    <3>1. timer[n] # "none"
      BY <1>1, <1>3, MovesAssumption DEF ApartInv, MailboxInv, Numbered, TypeOK, Moves
    <3>2. ASSUME timer[n] = "told" PROVE FALSE
      <4>1. PICK i \in Slots : IsFrom(i) /\ mailbox[i].move = n
        BY <1>3, <3>2 DEF ApartInv, MailboxInv, FromsPending
      <4>2. i < 1
        BY <1>2, <2>3, <4>1 DEF ApartInv, MailboxInv, FromsOrdered, Received
      <4>. QED BY <1>2, <4>2 DEF Slots
    <3>. QED BY <3>1, <3>2
  <2>. HIDE DEF n
  <2>5. OpensNone
    BY <2>2 DEF OpensNone, Open
  <2>6. SleepingHasHandle'
    BY <1>2, <1>4, <2>1, <2>2 DEF ApartInv, SleepingHasHandle
  <2>7. timer'[n] # "sleeping"
    BY <1>3, <2>2 DEF ApartInv, SleepingHasHandle
  <2>8. Settled'
    BY <1>3, <1>4, <2>2, <2>4, <2>7 DEF ApartInv, Settled
  <2>. QED BY <1>2, <2>5, <2>6, <2>8, OpenKept DEF ApartInv
<1>7. CASE HandleExpire(Head(mailbox))
  <2>1. /\ \A p \in Paths : tasks'[p] = IF p = q THEN 0 ELSE tasks[p]
        /\ \A m \in Moves : timer'[m] = IF m = n THEN "expired" ELSE timer[m]
        /\ declined' = declined
    BY <1>1, <1>2, <1>7 DEF HandleExpire, Received, TypeOK
  <2>2. timer[n] = "fired"
    BY <1>7, HandleExpireMailbox DEF ApartInv
  <2>. HIDE DEF n, q
  <2>3. OpensNone
    BY <2>1, <2>2 DEF OpensNone, Open
  <2>4. SleepingHasHandle'
    <3>1. ASSUME NEW m \in Moves, timer[m] = "sleeping" PROVE path[m] # q
      BY <1>3, <2>2, <3>1 DEF ApartInv, AtMostOneOpen, Open
    <3>. QED BY <1>2, <1>4, <2>1, <3>1 DEF ApartInv, SleepingHasHandle
  <2>5. Settled'
    BY <1>4, <2>1 DEF ApartInv, Settled
  <2>. QED BY <1>2, <2>3, <2>4, <2>5, OpenKept DEF ApartInv
<1>. QED BY <1>5, <1>6, <1>7 DEF Handle

LEMMA ApartStep ==
    ASSUME ~Overlap, ApartInv, [Next]_vars
    PROVE  ApartInv'
<1>1. TypeOK /\ TypeOK' /\ MailboxInv'
  BY TypeInductive, MailboxStep DEF ApartInv, MailboxInv
<1>2. declined \in SUBSET Moves
  BY <1>1 DEF TypeOK
<1>3. ASSUME NEW n \in Moves, TellFrom(n)
      PROVE  AtMostOneOpen' /\ SleepingHasHandle' /\ Settled'
  <2>1. /\ tasks' = tasks /\ path' = path /\ declined' = declined
        /\ \A m \in Moves : timer'[m] = IF m = n THEN "told" ELSE timer[m]
        /\ \A k \in Moves : path[k] = path[n] => ~Open(k)
    BY <1>1, <1>3 DEF TellFrom, TypeOK
  <2>2. timer[n] = "none"
    BY <1>1, <1>3, MovesAssumption
       DEF TellFrom, ApartInv, MailboxInv, Numbered, TypeOK, Moves
  <2>3. AtMostOneOpen'
    BY <2>1 DEF ApartInv, AtMostOneOpen, Open
  <2>. QED BY <1>2, <2>1, <2>2, <2>3 DEF ApartInv, SleepingHasHandle, Settled
<1>4. ASSUME NEW n \in Moves, TellDecline(n)
      PROVE  AtMostOneOpen' /\ SleepingHasHandle' /\ Settled'
  <2>1. UNCHANGED <<tasks, path, timer, declined>>
    BY <1>4 DEF TellDecline
  <2>. QED BY <2>1 DEF ApartInv, AtMostOneOpen, SleepingHasHandle, Settled, Open
<1>5. ASSUME NEW n \in Moves, Fire(n)
      PROVE  AtMostOneOpen' /\ SleepingHasHandle' /\ Settled'
  <2>1. /\ tasks' = tasks /\ path' = path /\ declined' = declined
        /\ \A m \in Moves : timer'[m] = IF m = n THEN "fired" ELSE timer[m]
        /\ timer[n] = "sleeping"
    BY <1>1, <1>5 DEF Fire, TypeOK
  <2>2. OpensNone
    BY <2>1 DEF OpensNone, Open
  <2>. QED BY <1>2, <2>1, <2>2, OpenKept DEF ApartInv, SleepingHasHandle, Settled
<1>6. ASSUME UNCHANGED vars
      PROVE  AtMostOneOpen' /\ SleepingHasHandle' /\ Settled'
  BY <1>6 DEF vars, ApartInv, AtMostOneOpen, SleepingHasHandle, Settled, Open
<1>7. AtMostOneOpen' /\ SleepingHasHandle' /\ Settled'
  BY <1>3, <1>4, <1>5, <1>6, ApartHandle DEF Next
<1>. QED BY <1>1, <1>7 DEF ApartInv

(***************************************************************************)
(* While no path is moved away again before the timer of its last move has *)
(* ended, a completed rename is never reported as a removal after its      *)
(* Decline was handled: HandleDecline finds and aborts the right timer.    *)
(***************************************************************************)
THEOREM DeclinesSettle == ASSUME ~Overlap PROVE Spec => []DeclineSettles
<1>1. Init => ApartInv
  <2>. SUFFICES ASSUME Init PROVE ApartInv
    OBVIOUS
  <2>. QED BY MailboxInit
           DEF ApartInv, Init, AtMostOneOpen, SleepingHasHandle, Settled, Open
<1>2. ApartInv /\ [Next]_vars => ApartInv'
  BY ApartStep
<1>3. ApartInv => DeclineSettles
  BY DEF ApartInv, Settled, DeclineSettles
<1>. QED BY <1>1, <1>2, <1>3, PTL DEF Spec

-----------------------------------------------------------------------------
(***************************************************************************)
(* RenameControl implements RenameWatch.  What is left to see is that the  *)
(* timer a Decline aborts is that of a move that was declined: a Decline   *)
(* is handled before any later move of its path starts a timer.            *)
(***************************************************************************)
DeclinesSent == \A i \in Slots : IsDecline(i) => mailbox[i].move \in renamed

DeclinesFirst ==
    \A i, j \in Slots :
        IsDecline(i) /\ IsFrom(j) /\ mailbox[i].path = mailbox[j].path
        /\ mailbox[i].move < mailbox[j].move => i < j

DeclinesCurrent ==
    \A i \in Slots : IsDecline(i) =>
        \A m \in Moves : mailbox[i].move < m /\ path[m] = mailbox[i].path =>
                            timer[m] \in {"none", "told"}

DeclineInv == NewestInv /\ DeclinesSent /\ DeclinesFirst /\ DeclinesCurrent

\* Sending anything but a Decline, and receiving, keep the Declines' facts.
LEMMA DeclinesKept ==
    ASSUME DeclineInv, path' = path, renamed' = renamed,
           Received \/ \E t \in {"From", "Expire"} : \E n \in Moves : Sent(t, n)
    PROVE  DeclinesSent' /\ DeclinesFirst'
<1>1. CASE Received
  <2>1. DeclinesSent'
    BY <1>1 DEF DeclineInv, DeclinesSent, Received, IsDecline
  <2>2. ASSUME NEW i \in Slots', NEW j \in Slots', IsDecline(i)', IsFrom(j)',
               mailbox'[i].path = mailbox'[j].path, mailbox'[i].move < mailbox'[j].move
        PROVE  i < j
    <3>1. i + 1 < j + 1
      BY <1>1, <2>2 DEF DeclineInv, DeclinesFirst, Received, IsDecline, IsFrom
    <3>. QED BY <1>1, <3>1 DEF Received
  <2>. QED BY <2>1, <2>2 DEF DeclinesFirst
<1>2. CASE \E t \in {"From", "Expire"} : \E n \in Moves : Sent(t, n)
  <2>1. PICK t \in {"From", "Expire"}, n \in Moves : Sent(t, n)
    BY <1>2
  <2>2. ASSUME NEW i \in Slots', IsDecline(i)'
        PROVE  i \in Slots /\ IsDecline(i) /\ mailbox'[i] = mailbox[i]
               /\ i < Len(mailbox) + 1
    BY <2>1, <2>2 DEF Sent, IsDecline
  <2>3. DeclinesSent'
    BY <2>2 DEF DeclineInv, DeclinesSent
  <2>4. ASSUME NEW i \in Slots', NEW j \in Slots', IsDecline(i)', IsFrom(j)',
               mailbox'[i].path = mailbox'[j].path, mailbox'[i].move < mailbox'[j].move
        PROVE  i < j
    <3>1. CASE j \in Slots
      BY <2>1, <2>2, <2>4, <3>1 DEF DeclineInv, DeclinesFirst, Sent, IsFrom
    <3>2. CASE j = Len(mailbox) + 1
      BY <2>2, <2>4, <3>2
    <3>. QED BY <2>1, <3>1, <3>2 DEF Sent
  <2>. QED BY <2>3, <2>4 DEF DeclinesFirst
<1>. QED BY <1>1, <1>2

\* Declines stay current while no waiting timer starts.
LEMMA CurrentKept ==
    ASSUME DeclineInv, path' = path,
           \A i \in Slots' : IsDecline(i)' =>
               \E j \in Slots : IsDecline(j) /\ mailbox'[i] = mailbox[j],
           \A m \in Moves : timer[m] \in {"none", "told"} =>
                               timer'[m] \in {"none", "told"}
    PROVE  DeclinesCurrent'
  BY DEF DeclineInv, DeclinesCurrent

LEMMA DeclineStep == DeclineInv /\ [Next]_vars => DeclineInv'
<1>. SUFFICES ASSUME DeclineInv, [Next]_vars PROVE DeclineInv'
  OBVIOUS
<1>1. NewestInv /\ NewestInv' /\ MailboxInv /\ TypeOK /\ TypeOK'
  BY MailboxStep, NewestStep DEF DeclineInv, NewestInv, MailboxInv
<1>2. ASSUME NEW n \in Moves, TellFrom(n) PROVE DeclineInv'
  <2>1. Sent("From", n) /\ path' = path /\ renamed' = renamed
    BY <1>1, <1>2, SendFacts DEF TellFrom
  <2>2. \A m \in Moves : timer[m] \in {"none", "told"} => timer'[m] \in {"none", "told"}
    BY <1>1, <1>2 DEF TellFrom, TypeOK
  <2>3. DeclinesCurrent'
    BY <2>1, <2>2, CurrentKept DEF Sent, IsDecline
  <2>. QED BY <1>1, <2>1, <2>3, DeclinesKept DEF DeclineInv
<1>3. ASSUME NEW n \in Moves, Fire(n) PROVE DeclineInv'
  <2>1. Sent("Expire", n) /\ path' = path /\ renamed' = renamed
    BY <1>1, <1>3, SendFacts DEF Fire
  <2>2. \A m \in Moves : timer[m] \in {"none", "told"} => timer'[m] \in {"none", "told"}
    BY <1>1, <1>3 DEF Fire, TypeOK
  <2>3. DeclinesCurrent'
    BY <2>1, <2>2, CurrentKept DEF Sent, IsDecline
  <2>. QED BY <1>1, <2>1, <2>3, DeclinesKept DEF DeclineInv
<1>4. ASSUME NEW n \in Moves, TellDecline(n) PROVE DeclineInv'
  <2>1. Sent("Decline", n) /\ path' = path /\ timer' = timer /\ moves' = moves
        /\ renamed' = renamed \cup {n}
        /\ \A k \in Moves : n < k /\ k <= moves => path[k] # path[n]
    BY <1>1, <1>4, SendFacts DEF TellDecline
  <2>2. \A i \in Slots : /\ mailbox[i].move \in Moves /\ mailbox[i].move <= moves
                         /\ mailbox[i].path = path[mailbox[i].move]
    BY <1>1, MailboxTyped DEF MailboxInv, Addressed
  <2>3. moves \in Nat /\ \A m \in Moves : m \in Nat
    BY <1>1, MovesAssumption DEF TypeOK, Moves
  <2>4. DeclinesSent'
    BY <2>1 DEF DeclineInv, DeclinesSent, Sent, IsDecline
  <2>5. ASSUME NEW i \in Slots', NEW j \in Slots', IsDecline(i)', IsFrom(j)',
               mailbox'[i].path = mailbox'[j].path, mailbox'[i].move < mailbox'[j].move
        PROVE  i < j
    <3>1. j \in Slots /\ IsFrom(j) /\ mailbox'[j] = mailbox[j]
      BY <2>1, <2>5 DEF Sent, IsFrom
    <3>2. i \in Slots
      <4>. SUFFICES ASSUME i = Len(mailbox) + 1 PROVE FALSE
        BY <2>1 DEF Sent
      <4>1. mailbox'[i].path = path[n] /\ mailbox'[i].move = n
        BY <2>1 DEF Sent
      <4>. QED BY <2>1, <2>2, <2>5, <3>1, <4>1
    <3>. QED BY <2>1, <2>5, <3>1, <3>2
             DEF DeclineInv, DeclinesFirst, Sent, IsDecline, IsFrom
  <2>6. ASSUME NEW i \in Slots', IsDecline(i)', NEW m \in Moves,
               mailbox'[i].move < m, path'[m] = mailbox'[i].path
        PROVE  timer'[m] \in {"none", "told"}
    <3>1. CASE i \in Slots
      BY <2>1, <2>6, <3>1 DEF DeclineInv, DeclinesCurrent, Sent, IsDecline
    <3>2. CASE i = Len(mailbox) + 1
      <4>1. n < m /\ path[m] = path[n]
        BY <2>1, <2>6, <3>2 DEF Sent
      <4>2. moves < m
        BY <2>1, <2>3, <4>1
      <4>. QED BY <1>1, <2>1, <4>2 DEF MailboxInv, Numbered
    <3>. QED BY <2>1, <3>1, <3>2 DEF Sent
  <2>. QED BY <1>1, <2>4, <2>5, <2>6 DEF DeclineInv, DeclinesFirst, DeclinesCurrent
<1>5. CASE Handle
  <2>. DEFINE n == mailbox[1].move
  <2>1. Received /\ path' = path /\ renamed' = renamed
    BY <1>1, <1>5, ReceiveFacts DEF Handle
  <2>2. DeclinesSent' /\ DeclinesFirst'
    BY <2>1, DeclinesKept
  <2>3. ASSUME NEW i \in Slots', IsDecline(i)'
        PROVE  i + 1 \in Slots /\ i + 1 # 1 /\ IsDecline(i + 1) /\ mailbox'[i] = mailbox[i + 1]
    BY <2>1, <2>3 DEF Received, IsDecline
  <2>4. CASE HandleFrom(Head(mailbox))
    <3>1. \A m \in Moves : timer'[m] = IF m = n THEN "sleeping" ELSE timer[m]
      BY <1>1, <2>1, <2>4 DEF HandleFrom, Received, TypeOK
    <3>2. IsFrom(1) /\ n \in Moves /\ mailbox[1].path = path[n]
      BY <1>1, <2>1, <2>4, MailboxTyped
         DEF HandleFrom, Received, IsFrom, MailboxInv, Addressed
    <3>3. ASSUME NEW i \in Slots', IsDecline(i)', NEW m \in Moves,
                 mailbox'[i].move < m, path'[m] = mailbox'[i].path
          PROVE  timer'[m] \in {"none", "told"}
      <4>1. mailbox[i + 1].move < m /\ path[m] = mailbox[i + 1].path
        BY <2>1, <2>3, <3>3
      <4>2. m # n
        <5>. SUFFICES ASSUME m = n PROVE FALSE
          OBVIOUS
        <5>1. i + 1 < 1
          BY <2>1, <2>3, <3>2, <3>3, <4>1 DEF DeclineInv, DeclinesFirst, Received
        <5>. QED BY <2>1, <5>1 DEF Received
      <4>. QED BY <2>3, <3>1, <3>3, <4>1, <4>2 DEF DeclineInv, DeclinesCurrent
    <3>. QED BY <1>1, <2>2, <3>3 DEF DeclineInv, DeclinesCurrent
  <2>5. CASE HandleDecline(Head(mailbox)) \/ HandleExpire(Head(mailbox))
    <3>1. \A m \in Moves : timer[m] \in {"none", "told"} =>
                              timer'[m] \in {"none", "told"}
      <4>1. CASE HandleDecline(Head(mailbox))
        BY <4>1 DEF HandleDecline
      <4>2. CASE HandleExpire(Head(mailbox))
        <5>1. timer[n] = "fired"
          BY <1>1, <1>5, <4>2, HandleExpireMailbox
        <5>2. \A m \in Moves : timer'[m] = IF m = n THEN "expired" ELSE timer[m]
          BY <1>1, <2>1, <4>2 DEF HandleExpire, Received, TypeOK
        <5>. QED BY <5>1, <5>2
      <4>. QED BY <2>5, <4>1, <4>2
    <3>2. DeclinesCurrent'
      BY <2>1, <2>3, <3>1, CurrentKept
    <3>. QED BY <1>1, <2>2, <3>2 DEF DeclineInv
  <2>. QED BY <1>5, <2>4, <2>5 DEF Handle
<1>6. CASE UNCHANGED vars
  BY <1>1, <1>6 DEF vars, DeclineInv, DeclinesSent, DeclinesFirst, DeclinesCurrent,
                    Slots, IsDecline, IsFrom
<1>. QED BY <1>2, <1>3, <1>4, <1>5, <1>6 DEF Next

\* A Decline that aborts a timer aborts the timer of a declined move.
LEMMA AbortsDeclined ==
    ASSUME DeclineInv, Handle, HandleDecline(Head(mailbox)),
           NEW m \in Moves, timer[m] = "sleeping", tasks[mailbox[1].path] = m
    PROVE  m \in renamed
<1>. DEFINE n == mailbox[1].move
            q == mailbox[1].path
<1>1. TypeOK /\ MailboxInv /\ HandleIsNewest
  BY DEF DeclineInv, NewestInv, MailboxInv
<1>2. Received
  BY <1>1, ReceiveFacts DEF Handle
<1>3. IsDecline(1) /\ n \in Moves /\ q \in Paths /\ path[n] = q /\ n <= moves
  BY <1>1, <1>2, MailboxTyped
     DEF HandleDecline, Received, IsDecline, MailboxInv, Addressed
<1>4. n \in Nat /\ m \in Nat /\ m # 0 /\ moves \in Nat
  BY <1>1, <1>3, MovesAssumption DEF Moves, TypeOK
<1>5. path[m] = q
  BY <1>1, <1>3, <1>4 DEF HandleIsNewest
<1>6. ~(n < m)
  BY <1>2, <1>3, <1>5 DEF DeclineInv, DeclinesCurrent, Received
<1>7. ~(m < n)
  <2>. SUFFICES ASSUME m < n PROVE FALSE
    OBVIOUS
  <2>1. timer[n] \in {"none", "told"}
    BY <1>1, <1>3, <1>4 DEF HandleIsNewest
  <2>2. timer[n] # "none"
    BY <1>1, <1>3, <1>4 DEF MailboxInv, Numbered
  <2>3. PICK i \in Slots : IsFrom(i) /\ mailbox[i].move = n
    BY <1>1, <1>3, <2>1, <2>2 DEF MailboxInv, FromsPending
  <2>4. i < 1
    BY <1>1, <1>2, <1>3, <2>3 DEF MailboxInv, FromsOrdered, Received
  <2>. QED BY <2>4 DEF Slots
<1>8. m = n
  BY <1>4, <1>6, <1>7
<1>. QED BY <1>2, <1>3, <1>8 DEF DeclineInv, DeclinesSent, Received

\* What becomes of status when one timer changes.
LEMMA StatusOfOne ==
    ASSUME NEW n \in Moves, NEW t,
           \A m \in Moves : timer'[m] = IF m = n THEN t ELSE timer[m]
    PROVE  status' = [status EXCEPT ![n] = Status(t)]
  BY DEF status

LEMMA WatchStep ==
    ASSUME DeclineInv, [Next]_vars
    PROVE  [Watch!Next]_<<status, renamed>>
<1>1. TypeOK /\ MailboxInv
  BY DEF DeclineInv, NewestInv, MailboxInv
<1>2. \A m \in Moves : m \in Nat
  BY MovesAssumption DEF Moves
<1>3. ASSUME NEW n \in Moves, TellFrom(n) PROVE Watch!Moved(n)
  <2>1. renamed' = renamed /\ \A m \in Moves : timer'[m] = IF m = n THEN "told" ELSE timer[m]
    BY <1>1, <1>3 DEF TellFrom, TypeOK
  <2>2. timer[n] = "none"
    BY <1>1, <1>2, <1>3 DEF TellFrom, MailboxInv, Numbered, TypeOK
  <2>3. status' = [status EXCEPT ![n] = "pending"]
    BY <2>1, StatusOfOne DEF Status
  <2>. QED BY <2>1, <2>2, <2>3 DEF Watch!Moved, status, Status
<1>4. ASSUME NEW n \in Moves, TellDecline(n) PROVE Watch!Renamed(n)
  <2>1. timer' = timer /\ renamed' = renamed \cup {n} /\ n <= moves
    BY <1>4 DEF TellDecline
  <2>2. timer[n] \in TimerStates \ {"none"}
    BY <1>1, <1>2, <2>1 DEF MailboxInv, Numbered, TypeOK
  <2>3. status[n] # "none"
    BY <2>2 DEF status, Status, TimerStates
  <2>. QED BY <2>1, <2>3 DEF Watch!Renamed, status
<1>5. ASSUME NEW n \in Moves, Fire(n) PROVE Watch!Report(n)
  <2>1. renamed' = renamed /\ timer[n] = "sleeping"
        /\ \A m \in Moves : timer'[m] = IF m = n THEN "fired" ELSE timer[m]
    BY <1>1, <1>5 DEF Fire, TypeOK
  <2>2. status' = [status EXCEPT ![n] = "reported"]
    BY <2>1, StatusOfOne DEF Status
  <2>. QED BY <2>1, <2>2 DEF Watch!Report, status, Status
<1>6. ASSUME Handle PROVE Watch!Next \/ UNCHANGED <<status, renamed>>
  <2>. DEFINE n == mailbox[1].move
  <2>1. Received /\ renamed' = renamed /\ n \in Moves
    BY <1>1, <1>6, ReceiveFacts, MailboxTyped DEF Handle, Received
  <2>2. CASE HandleFrom(Head(mailbox))
    <3>1. timer[n] = "told" /\ \A m \in Moves : timer'[m] = IF m = n THEN "sleeping" ELSE timer[m]
      BY <1>1, <1>6, <2>1, <2>2, HandleFromMailbox DEF HandleFrom, Received, TypeOK
    <3>2. ASSUME NEW m \in Moves PROVE Status(timer'[m]) = Status(timer[m])
      <4>1. CASE m = n
        BY <3>1, <4>1 DEF Status
      <4>2. CASE m # n
        BY <3>1, <4>2
      <4>. QED BY <4>1, <4>2
    <3>3. status' = status
      BY <3>2 DEF status
    <3>. QED BY <2>1, <3>3
  <2>3. CASE HandleExpire(Head(mailbox))
    <3>1. timer[n] = "fired" /\ \A m \in Moves : timer'[m] = IF m = n THEN "expired" ELSE timer[m]
      BY <1>1, <1>6, <2>1, <2>3, HandleExpireMailbox DEF HandleExpire, Received, TypeOK
    <3>2. ASSUME NEW m \in Moves PROVE Status(timer'[m]) = Status(timer[m])
      <4>1. CASE m = n
        BY <3>1, <4>1 DEF Status
      <4>2. CASE m # n
        BY <3>1, <4>2
      <4>. QED BY <4>1, <4>2
    <3>3. status' = status
      BY <3>2 DEF status
    <3>. QED BY <2>1, <3>3
  <2>4. CASE HandleDecline(Head(mailbox))
    <3>. DEFINE h == tasks[mailbox[1].path]
    <3>1. \A m \in Moves : timer'[m] = IF m = h /\ timer[m] = "sleeping"
                                       THEN "aborted" ELSE timer[m]
      BY <2>1, <2>4 DEF HandleDecline, Received
    <3>2. CASE h \in Moves /\ timer[h] = "sleeping"
      <4>1. h \in renamed
        BY <1>6, <2>4, <3>2, AbortsDeclined
      <4>2. \A m \in Moves : timer'[m] = IF m = h THEN "aborted" ELSE timer[m]
        BY <3>1, <3>2
      <4>3. status' = [status EXCEPT ![h] = "cancelled"]
        BY <3>2, <4>2, StatusOfOne DEF Status
      <4>4. Watch!Cancel(h)
        BY <2>1, <3>2, <4>1, <4>3 DEF Watch!Cancel, status, Status
      <4>. QED BY <3>2, <4>4 DEF Watch!Next
    <3>3. CASE ~(h \in Moves /\ timer[h] = "sleeping")
      <4>1. status' = status
        BY <3>1, <3>3 DEF status
      <4>. QED BY <2>1, <4>1
    <3>. QED BY <3>2, <3>3
  <2>. QED BY <1>6, <2>2, <2>3, <2>4 DEF Handle
<1>7. ASSUME UNCHANGED vars PROVE UNCHANGED <<status, renamed>>
  BY <1>7 DEF vars, status
<1>. QED BY <1>3, <1>4, <1>5, <1>6, <1>7 DEF Next, Watch!Next

(***************************************************************************)
(* The actor does no more than RenameWatch allows, whatever moves of a     *)
(* path overlap: a move is reported at most once, and only a move whose    *)
(* other half the watcher has seen is dropped, although handles are kept   *)
(* by path and Expire may take away the handle of another move.            *)
(***************************************************************************)
THEOREM WatchSafety == Spec => Watch!Init /\ [][Watch!Next]_<<status, renamed>>
<1>1. Init => DeclineInv
  <2>. SUFFICES ASSUME Init PROVE DeclineInv
    OBVIOUS
  <2>1. Slots = {}
    BY DEF Init, Slots
  <2>. QED BY <2>1, MailboxInit DEF DeclineInv, NewestInv, Init, HandleIsNewest,
                                    DeclinesSent, DeclinesFirst, DeclinesCurrent
<1>2. DeclineInv /\ [Next]_vars => DeclineInv'
  BY DeclineStep
<1>3. Init => Watch!Init
  BY DEF Init, Watch!Init, status, Status
<1>4. DeclineInv /\ [Next]_vars => [Watch!Next]_<<status, renamed>>
  BY WatchStep
<1>. QED BY <1>1, <1>2, <1>3, <1>4, PTL DEF Spec
=============================================================================
