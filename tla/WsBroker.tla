------------------------------ MODULE WsBroker ------------------------------
(***************************************************************************)
(* The websocket side of the directory service: a WSBroker per entry of    *)
(* the tree, and per client a WebSocketHandler and a task that reads from  *)
(* the websocket (src/directory/src/manager/websocket, the end of          *)
(* BucketMap::subscriber, ActorRefWithShutdown).                           *)
(*                                                                         *)
(* Broker and handlers have bounded mailboxes, and tell waits for room: a  *)
(* handler to subscribe and to unsubscribe, the broker to pass a message   *)
(* to one observer after the other.  Nothing sends the broker messages     *)
(* yet; Publish stands for whoever will.                                   *)
(***************************************************************************)
EXTENDS Naturals, Sequences, FiniteSets

CONSTANTS
    Clients,
    BrokerCapacity, \* of the broker's mailbox, 32 in the code
    ClientCapacity, \* of a handler's mailbox, 32 in the code
    MaxMessages     \* bound on the messages published

ASSUME CapacityAssumption ==
    /\ IsFiniteSet(Clients)
    /\ BrokerCapacity \in Nat \ {0} /\ ClientCapacity \in Nat \ {0}
    /\ MaxMessages \in Nat

VARIABLES
    mailbox,    \* the broker's
    observers,  \* the clients the broker knows
    todo,       \* those the broker still passes its message to, in order
    message,    \* that message
    state,      \* per client "off", "joining", "joined", "open", "sending", "leaving", "gone"
    inbox,      \* per client its handler's mailbox; its head is being sent in "sending"
    closed,     \* clients that have closed their websocket or are gone
    shutdown,   \* handlers that were sent Shutdown
    sent,       \* per client the messages sent on its websocket
    published   \* messages so far: they are 1 .. published

broker == <<mailbox, observers, todo, message>>
sockets == <<state, inbox, shutdown>>
outside == <<closed, sent, published>>
vars == <<broker, sockets, outside>>

Msg(type, x) == [type |-> type, of |-> x]

Room == Len(mailbox) < BrokerCapacity

Tell(m) == mailbox' = Append(mailbox, m) /\ UNCHANGED <<observers, todo, message>>

Become(s, new) == state' = [state EXCEPT ![s] = new]

\* recv frees the place of a message before it is sent.
Waiting(s) == Len(inbox[s]) - (IF state[s] = "sending" THEN 1 ELSE 0)

HasRoom(s) == Waiting(s) < ClientCapacity

Init ==
    /\ mailbox = <<>> /\ observers = {} /\ todo = <<>> /\ message = 0
    /\ state = [s \in Clients |-> "off"]
    /\ inbox = [s \in Clients |-> <<>>]
    /\ closed = {} /\ shutdown = {}
    /\ sent = [s \in Clients |-> <<>>]
    /\ published = 0

Publish ==
    /\ published < MaxMessages
    /\ Room
    /\ published' = published + 1
    /\ Tell(Msg("message", published + 1))
    /\ UNCHANGED <<sockets, closed, sent>>

-----------------------------------------------------------------------------
(***************************************************************************)
(* WSBroker::start: the loop.                                              *)
(***************************************************************************)
Takes(type) == todo = <<>> /\ mailbox # <<>> /\ Head(mailbox).type = type

Subscribe ==
    /\ Takes("subscribe")
    /\ mailbox' = Tail(mailbox)
    /\ observers' = observers \cup {Head(mailbox).of}
    /\ Become(Head(mailbox).of, "open")
    /\ UNCHANGED <<todo, message, inbox, shutdown, outside>>

\* Unsubscribe that does not find the id.
UnsubscribeMissing ==
    /\ Takes("unsubscribe")
    /\ mailbox' = Tail(mailbox)
    /\ UNCHANGED <<observers, todo, message, sockets, outside>>

Unsubscribe ==
    /\ Takes("unsubscribe")
    /\ mailbox' = Tail(mailbox)
    /\ observers' = observers \ {Head(mailbox).of}
    /\ UNCHANGED <<todo, message, sockets, outside>>

\* The order of the observers is that of a HashMap.
Orders(S) ==
    {o \in [1 .. Cardinality(S) -> S] : \A i, j \in DOMAIN o : i # j => o[i] # o[j]}

Broadcast ==
    /\ Takes("message")
    /\ mailbox' = Tail(mailbox)
    /\ message' = Head(mailbox).of
    /\ todo' \in Orders(observers)
    /\ UNCHANGED <<observers, sockets, outside>>

\* Update that does not wait for room.
UpdateUnbounded ==
    /\ todo # <<>>
    /\ inbox' = IF state[Head(todo)] = "gone" THEN inbox
                ELSE [inbox EXCEPT ![Head(todo)] = Append(@, message)]
    /\ todo' = Tail(todo)
    /\ UNCHANGED <<mailbox, observers, message, state, shutdown, outside>>

\* Update with try_tell, which drops what there is no room for.
UpdateTrying ==
    /\ todo # <<>>
    /\ inbox' = IF state[Head(todo)] = "gone" \/ ~HasRoom(Head(todo))
                THEN inbox
                ELSE [inbox EXCEPT ![Head(todo)] = Append(@, message)]
    /\ todo' = Tail(todo)
    /\ UNCHANGED <<mailbox, observers, message, state, shutdown, outside>>

\* observer.update(..).await: waits for room, or finds the handler gone.
Update ==
    /\ todo # <<>>
    /\ state[Head(todo)] = "gone" \/ HasRoom(Head(todo))
    /\ inbox' = IF state[Head(todo)] = "gone" THEN inbox
                ELSE [inbox EXCEPT ![Head(todo)] = Append(@, message)]
    /\ todo' = Tail(todo)
    /\ UNCHANGED <<mailbox, observers, message, state, shutdown, outside>>

-----------------------------------------------------------------------------
(***************************************************************************)
(* WebSocketHandler::start: ask the broker, then select between a message  *)
(* and the shutdown, then tell the broker.                                 *)
(***************************************************************************)
Start(s) ==
    /\ state[s] = "off"
    /\ Become(s, "joining")
    /\ UNCHANGED <<broker, inbox, shutdown, outside>>

Join(s) ==
    /\ state[s] = "joining"
    /\ Room
    /\ Tell(Msg("subscribe", s))
    /\ Become(s, "joined")
    /\ UNCHANGED <<inbox, shutdown, outside>>

Take(s) ==
    /\ state[s] = "open" /\ inbox[s] # <<>>
    /\ Become(s, "sending")
    /\ UNCHANGED <<broker, inbox, shutdown, outside>>

\* send().await without an error, which a client that has gone may not notice.
Send(s) ==
    /\ state[s] = "sending"
    /\ sent' = [sent EXCEPT ![s] = Append(@, Head(inbox[s]))]
    /\ inbox' = [inbox EXCEPT ![s] = Tail(@)]
    /\ Become(s, "open")
    /\ UNCHANGED <<broker, shutdown, closed, published>>

\* SendFails that ends the task there and then.
SendFailsQuietly(s) ==
    /\ state[s] = "sending" /\ s \in closed
    /\ inbox' = [inbox EXCEPT ![s] = <<>>]
    /\ Become(s, "gone")
    /\ UNCHANGED <<broker, shutdown, outside>>

SendFails(s) ==
    /\ state[s] = "sending" /\ s \in closed
    /\ inbox' = [inbox EXCEPT ![s] = Tail(@)]
    /\ Become(s, "leaving")
    /\ UNCHANGED <<broker, shutdown, outside>>

TakeShutdown(s) ==
    /\ state[s] = "open" /\ s \in shutdown
    /\ Become(s, "leaving")
    /\ UNCHANGED <<broker, inbox, shutdown, outside>>

\* The handler's mailbox is there until the broker has been told.
Leave(s) ==
    /\ state[s] = "leaving"
    /\ Room
    /\ Tell(Msg("unsubscribe", s))
    /\ inbox' = [inbox EXCEPT ![s] = <<>>]
    /\ Become(s, "gone")
    /\ UNCHANGED <<shutdown, outside>>

Close(s) ==
    /\ state[s] # "off" /\ s \notin closed
    /\ closed' = closed \cup {s}
    /\ UNCHANGED <<broker, sockets, sent, published>>

\* The task that reads the websocket gets None: actor_ref.shutdown().
Shutdown(s) ==
    /\ s \in closed \ shutdown
    /\ shutdown' = shutdown \cup {s}
    /\ UNCHANGED <<broker, state, inbox, outside>>

Broker == Subscribe \/ Unsubscribe \/ Broadcast \/ Update

Handler(s) == Join(s) \/ Take(s) \/ Send(s) \/ SendFails(s) \/ TakeShutdown(s) \/ Leave(s)

Next ==
    \/ Publish \/ Broker
    \/ \E s \in Clients : Start(s) \/ Handler(s) \/ Close(s) \/ Shutdown(s)

\* The three kinds of tasks are polled, and a send is over some day.
Spec ==
    /\ Init /\ [][Next]_vars
    /\ WF_vars(Broker)
    /\ \A s \in Clients : WF_vars(Handler(s)) /\ WF_vars(Shutdown(s))

-----------------------------------------------------------------------------
Told(type, s) == \E i \in DOMAIN mailbox : mailbox[i] = Msg(type, s)

\* Type correctness, and the bounds of the two kinds of mailboxes.
TypeOK ==
    /\ mailbox \in Seq([type : {"subscribe", "unsubscribe"}, of : Clients]
                         \cup [type : {"message"}, of : 1 .. published])
    /\ Len(mailbox) <= BrokerCapacity
    /\ observers \subseteq Clients
    /\ todo \in Seq(observers)
    /\ message \in 0 .. published /\ published \in 0 .. MaxMessages
    /\ state \in [Clients -> {"off", "joining", "joined", "open", "sending", "leaving", "gone"}]
    /\ \A s \in Clients : Waiting(s) \in 0 .. ClientCapacity
    /\ closed \subseteq Clients /\ shutdown \subseteq closed
    /\ sent \in [Clients -> Seq(1 .. published)]

\* A client that is served gets every message from its first one on, once and
\* in their order, and none is withheld: the latest is in its mailbox unless
\* the broker is still on its way to it.
InOrder ==
    \A s \in Clients :
        LET run == sent[s] \o IF state[s] \in {"open", "sending"} THEN inbox[s] ELSE <<>>
        IN  /\ \A i \in 1 .. Len(run) - 1 : run[i + 1] = run[i] + 1
            /\ run # <<>> /\ state[s] \in {"open", "sending"} =>
                   run[Len(run)] = IF \E i \in DOMAIN todo : todo[i] = s
                                   THEN message - 1 ELSE message

\* A handler never ends without telling the broker: while the broker has an
\* observer whose task is over, its Ubsubscriber is under way.
NoOneForgotten ==
    \A s \in observers : state[s] = "gone" => Told("unsubscribe", s)

\* The broker waits for room in the mailbox of a handler that waits for room
\* in the broker's.
Stuck ==
    /\ todo # <<>> /\ ~Room
    /\ state[Head(todo)] = "leaving" /\ ~HasRoom(Head(todo))

\* An observer whose client is gone is removed, however the messages, the
\* failing send, the shutdown and the other clients fall, unless broker and
\* handler wait for each other as in Stuck.
Leaves ==
    \A s \in Clients : (s \in closed /\ s \in observers) ~> (s \notin observers \/ Stuck)
=============================================================================
