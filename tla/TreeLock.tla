------------------------------ MODULE TreeLock ------------------------------
(***************************************************************************)
(* The RwLock around the BucketMap and who takes it: the handler of        *)
(* GET /tree and gRPC's file_name to read, the manager to write for a      *)
(* change and to read for WhatIs, and the handler of a websocket upgrade   *)
(* to write (src/directory/src/handlers/mod.rs, manager/mod.rs,            *)
(* grpc_v1_server/mod.rs, BucketMap::subscriber).                          *)
(*                                                                         *)
(* The upgrade's handler holds the lock while subscriber awaits the        *)
(* websocket.  hyper completes that future once the response is on its     *)
(* way, and the response is what the handler returns when subscriber has:  *)
(* until the client hangs up, and the connection drops the handler.        *)
(*                                                                         *)
(* Who holds the lock may panic.  tokio's lock is not poisoned by that:    *)
(* unwinding releases the guard.  The request has no answer then, and the  *)
(* manager's task is gone.                                                 *)
(***************************************************************************)
EXTENDS Naturals, Sequences

CONSTANTS
    Readers,     \* requests that read the tree
    Sockets,     \* websocket upgrade requests
    Manager,     \* the manager's task
    MaxMessages, \* bound on the messages it handles
    HangUps      \* do clients of upgrades hang up in the end?

Requests == Readers \cup Sockets

ASSUME ProcsAssumption == Readers \cap Sockets = {} /\ Manager \notin Requests
ASSUME BoundAssumption == MaxMessages \in Nat /\ HangUps \in BOOLEAN

Procs == Requests \cup {Manager}

VARIABLES
    task,       \* per task "idle", "waiting", "holding" or "done"
    queue,      \* the waiters of the lock, in order
    inhand,     \* what the manager asks for, or asked for last: "change" or "what_is"
    answered,   \* requests whose response has been returned
    gone,       \* requests whose client has hung up
    panicked,   \* tasks that panicked with the lock in their hands
    messages    \* messages the manager has taken up

vars == <<task, queue, inhand, answered, gone, panicked, messages>>

Reads(p) == p \in Readers \/ (p = Manager /\ inhand = "what_is")

Holders == {p \in Procs : task[p] = "holding"}

Init ==
    /\ task = [p \in Procs |-> "idle"]
    /\ queue = <<>>
    /\ inhand = "change"
    /\ answered = {} /\ gone = {} /\ panicked = {}
    /\ messages = 0

\* read().await and write().await queue up alike: tokio's RwLock is fair.
Ask(p) ==
    /\ task[p] = "idle"
    /\ task' = [task EXCEPT ![p] = "waiting"]
    /\ queue' = Append(queue, p)
    /\ UNCHANGED <<answered, gone, panicked>>

Request(p) == p \in Requests /\ Ask(p) /\ UNCHANGED <<inhand, messages>>

\* The next message of the manager's mailbox.
Message ==
    /\ messages < MaxMessages
    /\ messages' = messages + 1
    /\ inhand' \in {"change", "what_is"}
    /\ Ask(Manager)

Grant(p) ==
    /\ queue # <<>> /\ Head(queue) = p
    /\ \A h \in Holders : Reads(p) /\ Reads(h)
    /\ task' = [task EXCEPT ![p] = "holding"]
    /\ queue' = Tail(queue)
    /\ UNCHANGED <<inhand, answered, gone, panicked, messages>>

\* The guard is dropped with the answer.
Read(p) ==
    /\ p \in Readers /\ task[p] = "holding"
    /\ task' = [task EXCEPT ![p] = "done"]
    /\ answered' = answered \cup {p}
    /\ UNCHANGED <<queue, inhand, gone, panicked, messages>>

\* get_entry(..).unwrap() of a bucket or key that is not in the tree.
ReadPanics(p) ==
    /\ p \in Readers /\ task[p] = "holding"
    /\ task' = [task EXCEPT ![p] = "done"]
    /\ panicked' = panicked \cup {p}
    /\ UNCHANGED <<queue, inhand, answered, gone, messages>>

\* The change is applied, or WhatIs answered.
Handle ==
    /\ task[Manager] = "holding"
    /\ task' = [task EXCEPT ![Manager] = "idle"]
    /\ UNCHANGED <<queue, inhand, answered, gone, panicked, messages>>

\* An unwrap of change (keys of a bucket without any), or of WhatIs.
HandlePanics ==
    /\ task[Manager] = "holding"
    /\ task' = [task EXCEPT ![Manager] = "done"]
    /\ panicked' = panicked \cup {Manager}
    /\ UNCHANGED <<queue, inhand, answered, gone, messages>>

\* Subscriber of a connection that does not notice the client hang up.
SubscriberStaying(p) ==
    /\ p \in Sockets /\ task[p] = "holding"
    /\ p \in answered
    /\ task' = [task EXCEPT ![p] = "done"]
    /\ UNCHANGED <<queue, inhand, answered, gone, panicked, messages>>

\* ws.await in subscriber: over when the response was sent, or the handler
\* dropped.  Then the guard is released, and the handler returns.
Subscriber(p) ==
    /\ p \in Sockets /\ task[p] = "holding"
    /\ p \in answered \cup gone
    /\ task' = [task EXCEPT ![p] = "done"]
    /\ answered' = IF p \in gone THEN answered ELSE answered \cup {p}
    /\ UNCHANGED <<queue, inhand, gone, panicked, messages>>

\* A handler that is dropped while it waits leaves the queue.
Drop(p) ==
    /\ p \in gone /\ task[p] = "waiting"
    /\ task' = [task EXCEPT ![p] = "done"]
    /\ queue' = SelectSeq(queue, LAMBDA q : q # p)
    /\ UNCHANGED <<inhand, answered, gone, panicked, messages>>

\* A reader that holds the lock awaits nothing any more.
HangUp(p) ==
    /\ p \in Requests \ gone
    /\ task[p] \in (IF p \in Sockets THEN {"waiting", "holding"} ELSE {"waiting"})
    /\ gone' = gone \cup {p}
    /\ UNCHANGED <<task, queue, inhand, answered, panicked, messages>>

Work ==
    \/ Handle \/ HandlePanics
    \/ \E p \in Procs : Grant(p)
    \/ \E p \in Requests : Read(p) \/ ReadPanics(p) \/ Subscriber(p) \/ Drop(p)

Next ==
    \/ Message
    \/ \E p \in Requests : Request(p) \/ HangUp(p)
    \/ Work

\* The runtime polls every task; clients hang up only if HangUps says so.
Spec ==
    /\ Init /\ [][Next]_vars
    /\ WF_vars(Work)
    /\ HangUps => \A p \in Sockets : WF_vars(HangUp(p))

-----------------------------------------------------------------------------
(***************************************************************************)
(* Whoever waits for the tree gets it, though others panic with the lock   *)
(* in their hands: a request is answered unless its client has hung up or  *)
(* its own handler panics (an entry there is not, handlers/mod.rs:54), and *)
(* the manager is done with its message unless that message is its end.    *)
(* It takes clients of upgrades that hang up.                              *)
(***************************************************************************)
TreeServed ==
    /\ \A p \in Requests : task[p] = "waiting" ~> p \in answered \cup gone \cup panicked
    /\ task[Manager] = "waiting" ~> task[Manager] = "idle" \/ Manager \in panicked

\* An upgrade whose client stays is answered.
Upgrades == \A p \in Sockets : task[p] = "waiting" ~> p \in answered \cup gone
=============================================================================
