--------------------------- MODULE RenameControl ---------------------------
(***************************************************************************)
(* The RenameControl actor                                                 *)
(* (src/directory/src/manager/watcher/event_watcher/rename_control.rs).    *)
(*                                                                         *)
(* inotify reports that a path was moved away (From) before it is known    *)
(* whether the path turns up elsewhere in the tree.  The watcher passes    *)
(* the From on; a timer is started for it that reports the path as removed *)
(* when it runs out.  When the other half of the rename is seen the        *)
(* watcher sends Decline and the timer is aborted.                         *)
(*                                                                         *)
(* The actor knows moves only by path: tasks maps a path to the handle of  *)
(* a timer.  The model numbers the moves, and the number of the move that  *)
(* started a timer stands for its handle; the `move` of a message is a     *)
(* history field no step of the actor reads to choose what it does.        *)
(* Time is left out: a sleeping timer may run out at any moment.           *)
(***************************************************************************)
EXTENDS Naturals, Sequences

CONSTANTS
    Paths,      \* paths below the watched root
    MaxMoves,   \* bound on the moves in a behaviour
    Overlap     \* may a path be moved away while an earlier move of it is open?

ASSUME MovesAssumption == MaxMoves \in Nat
ASSUME OverlapAssumption == Overlap \in BOOLEAN

Moves == 1 .. MaxMoves

VARIABLES
    mailbox,    \* the actor's unbounded channel
    tasks,      \* per path the move whose timer's handle is kept, 0 for none
    path,       \* per move the path that was moved away
    timer,      \* per move the state of its timer
    moves,      \* moves reported by the watcher so far
    renamed,    \* moves for which the watcher has sent Decline
    declined    \* moves whose Decline has been handled

vars == <<mailbox, tasks, path, timer, moves, renamed, declined>>

(***************************************************************************)
(* none: not yet moved; told: the From is in the mailbox; sleeping: the    *)
(* timer runs; aborted; fired: the removal has been reported and the       *)
(* Expire is in the mailbox; expired: the Expire has been handled.         *)
(***************************************************************************)
TimerStates == {"none", "told", "sleeping", "aborted", "fired", "expired"}

Open(m) == timer[m] \in {"told", "sleeping", "fired"}

Message == [type : {"From", "Decline", "Expire"}, path : Paths, move : Moves]

Msg(type, m) == [type |-> type, path |-> path[m], move |-> m]

Init ==
    /\ mailbox = <<>>
    /\ tasks = [p \in Paths |-> 0]
    /\ path \in [Moves -> Paths]
    /\ timer = [m \in Moves |-> "none"]
    /\ moves = 0
    /\ renamed = {}
    /\ declined = {}

-----------------------------------------------------------------------------
(***************************************************************************)
(* The watcher.  A Decline belongs to the last From of its path: both      *)
(* halves of a rename are adjacent in the event queue.  Which path a move  *)
(* takes away is fixed in the initial state.                               *)
(***************************************************************************)
TellFrom(m) ==
    /\ m = moves + 1
    /\ Overlap \/ \A k \in Moves : path[k] = path[m] => ~Open(k)
    /\ moves' = m
    /\ timer' = [timer EXCEPT ![m] = "told"]
    /\ mailbox' = Append(mailbox, Msg("From", m))
    /\ UNCHANGED <<tasks, path, renamed, declined>>

TellDecline(m) ==
    /\ m <= moves
    /\ m \notin renamed
    /\ \A k \in Moves : m < k /\ k <= moves => path[k] # path[m]
    /\ renamed' = renamed \cup {m}
    /\ mailbox' = Append(mailbox, Msg("Decline", m))
    /\ UNCHANGED <<tasks, path, timer, moves, declined>>

-----------------------------------------------------------------------------
\* HandleFrom keeping a handle that is there: entry().or_insert(handler).
HandleFromKeepingOld(msg) ==
    /\ msg.type = "From"
    /\ timer' = [timer EXCEPT ![msg.move] = "sleeping"]
    /\ tasks' = [tasks EXCEPT ![msg.path] = IF @ = 0 THEN msg.move ELSE @]
    /\ UNCHANGED declined

\* HandleFrom that aborts the timer whose handle it replaces.
HandleFromAbortingOld(msg) ==
    /\ msg.type = "From"
    /\ timer' = [m \in Moves |->
                    IF m = msg.move THEN "sleeping"
                    ELSE IF m = tasks[msg.path] /\ timer[m] = "sleeping" THEN "aborted"
                    ELSE timer[m]]
    /\ tasks' = [tasks EXCEPT ![msg.path] = msg.move]
    /\ UNCHANGED declined

\* tokio::spawn, then tasks.insert: a handle that was there is dropped, and
\* dropping a JoinHandle leaves its task running.
HandleFrom(msg) ==
    /\ msg.type = "From"
    /\ timer' = [timer EXCEPT ![msg.move] = "sleeping"]
    /\ tasks' = [tasks EXCEPT ![msg.path] = msg.move]
    /\ UNCHANGED declined

\* HandleDecline without handler.abort().
HandleDeclineNoAbort(msg) ==
    /\ msg.type = "Decline"
    /\ tasks' = [tasks EXCEPT ![msg.path] = 0]
    /\ declined' = declined \cup {msg.move}
    /\ UNCHANGED timer

\* tasks.remove, then abort, which does nothing to a task that has ended.
HandleDecline(msg) ==
    LET handle == tasks[msg.path]
    IN  /\ msg.type = "Decline"
        /\ declined' = declined \cup {msg.move}
        /\ tasks' = [tasks EXCEPT ![msg.path] = 0]
        /\ timer' = [m \in Moves |->
                        IF m = handle /\ timer[m] = "sleeping" THEN "aborted"
                        ELSE timer[m]]

\* HandleExpire that only writes its trace message.
HandleExpireKeeping(msg) ==
    /\ msg.type = "Expire"
    /\ timer' = [timer EXCEPT ![msg.move] = "expired"]
    /\ UNCHANGED <<tasks, declined>>

\* tasks.remove by path, whichever timer's handle that is.
HandleExpire(msg) ==
    /\ msg.type = "Expire"
    /\ tasks' = [tasks EXCEPT ![msg.path] = 0]
    /\ timer' = [timer EXCEPT ![msg.move] = "expired"]
    /\ UNCHANGED declined

Handle ==
    /\ mailbox # <<>>
    /\ mailbox' = Tail(mailbox)
    /\ \/ HandleFrom(Head(mailbox))
       \/ HandleDecline(Head(mailbox))
       \/ HandleExpire(Head(mailbox))
    /\ UNCHANGED <<path, moves, renamed>>

\* FireAgain: the timer is an interval and reports the path time and again.
FireAgain(m) ==
    /\ timer[m] = "sleeping"
    /\ mailbox' = Append(mailbox, Msg("Expire", m))
    /\ UNCHANGED <<tasks, path, timer, moves, renamed, declined>>

\* The sleep is over.  The two tells that follow, Remove(Any) to the watcher
\* and Expire to the actor itself, never wait: abort finds no point between
\* them to take effect.
Fire(m) ==
    /\ timer[m] = "sleeping"
    /\ timer' = [timer EXCEPT ![m] = "fired"]
    /\ mailbox' = Append(mailbox, Msg("Expire", m))
    /\ UNCHANGED <<tasks, path, moves, renamed, declined>>

Next ==
    \/ \E m \in Moves : TellFrom(m)
    \/ \E m \in Moves : TellDecline(m)
    \/ Handle
    \/ \E m \in Moves : Fire(m)

\* The runtime polls the actor and its timers; the watcher need not move.
Spec ==
    /\ Init /\ [][Next]_vars
    /\ WF_vars(Handle)
    /\ \A m \in Moves : WF_vars(Fire(m))

-----------------------------------------------------------------------------
TypeOK ==
    /\ mailbox \in Seq(Message)
    /\ tasks \in [Paths -> 0 .. MaxMoves]
    /\ path \in [Moves -> Paths]
    /\ timer \in [Moves -> TimerStates]
    /\ moves \in 0 .. MaxMoves
    /\ renamed \in SUBSET Moves
    /\ declined \in SUBSET Moves

(***************************************************************************)
(* What the mailbox may hold in each state of the timers: the order of the *)
(* messages is what makes a Decline find the timer it is meant for.        *)
(***************************************************************************)
Slots == 1 .. Len(mailbox)

IsFrom(i) == mailbox[i].type = "From"
IsDecline(i) == mailbox[i].type = "Decline"
IsExpire(i) == mailbox[i].type = "Expire"

\* Messages carry the path of a move that has been told.
Addressed ==
    \A i \in Slots : /\ mailbox[i].path = path[mailbox[i].move]
                     /\ mailbox[i].move <= moves

\* The moves that have been told are 1 .. moves.
Numbered == \A m \in Moves : timer[m] = "none" <=> moves < m

\* A move waits for its timer exactly as long as its From is in the mailbox.
FromsPending ==
    /\ \A m \in Moves :
          timer[m] = "told" => \E i \in Slots : IsFrom(i) /\ mailbox[i].move = m
    /\ \A i \in Slots : IsFrom(i) =>
          \A m \in Moves : mailbox[i].move <= m => timer[m] \in {"none", "told"}

\* Froms are in the order of the moves, and a From is before its Decline.
FromsOrdered ==
    /\ \A i, j \in Slots :
          i < j /\ IsFrom(i) /\ IsFrom(j) => mailbox[i].move < mailbox[j].move
    /\ \A i, j \in Slots :
          IsFrom(i) /\ IsDecline(j) /\ mailbox[i].move = mailbox[j].move => i < j

\* One Expire for each timer that has fired and has not been cleaned up.
ExpiresPending ==
    /\ \A i \in Slots : IsExpire(i) => timer[mailbox[i].move] = "fired"
    /\ \A i, j \in Slots :
          IsExpire(i) /\ IsExpire(j) /\ mailbox[i].move = mailbox[j].move => i = j

MailboxInv ==
    TypeOK /\ Addressed /\ Numbered /\ FromsPending /\ FromsOrdered /\ ExpiresPending

(***************************************************************************)
(* Without overlap a path has at most one open move and the handle under   *)
(* the path is that of the sleeping timer: neither Decline nor Expire can  *)
(* take away the handle of another move.                                   *)
(***************************************************************************)
AtMostOneOpen ==
    \A m, k \in Moves : path[m] = path[k] /\ Open(m) /\ Open(k) => m = k

SleepingHasHandle == \A m \in Moves : timer[m] = "sleeping" => tasks[path[m]] = m

Settled == \A m \in declined : timer[m] \notin {"none", "told", "sleeping"}

ApartInv == MailboxInv /\ AtMostOneOpen /\ SleepingHasHandle /\ Settled

(***************************************************************************)
(* The handle kept for a path is the handle of a timer of that path, and   *)
(* of the last one that was started: a Decline can never abort the timer   *)
(* of another path or of an older move of the same path.                   *)
(***************************************************************************)
HandleIsNewest ==
    \A p \in Paths : tasks[p] # 0 =>
        /\ path[tasks[p]] = p
        /\ \A m \in Moves :
              m > tasks[p] /\ path[m] = p => timer[m] \in {"none", "told"}

(***************************************************************************)
(* Once the Decline of a move has been handled the timer of the move no    *)
(* longer runs: a rename that was completed is not reported as a removal   *)
(* later than that.                                                        *)
(***************************************************************************)
DeclineSettles == \A m \in declined : timer[m] # "sleeping"

(***************************************************************************)
(* The actor implements RenameWatch, overlapping moves included: every     *)
(* move that is not declined is reported, none is reported twice, and only *)
(* a move that was declined is dropped, whatever the handles in the map.   *)
(***************************************************************************)
Status(state) ==
    CASE state = "none" -> "none"
      [] state \in {"told", "sleeping"} -> "pending"
      [] state \in {"fired", "expired"} -> "reported"
      [] state = "aborted" -> "cancelled"

status == [m \in Moves |-> Status(timer[m])]

Watch == INSTANCE RenameWatch

ImplementsWatch == Watch!Spec

\* No handle stays in the map for ever: Expire and Decline clean up.
HandlesAreReleased == \A p \in Paths : tasks[p] # 0 ~> tasks[p] = 0
=============================================================================
