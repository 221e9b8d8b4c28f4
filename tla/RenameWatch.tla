----------------------------- MODULE RenameWatch -----------------------------
(***************************************************************************)
(* What the event watcher relies on when it passes a move on to            *)
(* RenameControl: a path that was moved away is reported as removed, once, *)
(* unless the watcher has seen the other half of the move by then.  No     *)
(* messages, handles or timers: RenameControl implements this.             *)
(***************************************************************************)
CONSTANT Moves

VARIABLES
    status,     \* per move what became of it
    renamed     \* moves whose other half the watcher has seen

Statuses == {"none", "pending", "reported", "cancelled"}

Init ==
    /\ status = [m \in Moves |-> "none"]
    /\ renamed = {}

\* The watcher sees the From of a move.
Moved(m) ==
    /\ status[m] = "none"
    /\ status' = [status EXCEPT ![m] = "pending"]
    /\ UNCHANGED renamed

\* The watcher sees the other half, early or late.
Renamed(m) ==
    /\ status[m] # "none"
    /\ renamed' = renamed \cup {m}
    /\ UNCHANGED status

Report(m) ==
    /\ status[m] = "pending"
    /\ status' = [status EXCEPT ![m] = "reported"]
    /\ UNCHANGED renamed

Cancel(m) ==
    /\ status[m] = "pending"
    /\ m \in renamed
    /\ status' = [status EXCEPT ![m] = "cancelled"]
    /\ UNCHANGED renamed

Next == \E m \in Moves : Moved(m) \/ Renamed(m) \/ Report(m) \/ Cancel(m)

Settle(m) == Report(m) \/ Cancel(m)

Spec ==
    /\ Init /\ [][Next]_<<status, renamed>>
    /\ \A m \in Moves : WF_<<status, renamed>>(Settle(m))
=============================================================================
