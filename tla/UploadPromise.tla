---------------------------- MODULE UploadPromise ----------------------------
(***************************************************************************)
(* What an upload promises: the parts are saved one after the other, each  *)
(* as the whole content of its file before the next is begun, and what was *)
(* saved is recorded with its size.  It may end before the last part; then *)
(* at most one file is left that nobody can rely on.                       *)
(***************************************************************************)
EXTENDS UploadBody

CONSTANT Partial    \* the content of a file nobody can rely on

VARIABLES
    parts,      \* the body
    files,      \* what each file holds
    open,       \* the part being saved, or 0
    log,        \* the parts saved, with their sizes
    over        \* has the upload ended?

vars == <<parts, files, open, log, over>>

Init ==
    /\ parts \in Bodies
    /\ files = [n \in FileNames |-> <<>>]
    /\ open = 0
    /\ log = <<>>
    /\ over = FALSE

Open ==
    /\ ~over /\ open = 0
    /\ Len(log) < Len(parts)
    /\ open' = Len(log) + 1
    /\ files' = [files EXCEPT ![parts[open'].name] = Partial]
    /\ UNCHANGED <<parts, log, over>>

Save ==
    /\ ~over /\ open # 0
    /\ files' = [files EXCEPT ![parts[open].name] = Content(parts, open)]
    /\ log' = Append(log, [part |-> open, size |-> Size(parts[open])])
    /\ open' = 0
    /\ UNCHANGED <<parts, over>>

End ==
    /\ ~over
    /\ over' = TRUE
    /\ UNCHANGED <<parts, files, open, log>>

Next == Open \/ Save \/ End

Spec == Init /\ [][Next]_vars /\ WF_vars(Next)
=============================================================================
