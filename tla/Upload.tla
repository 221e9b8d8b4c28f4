------------------------------- MODULE Upload -------------------------------
(***************************************************************************)
(* An upload (src/upload_files/src/stream_upload, handlers/api_v1/file.rs):*)
(* StreamUpload takes the fields of a multipart body, Upload writes each   *)
(* to the file it names through Buffer, which collects small chunks and    *)
(* passes large ones on, and tokio's File, which takes bytes, writes them  *)
(* in the background and reports an error only when it is next used.       *)
(*                                                                         *)
(* poll_next is a loop over its state: one action per turn of it, between  *)
(* any two of which the task may have been Pending.  The body, the disk    *)
(* and the client are outside.                                             *)
(***************************************************************************)
EXTENDS UploadBody

CONSTANTS
    Capacity,   \* DEFAULT_BUFFER, the capacity of Buffer
    FileMax,    \* what tokio's File takes at once
    MaxFaults   \* bound on what goes wrong outside

ASSUME CapacityAssumption ==
    Capacity \in Nat \ {0} /\ FileMax \in Nat /\ FileMax >= Capacity /\ MaxFaults \in Nat

VARIABLES
    parts,      \* the body
    part,       \* StreamUpload: the fields taken so far
    chunk,      \* the chunks taken of the last one
    sstate,     \* its state: "field", "reading", "done"
    ustate,     \* Upload: "Reading", "Create", "Writting", "Flush", "Done"
    rest,       \* the bytes of Writting
    handle,     \* the part whose file the Buffer is for, or 0
    bytes,      \* the bytes collected in the Buffer
    written,    \* the bytes of the file so far
    creating,   \* File::create in the background: "no", "begun", "made", "refused"
    inflight,   \* File: the bytes being written in the background
    failed,     \* File: an error that has not been reported
    disk,       \* the files
    log,        \* what upload_video logged as a success
    answer,     \* "none", "created", "dropped"
    faults

stream == <<part, chunk, sstate>>
buffer == <<handle, bytes>>
file == <<creating, inflight, failed, disk>>
handler == <<log, answer>>
vars == <<parts, stream, ustate, rest, buffer, written, file, handler, faults>>

Init ==
    /\ parts \in Bodies
    /\ part = 0 /\ chunk = 0 /\ sstate = "field"
    /\ ustate = "Reading" /\ rest = <<>>
    /\ handle = 0 /\ bytes = <<>> /\ written = 0
    /\ creating = "no" /\ inflight = <<>> /\ failed = FALSE
    /\ disk = [n \in FileNames |-> <<>>]
    /\ log = <<>> /\ answer = "none"
    /\ faults = 0

Fault == faults < MaxFaults /\ faults' = faults + 1

\* Some(Err(..)): logged, and the upload is over.
Fail == ustate' = "Done"

-----------------------------------------------------------------------------
(***************************************************************************)
(* StateUpload::Reading: what StreamUpload::poll_next returns.             *)
(***************************************************************************)
Reading(state) == answer = "none" /\ ustate = "Reading" /\ sstate = state

\* File::create is polled, which puts it to the blocking pool, in the same turn.
ReadNew ==
    /\ Reading("field")
    /\ part < Len(parts) /\ parts[part + 1].header = "good"
    /\ part' = part + 1 /\ chunk' = 0 /\ sstate' = "reading"
    /\ ustate' = "Create" /\ creating' = "begun"
    /\ UNCHANGED <<parts, rest, buffer, written, inflight, failed, disk, handler, faults>>

\* Without a media type the stream would go on; Upload does not ask it to.
ReadRefused ==
    /\ Reading("field")
    /\ part < Len(parts) /\ parts[part + 1].header # "good"
    /\ part' = part + 1
    /\ sstate' = IF parts[part + 1].header = "untyped" THEN "field" ELSE "done"
    /\ Fail
    /\ UNCHANGED <<parts, chunk, rest, buffer, written, file, handler, faults>>

ReadEnd ==
    /\ Reading("field")
    /\ part = Len(parts)
    /\ sstate' = "done"
    /\ ustate' = "Done"
    /\ UNCHANGED <<parts, part, chunk, rest, buffer, written, file, handler, faults>>

ReadBytes ==
    /\ Reading("reading")
    /\ chunk < Len(parts[part].chunks)
    /\ chunk' = chunk + 1
    /\ rest' = Bytes(part, Offset(parts[part], chunk) + 1, Offset(parts[part], chunk + 1))
    /\ ustate' = "Writting"
    /\ UNCHANGED <<parts, part, sstate, buffer, written, file, handler, faults>>

ReadEof ==
    /\ Reading("reading")
    /\ chunk = Len(parts[part].chunks)
    /\ sstate' = "field"
    /\ ustate' = "Flush"
    /\ UNCHANGED <<parts, part, chunk, rest, buffer, written, file, handler, faults>>

\* The body breaks off, or is no multipart body.
ReadFails ==
    /\ answer = "none" /\ ustate = "Reading"
    /\ Fault
    /\ sstate' = "done"
    /\ Fail
    /\ UNCHANGED <<parts, part, chunk, rest, buffer, written, file, handler>>

-----------------------------------------------------------------------------
(***************************************************************************)
(* StateUpload::Create: the answer of File::create.                        *)
(***************************************************************************)
CreateFile ==
    /\ answer = "none" /\ ustate = "Create" /\ creating = "made"
    /\ creating' = "no"
    /\ handle' = part /\ bytes' = <<>>
    /\ ustate' = "Reading"
    /\ UNCHANGED <<parts, stream, rest, written, inflight, failed, disk, handler, faults>>

CreateFails ==
    /\ answer = "none" /\ ustate = "Create" /\ creating = "refused"
    /\ creating' = "no"
    /\ Fail
    /\ UNCHANGED <<parts, stream, rest, buffer, written, inflight, failed, disk, handler, faults>>

-----------------------------------------------------------------------------
(***************************************************************************)
(* StateUpload::Writting: Buffer::poll_write, with write_flush.            *)
(***************************************************************************)
Writing == answer = "none" /\ ustate = "Writting"

\* The Buffer has to be emptied before the bytes that have come are taken.
Full == Len(rest) + Len(bytes) >= Capacity

\* tokio's File takes bytes when it has written the ones before.
FileReady == inflight = <<>> /\ ~failed

Taken(s) == IF Len(s) <= FileMax THEN Len(s) ELSE FileMax

Advance(s) == SubSeq(s, Taken(s) + 1, Len(s))

Pass(s) == inflight' = SubSeq(s, 1, Taken(s)) /\ UNCHANGED <<creating, failed, disk>>

WriteFlush ==
    /\ Writing /\ Full /\ bytes # <<>>
    /\ FileReady
    /\ Pass(bytes)
    /\ bytes' = Advance(bytes)
    /\ UNCHANGED <<parts, stream, ustate, rest, handle, written, handler, faults>>

\* WriteDirect that does not wait for the Buffer to be empty.
WriteDirectUnflushed ==
    /\ Writing /\ Len(rest) >= Capacity
    /\ FileReady
    /\ Pass(rest)
    /\ rest' = Advance(rest)
    /\ written' = written + Taken(rest)
    /\ ustate' = IF rest' = <<>> THEN "Reading" ELSE "Writting"
    /\ UNCHANGED <<parts, stream, buffer, handler, faults>>

WriteDirect ==
    /\ Writing /\ bytes = <<>> /\ Len(rest) >= Capacity
    /\ FileReady
    /\ Pass(rest)
    /\ rest' = Advance(rest)
    /\ written' = written + Taken(rest)
    /\ ustate' = IF rest' = <<>> THEN "Reading" ELSE "Writting"
    /\ UNCHANGED <<parts, stream, buffer, handler, faults>>

\* Extend that lets the Buffer fill up to its capacity.
ExtendFull ==
    /\ Writing /\ Len(rest) + Len(bytes) <= Capacity
    /\ bytes' = bytes \o rest
    /\ written' = written + Len(rest)
    /\ rest' = <<>> /\ ustate' = "Reading"
    /\ UNCHANGED <<parts, stream, handle, file, handler, faults>>

Extend ==
    /\ Writing /\ ~Full
    /\ bytes' = bytes \o rest
    /\ written' = written + Len(rest)
    /\ rest' = <<>> /\ ustate' = "Reading"
    /\ UNCHANGED <<parts, stream, handle, file, handler, faults>>

\* File reports the error of the write before.
WriteFails ==
    /\ Writing /\ Full /\ failed
    /\ failed' = FALSE
    /\ Fail
    /\ UNCHANGED <<parts, stream, rest, buffer, written, creating, inflight, disk, handler, faults>>

-----------------------------------------------------------------------------
(***************************************************************************)
(* StateUpload::Flush: Buffer::poll_flush, then the result.                *)
(***************************************************************************)
Flushing == answer = "none" /\ ustate = "Flush"

FlushBuffer ==
    /\ Flushing /\ bytes # <<>>
    /\ FileReady
    /\ Pass(bytes)
    /\ bytes' = Advance(bytes)
    /\ UNCHANGED <<parts, stream, ustate, rest, handle, written, handler, faults>>

FlushFails ==
    /\ Flushing /\ failed
    /\ failed' = FALSE
    /\ Fail
    /\ UNCHANGED <<parts, stream, rest, buffer, written, creating, inflight, disk, handler, faults>>

\* Flushed without the poll_flush of the File.
FlushedEarly ==
    /\ Flushing /\ bytes = <<>>
    /\ log' = Append(log, [part |-> handle, size |-> written])
    /\ written' = 0
    /\ ustate' = "Reading"
    /\ UNCHANGED <<parts, stream, rest, buffer, file, answer, faults>>

\* Flushed leaving written as it is.
FlushedCounting ==
    /\ Flushing /\ bytes = <<>>
    /\ FileReady
    /\ log' = Append(log, [part |-> handle, size |-> written])
    /\ ustate' = "Reading"
    /\ UNCHANGED <<parts, stream, rest, buffer, written, file, answer, faults>>

Flushed ==
    /\ Flushing /\ bytes = <<>>
    /\ FileReady
    /\ log' = Append(log, [part |-> handle, size |-> written])
    /\ written' = 0
    /\ ustate' = "Reading"
    /\ UNCHANGED <<parts, stream, rest, buffer, file, answer, faults>>

-----------------------------------------------------------------------------
\* upload_video: None, whatever came before it.
Answer ==
    /\ ustate = "Done" /\ answer = "none"
    /\ answer' = "created"
    /\ UNCHANGED <<parts, stream, ustate, rest, buffer, written, file, log, faults>>

\* The client goes away and hyper drops the handler.  The blocking pool goes on:
\* with the bytes of File, and with a File::create nobody waits for any more.
HangUp ==
    /\ answer = "none"
    /\ Fault
    /\ answer' = "dropped"
    /\ ustate' = "Done" /\ rest' = <<>> /\ bytes' = <<>>
    /\ UNCHANGED <<parts, stream, handle, written, file, log>>

\* File::create truncates a file of the same name.
DiskCreates ==
    /\ creating = "begun"
    /\ creating' = "made"
    /\ disk' = [disk EXCEPT ![parts[part].name] = <<>>]
    /\ UNCHANGED <<parts, stream, ustate, rest, buffer, written, inflight, failed, handler, faults>>

DiskRefuses ==
    /\ creating = "begun"
    /\ Fault
    /\ creating' = "refused"
    /\ UNCHANGED <<parts, stream, ustate, rest, buffer, written, inflight, failed, disk, handler>>

Write(n) == [disk EXCEPT ![parts[handle].name] = @ \o SubSeq(inflight, 1, n)]

DiskWrites ==
    /\ inflight # <<>>
    /\ disk' = Write(Len(inflight))
    /\ inflight' = <<>>
    /\ UNCHANGED <<parts, stream, ustate, rest, buffer, written, creating, failed, handler, faults>>

DiskFails ==
    /\ inflight # <<>>
    /\ Fault
    /\ \E n \in 0 .. Len(inflight) - 1 : disk' = Write(n)
    /\ inflight' = <<>> /\ failed' = TRUE
    /\ UNCHANGED <<parts, stream, ustate, rest, buffer, written, creating, handler>>

Service ==
    \/ ReadNew \/ ReadRefused \/ ReadEnd \/ ReadBytes \/ ReadEof
    \/ CreateFile \/ CreateFails
    \/ WriteFlush \/ WriteDirect \/ Extend \/ WriteFails
    \/ FlushBuffer \/ FlushFails \/ Flushed
    \/ Answer \/ DiskCreates \/ DiskWrites

Next == Service \/ ReadFails \/ DiskRefuses \/ DiskFails \/ HangUp

\* The client goes on sending, the disk writing and the task being polled.
Spec == Init /\ [][Next]_vars /\ WF_vars(Service)

-----------------------------------------------------------------------------
\* Types, the bound of the Buffer, and what each state of Upload implies.
TypeOK ==
    /\ parts \in Bodies
    /\ part \in 0 .. Len(parts) /\ handle \in 0 .. part
    /\ sstate \in {"field", "reading", "done"}
    /\ ustate \in {"Reading", "Create", "Writting", "Flush", "Done"}
    /\ creating \in {"no", "begun", "made", "refused"}
    /\ ustate = "Create" => creating # "no"
    /\ Len(bytes) < Capacity /\ Len(inflight) <= FileMax
    /\ rest # <<>> => ustate \in {"Writting", "Done"}
    /\ ustate \in {"Writting", "Flush"} => handle = part /\ part # 0
    /\ answer \in {"none", "created", "dropped"}
    /\ answer # "none" => ustate = "Done"
    /\ faults \in 0 .. MaxFaults

\* The part of the open file that has not been read from the body yet.
Unread == Bytes(part, Offset(parts[part], chunk) + 1, Size(parts[part]))

Receiving == ustate \in {"Reading", "Writting", "Flush"} /\ handle = part /\ part # 0

(***************************************************************************)
(* No byte is lost, doubled or overtaken between the body and the file:    *)
(* what is on disk, in the File, in the Buffer, in hand and still to come  *)
(* is the part, in that order, whichever way the chunks went.              *)
(***************************************************************************)
InOrder ==
    Receiving /\ ~failed =>
        /\ disk[parts[part].name] \o inflight \o bytes \o rest \o Unread = Content(parts, part)
        /\ ustate = "Flush" => Unread = <<>>

(***************************************************************************)
(* What was logged as a success is a file with the whole content of its    *)
(* part, and the size that was logged, until another part of that name is  *)
(* taken up; errors the disk reports late included, and whatever is still  *)
(* done when the client has gone.                                          *)
(***************************************************************************)
FilesWhole ==
    \A i \in DOMAIN log :
        LET p == log[i].part
        IN  /\ log[i].size = Size(parts[p])
            /\ \/ disk[parts[p].name] = Content(parts, p)
               \/ \E q \in p + 1 .. part :
                     parts[q].name = parts[p].name /\ parts[q].header = "good"

(***************************************************************************)
(* An upload does what UploadPromise says, and ends, however the body      *)
(* comes in chunks and whatever fails.  A part is being saved from the     *)
(* moment its File::create is begun, which outlives the upload.            *)
(***************************************************************************)
CONSTANT Partial

Unsaved ==
    /\ part # 0 /\ parts[part].header = "good"
    /\ \A i \in DOMAIN log : log[i].part # part

Promise ==
    INSTANCE UploadPromise WITH
        files <- [n \in FileNames |->
                    IF Unsaved /\ parts[part].name = n THEN Partial ELSE disk[n]],
        open <- IF Unsaved THEN part ELSE 0,
        over <- ustate = "Done"

KeepsPromise == Promise!Spec
=============================================================================
