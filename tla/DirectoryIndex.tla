--------------------------- MODULE DirectoryIndex ---------------------------
(***************************************************************************)
(* How the index follows the watched directory: users change files and     *)
(* directories, inotify reports it, the EventWatcher actor turns events    *)
(* into changes (src/directory/src/manager/watcher/event_watcher/mod.rs,   *)
(* src/directory/src/manager/utils/mod.rs) and renames what has a name it  *)
(* does not allow, and the Manager applies the changes to the tree.        *)
(*                                                                         *)
(* A path is a sequence of names below the watched root; a file is named   *)
(* by its directory's path and its own name.  RenameControl appears as its *)
(* specification RenameWatch: a path that was moved away is pending until  *)
(* it is declined or reported.  The database is in Manager, not here.      *)
(***************************************************************************)
EXTENDS WatchedTree, SequencesExt

CONSTANTS
    Dot,            \* the segment "." of the root key
    InitialDirs,    \* the directories build has indexed
    InitialFiles,   \* and their files: pairs of directory and name
    Acts,           \* the kinds of user actions
    MaxActs,        \* bound on the user actions
    MaxLost         \* bound on them once the index cannot follow

ASSUME ActsAssumption == MaxActs \in Nat /\ MaxLost \in 0 .. MaxActs

\* What build has indexed: directories in directories, and files in these, no two
\* of a directory with names that come to the same.
ASSUME LayoutAssumption ==
    /\ InitialDirs \subseteq FsPaths /\ IsFiniteSet(InitialDirs)
    /\ \A p \in InitialDirs : \A k \in 1 .. Len(p) : SubSeq(p, 1, k) \in InitialDirs
    /\ InitialFiles \subseteq InitialDirs \X FileNames /\ IsFiniteSet(InitialFiles)
    /\ Distinct(InitialDirs, InitialFiles)

VARIABLES
    dirs, files,    \* the file system below the root
    events,         \* the EventWatcher's mailbox
    waits,          \* the EventWatcher is waiting for an answer to WhatIs
    watching,       \* FALSE once the EventWatcher has panicked
    skips,          \* Skipper: the buckets, keys and objects whose rename to skip
    pending,        \* paths moved away and neither declined nor reported
    mailbox,        \* the Manager's mailbox
    alive,          \* FALSE once the Manager has panicked
    tree,           \* the BucketMap
    acts,           \* user actions so far
    course,         \* history: may the index still follow? see Course
    unseen          \* history: what was moved in from outside, as paths

fs == <<dirs, files, unseen>>
watcher == <<events, waits, watching, skips, pending>>
manager == <<mailbox, alive, tree>>
users == <<acts, course>>
vars == <<fs, watcher, manager, users>>

Quiet == events = <<>> /\ mailbox = <<>> /\ pending = {} /\ ~waits

Init ==
    /\ dirs = InitialDirs /\ files = InitialFiles
    /\ events = <<>> /\ waits = FALSE /\ watching = TRUE
    /\ skips = {} /\ pending = {}
    /\ mailbox = <<>> /\ alive = TRUE
    /\ tree = Built(InitialDirs, InitialFiles)
    /\ acts = 0 /\ course = "even" /\ unseen = {}

-----------------------------------------------------------------------------
(***************************************************************************)
(* The file system, and what inotify and the notify crate say about it.    *)
(* A file in the root lies in the directory <<>>.  The To half of a rename *)
(* is not modelled: no arm of handle takes it.                             *)
(***************************************************************************)
Event(kind, p) == [kind |-> kind, path |-> p]

\* rename(2): From, then Both.
Renamed(p, q) == <<Event("from", p), [kind |-> "both", from |-> p, to |-> q]>>

MoveDir(p, q) ==
    /\ dirs' = {Moved(x, p, q) : x \in dirs}
    /\ files' = {<<Moved(x[1], p, q), x[2]>> : x \in files}
    /\ unseen' = {Moved(x, p, q) : x \in unseen}

\* A file that is called p and then q.
MoveFile(p, q) ==
    /\ files' = (files \ {<<Parent(p), Name(p)>>}) \cup {<<Parent(q), Name(q)>>}
    /\ unseen' = {Moved(x, p, q) : x \in unseen}
    /\ UNCHANGED dirs

IsFile(p) == <<Parent(p), Name(p)>> \in files

\* A closed mailbox makes the notify thread panic: events are lost after that.
Notify(more) == events' = IF watching THEN events \o more ELSE events

\* It, or a directory it lies in, was moved in.
Unseen(p) == \E u \in unseen : Under(u, p)

(***************************************************************************)
(* History: what users did so far.  "lost" after an action the index does  *)
(* not follow, and after a directory was renamed, by a user or because its *)
(* name is not allowed, while events of other actions were under way, or   *)
(* the other way round; "renaming" while the only events under way are     *)
(* those of such a rename; "even" otherwise.                               *)
(***************************************************************************)
NotFollowed ==
    {"create_key_raw", "create_empty", "first_key", "unseen_key", "move_folder",
     "rename_raw", "replace_file", "remake_file", "move_file", "rename_file_raw", "rename_root_file",
     "delete_file", "move_out"}

RenamesDir == {"create_bucket_raw", "rename_folder"}

Course(kind) ==
    IF \/ course = "lost" \/ kind \in NotFollowed
       \/ ~Quiet /\ (course = "renaming" \/ kind \in RenamesDir)
    THEN "lost"
    ELSE IF kind \in RenamesDir THEN "renaming" ELSE "even"

Act(kind) ==
    /\ kind \in Acts
    /\ acts < IF Course(kind) = "lost" THEN MaxLost ELSE MaxActs
    /\ acts' = acts + 1
    /\ course' = Course(kind)
    /\ UNCHANGED <<waits, watching, skips, pending, manager>>

\* No other directory of the same one comes to the same name, nor a file.
Free(d, n) ==
    /\ \A r \in dirs : Parent(r) = d => Final(Name(r)) # Final(n)
    /\ \A x \in files : x[1] = d => Final(x[2]) # Final(n)

\* A file that was there under this name, which is not allowed, and whose event is
\* still to be handled: it will be taken for the event of one that is there now.
Reported(p) ==
    /\ Name(p) \in RawFiles
    /\ \E i \in DOMAIN events : events[i] = Event("create_file", p)

\* Some file of the directory, other than p, has the name or comes to it.
Taken(p, d, f) == \E x \in files : x[1] = d /\ Append(d, x[2]) # p /\ Norm[x[2]] = Norm[f]

CreateFolder(p) ==
    /\ Name(p) # Invalid
    /\ Act(IF Norm[Name(p)] = Empty THEN "create_empty"
           ELSE IF Len(p) = 1
                THEN IF Name(p) \in RawNames THEN "create_bucket_raw" ELSE "create_bucket"
           ELSE IF Name(p) \in RawNames THEN "create_key_raw"
           ELSE IF \E r \in dirs : Len(r) > 1 /\ Parent(r) = Parent(p) /\ ~Unseen(r)
                THEN "create_key" ELSE "first_key")
    /\ Len(p) > 1 => Parent(p) \in dirs
    /\ Free(Parent(p), Name(p))
    /\ dirs' = dirs \cup {p}
    /\ UNCHANGED <<files, unseen>>
    /\ Notify(<<Event("create_folder", p)>>)

CreateFile(d, f) ==
    /\ Act(IF Taken(<<>>, d, f) THEN "replace_file"
           ELSE IF Reported(Append(d, f)) THEN "remake_file" ELSE "create_file")
    /\ <<d, f>> \notin files
    /\ files' = files \cup {<<d, f>>}
    /\ UNCHANGED <<dirs, unseen>>
    /\ Notify(<<Event("create_file", Append(d, f))>>)

\* rename(2) of a file, which replaces one that has the name.
RenameFile(d, f, c, g) ==
    /\ Act(IF Taken(Append(d, f), c, g) THEN "replace_file"
           ELSE IF c = <<>> THEN "rename_root_file"
           ELSE IF c # d THEN "move_file"
           ELSE IF {f, g} \subseteq FileNames THEN "rename_file" ELSE "rename_file_raw")
    /\ <<d, f>> # <<c, g>>
    /\ MoveFile(Append(d, f), Append(c, g))
    /\ Notify(Renamed(Append(d, f), Append(c, g)))

\* rename(2) of a directory, perhaps into another one.
RenameFolder(p, q) ==
    /\ Act(IF Len(p) > 1 /\ Unseen(p) THEN "unseen_key"
           ELSE IF Parent(q) # Parent(p) THEN "move_folder"
           ELSE IF Norm[Name(q)] = Empty /\ Name(p) \in RawNames /\ ~Unseen(p)
                THEN "rename_raw" ELSE "rename_folder")
    /\ Name(q) # Invalid
    /\ p \in dirs
    /\ Len(q) > 1 => Parent(q) \in dirs
    /\ ~Under(p, q)
    /\ Free(Parent(q), Name(q))
    /\ \A r \in dirs : Moved(r, p, q) \in FsPaths
    /\ MoveDir(p, q)
    /\ Notify(Renamed(p, q))

\* rm -r of a directory without sub-directories.
DeleteFolder(p) ==
    LET gone == {x \in files : x[1] = p}
    IN  /\ Act(IF Len(p) > 1 /\ Unseen(p) THEN "unseen_key" ELSE "delete_folder")
        /\ p \in dirs
        /\ ~\E r \in dirs : Len(r) > 1 /\ Parent(r) = p
        /\ dirs' = dirs \ {p}
        /\ files' = files \ gone
        /\ unseen' = {x \in unseen : ~Under(p, x)}
        /\ \E order \in SetToSeqs(gone) :
              Notify([i \in DOMAIN order |-> Event("remove_file", Append(p, order[i][2]))]
                     \o <<Event("remove_folder", p)>>)

DeleteFile(d, f) ==
    /\ Act("delete_file")
    /\ files' = files \ {<<d, f>>}
    /\ unseen' = unseen \ {Append(d, f)}
    /\ UNCHANGED dirs
    /\ Notify(<<Event("remove_file", Append(d, f))>>)

\* Something leaves the watched tree: only a From is seen.
MoveOut(p) ==
    /\ Act("move_out")
    /\ p \in dirs \/ IsFile(p)
    /\ dirs' = {r \in dirs : ~Under(p, r)}
    /\ files' = {x \in files : ~Under(p, Append(x[1], x[2]))}
    /\ unseen' = {x \in unseen : ~Under(p, x)}
    /\ Notify(<<Event("from", p)>>)

\* Something comes into it from outside: only a To, which is not handled.
MoveIn(p) ==
    /\ Act(IF Reported(p) THEN "remake_file" ELSE "move_in")
    /\ Len(p) > 1 => Parent(p) \in dirs
    /\ Free(Parent(p), Name(p))
    /\ \/ Name(p) \in DirNames /\ dirs' = dirs \cup {p} /\ UNCHANGED files
       \/ Name(p) \in AllFiles /\ files' = files \cup {<<Parent(p), Name(p)>>} /\ UNCHANGED dirs
    /\ unseen' = unseen \cup {p}
    /\ UNCHANGED events

FilePaths == {Append(d, f) : d \in dirs \cup {<<>>}, f \in AllFiles}

User ==
    /\ acts < IF course = "lost" THEN MaxLost ELSE MaxActs
    /\ \/ \E p \in FsPaths : CreateFolder(p)
       \/ \E d \in dirs \cup {<<>>}, f \in AllFiles : CreateFile(d, f)
       \/ \E x \in files, c \in dirs \cup {<<>>}, g \in AllFiles :
             RenameFile(x[1], x[2], c, g)
       \/ \E p \in dirs, q \in FsPaths : RenameFolder(p, q)
       \/ \E p \in dirs : DeleteFolder(p)
       \/ \E x \in files : DeleteFile(x[1], x[2])
       \/ \E p \in dirs \cup FilePaths : MoveOut(p)
       \/ \E p \in FsPaths \cup FilePaths : MoveIn(p)

-----------------------------------------------------------------------------
(***************************************************************************)
(* The EventWatcher: one action per arm of handle, for the event e at the  *)
(* head of its mailbox, with the hd_ function it calls.  Nothing else      *)
(* renames, writes skips or reads its mailbox, and what it tells is seen   *)
(* after it is told: one arm is one step.                                  *)
(***************************************************************************)
e == Head(events)

Handles(kind) == watching /\ ~waits /\ events # <<>> /\ e.kind = kind

Done(more) == events' = Tail(events) \o more /\ UNCHANGED <<waits, watching>>

Tell(c) ==
    /\ mailbox' = IF alive THEN Append(mailbox, c) ELSE mailbox
    /\ UNCHANGED <<alive, tree, users>>

TellNothing == UNCHANGED <<manager, users>>

\* The task panics: its mailbox goes with it.
WatcherPanics ==
    /\ events' = <<>> /\ waits' = FALSE /\ watching' = FALSE

\* rename(2) replaces an empty directory and fails on any other, as it does when
\* the target's directory is not there or lies in what is moved.
CanMoveDir(p, q) ==
    /\ p \in dirs /\ ~Under(p, q)
    /\ Len(q) > 1 => Parent(q) \in dirs
    /\ \A r \in dirs : ~(Under(q, r) /\ r # q)
    /\ \A x \in files : x[1] # q

\* Key::from_bucket after the first segment called b; "" becomes ".".
KeyAfter(b, p) ==
    LET i    == CHOOSE i \in DOMAIN p : p[i] = b /\ \A j \in 1 .. i - 1 : p[j] # b
        rest == SubSeq(p, i + 1, Len(p))
    IN  <<b>> \o IF rest = <<>> THEN <<Dot>> ELSE rest

NewFolder(p) ==
    IF Len(p) = 1 THEN [type |-> "new_bucket", bucket |-> p[1]]
    ELSE [type |-> "new_key", at |-> p]

HandleCreateFolder ==
    /\ Handles("create_folder")
    /\ UNCHANGED pending
    /\ LET p == e.path
           q == NormalNew(p)
       IN  \/ /\ q = p
              /\ Done(<<>>) /\ UNCHANGED <<fs, skips>> /\ Tell(NewFolder(p))
           \/ /\ q # p /\ ~CanMoveDir(p, q)
              /\ Done(<<>>) /\ UNCHANGED <<fs, skips>> /\ TellNothing
           \/ /\ q # p /\ CanMoveDir(p, q)
              /\ MoveDir(p, q)
              /\ Done(Renamed(p, q))
              \* The new name is taken for the bucket at every depth (line 61).
              /\ IF Len(p) = 1
                 THEN /\ skips' = skips \cup {<<"bucket", q>>}
                      /\ Tell(NewFolder(q))
                 ELSE /\ skips' = skips \cup {<<"key", KeyAfter(Name(q), q)>>}
                      /\ Tell([type |-> "new_key", at |-> KeyAfter(Name(q), q)])

\* Objects are not allowed in the root.
HandleCreateFile ==
    /\ Handles("create_file")
    /\ UNCHANGED pending
    /\ LET p == e.path
           q == Normal(p)
           new == [type |-> "new_object", at |-> Parent(p), name |-> Name(q)]
       IN  \/ /\ Len(p) > 1 /\ q = p
              /\ Done(<<>>) /\ UNCHANGED <<fs, skips>> /\ Tell(new)
           \/ /\ Len(p) = 1 \/ (q # p /\ ~IsFile(p))
              /\ Done(<<>>) /\ UNCHANGED <<fs, skips>> /\ TellNothing
           \/ /\ Len(p) > 1 /\ q # p /\ IsFile(p)
              /\ MoveFile(p, q)
              /\ Done(Renamed(p, q))
              /\ skips' = skips \cup {<<"object", q>>}
              /\ Tell(new)

\* Rename::From.
HandleFrom ==
    /\ Handles("from")
    /\ pending' = pending \cup {e.path}
    /\ Done(<<>>) /\ UNCHANGED <<fs, skips>> /\ TellNothing

\* SkippedKeeping: the skipper is asked with contains.
SkippedKeeping(kind, p) == <<kind, p>> \in skips /\ UNCHANGED skips

\* The skipper is asked with remove: a rename is skipped once.
Skipped(kind, p) == <<kind, p>> \in skips /\ skips' = skips \ {<<kind, p>>}

\* Key::from_bucket(bucket of q, from).unwrap().
HasKey(p, q) == \E i \in DOMAIN p : p[i] = q[1]

Named(p, q) ==
    IF Len(q) = 1 THEN [type |-> "name_bucket", from |-> Name(p), to |-> Name(q)]
    ELSE [type |-> "name_key", at |-> KeyAfter(q[1], p), to |-> Name(q)]

\* IsDir that takes the bucket of a path for its directory.
IsDirOfKey(p) == Len(p) > 1 /\ p \in dirs

\* to.is_dir(), asked when the event is handled.
IsDir(p) == p \in dirs

\* Rename::Decline, then hd_rename_path.
HandleBothDir ==
    /\ Handles("both")
    /\ IsDir(e.to)
    /\ pending' = pending \ {e.from}
    /\ LET p == e.from
           q == Normal(e.to)
           kind == IF Len(q) = 1 THEN "bucket" ELSE "key"
           known == Len(q) = 1 \/ HasKey(p, q)
       IN  \/ /\ q = e.to
              /\ Skipped(kind, q)
              /\ Done(<<>>) /\ UNCHANGED fs /\ TellNothing
           \/ /\ q = e.to /\ known
              /\ <<kind, q>> \notin skips
              /\ Done(<<>>) /\ UNCHANGED <<fs, skips>> /\ Tell(Named(p, q))
           \* The key had another bucket.
           \/ /\ q = e.to /\ ~known
              /\ <<kind, q>> \notin skips
              /\ WatcherPanics /\ UNCHANGED <<fs, skips>> /\ TellNothing
           \* NeedRestore: the directory gets its old name back.
           \/ /\ Name(q) = Empty
              /\ IF CanMoveDir(e.to, p)
                 THEN MoveDir(e.to, p) /\ Done(Renamed(e.to, p))
                 ELSE Done(<<>>) /\ UNCHANGED fs
              /\ UNCHANGED skips /\ TellNothing
           \* A rename that fails is logged, and the change told all the same.
           \/ /\ q # e.to /\ Name(q) # Empty /\ known
              /\ IF CanMoveDir(e.to, q)
                 THEN MoveDir(e.to, q) /\ Done(Renamed(e.to, q))
                 ELSE Done(<<>>) /\ UNCHANGED fs
              \* A key is skipped under the name it had before (line 213).
              /\ skips' = skips \cup {<<kind, IF Len(q) = 1 THEN q ELSE e.to>>}
              /\ Tell(Named(p, q))
           \/ /\ q # e.to /\ Name(q) # Empty /\ ~known
              /\ IF CanMoveDir(e.to, q) THEN MoveDir(e.to, q) ELSE UNCHANGED fs
              /\ WatcherPanics /\ UNCHANGED skips /\ TellNothing

\* Rename::Decline, then hd_rename_object: the bucket and the key of the target.
HandleBothObject ==
    /\ Handles("both")
    /\ ~IsDir(e.to)
    /\ pending' = pending \ {e.from}
    /\ LET p == e.from
           q == Normal(e.to)
       IN  \* Key::from_bucket(..).unwrap() finds no bucket in the root's path.
           \/ /\ Len(q) = 1
              /\ WatcherPanics /\ UNCHANGED <<fs, skips>> /\ TellNothing
           \/ /\ Len(q) > 1 /\ q = e.to
              /\ Skipped("object", q)
              /\ Done(<<>>) /\ UNCHANGED fs /\ TellNothing
           \/ /\ Len(q) > 1 /\ q = e.to
              /\ <<"object", q>> \notin skips
              /\ Done(<<>>) /\ UNCHANGED <<fs, skips>>
              /\ Tell([type |-> "name_object", at |-> Parent(q),
                       from |-> Name(p), to |-> Name(q)])
           \/ /\ Len(q) > 1 /\ q # e.to /\ ~IsFile(e.to)
              /\ Done(<<>>) /\ UNCHANGED <<fs, skips>> /\ TellNothing
           \* `from` is the name the user gave, not the one the tree knows.
           \/ /\ Len(q) > 1 /\ q # e.to /\ IsFile(e.to)
              /\ MoveFile(e.to, q)
              /\ Done(Renamed(e.to, q))
              /\ skips' = skips \cup {<<"object", q>>}
              /\ Tell([type |-> "name_object", at |-> Parent(q),
                       from |-> Name(e.to), to |-> Name(q)])

HandleRemoveFolder ==
    /\ Handles("remove_folder")
    /\ Done(<<>>) /\ UNCHANGED <<fs, skips, pending>>
    /\ Tell(IF Len(e.path) = 1 THEN [type |-> "delete_bucket", bucket |-> e.path[1]]
            ELSE [type |-> "delete_key", at |-> e.path])

\* The key is made of the file's own path, not its directory's (line 249).
HandleRemoveFile ==
    /\ Handles("remove_file")
    /\ Done(<<>>) /\ UNCHANGED <<fs, skips, pending>>
    /\ Tell([type |-> "delete_object", at |-> e.path, name |-> Name(e.path)])

\* Remove(Any): ask(WhatIs); ask unwraps the reply of a Manager that is gone.
HandleRemoveAny ==
    /\ Handles("remove_any")
    /\ UNCHANGED <<fs, skips, pending>>
    /\ \/ /\ alive
          /\ waits' = TRUE
          /\ events' = Tail(events)
          /\ UNCHANGED watching
          /\ Tell([type |-> "what_is", path |-> e.path])
       \/ /\ ~alive /\ WatcherPanics /\ TellNothing

\* The event the answer to WhatIs is turned into has no path: paths.pop() is None.
HandlePathless ==
    /\ Handles("pathless")
    /\ Done(<<>>) /\ UNCHANGED <<fs, skips, pending>> /\ TellNothing

Watcher ==
    \/ HandleCreateFolder \/ HandleCreateFile \/ HandleFrom
    \/ HandleBothDir \/ HandleBothObject
    \/ HandleRemoveFolder \/ HandleRemoveFile \/ HandleRemoveAny \/ HandlePathless

\* RenameControl's timer: Remove(Any) to the watcher.
Report(p) ==
    /\ p \in pending
    /\ pending' = pending \ {p}
    /\ Notify(<<Event("remove_any", p)>>)
    /\ UNCHANGED <<fs, waits, watching, skips, manager, users>>

-----------------------------------------------------------------------------
\* The Manager's handle for a Change, its write to the database left out.
ManagerChange ==
    /\ mailbox # <<>>
    /\ Head(mailbox).type # "what_is"
    /\ ~Panics(tree, Head(mailbox))
    /\ tree' = Apply(tree, Head(mailbox))
    /\ mailbox' = Tail(mailbox)
    /\ UNCHANGED <<fs, watcher, alive, users>>

\* The panic drops a pending reply, which ask unwraps too.
ManagerPanics ==
    /\ mailbox # <<>>
    /\ Head(mailbox).type # "what_is"
    /\ Panics(tree, Head(mailbox))
    /\ alive' = FALSE
    /\ mailbox' = <<>>
    /\ IF waits THEN WatcherPanics ELSE UNCHANGED <<events, waits, watching>>
    /\ UNCHANGED <<fs, skips, pending, tree, users>>

\* ManagerAnswers with the reply_to of the envelope forgotten.
ManagerForgets ==
    /\ mailbox # <<>>
    /\ Head(mailbox).type = "what_is"
    /\ mailbox' = Tail(mailbox)
    /\ UNCHANGED <<fs, watcher, alive, tree, users>>

\* WhatIs: IsDir and IsFile lead to the same pathless event.
ManagerAnswers ==
    /\ mailbox # <<>>
    /\ Head(mailbox).type = "what_is"
    /\ mailbox' = Tail(mailbox)
    /\ waits' = FALSE
    /\ Notify(<<Event("pathless", <<>>)>>)
    /\ UNCHANGED <<fs, watching, skips, pending, alive, tree, users>>

\* What the manager does takes the lock of the tree (manager/mod.rs:90, 95).
ManagerWorks == ManagerChange \/ ManagerPanics \/ ManagerAnswers

WatcherWorks == Watcher \/ \E p \in pending : Report(p)

System ==
    \/ Watcher
    \/ \E p \in pending : Report(p)
    \/ ManagerChange \/ ManagerPanics \/ ManagerAnswers

Next == User \/ System

\* The watcher is polled and its timers run out; nobody has to touch a file, and
\* the manager may wait for the tree for ever.
Spec == Init /\ [][Next]_vars /\ WF_vars(WatcherWorks)

\* Whenever the manager waits for the tree the lock is granted in the end: it is
\* not while an upgrade's client stays (TreeLock).
LockGranted == WF_vars(ManagerWorks)

-----------------------------------------------------------------------------
\* Types, files lie in directories and these in others, the tree is nested, and
\* the watcher only waits for an answer the manager is going to give.
TypeOK ==
    /\ \A p \in dirs : Name(p) \in DirNames /\ (Len(p) > 1 => Parent(p) \in dirs)
    /\ files \subseteq (dirs \cup {<<>>}) \X AllFiles
    /\ waits \in BOOLEAN /\ watching \in BOOLEAN /\ alive \in BOOLEAN
    /\ Nested(tree)
    /\ waits => \E i \in DOMAIN mailbox : mailbox[i].type = "what_is"
    /\ acts \in 0 .. MaxActs
    /\ course \in {"even", "renaming", "lost"}

(***************************************************************************)
(* When nothing is left to handle the index is the directory: an entry per *)
(* directory, and in it each of its files once, whatever users did and in  *)
(* whatever order the events of it were handled, short of what Course      *)
(* calls lost.  It lacks what was moved in from outside, with all that is  *)
(* done there since, and nothing else.                                     *)
(***************************************************************************)
IndexFollows ==
    Quiet /\ course # "lost" =>
        /\ DOMAIN tree = {p \in dirs : ~Unseen(p)}
        /\ Objects(tree) =
              {x \in files : x[1] # <<>> /\ ~Unseen(Append(x[1], x[2]))}
        /\ \A p \in DOMAIN tree : NoDuplicates(tree[p].objects)

(***************************************************************************)
(* A directory that is to get back a name which is no better: it was moved *)
(* in with it, and moved again.  Each restore causes the next.             *)
(***************************************************************************)
Restoring ==
    \E i \in DOMAIN events :
        /\ events[i].kind = "both"
        /\ Norm[Name(events[i].from)] = Empty /\ Norm[Name(events[i].to)] = Empty

(***************************************************************************)
(* The service comes to rest as long as the manager is granted the lock of *)
(* the tree: the renames it makes itself, which come back to it as events, *)
(* do not keep it renaming, with the one exception of Restoring, and the   *)
(* watcher does not wait for an answer nobody is going to give.            *)
(***************************************************************************)
Settles == LockGranted => (~Quiet ~> Quiet \/ Restoring)

(***************************************************************************)
(* As long as the index may follow, no unwrap on the way of an event fails *)
(* and both tasks are there to handle the next.                            *)
(***************************************************************************)
FollowersLive == course # "lost" => watching /\ alive

(***************************************************************************)
(* A rename of the service's own replaces no file and no directory: as     *)
(* long as users choose names that do not come to the same, whatever they  *)
(* rename meanwhile, what they have made is still there.                   *)
(***************************************************************************)
NothingReplaced ==
    [][course # "lost" /\ UNCHANGED users =>
          /\ Cardinality(dirs') = Cardinality(dirs)
          /\ Cardinality(files') = Cardinality(files)]_vars

\* No unwrap in the handlers of the watcher and of the manager fails.
Survives == watching /\ alive
=============================================================================
