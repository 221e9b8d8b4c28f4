------------------------------ MODULE Startup ------------------------------
(***************************************************************************)
(* The start of the directory service: main makes the index of what is on  *)
(* disk and brings the database into line with it (main.rs lines 62-83,    *)
(* list_buckets_and_normalize, build_key_entry, sync_objects,              *)
(* sync_object_with_database), crashes at any await, and starts again.     *)
(*                                                                         *)
(* The walk over the directories is a set of things to do: a bucket or a   *)
(* key to open, an entry of one to look at, a file to look up.  They are   *)
(* done in any order in which the files of a directory are looked up after *)
(* everything else below it; the code's walk, depth first and otherwise in *)
(* the order of read_dir, is one of these.                                 *)
(*                                                                         *)
(* Users change files at any moment: while the service is down, between    *)
(* any two of its steps, and when the index is built and the watcher not   *)
(* yet there.  A directory is read at once when it is opened.  The rename  *)
(* of a name in the root fails only when it is gone or not UTF-8.          *)
(***************************************************************************)
EXTENDS WatchedTree

CONSTANTS
    Lossy,      \* raw names that are not UTF-8
    Layouts,    \* the directories and files there may be at first
    MaxCrashes, \* bound on the crashes
    MaxFaults,  \* bound on the database calls and renames that fail
    MaxActs     \* bound on what users do

ASSUME StartupAssumption ==
    /\ Lossy \subseteq (RawNames \cup RawFiles) \ {Invalid}
    /\ MaxCrashes \in Nat /\ MaxFaults \in Nat /\ MaxActs \in Nat
    /\ \A l \in Layouts :
          /\ l.dirs \subseteq FsPaths /\ l.files \subseteq l.dirs \X AllFiles
          /\ Distinct(l.dirs, l.files)
          /\ \A p \in l.dirs : \A k \in 1 .. Len(p) : SubSeq(p, 1, k) \in l.dirs

VARIABLES
    dirs, files,    \* the file system: directories, pairs of directory and name
    rootFiles,      \* files in the watched root itself
    db,             \* the records, as pairs of path and file_name
    pc,             \* "down", "list", "walk", "purge", "built"
    todo,           \* what the start still has to look at
    ids,            \* the records whose _id is in objects_ids
    seen, found,    \* the entries of the new index and their objects
    known,          \* history: the records there were when the service started
    touched,        \* history: what users made or removed since, as final paths
    crashes, faults, acts

fs == <<dirs, files, rootFiles>>
index == <<seen, found>>
bounds == <<crashes, faults, acts>>
history == <<known, touched>>
vars == <<fs, db, pc, todo, ids, index, history, bounds>>

\* The rename of a name that is not UTF-8 is asked under what to_string_lossy
\* makes of it, which is not there.
Renamable(p) == Name(p) \notin Lossy

\* A path normalisation would not change.
Allowed(p) == \A i \in DOMAIN p : p[i] \in Names \cup FileNames

Task(kind, p) == [kind |-> kind, path |-> p]

Init ==
    /\ \E l \in Layouts : dirs = l.dirs /\ files = l.files
    /\ rootFiles = {}
    \* What an earlier run left: records of some files and of files since deleted.
    /\ db \in SUBSET {<<p, f>> : p \in {q \in dirs : Allowed(q)}, f \in FileNames}
    /\ pc = "down"
    /\ todo = {} /\ ids = {} /\ seen = {} /\ found = {}
    /\ known = {} /\ touched = {}
    /\ crashes = 0 /\ faults = 0 /\ acts = 0

-----------------------------------------------------------------------------
\* BucketMap::new, and the names in the root.
Start ==
    /\ pc = "down"
    /\ pc' = "list"
    /\ todo' = {Task("name", <<n>>) : n \in {p[1] : p \in dirs} \cup rootFiles}
    /\ ids' = {} /\ seen' = {} /\ found' = {}
    /\ known' = db /\ touched' = {}
    /\ UNCHANGED <<fs, db, bounds>>

\* A panic ends the process: main is a task like any other.
Stop == pc' = "down" /\ todo' = {} /\ UNCHANGED <<fs, db, ids, index, history, bounds>>

Crash ==
    /\ pc # "down"
    /\ crashes < MaxCrashes
    /\ crashes' = crashes + 1
    /\ pc' = "down" /\ todo' = {}
    /\ UNCHANGED <<fs, db, ids, index, history, faults, acts>>

MoveDir(p, q) ==
    /\ dirs' = {Moved(x, p, q) : x \in dirs}
    /\ files' = {<<Moved(x[1], p, q), x[2]>> : x \in files}
    /\ rootFiles' = {Moved(<<n>>, p, q)[1] : n \in rootFiles}

\* ListBucket that takes the rename for done.
ListBucketUnrenamed(t) ==
    /\ t.kind = "name"
    /\ todo' = (todo \ {t}) \cup {Task("bucket", NormalNew(t.path))}
    /\ UNCHANGED fs

\* list_buckets_and_normalize: a bucket that is renamed is pushed with the path
\* it had (line 66), and so is whatever else is in the root, or was.
ListBucket(t) ==
    /\ t.kind = "name"
    /\ todo' = (todo \ {t}) \cup {Task("bucket", t.path)}
    /\ IF Renamable(t.path) THEN MoveDir(t.path, NormalNew(t.path)) ELSE UNCHANGED fs

List ==
    /\ pc = "list"
    /\ \E t \in todo : ListBucket(t)
    /\ UNCHANGED <<db, pc, ids, index, history, bounds>>

Listed ==
    /\ pc = "list"
    /\ \A t \in todo : t.kind # "name"
    /\ pc' = "walk"
    /\ UNCHANGED <<fs, db, todo, ids, index, history, bounds>>

\* The entries of a directory, as read_dir returns them.
Entries(p) ==
    {Task("entry", q) : q \in {r \in dirs : Len(r) > 1 /\ Parent(r) = p}}
    \cup {Task("file", Append(p, x[2])) : x \in {y \in files : y[1] = p}}

\* build_key_entry: path.read_dir().unwrap().
OpenDir(t) ==
    /\ t.kind \in {"bucket", "key"}
    /\ t.path \in dirs
    /\ todo' = (todo \ {t}) \cup Entries(t.path)
    /\ seen' = seen \cup {t.path}
    /\ UNCHANGED <<fs, db, ids, found, faults>>

IsFile(p) == <<Parent(p), Name(p)>> \in files

\* file_name_normalize of a sub-directory, which is then opened.
NormaliseDir(t) ==
    /\ t.kind = "entry"
    /\ t.path \in dirs /\ Renamable(t.path)
    /\ MoveDir(t.path, NormalNew(t.path))
    /\ todo' = (todo \ {t}) \cup {Task("key", NormalNew(t.path))}
    /\ UNCHANGED <<db, ids, index, faults>>

\* NormaliseFile passing on the path the file had.
NormaliseFileOldPath(t) ==
    /\ t.kind = "file"
    /\ IsFile(t.path) /\ Renamable(t.path)
    /\ files' = (files \ {<<Parent(t.path), Name(t.path)>>})
                 \cup {<<Parent(t.path), Norm[Name(t.path)]>>}
    /\ todo' = (todo \ {t}) \cup {Task("sync", t.path)}
    /\ UNCHANGED <<dirs, rootFiles, db, ids, index, faults>>

\* file_name_normalize of a file, which is then looked up.
NormaliseFile(t) ==
    /\ t.kind = "file"
    /\ IsFile(t.path) /\ Renamable(t.path)
    /\ files' = (files \ {<<Parent(t.path), Name(t.path)>>})
                 \cup {<<Parent(t.path), Norm[Name(t.path)]>>}
    /\ todo' = (todo \ {t}) \cup {Task("sync", Normal(t.path))}
    /\ UNCHANGED <<dirs, rootFiles, db, ids, index, faults>>

\* What is gone is taken for a file (is_dir() is false): with a name that need
\* not be changed it is looked up, directory or not; else its rename fails.
NormaliseGone(t) ==
    /\ t.kind \in {"entry", "file"}
    /\ t.path \notin dirs /\ ~IsFile(t.path)
    /\ todo' = (todo \ {t})
                \cup {Task("sync", q) : q \in {p \in {t.path} : Norm[Name(p)] = Name(p)}}
    /\ UNCHANGED <<fs, db, ids, index, faults>>

\* The rename of either fails: None, and the entry is passed over.
NormaliseFails(t) ==
    /\ t.kind \in {"entry", "file"}
    /\ Norm[Name(t.path)] # Name(t.path)
    /\ \/ ~Renamable(t.path) /\ UNCHANGED faults
       \/ faults < MaxFaults /\ faults' = faults + 1
    /\ todo' = todo \ {t}
    /\ UNCHANGED <<fs, db, ids, index>>

\* Everything else below the directory has been dealt with.
ReadyToSync(t) ==
    /\ t.kind = "sync"
    /\ \A s \in todo : Under(Parent(t.path), s.path) => s.kind = "sync"

\* get_object_filename: the database has a record of the file.
Recorded(x) == x \in db

\* SyncObject with the id of a record that is about to be inserted.
SyncObjectEarly(t) ==
    LET x == <<Parent(t.path), Name(t.path)>>
    IN  /\ ReadyToSync(t)
        /\ ids' = ids \cup {x}
        /\ found' = found \cup {x}
        /\ todo' = todo \ {t}
        /\ UNCHANGED <<fs, db, seen, faults>>

\* SyncObject leaving out objects_ids.push.
SyncObjectNoId(t) ==
    LET x == <<Parent(t.path), Name(t.path)>>
    IN  /\ ReadyToSync(t)
        /\ db' = db \cup {x}
        /\ found' = found \cup {x}
        /\ todo' = todo \ {t}
        /\ UNCHANGED <<fs, ids, seen, faults>>

\* sync_objects: the id of a record that is found is kept; a record that is not
\* found is inserted, and its id is not.
SyncObject(t) ==
    LET x == <<Parent(t.path), Name(t.path)>>
    IN  /\ ReadyToSync(t)
        /\ ids' = IF Recorded(x) THEN ids \cup {x} ELSE ids
        /\ db' = db \cup {x}
        /\ found' = found \cup {x}
        /\ todo' = todo \ {t}
        /\ UNCHANGED <<fs, seen, faults>>

\* The lookup fails, or the insert: Ok(Some(..)) does not match, the error of
\* new_object is logged, and the unique index rejects a second record.
SyncObjectFails(t) ==
    LET x == <<Parent(t.path), Name(t.path)>>
    IN  /\ ReadyToSync(t)
        /\ faults < MaxFaults
        /\ faults' = faults + 1
        /\ db' \in {db, db \cup {x}}
        /\ found' = found \cup {x}
        /\ todo' = todo \ {t}
        /\ UNCHANGED <<fs, ids, seen>>

Walk ==
    /\ pc = "walk"
    /\ \E t \in todo :
          \/ OpenDir(t)
          \/ NormaliseDir(t) \/ NormaliseFile(t) \/ NormaliseGone(t) \/ NormaliseFails(t)
          \/ SyncObject(t) \/ SyncObjectFails(t)
    /\ UNCHANGED <<pc, history, crashes, acts>>

\* A bucket whose path is no UTF-8: at the latest when the walk below it is over,
\* Key::from_bucket(..).unwrap() in build_key_entry finds no key.
Keyless == \E p \in seen : ~Renamable(p)

\* That, or read_dir().unwrap() on a path that is no directory.
Panic ==
    /\ pc = "walk"
    /\ Keyless \/ \E t \in todo : t.kind \in {"bucket", "key"} /\ t.path \notin dirs
    /\ Stop

Walked ==
    /\ pc = "walk"
    /\ todo = {} /\ ~Keyless
    /\ pc' = "purge"
    /\ UNCHANGED <<fs, db, todo, ids, index, history, bounds>>

\* sync_object_with_database that only counts.
PurgeNothing ==
    /\ pc = "purge"
    /\ UNCHANGED db
    /\ pc' = "built"
    /\ UNCHANGED <<fs, todo, ids, index, history, bounds>>

\* sync_object_with_database: the records whose _id is not in objects_ids go.
Purge ==
    /\ pc = "purge"
    /\ db' = db \cap ids
    /\ pc' = "built"
    /\ UNCHANGED <<fs, todo, ids, index, history, bounds>>

\* Its unwrap and its expect.
PurgeFails ==
    /\ pc = "purge"
    /\ faults < MaxFaults
    /\ faults' = faults + 1
    /\ pc' = "down" /\ todo' = {}
    /\ UNCHANGED <<fs, db, ids, index, history, crashes, acts>>

-----------------------------------------------------------------------------
\* The path something will have in the end.
Canon(p) == [i \in DOMAIN p |-> Final(p[i])]

\* A user makes or removes p.
Act(p) ==
    /\ acts < MaxActs
    /\ acts' = acts + 1
    /\ touched' = IF pc = "down" THEN touched ELSE touched \cup {Canon(p)}
    /\ UNCHANGED <<db, pc, todo, ids, index, known, crashes, faults>>

\* Users do not choose a name that comes to the same as another of the directory.
Free(D, F, R) == Distinct(D \cup {<<n>> : n \in R}, F)

AddFile(p, f) ==
    /\ Act(Append(p, f))
    /\ <<p, f>> \notin files
    /\ files' = files \cup {<<p, f>>}
    /\ Free(dirs, files', rootFiles)
    /\ UNCHANGED <<dirs, rootFiles>>

RemoveFile(x) ==
    /\ Act(Append(x[1], x[2]))
    /\ files' = files \ {x}
    /\ UNCHANGED <<dirs, rootFiles>>

AddDir(p) ==
    /\ Act(p)
    /\ p \notin dirs
    /\ Len(p) > 1 => Parent(p) \in dirs
    /\ p[1] \notin rootFiles
    /\ dirs' = dirs \cup {p}
    /\ Free(dirs', files, rootFiles)
    /\ UNCHANGED <<files, rootFiles>>

\* rmdir of an empty directory.
RemoveDir(p) ==
    /\ Act(p)
    /\ \A r \in dirs : Under(p, r) => r = p
    /\ \A x \in files : x[1] # p
    /\ dirs' = dirs \ {p}
    /\ UNCHANGED <<files, rootFiles>>

AddRootFile(n) ==
    /\ Act(<<n>>)
    /\ n \notin rootFiles /\ <<n>> \notin dirs
    /\ rootFiles' = rootFiles \cup {n}
    /\ Free(dirs, files, rootFiles')
    /\ UNCHANGED <<dirs, files>>

RemoveRootFile(n) ==
    /\ Act(<<n>>)
    /\ rootFiles' = rootFiles \ {n}
    /\ UNCHANGED <<dirs, files>>

User ==
    /\ acts < MaxActs
    /\ \/ \E p \in dirs, f \in AllFiles : AddFile(p, f)
       \/ \E x \in files : RemoveFile(x)
       \/ \E p \in FsPaths : AddDir(p)
       \/ \E p \in dirs : RemoveDir(p)
       \/ \E n \in DirNames : AddRootFile(n)
       \/ \E n \in rootFiles : RemoveRootFile(n)

Service == Start \/ List \/ Listed \/ Walk \/ Panic \/ Walked \/ Purge \/ PurgeFails

Next == Service \/ Crash \/ User

\* The process makes progress, and is started again whenever it has ended.
Spec == Init /\ [][Next]_vars /\ WF_vars(Service)

-----------------------------------------------------------------------------
TypeOK ==
    /\ dirs \subseteq FsPaths /\ files \subseteq dirs \X AllFiles
    /\ pc \in {"down", "list", "walk", "purge", "built"}
    /\ pc \notin {"list", "walk"} => todo = {}
    /\ rootFiles \subseteq DirNames
    /\ ids \subseteq db /\ ids \subseteq found
    /\ crashes \in 0 .. MaxCrashes /\ faults \in 0 .. MaxFaults

Touched(p) == Canon(p) \in touched

\* A name in it could not be changed.
Stuck(p) == ~Allowed(p) /\ (faults > 0 \/ \E i \in DOMAIN p : p[i] \in Lossy)

(***************************************************************************)
(* A start that comes to its end leaves an index in which everything is on *)
(* disk, and which lacks only what has a name that could not be changed,   *)
(* or lies below such a directory, however the database answers.  What     *)
(* users make or remove meanwhile does not spoil the rest: index and disk  *)
(* differ otherwise only in that.                                          *)
(***************************************************************************)
IndexIsDirectory ==
    pc = "built" =>
        /\ \A p \in seen \ dirs : Touched(p)
        /\ \A x \in found \ files : Touched(Append(x[1], x[2]))
        /\ \A p \in dirs \ seen : Touched(p) \/ Stuck(p)
        /\ \A x \in files \ found :
              LET p == Append(x[1], x[2]) IN Touched(p) \/ Stuck(p)

\* No record is left of a file that is not there.
NoStrayRecords == pc = "built" => db \subseteq found

(***************************************************************************)
(* A record there was when the service started, of a file that has been    *)
(* there all the time, is still there: users' data in it (seen_by, name)   *)
(* outlives the restart, crashes included, as long as no lookup has failed *)
(* and whatever users do to other files meanwhile.                         *)
(***************************************************************************)
KnownRecordsStay ==
    [][faults = 0 =>
          \A x \in known \cap db :
              x \in files /\ ~Touched(Append(x[1], x[2])) => x \in db']_db

\* Every object of the index has its record: what is deleted was not found
\* in the file system.
ObjectsHaveRecords == pc = "built" => found \subseteq db

(***************************************************************************)
(* However often it crashes or panics first, and whatever users do on the  *)
(* way, the service gets started: a start leaves the file system in a      *)
(* state the next one can go on from.  It takes users to leave no file in  *)
(* the watched root, which a start takes for a bucket, and no bucket whose *)
(* name is not UTF-8.                                                      *)
(***************************************************************************)
Startable == rootFiles = {} /\ \A p \in dirs : Len(p) = 1 => Renamable(p)

Starts == <>[]Startable => []<>(pc = "built")
=============================================================================
