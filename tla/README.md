# ws-hyper in TLA+

ws-hyper is a set of Rust services around a directory of files. This directory
holds TLA+ models of its core logic, TLC configurations that check them on small
instances, and proofs checked by TLAPS. Paths are relative to the repository;
where only a file name is given it is one of `src/directory/src` unless the
section is about another crate.

## The system

| crate | what it is |
|---|---|
| `directory` | keeps an index of a watched directory (buckets, keys, objects), in memory and in MongoDB, and serves it over HTTP, websockets and gRPC |
| `upload_files` | receives multipart uploads and streams them into files |
| `auth` | users in PostgreSQL, logins and tokens |
| `utils` | keys and tokens, body parsing and middleware the others share |
| `download_srv`, `notify` | empty programs |

`upload_files` does not compile as it stands (`models/user.rs` imports
`utils::claim::`), and the repository has no tests.

### Components

| component | state | operations | what makes it correct |
|---|---|---|---|
| `BucketMap` (`bucket/bucket_map.rs`) | a tree of entries: objects (a vector), keys (a map that may be absent), a broker | `change` with nine kinds of change; `build`; `get_entry`; `subscriber` | entries nest; a change touches only its bucket; a rename drops no object |
| `LocalStorage` (`state/local_storage/mod.rs`) | one record per object, unique by bucket, key and file name | one update or delete per kind of change; the look-ups of the start | the index stays unique even when `update_many` stops half-way; what a filter selects is what the tree changes |
| `Manager` (`manager/mod.rs`) | an unbounded mailbox | `Change`: database, then tree under the write lock; `WhatIs` | tree and database agree; no change stays in a mailbox nobody reads |
| `EventWatcher`, `Skipper` (`manager/watcher/event_watcher/mod.rs`, `manager/utils`) | a mailbox of inotify events; the names whose next event to skip | per event: normalise the name, rename on disk, remember to skip the event this causes, tell the manager | the index follows the directory; the service comes to rest |
| `RenameControl` (`rename_control.rs`) | a mailbox, a map from paths to handles of timers | `From` starts a timer, `Decline` aborts it, `Expire` removes the handle | every move is reported or declined, once |
| start (`main.rs`, `bucket/utils/mod.rs`, `build`, `sync_objects`, `sync_object_with_database`) | the index under construction, the ids to keep | rename what has a name that is not allowed, look every file up, delete the other records | the start ends; index, directory and records agree |
| lock of the tree (`handlers/mod.rs`, `grpc_v1_server`, `manager`) | tokio's `RwLock` | readers, the manager's write, the write of an upgrade request | whoever waits is served |
| websocket brokers (`manager/websocket`) | observers per entry; bounded mailboxes of brokers and handlers | subscribe, unsubscribe, broadcast, shutdown | messages in order and none withheld; observers that have gone are removed; nobody waits in a circle |
| uploads (`upload_files/src/stream_upload`, `handlers/api_v1/file.rs`) | state of the multipart stream, of the copy, of a buffer and of tokio's `File` | poll one step: take a field, a chunk, create, write, flush | every file that is logged as saved is its part, whole |
| accounts (`auth/src`, `utils/src/lib.rs`) | the table of users, two key files, the clients' tokens | start (default account, keys), login, update and delete of users | tokens are good for one run; who is deleted changes nothing; somebody can log in |

How they interact: inotify calls back into a channel; the watcher *tells*
RenameControl and the manager (unbounded channels, errors are ignored) and *asks*
the manager what a path was (it waits); RenameControl tells the watcher; the
manager writes database and tree; HTTP and gRPC read the tree under its lock; a
websocket's handler asks and tells the broker of its entry, which tells the
handlers, through bounded channels. A panic ends one task: its mailbox is dropped,
tells to it are lost, asks to it panic in their turn. `upload_files` and `auth`
share nothing with `directory` but the token format.

What is hard: the file system moves on while events about it are in a queue; the
service's own renames come back to it as events; two stores are written one after
the other; timers race messages; bounded mailboxes fill up in a circle; a start can
end between any two awaits; a `File` reports an error after the write that caused
it; a request acts on what it checked before a wait. The list of hazards, each at
its line with the properties that would catch it, is in `PROJECT.json`.

## The modules

| module | models | checked by |
|---|---|---|
| `BucketTree` | `BucketMap::change` as operators on a function from paths to entries | through the modules below |
| `LocalStorage` | the methods of `LocalStorage` as operators from a set of records to the possible sets of records | through `Manager` |
| `Manager` | the manager's task, its mailbox, its two writes, failing database calls, panics | `Manager_stores`, proofs |
| `RenameWatch` | abstract: what the watcher relies on when it passes a move to RenameControl | as a property of `RenameControl` |
| `RenameControl` | mailbox, handles and timers of RenameControl | `RenameControl_*`, proofs |
| `RenameControlProofs` | theorems about `RenameControl` | TLAPS |
| `WatchedTree` | names, normalisation, and the tree `build` makes of a directory | through the two modules below |
| `DirectoryIndex` | users, inotify, EventWatcher, RenameWatch, the manager and the tree together | `DirectoryIndex_*`, proofs |
| `Startup` | the start of the service, crashes, restarts | `Startup_*`, proofs |
| `TreeLock` | the `RwLock` and those who take it | `TreeLock_*` |
| `WsBroker` | a broker, the handlers of its clients, their reading tasks | `WsBroker_clients`, proofs |
| `UploadBody` | multipart bodies: parts and their chunks | through the two modules below |
| `UploadPromise` | abstract: parts are saved whole, one after the other | as a property of `Upload` |
| `Upload` | `StreamUpload`, `Upload`, `Buffer`, tokio's `File`, the loop of `upload_video` | `Upload_chunks`, proofs |
| `Accounts` | starts, logins and requests of auth | `Accounts_requests`, proofs |
| `ManagerProofs` | theorems about `Manager` | TLAPS |
| `DirectoryIndexProofs` | theorems about `DirectoryIndex` | TLAPS |
| `StartupProofs` | theorems about `Startup` | TLAPS |
| `IndexMirrorsProofs`, `IndexFollowsProofs` | that the index of `DirectoryIndex` follows the directory: lemmas, and the steps and theorems | TLAPS |
| `WsBrokerProofs` | theorems about `WsBroker` | TLAPS |
| `HandlersProofs` | theorems about `Accounts` and `Upload` | TLAPS |

`MC*` modules give the constants of the runs. Operators whose comment begins with
the name of another definition ("SyncObject leaving out ...") are mutants:
plausible mistakes in that definition, which break the property `PROJECT.json`
lists them for. No specification uses them.

`Accounts` calls its formulas `AccountsInit`, `AccountsOK`, `AccountsSpec` and so on where
others say `Init`, `TypeOK` and `Spec`, because it shares a module of proofs with `Upload`.

### State and actions against code

* A **path** is a sequence of names below the watched root: `<<bucket>>` for a
  bucket, `<<bucket, k1, k2>>` for the key `k1/k2`. The nested maps of the code
  become one function from paths to entries; `Nested` says that every prefix of a
  path is there and its child map `Some`. `keys` of an entry is a Boolean, because `None` and `Some(empty map)`
  are told apart by the `unwrap`s of `change`.
* A **record** is a place, a `file_name` and the `name` that `set_name` writes.
  Filters become the sets of records they select. `UpdateMany` updates row after row
  in any order and stops at the first that would violate the unique index.
* **Manager**: `ChangeLocalStorage`/`StorageFails` then `ChangeTree`/`Panic` are
  the two halves of `handle` (lines 89 and 90). `change` is the head of the
  mailbox until it has been handled. `clean` is history: whether a failed call or a
  change of `SetsApart` has yet set tree and database apart. `SetsApart` lists, per
  kind of change, when the filters and the tree walk of the code select different
  objects; it is a description of the code, and `InStep` says the list is complete.
* **RenameControl**: moves are numbered in the order of their `From`s; `timer[m]`
  is the life of the timer task of move `m`; `tasks` is the map of handles, 0 for
  no handle. `Overlap = FALSE` restricts the environment to moves of a path that
  begin when the last one of that path is over.
* **DirectoryIndex**: one action per arm of `EventWatcher::handle`, with the whole
  `hd_` function it calls. What a handler does is one step: nothing else writes
  the skipper or renames on the service's behalf, and what is told is read later;
  only a user could act between the `is_dir()` and the rename of one handler, and
  the failing branch of each rename is there for the states that leads to. The
  database is left to `Manager`. Users create, rename, move and delete, within the
  tree, out of it (`MoveOut`: only a `From` is seen) and into it (`MoveIn`: only a
  `To`, which no arm of `handle` takes, so that no event is modelled). Three
  variables are history. `course` is `"even"`, `"renaming"` while the rename of a
  directory is under way, and `"lost"` from the moment on from which the index may
  differ: the rename of a directory and another event were under way together, or an
  action came that the service does not follow (`NotFollowed`). Of these `remake_file` is the
  file that is made, or moved in, under a name that is not allowed while the event of an earlier one of
  that name, deleted with its bucket, is still to be handled: that event renames the new file, the
  index loses it with the old bucket, and its own event finds nothing. `rename_raw` gives a
  directory whose name is not allowed (the `INVALID_NAME-..` of a start) one that normalises to
  nothing: the service gives it the old one back, and never comes to rest. `unseen` holds the
  paths that were moved in: the index is to lack them and what lies in them, and
  nothing else. `Restoring` names the one cycle of renames: a directory that was moved in
  with a name that normalises to nothing, and moved again, gets its old name back,
  which is no better.
* **Startup**: `todo` is what the walk still has to look at. The code's walk is
  depth first; the model's takes any order in which the files of a directory are
  looked up last, which includes it. Users act at any moment, between any two steps
  of a start as well; `touched` is the history of what they made or removed since it
  began. `Lossy` names are not UTF-8: their rename is asked under another name and
  always fails. What is gone when its turn comes is taken for a file
  (`NormaliseGone`), because `is_dir()` is false of it.
* **TreeLock**: readers are `GET /tree` and gRPC's `file_name`; the manager takes the
  lock to write for a change and to read for `WhatIs` (`inhand`). The queue is fair, as
  tokio documents of its `RwLock`, and that a writer holds it alone is tokio's promise:
  both are in `Grant`, external, and nothing is checked or proved of them. The future of
  the upgrade is over when the response has been returned, or when the client hangs
  up and hyper drops the handler. A reader panics on an entry that is not in the tree
  (`ReadPanics`, handlers/mod.rs:54), the manager on a change or a `WhatIs` that does not
  fit it (`HandlePanics`, bucket_map.rs:203, manager/mod.rs:100): the guard is released,
  and the request is never answered, or the manager gone. The tree is not in this model,
  so that either may happen at any time; `Manager` and `DirectoryIndex` say when.
* **WsBroker**: `todo` is the rest of the broker's loop over its observers, in the
  order of a `HashMap`; `Update` is one `update(..).await` of it, which waits for
  room. `Publish` stands for whoever will send `WSBrokerMessage::Message`: nothing
  does yet. A handler that has returned drops its mailbox.
* **Upload**: one action per turn of the loop of `poll_next`. `inflight` is what
  tokio's `File` has taken and not written: `DiskWrites` writes it, `DiskFails`
  remembers an error for the next use of the `File`. `creating` is tokio's `File::create`,
  which `ReadNew` begins: it runs on the blocking pool and is not cancelled when the
  client hangs up, so that `DiskCreates` may create or truncate the file after the end of
  the upload. A byte is its part and its place, so that order, loss and doubling can be
  told.
* **Accounts**: what a request checks (`Check`) and what it does (`DoUpdate`,
  `DoDelete`) are two steps with a wait between them. A login is one step: it
  changes nothing but the client's token. A start inserts the default account unless a
  row has its id or name (`InsertDefault`), or the database refuses (`InsertFails`, which
  the history `refused` remembers): with_default_user reports either and goes on
  (repository.rs:35). Keys are the number of the run they were made in. A row is what the program can find in its table, also one an operator
  made, whose role or nulls the program cannot read.

### Abstractions

* Names are model values; normalisation is a function on them (`Norm`), with a name
  that becomes empty (`dash`) and the `INVALID_NAME-..` such a new directory gets,
  which itself is not allowed and is normalised again. In `DirectoryIndex` a user's
  file may come to the name of another of its directory, and replaces it as rename(2)
  does (`replace_file`, after which the course is lost); two directories, or a
  directory and a file, may not (`Free`), nor may any two names in `Startup`
  (`Distinct`): what happens then depends on which directories are empty.
* Names in `DirectoryIndex` are UTF-8; those of `Startup` need not be.
* Names of directories and names of files are two sets (`KindsAssumption`): a directory and
  a file that come to the same name are left out, as above.
* `Key::from_bucket` looks for the bucket's name in the path as text, the path of the
  watched root included; the model looks for a segment of that name below the root. It
  takes the first, as the code does.
* In `DirectoryIndex` RenameControl is its specification `RenameWatch`, with two
  simplifications: a `Decline` is handled at once, and two timers of one path are
  one.
* The 2 second delay is not timed: a timer may fire at any moment after it was
  started.
* In `Startup` the rename of a name in the root fails only when the name is gone or
  not UTF-8, and a directory is read at once when it is opened. A second record for a
  file is never made (unique index).
* In `Upload` the headers of a part are good, refused, or lack a name or a type; a byte
  has no value but its place. Two uploads of one name at the same time, which would
  write into one file, are not modelled: `Upload` is one request.
* In `Accounts` times are left out (tokens do not expire), and so are `users_buckets`
  and the other tables: a delete the database refuses because of them is `ActFails`.

## Runs

Bounds are constants of the modules: `MaxTells`, `MaxFaults`, `MaxMoves`, `MaxActs`,
`MaxLost`, `MaxCrashes`, `MaxMessages`, `MaxStarts`, `MaxRequests`,
`MaxDepth`, and the capacities of `WsBroker` and `Upload`.

| run | question | bounds |
|---|---|---|
| `Manager_stores` | do tree and database stay in step, are buckets apart, does a renamed key keep its objects, is the mailbox emptied? | every pair of changes over two names and two files, three levels, from five trees, one failing call; keys and objects change in one of the two buckets, as the names are symmetric |
| `RenameControl_overlap` | order of messages, newest handle, refinement of `RenameWatch`, no handle left | three moves of two paths, overlapping |
| `DirectoryIndex_users` | does the index end as the directory, are both tasks alive as long as it may, does the service replace nothing of the users' and come to rest? | three user actions of every kind, moves within, out of and into the tree, files in the root and replaced files included, at any moment (two once the course is lost); two levels; names that need normalising |
| `Startup_restarts` | does a start that ends leave index, directory and records in agreement, does it keep the records there were, and does one always end? | one crash, one failing call, two user actions at any moment, two layouts, any records, names that are not UTF-8 |
| `TreeLock_hang_ups` | is everybody served, or panics, when clients of upgrades hang up? | two readers, two upgrades, two messages of the manager |
| `WsBroker_clients` | are messages in order and complete, are observers that have gone removed? | two clients, five messages, mailboxes of two and one |
| `Upload_chunks` | is every file that is logged as saved whole until a later part of its name is taken up, and does `Upload` refine `UploadPromise`? | one part in up to three chunks of sizes below, at and above a buffer of three and a `File` of four; two parts of the same or another name; two faults |
| `Accounts_requests` | tokens of one run, harmless deleted users, updates as asked, somebody who can log in | two clients, three requests, three starts, five tables |

Why these bounds are enough for the cases that matter: a disagreement between
tree and database needs one change and a state that earlier changes prepared, and the
initial trees of `MCManager` are those states, so that two changes go two steps from
each, and what the run cannot reach, more names, deeper keys and longer sequences, is
covered by the theorems about `Manager`; overlap of moves needs two moves of one path and a third to take the handle
away; the handlers of `DirectoryIndex` interact through at most one rename of the
user's and the two events of the service's own; a crash, a failing call and the panics of
a start put starts that end at any point before others; a broker and a handler wait for each other with one message
in hand, one in each place of the mailboxes and one more to leave, which five
messages reach; a chunk can be smaller than what is left of the buffer, fill it, or be
passed on in two takes, and the sizes are one of each; three starts put an incomplete
one between two complete ones, and three requests a delete between the check and the
statement of another.

Four runs state what the program's own text says of it and show that it does otherwise:

| run | property | what happens |
|---|---|---|
| `RenameControl_stale_expire` | `DeclineSettles` | an `Expire` names a path and takes the handle of a newer timer of it (rename_control.rs:81); the `Decline` finds nothing, and a completed rename is reported as a removal |
| `DirectoryIndex_quick_rename` | `Survives` | a bucket renamed twice quickly is taken for a file in the root (event_watcher/mod.rs:199, manager/utils/mod.rs:245), and the watcher panics |
| `Startup_purge` | `ObjectsHaveRecords` | a record inserted by a start is deleted at its end (bucket_map.rs:396) |
| `TreeLock_upgrade` | `Upgrades` | an upgrade waits, with the lock held, for a websocket that opens only after its response (handlers/mod.rs:49) |

`CHECK_DEADLOCK FALSE` is set where the system may stop: bounds are used up, users
need not act, tasks may have panicked, and a broker and a handler may wait for each
other (`Stuck`).

### Behaviour the models contain and no property excludes

* The first key made in a bucket while the service runs unwraps an absent map
  (bucket_map.rs:203): the manager's task is gone (`Manager!Panic`).
* A deleted object is looked for under its own path (event_watcher/mod.rs:249) and
  stays in the index; an object moved out of the directory becomes an event without
  a path (277, 282), which is dropped. Both are in `NotFollowed`.
* A key that is moved into another bucket, and a file that is moved to the root, unwrap
  a key there is not (manager/utils/mod.rs:207, 245): the watcher's task is gone. Both are in
  `NotFollowed`; `FollowersLive` says that nothing else is its end as long as the
  course is not lost.
* A normalised file replaces a file that has the name (manager/utils/mod.rs:102): the
  user's file is lost and the index lists the name twice. `NothingReplaced` says it
  takes users who choose such names.
* A directory whose name normalises to nothing, moved in and moved again, is restored
  for ever (manager/utils/mod.rs:228): `Restoring` in `Settles`.
* A bucket that is renamed at the start is opened under its old path
  (bucket/utils/mod.rs:66), and the start panics; the next one finds it renamed.
  A file in the root (50), or a bucket whose name is not UTF-8 (normalizeds.rs:76),
  makes every start panic: `Starts` assumes none stays.
* After a database call that failed tree and records differ (manager/utils/mod.rs:305
  goes on to the tree): `InStep` speaks only of runs without one (`clean`).
* A reader that asks for an entry the tree does not have panics (handlers/mod.rs:54)
  and has no answer: `TreeServed` excepts it, and the manager's own panic.
* While the client of an upgrade stays (handlers/mod.rs:49) the manager waits for the
  lock, and so does a watcher that asks it: `Drains` and `Settles` assume the lock is
  granted (see Fairness).
* A client that hangs up while `File::create` is under way (stream_upload/mod.rs:224,
  242) does not stop it: when an earlier part has the same name, a file that was logged as
  saved is truncated after the upload is over. `FilesWhole` speaks of a file until
  a later part of its name is taken up, as such a part truncates it anyway.
* An insertion of the default account the database refuses is only reported
  (auth state/repository.rs:35-37): with an empty table the service comes up and nobody
  can log in until the next start. `SomebodyCanLogIn` excludes such starts.
* `upload_video` answers 201 after an upload that failed (file.rs:60): `Answer`
  follows a failure as it follows the last part.
* The broker waits for room in the mailbox of a handler that waits for room in the
  broker's (broker.rs:65, websocket/mod.rs:57). `Leaves` excludes `Stuck`, which TLC
  reaches.
* A password that is updated is stored as it came (auth handler/user.rs:81), and no
  login accepts it. A token that does not verify makes the task panic
  (utils/src/lib.rs:58). `DELETE` of a bucket deletes the user with that id
  (auth handler/bucket.rs:58, repository.rs:62). `POST` of a user is never reached
  (auth handler/mod.rs:33-41). The roles of initdb.sql:3 are not those of
  models/user/mod.rs:59, so that only `SuperUser` can be read. `directory` expects an
  integer for the subject of the token auth writes with a UUID.

### Fairness

* `RenameControl`: weak fairness of the actor's steps and timers only. tokio polls a
  task that is ready, and a sleep runs out. Nobody has to send anything.
* `Manager`, `DirectoryIndex`: weak fairness of the actors' steps that wait for no lock,
  and of timers. A call of the database is over some day, with or without an error;
  nobody has to touch a file or change anything. The steps that need the tree's lock
  (`ChangeTree`, `Panic`; `ManagerWorks`) are **not** in it: the manager awaits
  `state.write()` (manager/mod.rs:90), and `TreeLock_upgrade` shows that one upgrade whose
  client stays holds that lock for ever. The manager then stops, its mailbox fills, and a
  watcher that has asked it waits for ever. `Drains` and `Settles` are therefore
  implications from `LockGranted`, weak fairness of those steps; `TreeServed` is what
  justifies it, for clients of upgrades that all hang up in the end.
* `Startup`: weak fairness of the steps of a start, which include starting: that a
  service that has ended is started again is an assumption about whoever runs it.
  Crashes are bounded by `MaxCrashes`.
* `TreeLock`: weak fairness of the lock and its holders, who may panic instead of
  answering. Requests and messages need not come. `HangUps = TRUE` adds that a
  client that asked for an upgrade hangs up in the end; without it (`TreeLock_upgrade`)
  the service waits for ever.
* `WsBroker`: weak fairness of the broker, of each handler and of each reading task
  whose client has closed. A send to a websocket is over some day, with or without an
  error; clients need not close. websocket/mod.rs:44 has no timeout, so that this is an
  assumption about clients and their connections: `Leaves`, and that `Stuck` is the only
  exception to it, are relative to it.
* `Upload`: weak fairness of the task, of the disk and of the blocking pool; the client
  sends or hangs up.
* `Accounts`: none; its properties are safety properties.

## Proofs

`RenameControlProofs` proves for every set of paths and every number of moves:

* `MailboxCorrect`: `Spec => []MailboxInv`, types and the order of messages;
* `NewestHandle`: the handle in the map under a path belongs to the newest timer
  started for the path, overlapping moves included;
* `DeclinesSettle`: without overlap, no timer runs on after its `Decline`;
* `WatchSafety`: every step of RenameControl is a step of `RenameWatch` or a stutter,
  and initial states map to initial states.

The argument: whether a `Decline` finds the right timer depends on the order of the
messages in the mailbox. `MailboxInv` says that a move waits for its timer exactly as
long as its `From` is in the mailbox (`FromsPending`), that `From`s are in the order of
the moves and before their `Decline`s (`FromsOrdered`), and that each fired timer has at
most one `Expire` (`ExpiresPending`). With it the handle is that of the newest move:
a `From` that is handled is newer than all handled before. Without overlap `ApartInv`
adds that a path has at most one open move and its sleeping timer is the one in the
map, so that neither `Decline` nor `Expire` can take away another's handle. For the
refinement, `DeclineInv` relates each `Decline` in the mailbox to the move it is for: what
it aborts is a move whose other half was seen.

Assumptions: those named in `RenameControl`, nothing about the size of sets.
`MailboxInv` and `HandleIsNewest` are properties of `RenameControl_overlap`.
`DeclineSettles` fails when moves overlap (`RenameControl_stale_expire`), and the theorem
says that this is the only way it fails.

`ManagerProofs` proves for all names, any depth of keys, any changes and any number of them:

* `ManagerIsTyped`: `Spec => []TypeOK`, which says that the tree is a tree and the index
  on the records unique;
* `BucketsAreApart`: `Spec => Isolation`;
* `RenamedKeyKeepsObjects`: `Spec => NameKeyKeepsObjects`.

A path is a sequence, and so the module begins with what prefixes, parents and `Rebase` do
segment by segment: a rebased path has the segments of its new place and then its own, and
rebasing back gives the path again. `Nested` is stated over all prefixes, not over the
parent, because a removed or moved sub-tree is a set of paths with a common prefix: with
the prefixes at hand no induction over the depth is needed. `MoveEntry` leaves a tree when
both places have the same entry above them, which is so for the renames of a bucket and of
a key (`MoveIsTree`). `UpdateMany` may stop after any subset of the rows; the rows of one
bucket or key stay apart however many of them have their new key, and a row that has it
collides with none that had it before (`UpdateManyKeeps`).

It also proves `TreeAndRecordsAgree`: `Spec => []InStep`. `InStep` says nothing
between the two writes; `BetweenWrites` does: the records then agree with the tree the
change in hand is about to leave, or with the tree as it is if the change panics. Agreement
is taken apart into one equivalence per place and file name (`AgreeFacts`), and there is a
lemma for each kind of change that both writes do the same to it unless `SetsApart` lists
the change (`ChangeAgrees`). A rename of a bucket or a key goes through all its rows: what
would collide is an object at the new place, and there is none (`AllUpdated`). So `SetsApart`
is the complete list of what sets the two stores apart.

It assumes what `Manager` and `BucketTree` name: changes are changes, `build` leaves a
tree, there is at least one level.

`DirectoryIndexProofs` proves for any names, layouts and depth, any number of user actions,
and events handled at any distance from what they report:

* `IndexIsTyped`: `Spec => []TypeOK`;
* `ServiceReplacesNothing`: `Spec => NothingReplaced`.

The invariant of the first types what is under way. `EventsOK` says of the event of a
rename that what is called a directory's name after it was called one's before: so that the
restore of a directory (`NeedRestore`) gives it a directory's name, and `FsOK` (what is on disk
lies in directories that are there) outlives the renames the watcher makes on the strength of
an old event. The changes told to the manager need not fit the tree they meet; `TreeOK` holds
all the same because each arm of `change` looks up the entry above first (`ApplyKeeps`), and
because a rename stays in one map (`MoveKeeps`). There nesting is stated over the entry above
(`Hung`), and that all those further above are there too is shown by taking the lowest that would
not be (`HungIsNested`). `WaitOK` says that the question the watcher waits for is still in
the mailbox: the manager answers it or, in a panic, takes the watcher with it.

The second adds `CourseInv`, which says what can be under way on each course, and that no two
names of a directory come to the same in the end (`Distinct`). On an even course no event
makes the watcher rename a directory: new directories have allowed names and what was renamed
is a file, which gets the name its own comes to, one no other file of the directory has. On the
course of a rename of a directory at most one event can make it rename one, for each such rename
uses up the event that causes it, and causes one. Either the directory gets the allowed name of
its own, which is free because the two come to the same (`SameFinalFree`), or the name it had
before, and `BackFree` says that nobody has taken that: it was free after the rename that left
it, and users who act meanwhile lose the course. `MoveDirApart` shows what both need, that a
rename to a free name beside it keeps `Distinct` and everything that is there. `CourseInv` was
checked with TLC on the instance of `DirectoryIndex_users` first.

They assume what `WatchedTree` and `DirectoryIndex` name: the layout `build` has indexed is
finite, holds the directories above each of its directories and no two names in one that come
to the same, as after `build` has given them allowed names, and `MaxLost` is not above `MaxActs`.

`IndexFollowsProofs` proves, under the same conditions:

* `TasksStay`: `Spec => []FollowersLive`;
* `IndexFollowsDirectory`: `Spec => []IndexFollows`.

What the index holds at any moment says little: events are handled long after what they report,
the service's own renames add more, and some are to be skipped. The invariant `FollowInv` is a
prediction. `Ends(t, s, u)` says that the changes `s` take the tree `t` to `u`, none of them with a
panic. There is a tree `v` that the manager's mailbox makes of the tree there is; and on an even
course what the events of the watcher will tell (`Ops`) makes of `v` a tree that mirrors the
directory as it is now (`Mirrors`). The proof never looks into the middle of a queue: a user's
action adds events at its end and changes what is mirrored (`EvenGrows`), the watcher takes one from its
front (`EvenNext`) and tells the manager what was predicted of it, and runs of changes can be put together
(`EndsBoth`).

One thing keeps that from being a function of the mailbox. What is told of a new file whose name is
not allowed depends on whether the file is there when its event is handled; if it is, it gets
the event of a rename of the service's own, which is skipped. `Predicted` therefore holds for
every set `U` of such files that might be gone by then, with what is mirrored being the directory
without `U`. Around it `OnceMade`, `RawReported` and `NameKept` say that each such file that is there
has exactly one event and that no event under way gives another file the name it will get, and `SkipsDue`
that a name is remembered to be skipped only while the event it is for comes before all others that
give a file that name. `OnceMade` is what fails with a file that is made again (`remake_file`);
that is how this case was found, which takes four user actions where the run has three.

While a directory is being renamed nothing else is under way (`RenamingFrom`). Then either the
predicted tree mirrors the directory, and the events left change nothing (`Harmless`) and use up what is
to be skipped (`Settled`), or one event makes a bucket whose name is not allowed (`Creation`), or one is `Effective`, and moving the entry it names gives the
mirror (`RenamingBothDir`): to the name it has, to the allowed name of its own, or back
(`BothKept`, `BothRenamed`, `BothRestored`). `MirrorsMove` shows that moving an entry of the
tree and renaming the directory agree, and `MoveTwice` and `MoveNowhere` that the service's rename
after the user's comes to one rename.

`FollowersLive` is the part of `FollowInv` that says no predicted change panics and no unwrap fails
(`UnseenOK` and the parts of `EvenNamed` bound what events can name); `IndexFollows` is `Mirrors`
when both mailboxes are empty (`InvFollows`). `Init` has it because what `build` makes of a layout
lists each file once (`BuiltMirrors`, `Listing`). `FollowInv` quantifies over functions and trees, and TLC
cannot evaluate it; what it was tried on first is `IndexFollows` itself.

Beyond the above they assume that the files `build` indexed have allowed names, as it has
normalised them.

`StartupProofs` proves for any layouts, names, crashes, failures and users:

* `StartIsTyped`: `Spec => []TypeOK`;
* `NoStrays`: `Spec => []NoStrayRecords`. The ids kept are of files found (`IdsOK`), so that
  the purge leaves records of nothing else;
* `IndexIsTheDirectory`: `Spec => []IndexIsDirectory`;
* `RecordsStay`: `Spec => KnownRecordsStay`.

The last two need an invariant of the walk, `WalkInv`. It is stated over `Canon`, the path
something has once every name in it is normalised, which no rename of the service changes.
`TreeOK` says that what is on disk lies in directories that are there and that no two of them
come to the same path: a rename then never lands on something else, and moves exactly what
lies below it. Of the things still to do, `Ahead` says that nothing that comes to lie below one
is done already or another thing to do, `There` that they and what was found are still on disk
unless users touched them, and `Covered` that whatever is on disk is in the index, touched,
held up by a name that cannot be changed, or comes to lie below something to do. When nothing
is left to do, `Covered` and `There` are `IndexIsDirectory`. `Ahead` is what makes a step
local: a rename takes all that lies below with it, and no other task is for anything there, nor
is any of it in the index under its old path. `Whole` says that who touched a directory
touched what is in it. Directories that come to the same path are the same, since on
the way to them, each of which is on disk, no two names of a directory come to the same; this is
shown by taking the first place where they would differ (`ApartFromDistinct`), without induction
over data.

`Held` is true of less than the `Stuck` of the property is: a bucket is opened whatever its name is, so
that what lies below a bucket with a lossy name is walked and comes into the index. The
records need that: such a file can have had a record when the service started. `ClearOK` says
that a record, and whatever is going to be looked up, has no lossy name below its bucket, so
that its file is not held up as long as no call fails; and `KnownOK` that, until the purge,
no record has gone and those of files found are kept (`ids`). When the walk is over, the file
of a record the service started with is found, or users touched it, or it is gone.

They assume what `WatchedTree` and `Startup` name: normalising a name twice changes nothing
more; a name is a directory's or a file's, and none is empty; the name given in the place of an
empty one can be renamed, as it is UTF-8; a layout holds the directories above each of its
directories. `WalkInv` and `KnownInv` were checked with TLC on the instance of
`Startup_restarts` before they were proved.

`WsBrokerProofs` proves for any finite set of clients, any capacities and any number of
messages:

* `NobodyForgotten`: `Spec => []NoOneForgotten`. `MailInv` relates each message in the
  broker's mailbox to the state of the handler that sent it: an `Ubsubscriber` is there
  exactly as long as the handler is over and still an observer;
* `MessagesInOrder`: `Spec => []InOrder`. The messages in the mailbox are those after the
  one the broker has, in their order (`NextInv`); `todo` holds each observer that has not
  got it yet, once (`TodoInv`); and what a client got and what waits for it is one run
  that ends with the broker's message or the one before (`RunInv`);
* `BrokerIsTyped`: `Spec => []TypeOK`, with the bounds of the mailboxes (`BoundsInv`).

They assume `CapacityAssumption`: finitely many clients, and room for at least one message
in each mailbox.

`HandlersProofs` proves of `Accounts`, for every table, every set of clients and changes, and any number
of starts and requests:

* `TokensAreOfTheirRun`: `AccountsSpec => []TokensOfThisRun`. `TokensInv` adds that a token was
  signed with the key of its run and that a service past `WritePriv` or `WritePub` has made
  that key itself: with `WritePriv` reusing a file, a start that ended between the two
  would break it;
* `DeletedChangeNothing`: `AccountsSpec => DeletedAreHarmless`. A request whose sender is gone is
  either still to be checked, and the check fails as long as the row does not come back, or
  an update of the sender's own row, which finds none. `GhostsInv` says so; that no row
  comes back while requests are served is `RowsOnlyGo`;
* `UpdatesChangeAsAsked`: `AccountsSpec => ChangesAsAsked`. The order of a map is an injection from
  1..n to its n keys and so onto them (`OrdersAreOnto`, by counting), so that every column
  asked for is in the statement with its own value, whatever the order (`WrittenAsAsked`);
* `AccountsAreTyped`: `AccountsSpec => []AccountsOK`. `TableInv` says that the table is one of users with
  unique names, `ServiceInv` that tokens and requests are of this run or earlier ones;
* `NobodyIsLockedOut`: `AccountsSpec => []SomebodyCanLogIn`. As long as no password was replaced and
  no name taken away, rows keep passwords a login accepts (`KnownInv`); the default account, or a
  user with its id or name, is there after a start whose insertion the database did not refuse;
  and whoever takes the name of the default account from one who cannot log in must have
  logged in, so that the senders of requests can (`SomebodyInv`). What is excluded is in the
  property: a refused insertion, a deletion in this start, a password or name that was
  taken away, and a row the program cannot read in the place of the default account.

They assume `UsersAssumption` and `TablesAssumption`: the tables are tables of users with
unique names whose passwords, where there are any, are hashes of known ones, and an update
gives finitely many values.

Of `Upload` it proves for all bodies, all ways they come in chunks, any capacity of the
Buffer, any `FileMax` not below it, and any number of faults:

* `UploadTypes`: `Spec => []TypeOK`, with the bound of the Buffer;
* `UploadInOrder`: `Spec => []InOrder`;
* `UploadFilesWhole`: `Spec => []FilesWhole`;
* `PromiseSafety`: every step of an upload is a step of `UploadPromise` or a stutter, and
  initial states map to initial states: taking up a part, which begins its `File::create`,
  is `Open`, flushing it `Save`, and the first step after which the upload is over `End`. A
  file that is created after that belongs to the part that stays open: a stutter.

The inductive invariant is `UploadInv`. `Complete` says that disk, File, Buffer, bytes in
hand and bytes to come are the part, in this order, for the part being received; each way
bytes take (past the Buffer, into it, out of it, to the disk) moves them from one of the
five to the next, which is associativity (`MovingKeeps`). `Counts` ties `written` to the
chunks taken, so that the size that is logged is the part's (`Arrived`). `Logged` says that
a part is begun only when those before it are logged and written: the flush waits for the
File, and nothing is in flight between two parts. Without it `Saved`, that a logged file
stays whole, is not inductive: a late write would go to a file that was logged. With it a write
goes to a part that is not logged yet (`DiskChanges`), and a logged part of the same name has
given way to that one; and a `File::create` that is still under way is that of the last part
taken up, which is not logged (`Opened`), also when nobody waits for it any more. The offsets of chunks are a recursive function; that it meets its
equations, and grows, is shown by taking the least length for which it would not
(`OffsetFacts`, `OffsetInSize`), which needs no induction over data.

They assume `BodiesAssumption` and `CapacityAssumption`: bodies are sequences of parts, the
Buffer holds at least one byte, and the File takes at least as much at once as the Buffer
holds (2 MiB against 8 KiB in the code).

Only model-checked:

* all liveness (`Drains`, `HandlesAreReleased`, `Settles`, `Starts`, `TreeServed`, `Leaves`,
  the fairness of `ImplementsWatch` and `KeepsPromise`), which is out of the prover's reach.

## Not modelled

* A file or directory that is made in a directory before inotify has a watch on it: the
  recursive watch is added when the event of the new directory is read, and there is no
  event for what was made before. The index of the code misses such a file; in
  `DirectoryIndex` everything below the root is watched at once, so `IndexFollows` does not
  speak of it.
* The gRPC services of `directory` and `auth`: look-ups and a stub, no state (the lock
  `file_name` takes is in `TreeLock`).
* The token check of `directory` (`handlers/auth_layer.rs`), the contents of HTTP
  answers, sizes and times of objects; the poll watcher, which nothing starts.
* The other handlers of `upload_files`, its logs and its user model.
* Requests of `auth` about buckets the database refuses by their columns, and its
  permission conversions, which are tables.
* Middleware, CORS, body parsing: I/O around libraries.

## Plan

1. `BucketTree`, `LocalStorage`, `Manager`: the two stores. Done, all safety proved.
2. `RenameControl` with `RenameWatch`: done, safety proved.
3. `DirectoryIndex`, `WatchedTree`: the index and the directory. Done.
4. `Startup`, `WsBroker`, `Accounts`, `Upload`: done, safety proved. `TreeLock`: done; its
   properties are liveness.
5. `TreeLock` and `WsBroker` are not composed. A handler of a websocket starts when the
   upgrade is over, which is after the response, and `TreeLock_upgrade` shows that there
   is none while the client stays: in the composition the broker would have no client. It
   becomes worth having when `subscriber` no longer waits under the lock.
6. `DirectoryIndexProofs`, `IndexMirrorsProofs`, `IndexFollowsProofs`: done, every safety
   property of every run that passes is proved.
