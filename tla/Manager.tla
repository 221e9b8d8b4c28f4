------------------------------ MODULE Manager ------------------------------
(***************************************************************************)
(* The Manager actor (src/directory/src/manager/mod.rs): one task that     *)
(* takes changes from an unbounded mailbox and applies each of them first  *)
(* to the database (change_local_storage) and then, under the write lock,  *)
(* to the tree (BucketMap::change).  The two are separate steps: a reader  *)
(* of the tree may run between them, and a database error is logged and    *)
(* the tree changed all the same.                                          *)
(*                                                                         *)
(* A change that unwraps a child map that is None panics.  The panic ends  *)
(* the task and drops its receiver: what is in the mailbox is lost, and so *)
(* is every later change, because tell ignores the send error.             *)
(***************************************************************************)
EXTENDS LocalStorage

CONSTANTS
    Changes,    \* the changes the event watcher may send
    InitialTrees, \* the trees build may leave
    MaxTells,   \* bound on the changes told in a behaviour
    MaxFaults   \* bound on the database calls that fail

ASSUME BoundsAssumption == MaxTells \in Nat /\ MaxFaults \in Nat

ASSUME ChangesAssumption == Changes \subseteq Change

ASSUME InitialTreesAssumption == \A t \in InitialTrees : IsTree(t)

VARIABLES
    tree,       \* the BucketMap behind the RwLock
    db,         \* the collection of object records
    mailbox,    \* the manager's channel; its head is the change in hand
    pc,         \* "recv": between changes; "tree": the database has been written
    alive,      \* FALSE once the task has panicked
    told,       \* changes told so far
    faults,     \* database calls failed so far
    clean       \* history: nothing has yet set tree and database apart

vars == <<tree, db, mailbox, pc, alive, told, faults, clean>>

change == Head(mailbox)

\* The arms of change_local_storage; new_key and new_bucket have none.
Store(d, c) ==
    CASE c.type = "new_object"    -> new_object(d, c.at, c.name)
      [] c.type = "delete_object" -> delete_object(d, c.at, c.name)
      [] c.type = "name_object"   -> set_name(d, c.at, c.from, c.to)
      [] c.type = "delete_bucket" -> delete_bucket(d, c.bucket)
      [] c.type = "name_bucket"   -> set_name_bucket(d, c.from, c.to)
      [] c.type = "name_key"      -> set_name_key(d, c.at, c.to)
      [] c.type = "delete_key"    -> delete_key(d, c.at)
      [] c.type \in {"new_key", "new_bucket"} -> {d}

-----------------------------------------------------------------------------
(***************************************************************************)
(* The tree and the database agree: every object of the tree has its       *)
(* record, every record its object, and no entry lists a name twice.       *)
(***************************************************************************)
Agree(t, d) ==
    /\ \A p \in DOMAIN t : NoDuplicates(t[p].objects)
    /\ Objects(t) = {<<r.at, r.file_name>> : r \in d}

ObjectsBelow(t, p) == {x \in Objects(t) : Under(p, x[1]) /\ x[1] # p}

\* The records of a tree's objects as new_object writes them.
RecordsOf(t) ==
    {[at |-> x[1], file_name |-> x[2], name |-> NoName] : x \in Objects(t)}

(***************************************************************************)
(* The changes that set a tree and a database that agree apart, found by   *)
(* comparing the filters of LocalStorage with the arms of change.          *)
(***************************************************************************)
SetsApart(t, c) ==
    \* An object its entry lists already, or whose entry the tree lacks.
    \/ /\ c.type = "new_object"
       /\ c.at \in DOMAIN t => Holds(t[c.at].objects, c.name)
    \* The record of a renamed object keeps its file_name.
    \/ /\ c.type = "name_object"
       /\ c.from # c.to
       /\ <<c.at, c.from>> \in Objects(t)
    \* The bucket that had the new name is dropped, its records are not.
    \/ /\ c.type = "name_bucket"
       /\ c.from # c.to
       /\ <<c.from>> \in DOMAIN t
       /\ <<c.to>> \in DOMAIN t
       /\ \E x \in Objects(t) : BucketOf(x[1]) = c.to
    \* Only records with exactly the renamed key change, to a key of one
    \* segment, and they change even when the tree refuses the rename.
    \/ /\ c.type = "name_key"
       /\ c.at \in DOMAIN t
       /\ IF Append(Parent(c.at), c.to) \in DOMAIN t
          THEN t[c.at].objects # <<>> /\ c.at # <<BucketOf(c.at), c.to>>
          ELSE \/ t[c.at].objects # <<>> /\ Len(c.at) > 2
               \/ ObjectsBelow(t, c.at) # {}
    \* Only records with exactly the deleted key go.
    \/ c.type = "delete_key" /\ ObjectsBelow(t, c.at) # {}

-----------------------------------------------------------------------------
(***************************************************************************)
(* The state main.rs starts the manager in: the tree build made of the     *)
(* directories, with the records of all or some of its files.              *)
(***************************************************************************)
Init ==
    /\ tree \in InitialTrees
    /\ db \in SUBSET RecordsOf(tree)
    /\ mailbox = <<>>
    /\ pc = "recv"
    /\ alive = TRUE
    /\ told = 0
    /\ faults = 0
    /\ clean = Agree(tree, db)

\* ActorRef::tell by the event watcher; without a receiver the change is lost.
Tell(c) ==
    /\ told < MaxTells
    /\ told' = told + 1
    /\ mailbox' = IF alive THEN Append(mailbox, c) ELSE mailbox
    /\ UNCHANGED <<tree, db, pc, alive, faults, clean>>

\* change_local_storage (line 89), the database answering.
ChangeLocalStorage ==
    /\ pc = "recv"
    /\ mailbox # <<>>
    /\ db' \in Store(db, change)
    /\ pc' = "tree"
    /\ clean' = (clean /\ ~SetsApart(tree, change))
    /\ UNCHANGED <<tree, mailbox, alive, told, faults>>

\* The database call fails: the error is logged and the change goes on.
StorageFails ==
    /\ pc = "recv"
    /\ mailbox # <<>>
    /\ faults < MaxFaults
    /\ faults' = faults + 1
    /\ pc' = "tree"
    /\ clean' = (clean /\ ~SetsApart(tree, change) /\ Store(db, change) = {db})
    /\ UNCHANGED <<tree, db, mailbox, alive, told>>

\* state.write().await.change(..) (line 90), run to its end.
ChangeTree ==
    /\ pc = "tree"
    /\ ~Panics(tree, change)
    /\ tree' = Apply(tree, change)
    /\ mailbox' = Tail(mailbox)
    /\ pc' = "recv"
    /\ UNCHANGED <<db, alive, told, faults, clean>>

\* Panic with the receiver kept open: the mailbox survives the task.
PanicKeepingMailbox ==
    /\ pc = "tree"
    /\ Panics(tree, change)
    /\ alive' = FALSE
    /\ pc' = "recv"
    /\ UNCHANGED <<tree, db, mailbox, told, faults, clean>>

\* The unwrap panics: the task and its mailbox are gone, the guard is released.
Panic ==
    /\ pc = "tree"
    /\ Panics(tree, change)
    /\ alive' = FALSE
    /\ mailbox' = <<>>
    /\ pc' = "recv"
    /\ UNCHANGED <<tree, db, told, faults, clean>>

Handle == ChangeLocalStorage \/ StorageFails \/ ChangeTree \/ Panic

Next == (\E c \in Changes : Tell(c)) \/ Handle

\* The runtime keeps polling a task that can go on, and a database call is over
\* some day; nobody has to send, and the task may wait for the tree for ever.
Spec == Init /\ [][Next]_vars /\ WF_vars(ChangeLocalStorage \/ StorageFails)

\* Whenever the task waits for the tree the lock is granted in the end: it is not
\* while an upgrade's client stays (TreeLock).
LockGranted == WF_vars(ChangeTree \/ Panic)

-----------------------------------------------------------------------------
\* Types, the nesting of the tree, the unique index, and what a task that is
\* dead or between two changes leaves behind.
TypeOK ==
    /\ IsTree(tree)
    /\ db \subseteq Record
    /\ UniqueIndex(db)
    /\ mailbox \in Seq(Changes)
    /\ pc \in {"recv", "tree"}
    /\ pc = "tree" => mailbox # <<>>
    /\ alive \in BOOLEAN
    /\ ~alive => mailbox = <<>>
    /\ told \in 0 .. MaxTells
    /\ faults \in 0 .. MaxFaults
    /\ clean \in BOOLEAN

(***************************************************************************)
(* Starting from agreement, the tree and the database agree again after    *)
(* every change, panics included, as long as no database call failed and   *)
(* no change was one of those SetsApart lists: the two writes of Manager's *)
(* handle (lines 89-90) select the same objects for all other changes.     *)
(***************************************************************************)
InStep == pc = "recv" /\ clean => Agree(tree, db)

\* The buckets a change names.
Touched(c) ==
    CASE c.type \in {"new_bucket", "delete_bucket"} -> {c.bucket}
      [] c.type = "name_bucket" -> {c.from, c.to}
      [] OTHER -> {BucketOf(c.at)}

BucketTreeOf(t, b) == {<<p, t[p]>> : p \in {q \in DOMAIN t : BucketOf(q) = b}}

BucketRows(d, b) == {r \in d : BucketOf(r.at) = b}

(***************************************************************************)
(* Neither write of a change reaches an entry or a record of a bucket the  *)
(* change does not name, whatever keys the buckets share.                  *)
(***************************************************************************)
Isolation ==
    [][\A b \in Names :
          mailbox = <<>> \/ b \notin Touched(change) =>
             /\ BucketTreeOf(tree', b) = BucketTreeOf(tree, b)
             /\ BucketRows(db', b) = BucketRows(db, b)]_<<tree, db>>

(***************************************************************************)
(* Renaming a key never drops an object from the index, whether the source *)
(* is missing, the target exists or the key has keys below it: every       *)
(* object is where it was or at the same place below the new name.         *)
(***************************************************************************)
NameKeyKeepsObjects ==
    [][(pc = "tree" /\ change.type = "name_key") =>
          LET new == Append(Parent(change.at), change.to)
          IN  \A x \in Objects(tree) :
                 \/ x \in Objects(tree')
                 \/ /\ Under(change.at, x[1])
                    /\ <<Rebase(x[1], change.at, new), x[2]>> \in Objects(tree')
                    /\ ~\E y \in Objects(tree) : Under(new, y[1])]_tree

\* The mailbox is emptied again and again as long as the lock of the tree is
\* granted: a change that was told is handled, or lost with the task that would
\* have handled it, and never left where nobody reads it.
Drains == LockGranted => (mailbox # <<>> ~> mailbox = <<>>)
=============================================================================
