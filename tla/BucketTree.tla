----------------------------- MODULE BucketTree -----------------------------
(***************************************************************************)
(* The in-memory index of the directory service: BucketMap and KeyEntry    *)
(* (src/directory/src/bucket/bucket_map.rs) and the changes applied to it. *)
(*                                                                         *)
(* A bucket and a key below it are written as one path, a non-empty        *)
(* sequence of directory names whose first element is the bucket; the root *)
(* key "." of bucket b is the path <<b>>.  The nested BTreeMaps become one *)
(* function from the paths that have a KeyEntry to                         *)
(*   objects : the file names of the entry's Vec<Object>, in order, None   *)
(*             and the empty vector being the same here;                   *)
(*   keys    : whether the Option holding the child map is Some.           *)
(***************************************************************************)
EXTENDS Naturals, Sequences

CONSTANTS
    Names,      \* directory names (a bucket or one segment of a key)
    FileNames,  \* file names
    MaxDepth    \* longest path: the bucket and MaxDepth - 1 segments

ASSUME DepthAssumption == MaxDepth \in Nat \ {0}

Paths == UNION {[1 .. n -> Names] : n \in 1 .. MaxDepth}

KeyEntry == [objects : Seq(FileNames), keys : BOOLEAN]

\* KeyEntry::default: neither objects nor a child map.
EmptyEntry == [objects |-> <<>>, keys |-> FALSE]

Parent(p) == SubSeq(p, 1, Len(p) - 1)

Name(p) == p[Len(p)]

BucketOf(p) == p[1]

\* q is p or lies below it.
Under(p, q) == Len(p) <= Len(q) /\ SubSeq(q, 1, Len(p)) = p

\* The place below `to` of the path q that lies below `from`.
Rebase(q, from, to) == to \o SubSeq(q, Len(from) + 1, Len(q))

(***************************************************************************)
(* What nesting guarantees of the flat representation: an entry hangs in   *)
(* the child maps of all entries above it, which are there and Some.       *)
(***************************************************************************)
Nested(t) ==
    \A p \in DOMAIN t : \A n \in 1 .. Len(p) - 1 :
        SubSeq(p, 1, n) \in DOMAIN t /\ t[SubSeq(p, 1, n)].keys

IsTree(t) ==
    /\ DOMAIN t \in SUBSET Paths
    /\ t \in [DOMAIN t -> KeyEntry]
    /\ Nested(t)

-----------------------------------------------------------------------------
\* BTreeMap::entry(..).or_default(): an entry already there is kept.
OrDefault(t, p) ==
    [q \in DOMAIN t \cup {p} |-> IF q \in DOMAIN t THEN t[q] ELSE EmptyEntry]

\* BTreeMap::remove: the entry goes with everything below it.
RemoveEntry(t, p) == [q \in {r \in DOMAIN t : ~Under(p, r)} |-> t[q]]

\* remove(from) then insert(to, entry): what was at `to` is dropped.
MoveEntry(t, from, to) ==
    LET kept  == {q \in DOMAIN t : ~Under(from, q) /\ ~Under(to, q)}
        moved == {Rebase(q, from, to) : q \in {r \in DOMAIN t : Under(from, r)}}
    IN  [q \in kept \cup moved |->
            IF q \in moved THEN t[Rebase(q, to, from)] ELSE t[q]]

\* Position of the first object called f: iter().position / iter_mut().find.
IndexOf(s, f) ==
    CHOOSE i \in DOMAIN s : s[i] = f /\ \A j \in 1 .. i - 1 : s[j] # f

Holds(s, f) == \E i \in DOMAIN s : s[i] = f

\* Vec::swap_remove: the last element takes the freed place.
SwapRemove(s, i) ==
    [j \in 1 .. Len(s) - 1 |-> IF j = i THEN s[Len(s)] ELSE s[j]]

-----------------------------------------------------------------------------
(***************************************************************************)
(* One operator per arm of BucketMap::change.                              *)
(***************************************************************************)
TreeNewObject(t, p, f) ==
    IF p \in DOMAIN t THEN [t EXCEPT ![p].objects = Append(@, f)] ELSE t

\* A bucket's key map and a key's key map are handled alike (lines 185-206).
TreeNewKey(t, p) == IF Parent(p) \in DOMAIN t THEN OrDefault(t, p) ELSE t

TreeNewBucket(t, b) == OrDefault(t, <<b>>)

TreeNameObject(t, p, from, to) ==
    IF p \in DOMAIN t /\ Holds(t[p].objects, from)
    THEN [t EXCEPT ![p].objects[IndexOf(t[p].objects, from)] = to]
    ELSE t

\* An existing target is only logged; then it is overwritten (lines 243-248).
TreeNameBucket(t, from, to) ==
    IF <<from>> \in DOMAIN t THEN MoveEntry(t, <<from>>, <<to>>) ELSE t

\* As TreeNameKey below, without the early return on an existing target.
TreeNameKeyOverwriting(t, p, to) ==
    LET new == Append(Parent(p), to)
    IN  IF Parent(p) \notin DOMAIN t
        THEN t
        ELSE IF p \in DOMAIN t THEN MoveEntry(t, p, new) ELSE OrDefault(t, new)

\* A missing source becomes an empty entry: old.unwrap_or_default().
TreeNameKey(t, p, to) ==
    LET new == Append(Parent(p), to)
    IN  IF Parent(p) \notin DOMAIN t \/ new \in DOMAIN t
        THEN t
        ELSE IF p \in DOMAIN t THEN MoveEntry(t, p, new) ELSE OrDefault(t, new)

TreeDeleteObject(t, p, f) ==
    IF p \in DOMAIN t /\ Holds(t[p].objects, f)
    THEN [t EXCEPT ![p].objects = SwapRemove(@, IndexOf(@, f))]
    ELSE t

TreeDeleteKey(t, p) == IF Parent(p) \in DOMAIN t THEN RemoveEntry(t, p) ELSE t

TreeDeleteBucket(t, b) == RemoveEntry(t, <<b>>)

-----------------------------------------------------------------------------
\* The enum Change, under the tags serde gives its variants.
Change ==
    [type : {"new_object", "delete_object"}, at : Paths, name : FileNames]
    \cup [type : {"name_object"}, at : Paths, from : FileNames, to : FileNames]
    \cup [type : {"new_bucket", "delete_bucket"}, bucket : Names]
    \cup [type : {"name_bucket"}, from : Names, to : Names]
    \cup [type : {"new_key", "delete_key"}, at : {p \in Paths : Len(p) > 1}]
    \cup [type : {"name_key"}, at : {p \in Paths : Len(p) > 1}, to : Names]

\* The early returns and the arms of BucketMap::change.
Apply(t, c) ==
    CASE c.type = "new_object"    -> TreeNewObject(t, c.at, c.name)
      [] c.type = "new_key"       -> TreeNewKey(t, c.at)
      [] c.type = "new_bucket"    -> TreeNewBucket(t, c.bucket)
      [] c.type = "name_object"   -> TreeNameObject(t, c.at, c.from, c.to)
      [] c.type = "name_bucket"   -> TreeNameBucket(t, c.from, c.to)
      [] c.type = "name_key"      -> TreeNameKey(t, c.at, c.to)
      [] c.type = "delete_object" -> TreeDeleteObject(t, c.at, c.name)
      [] c.type = "delete_key"    -> TreeDeleteKey(t, c.at)
      [] c.type = "delete_bucket" -> TreeDeleteBucket(t, c.bucket)

\* keys.as_mut().unwrap() on the parent of the key that is named.
Panics(t, c) ==
    /\ c.type \in {"new_key", "name_key", "delete_key"}
    /\ Parent(c.at) \in DOMAIN t
    /\ ~t[Parent(c.at)].keys

\* The objects of a tree with the entry that holds them.
Objects(t) ==
    UNION {{<<p, t[p].objects[i]>> : i \in DOMAIN t[p].objects} : p \in DOMAIN t}

NoDuplicates(s) == \A i, j \in DOMAIN s : s[i] = s[j] => i = j
=============================================================================
