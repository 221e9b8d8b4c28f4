---------------------------- MODULE LocalStorage ----------------------------
(***************************************************************************)
(* The MongoDB collection of object records behind LocalStorage            *)
(* (src/directory/src/state/local_storage/mod.rs): one operator per method *)
(* the manager calls, from the collection's content to the set of contents *)
(* the call may leave.  Bucket and key filters select on the path.         *)
(*                                                                         *)
(* `name` is the field object.name that set_name writes; the other fields  *)
(* of a record play no part in what the manager does with it.              *)
(***************************************************************************)
EXTENDS BucketTree

CONSTANT NoName     \* a record whose object.name was never set

Record == [at : Paths, file_name : FileNames, name : FileNames \cup {NoName}]

\* The unique index on (key, bucket, object.file_name).
SameIndex(r, s) == r.at = s.at /\ r.file_name = s.file_name

UniqueIndex(d) == \A r, s \in d : SameIndex(r, s) => r = s

\* UpdateMany on a collection without the unique index.
UpdateManyNoIndex(d, R, new) == {(d \ R) \cup {new[r] : r \in R}}

(***************************************************************************)
(* update_many of the rows in R, row r becoming new[r].  It is not a       *)
(* transaction: it goes through the rows in an order nobody fixes and      *)
(* stops at the first one the unique index rejects, so that any subset of  *)
(* the rows that collide with nothing may have been updated by then.       *)
(***************************************************************************)
UpdateMany(d, R, new) ==
    LET colliding == {r \in R : \E s \in d \ {r} : SameIndex(new[r], s)}
        after(U)  == (d \ U) \cup {new[r] : r \in U}
    IN  IF colliding = {} THEN {after(R)} ELSE {after(U) : U \in SUBSET (R \ colliding)}

new_object(d, p, f) ==
    LET r == [at |-> p, file_name |-> f, name |-> NoName]
    IN  IF \E s \in d : SameIndex(r, s) THEN {d} ELSE {d \cup {r}}

delete_object(d, p, f) == {{r \in d : ~(r.at = p /\ r.file_name = f)}}

\* Selects on object.file_name and sets object.name: file_name stays.
set_name(d, p, from, to) ==
    {{IF r.at = p /\ r.file_name = from THEN [r EXCEPT !.name = to] ELSE r : r \in d}}

set_name_bucket(d, from, to) ==
    LET rows == {r \in d : BucketOf(r.at) = from}
    IN  UpdateMany(d, rows, [r \in rows |-> [r EXCEPT !.at = <<to>> \o Tail(@)]])

\* set_name_key with its filter on the bucket left out.
set_name_key_any_bucket(d, p, to) ==
    LET rows == {r \in d : Tail(r.at) = Tail(p)}
    IN  UpdateMany(d, rows,
                   [r \in rows |-> [r EXCEPT !.at = <<BucketOf(r.at), to>>]])

\* The rows with exactly this key get the new segment as their whole key.
set_name_key(d, p, to) ==
    LET rows == {r \in d : r.at = p}
    IN  UpdateMany(d, rows, [r \in rows |-> [r EXCEPT !.at = <<BucketOf(p), to>>]])

\* delete_bucket with the filter of delete_key on the root key.
delete_bucket_root(d, b) == {{r \in d : r.at # <<b>>}}

delete_bucket(d, b) == {{r \in d : BucketOf(r.at) # b}}

delete_key(d, p) == {{r \in d : r.at # p}}
=============================================================================
