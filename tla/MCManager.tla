----------------------------- MODULE MCManager -----------------------------
(***************************************************************************)
(* Small instances of Manager for TLC: two directory names that serve as   *)
(* buckets and as segments, two file names, and the trees build makes of   *)
(* some directory layouts (keys is Some exactly when a sub-directory was   *)
(* found).                                                                 *)
(***************************************************************************)
EXTENDS Manager, FiniteSets, TLC

CONSTANTS x, y, f, g

MCNames == {x, y}

MCFileNames == {f, g}

\* The tree built for the directories in D with the files files[p].
Built(D, files) ==
    [p \in D |->
        [objects |-> IF p \in DOMAIN files THEN files[p] ELSE <<>>,
         keys    |-> \E q \in D : Len(q) > 1 /\ Parent(q) = p]]

\* Nothing yet; one flat bucket; two buckets with the same key in both.
FlatTrees ==
    {Built({}, <<>>),
     Built({<<x>>}, <<x>> :> <<f>>),
     Built({<<x>>, <<y>>, <<x, y>>, <<y, y>>},
           <<x, y>> :> <<f>> @@ <<y, y>> :> <<f>>)}

\* A key below a key, with files at both levels, beside another bucket.
DeepTrees ==
    {Built({<<x>>, <<y>>, <<x, x>>, <<x, x, y>>},
           <<x, x>> :> <<f>> @@ <<x, x, y>> :> <<g>>),
     Built({<<x>>, <<x, x>>, <<x, y>>, <<x, x, y>>},
           <<x, x, y>> :> <<f>> @@ <<x, y>> :> <<g>>)}

AllTrees == FlatTrees \cup DeepTrees

\* The changes of buckets, and those of x's keys and of the objects in x and in
\* the keys directly below it: with y's instead, x and y change their parts.
MCChanges ==
    {c \in Change :
        \/ c.type \in {"new_bucket", "delete_bucket", "name_bucket"}
        \/ /\ c.at[1] = x
           /\ c.type \in {"new_object", "delete_object", "name_object"} => Len(c.at) < 3}
=============================================================================
