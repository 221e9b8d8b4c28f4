---------------------------- MODULE WatchedTree ----------------------------
(***************************************************************************)
(* The names users may give to directories and files below the watched     *)
(* root, and what the service makes of the ones it does not allow          *)
(* (src/directory/src/bucket/utils/normalizeds.rs).  A directory is a path *)
(* as in BucketTree, a file a pair of its directory's path and its name.   *)
(***************************************************************************)
EXTENDS BucketTree, FiniteSets

CONSTANTS
    RawNames,       \* directory names normalisation changes
    RawFiles,       \* file names normalisation changes
    Norm,           \* what NormalizePathUtf8 and NormalizeFileUtf8 make of a name
    Empty,          \* the empty name, which some directory names are normalised to
    Invalid         \* the name such a directory gets when it is new

ASSUME NormAssumption ==
    /\ Norm \in [Names \cup RawNames \cup FileNames \cup RawFiles
                  -> Names \cup FileNames \cup {Empty}]
    /\ \A n \in Names \cup RawNames : Norm[n] \in Names \cup {Empty}
    /\ \A n \in FileNames \cup RawFiles : Norm[n] \in FileNames
    /\ \A n \in Names \cup FileNames : Norm[n] = n
    /\ \A n \in RawNames \cup RawFiles : Norm[n] # n
    /\ Invalid \in RawNames

\* A name is written as a directory's or as a file's, and none is empty.
ASSUME KindsAssumption ==
    /\ Names \cap FileNames = {}
    /\ Empty \notin Names \cup FileNames

DirNames == Names \cup RawNames
AllFiles == FileNames \cup RawFiles
FsPaths == UNION {[1 .. n -> DirNames] : n \in 1 .. MaxDepth}

\* Normal with the new name joined to the directory above.
NormalAbove(p) ==
    Append(IF Len(p) > 2 THEN Parent(Parent(p)) ELSE Parent(p), Norm[Name(p)])

\* The path with the name NormalizePathUtf8 or NormalizeFileUtf8 makes of its last.
Normal(p) == Append(Parent(p), Norm[Name(p)])

\* is_new: a name that would be empty is replaced, by one that is not allowed.
NormalNew(p) == IF Norm[Name(p)] = Empty THEN Append(Parent(p), Invalid) ELSE Normal(p)

\* Where the path x is after the directory p was renamed to q.
Moved(x, p, q) == IF Under(p, x) THEN Rebase(x, p, q) ELSE x

\* The name that is left in the end of a name that is chosen.
Final(n) == IF Norm[n] = Empty THEN Norm[Invalid] ELSE Norm[n]

\* No two names of a directory come to the same in the end.
Distinct(D, F) ==
    /\ \A p, q \in D : Parent(p) = Parent(q) /\ p # q => Final(Name(p)) # Final(Name(q))
    /\ \A x, y \in F : x[1] = y[1] /\ x # y => Norm[x[2]] # Norm[y[2]]

\* The tree build makes of the directories D and their files F.
Built(D, F) ==
    [p \in D |->
        [objects |-> CHOOSE s \in [1 .. Cardinality({x \in F : x[1] = p}) -> AllFiles] :
                        {s[i] : i \in DOMAIN s} = {x[2] : x \in {y \in F : y[1] = p}},
         keys    |-> \E q \in D : Len(q) > 1 /\ Parent(q) = p]]
=============================================================================
