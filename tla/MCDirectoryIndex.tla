-------------------------- MODULE MCDirectoryIndex --------------------------
(***************************************************************************)
(* Small instances of DirectoryIndex: two directory names and two file     *)
(* names that are allowed, and names that are normalised: ra to a, as "-a" *)
(* is to "a"; dash, as "--", to nothing; inv, as "INVALID_NAME-x", to the  *)
(* a of "INVALID_NAME_x"; rf to f.                                         *)
(***************************************************************************)
EXTENDS DirectoryIndex, TLC

CONSTANTS a, b, ra, dash, inv, f, g, rf, dot, empty

MCNames == {a, b}
MCRawNames == {ra, dash, inv}
MCFileNames == {f, g}
MCRawFiles == {rf}

MCNorm ==
    a :> a @@ b :> b @@ ra :> a @@ dash :> empty @@ inv :> a
    @@ f :> f @@ g :> g @@ rf :> f

\* A bucket with a key that has a file, as build indexed it.
MCDirs == {<<b>>, <<b, b>>}
MCFiles == {<<<<b, b>>, f>>}

\* Everything users do.
AllActs ==
    {"create_bucket", "create_bucket_raw", "create_key", "create_file", "rename_file",
     "rename_folder", "delete_folder", "move_in"}
    \cup NotFollowed

Renames == {"rename_folder"}
=============================================================================
