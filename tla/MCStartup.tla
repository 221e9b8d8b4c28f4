----------------------------- MODULE MCStartup -----------------------------
(***************************************************************************)
(* Small instances of Startup.  The names are those of MCDirectoryIndex,   *)
(* and bad and xf, which are not UTF-8.                                    *)
(***************************************************************************)
EXTENDS Startup, TLC

CONSTANTS a, b, bad, dash, inv, f, rf, xf, empty

MCNames == {a, b}
MCRawNames == {bad, dash, inv}
MCFileNames == {f}
MCRawFiles == {rf, xf}
MCLossy == {bad, xf}

MCNorm ==
    a :> a @@ b :> b @@ bad :> b @@ dash :> empty @@ inv :> a
    @@ f :> f @@ rf :> f @@ xf :> f

\* A bucket with a key and a file in it; users add the others.
Plain == [dirs |-> {<<b>>, <<b, b>>}, files |-> {<<<<b, b>>, f>>}]

\* A bucket and its file, both with raw names.
RawBucket == [dirs |-> {<<inv>>}, files |-> {<<<<inv>>, rf>>}]

Usual == {Plain, RawBucket}

OnlyPlain == {Plain}
=============================================================================
