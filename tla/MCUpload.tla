------------------------------ MODULE MCUpload ------------------------------
(***************************************************************************)
(* Small instances of Upload: a Buffer of three bytes, a File that takes   *)
(* four, chunks below, at and above both.                                  *)
(***************************************************************************)
EXTENDS Upload, FiniteSets

CONSTANTS f, g

MCFileNames == {f, g}

SizesOfChunks == {1, 2, 3, 5}

Good(n, chunks) == [name |-> n, header |-> "good", chunks |-> chunks]

\* A part in up to three chunks.
OnePart ==
    {<<Good(f, s)>> : s \in UNION {[1 .. n -> SizesOfChunks] : n \in 0 .. 3}}

\* A part, then a part for the same file or another, or one that is refused.
TwoParts ==
    {<<Good(f, s), [name |-> n, header |-> h, chunks |-> <<2, 1>>]>> :
        s \in {<<2>>, <<2, 2>>, <<5, 1>>}, n \in {f, g}, h \in Headers}

MCBodies == {<<>>} \cup OnePart \cup TwoParts
=============================================================================
