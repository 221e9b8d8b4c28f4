----------------------------- MODULE UploadBody -----------------------------
(***************************************************************************)
(* The body of an upload: a sequence of parts, each with the name of the   *)
(* file it is for, the chunks its content arrives in, and what is wrong    *)
(* with its headers, if anything.  A byte is its part and its place in it. *)
(***************************************************************************)
EXTENDS Naturals, Sequences

CONSTANTS
    FileNames,  \* the names of files
    Bodies      \* the bodies clients may send

Headers == {"good", "nameless", "untyped", "refused"}

Part == [name : FileNames, header : Headers, chunks : Seq(Nat)]

ASSUME BodiesAssumption == Bodies \subseteq Seq(Part)

\* The bytes of the first n chunks of a part.
Offset(part, n) ==
    LET sum[i \in 0 .. Len(part.chunks)] ==
            IF i = 0 THEN 0 ELSE sum[i - 1] + part.chunks[i]
    IN  sum[n]

Size(part) == Offset(part, Len(part.chunks))

\* The bytes from .. to of part p.
Bytes(p, from, to) == [i \in 1 .. to - from + 1 |-> <<p, from + i - 1>>]

Content(parts, p) == Bytes(p, 1, Size(parts[p]))
=============================================================================
