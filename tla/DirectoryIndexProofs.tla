------------------------ MODULE DirectoryIndexProofs ------------------------
(***************************************************************************)
(* Proofs about DirectoryIndex: whatever users do, and in whatever order   *)
(* what they did is reported and handled, directories lie in directories,  *)
(* the index is nested, and the watcher never waits for an answer nobody   *)
(* is going to give; and as long as the index may follow, no rename the    *)
(* service makes itself replaces anything.                                 *)
(***************************************************************************)
EXTENDS DirectoryIndex, SequenceTheorems, FiniteSetTheorems, WellFoundedInduction, TLAPS

-----------------------------------------------------------------------------
(***************************************************************************)
(* Paths.                                                                  *)
(***************************************************************************)
\* What paths are made of, those in events and in changes included.
Segs == DirNames \cup AllFiles \cup {Empty, Dot}

\* A set of numbers has a least element.
LEMMA LeastNumber ==
    ASSUME NEW T \in SUBSET Nat, T # {}
    PROVE  \E m \in T : \A k \in T : m <= k
<1>. DEFINE R == {ss \in Nat \X Nat : ss[1] < ss[2]}
<1>1. IsWellFoundedOn(R, Nat)
  BY NatLessThanWellFounded DEF OpToRel
<1>2. \A k, m \in T : k < m => <<k, m>> \in R
  OBVIOUS
<1>. HIDE DEF R
<1>3. PICK m \in T : \A k \in T : ~(<<k, m>> \in R)
  BY <1>1, WFMin
<1>4. \A k \in T : ~(k < m)
  BY <1>2, <1>3
<1>. QED BY <1>4

\* The first names of a path.
LEMMA PrefixFacts ==
    ASSUME NEW S, NEW x \in Seq(S), NEW k \in 0 .. Len(x)
    PROVE  /\ SubSeq(x, 1, k) \in Seq(S) /\ Len(SubSeq(x, 1, k)) = k
           /\ \A i \in 1 .. k : SubSeq(x, 1, k)[i] = x[i]
<1>1. k \in Nat /\ \A i \in 1 .. k : x[i] \in S
  OBVIOUS
<1>2. SubSeq(x, 1, k) \in Seq(S) /\ Len(SubSeq(x, 1, k)) = k
  BY <1>1, SubSeqProperties
<1>. QED BY <1>1, <1>2

\* To lie below a path is to have its names first.
LEMMA UnderIs ==
    ASSUME NEW S, NEW p \in Seq(S), NEW x \in Seq(S)
    PROVE  Under(p, x) <=> Len(p) <= Len(x) /\ \A i \in 1 .. Len(p) : p[i] = x[i]
<1>1. CASE Len(p) <= Len(x)
  <2>1. Len(p) \in 0 .. Len(x)
    BY <1>1
  <2>2. /\ SubSeq(x, 1, Len(p)) \in Seq(S) /\ Len(SubSeq(x, 1, Len(p))) = Len(p)
        /\ \A i \in 1 .. Len(p) : SubSeq(x, 1, Len(p))[i] = x[i]
    BY <2>1, PrefixFacts
  <2>. DEFINE y == SubSeq(x, 1, Len(p))
  <2>. HIDE DEF y
  <2>3. y \in Seq(S) /\ Len(y) = Len(p) /\ \A i \in 1 .. Len(p) : y[i] = x[i]
    BY <2>2 DEF y
  <2>4. y = p <=> \A i \in 1 .. Len(p) : p[i] = x[i]
    BY <2>3, SeqEqual
  <2>. QED BY <1>1, <2>4 DEF Under, y
<1>2. CASE ~(Len(p) <= Len(x))
  BY <1>2 DEF Under
<1>. QED BY <1>1, <1>2

\* Under is a partial order whose sets of larger elements are chains.
LEMMA UnderOrder ==
    ASSUME NEW S, NEW p \in Seq(S), NEW q \in Seq(S), NEW x \in Seq(S)
    PROVE  /\ Under(x, x)
           /\ Under(p, q) /\ Under(q, x) => Under(p, x)
           /\ Under(p, q) => Len(p) <= Len(q)
           /\ Under(p, q) /\ Len(p) = Len(q) => p = q
<1>1. Under(x, x)
  BY UnderIs
<1>2. ASSUME Under(p, q), Under(q, x) PROVE Under(p, x)
  <2>1. Len(p) <= Len(q) /\ \A i \in 1 .. Len(p) : p[i] = q[i]
    BY <1>2, UnderIs
  <2>2. Len(q) <= Len(x) /\ \A i \in 1 .. Len(q) : q[i] = x[i]
    BY <1>2, UnderIs
  <2>3. Len(p) <= Len(x) /\ \A i \in 1 .. Len(p) : p[i] = x[i]
    BY <2>1, <2>2
  <2>. QED BY <2>3, UnderIs
<1>3. Under(p, q) => Len(p) <= Len(q)
  BY DEF Under
<1>4. ASSUME Under(p, q), Len(p) = Len(q) PROVE p = q
  <2>1. \A i \in 1 .. Len(p) : p[i] = q[i]
    BY <1>4, UnderIs
  <2>. QED BY <1>4, <2>1, SeqEqual
<1>. QED BY <1>1, <1>2, <1>3, <1>4

\* A path is the one above it with its last name.
LEMMA SplitPath ==
    ASSUME NEW S, NEW p \in Seq(S), Len(p) # 0
    PROVE  /\ Parent(p) \in Seq(S) /\ Len(Parent(p)) = Len(p) - 1
           /\ Name(p) \in S /\ p = Append(Parent(p), Name(p))
           /\ Under(Parent(p), p)
<1>1. Len(p) \in Nat /\ Len(p) - 1 \in 0 .. Len(p)
  OBVIOUS
<1>. DEFINE k == Len(p) - 1
<1>2. k \in 0 .. Len(p)
  BY <1>1
<1>3. Parent(p) = SubSeq(p, 1, k)
  BY DEF Parent
<1>. HIDE DEF k
<1>4. /\ SubSeq(p, 1, k) \in Seq(S) /\ Len(SubSeq(p, 1, k)) = k
      /\ \A i \in 1 .. k : SubSeq(p, 1, k)[i] = p[i]
  BY <1>2, PrefixFacts
<1>5. Parent(p) \in Seq(S) /\ Len(Parent(p)) = k /\ \A i \in 1 .. k : Parent(p)[i] = p[i]
  BY <1>3, <1>4
<1>6. k = Len(p) - 1
  BY DEF k
<1>7. Name(p) = p[Len(p)] /\ Name(p) \in S
  BY <1>1 DEF Name
<1>. DEFINE y == Append(Parent(p), Name(p))
<1>8. /\ y \in Seq(S) /\ Len(y) = k + 1 /\ y[k + 1] = Name(p)
      /\ \A i \in 1 .. k : y[i] = Parent(p)[i]
  BY <1>5, <1>7, AppendProperties
<1>9. Len(y) = Len(p)
  BY <1>1, <1>6, <1>8
<1>. HIDE DEF y
<1>10. \A i \in 1 .. Len(p) : y[i] = p[i]
  <2>. SUFFICES ASSUME NEW i \in 1 .. Len(p) PROVE y[i] = p[i]
    OBVIOUS
  <2>1. CASE i \in 1 .. k
    BY <1>5, <1>8, <2>1
  <2>2. CASE i = k + 1
    BY <1>6, <1>7, <1>8, <1>1, <2>2
  <2>. QED BY <1>1, <1>6, <2>1, <2>2
<1>11. y = p
  BY <1>8, <1>9, <1>10, SeqEqual
<1>12. Under(Parent(p), p)
  BY <1>1, <1>5, <1>6, UnderIs
<1>. QED BY <1>5, <1>6, <1>7, <1>11, <1>12 DEF y

\* A path with one more name is that of an entry of it.
LEMMA AppendParts ==
    ASSUME NEW S, NEW p \in Seq(S), NEW n \in S
    PROVE  /\ Append(p, n) \in Seq(S) /\ Len(Append(p, n)) = Len(p) + 1
           /\ Append(p, n) # <<>>
           /\ Parent(Append(p, n)) = p /\ Name(Append(p, n)) = n
           /\ \A i \in 1 .. Len(p) : Append(p, n)[i] = p[i]
<1>. DEFINE y == Append(p, n)
<1>1. /\ y \in Seq(S) /\ Len(y) = Len(p) + 1 /\ y[Len(p) + 1] = n
      /\ \A i \in 1 .. Len(p) : y[i] = p[i]
  BY AppendProperties
<1>2. Len(p) \in Nat /\ Len(y) # 0
  BY <1>1
<1>. HIDE DEF y
<1>3. Parent(y) \in Seq(S) /\ Len(Parent(y)) = Len(y) - 1 /\ Under(Parent(y), y)
  BY <1>1, <1>2, SplitPath
<1>4. Len(Parent(y)) = Len(p)
  BY <1>1, <1>2, <1>3
<1>5. \A i \in 1 .. Len(p) : Parent(y)[i] = y[i]
  BY <1>1, <1>3, <1>4, UnderIs
<1>6. Parent(y) = p
  BY <1>1, <1>3, <1>4, <1>5, SeqEqual
<1>7. Name(y) = n
  BY <1>1 DEF Name
<1>8. y # <<>>
  BY <1>2
<1>. QED BY <1>1, <1>6, <1>7, <1>8 DEF y

\* Where something is whose directory `from` is now `to`.
LEMMA RebaseFacts ==
    ASSUME NEW from \in Seq(Segs), NEW to \in Seq(Segs), NEW x \in Seq(Segs), Under(from, x)
    PROVE  /\ Rebase(x, from, to) \in Seq(Segs)
           /\ Len(Rebase(x, from, to)) = Len(to) + (Len(x) - Len(from))
           /\ Len(x) - Len(from) \in Nat
           /\ \A i \in 1 .. Len(to) : Rebase(x, from, to)[i] = to[i]
           /\ \A i \in 1 .. Len(x) - Len(from) :
                 Rebase(x, from, to)[Len(to) + i] = x[Len(from) + i]
           /\ Under(to, Rebase(x, from, to))
<1>. DEFINE z == SubSeq(x, Len(from) + 1, Len(x))
            y == Rebase(x, from, to)
<1>1. Len(from) <= Len(x) /\ Len(from) \in Nat /\ Len(x) \in Nat /\ Len(to) \in Nat
  BY UnderOrder
<1>2. y = to \o z
  BY DEF Rebase
<1>3. z \in Seq(Segs) /\ Len(z) = Len(x) - Len(from)
      /\ \A i \in 1 .. Len(x) - Len(from) : z[i] = x[Len(from) + i]
  BY <1>1
<1>. HIDE DEF y, z
<1>4. /\ y \in Seq(Segs) /\ Len(y) = Len(to) + Len(z)
      /\ \A i \in 1 .. Len(to) + Len(z) : y[i] = IF i <= Len(to) THEN to[i] ELSE z[i - Len(to)]
  <2>1. to \in Seq(Segs) /\ z \in Seq(Segs)
    BY <1>3
  <2>2. /\ to \o z \in Seq(Segs) /\ Len(to \o z) = Len(to) + Len(z)
        /\ \A i \in 1 .. Len(to) + Len(z) :
              (to \o z)[i] = IF i <= Len(to) THEN to[i] ELSE z[i - Len(to)]
    BY <2>1, ConcatProperties
  <2>. QED BY <1>2, <2>2
<1>6. \A i \in 1 .. Len(to) : y[i] = to[i]
  <2>1. Len(z) \in Nat
    BY <1>3
  <2>2. \A i \in 1 .. Len(to) : i \in 1 .. Len(to) + Len(z) /\ i <= Len(to)
    BY <1>1, <2>1
  <2>. QED BY <1>4, <2>2
<1>7. ASSUME NEW i \in 1 .. Len(z) PROVE y[Len(to) + i] = z[i]
  <2>1. Len(to) + i \in 1 .. Len(to) + Len(z) /\ ~(Len(to) + i <= Len(to))
        /\ (Len(to) + i) - Len(to) = i
    BY <1>1, <1>3
  <2>. QED BY <1>4, <2>1
<1>5. Under(to, y)
  <2>1. Len(to) <= Len(y)
    BY <1>1, <1>3, <1>4
  <2>. QED BY <1>4, <1>6, <2>1, UnderIs
<1>. QED BY <1>1, <1>3, <1>4, <1>5, <1>6, <1>7 DEF y

LEMMA RebaseSelf ==
    ASSUME NEW p \in Seq(Segs), NEW q \in Seq(Segs)
    PROVE  Rebase(p, p, q) = q
<1>1. Under(p, p)
  BY UnderOrder
<1>. DEFINE y == Rebase(p, p, q)
<1>2. /\ Rebase(p, p, q) \in Seq(Segs)
      /\ Len(Rebase(p, p, q)) = Len(q) + (Len(p) - Len(p))
      /\ \A i \in 1 .. Len(q) : Rebase(p, p, q)[i] = q[i]
  BY <1>1, RebaseFacts
<1>. HIDE DEF y
<1>3. y \in Seq(Segs) /\ Len(y) = Len(q) /\ \A i \in 1 .. Len(q) : y[i] = q[i]
  BY <1>2 DEF y
<1>4. y = q
  BY <1>3, SeqEqual
<1>. QED BY <1>4 DEF y

\* What lies below what is moved keeps its name and its place in its directory.
LEMMA RebaseParts ==
    ASSUME NEW from \in Seq(Segs), NEW to \in Seq(Segs), NEW x \in Seq(Segs),
           Under(from, x), x # from
    PROVE  /\ Under(from, Parent(x)) /\ Parent(x) \in Seq(Segs)
           /\ Parent(Rebase(x, from, to)) = Rebase(Parent(x), from, to)
           /\ Name(Rebase(x, from, to)) = Name(x)
           /\ Rebase(x, from, to) # <<>>
<1>. DEFINE u == Parent(x)
            n == Name(x)
            k == Len(x) - 1
<1>1. /\ Len(from) <= Len(x) /\ Len(from) # Len(x) /\ \A i \in 1 .. Len(from) : from[i] = x[i]
      /\ Len(from) \in Nat /\ Len(to) \in Nat /\ Len(x) \in Nat
  BY UnderIs, UnderOrder
<1>2. Len(x) # 0 /\ k \in Nat /\ Len(x) = k + 1 /\ Len(from) <= k
  BY <1>1
<1>3. u \in Seq(Segs) /\ Len(u) = k /\ n \in Segs /\ x = Append(u, n) /\ Under(u, x)
  BY <1>2, SplitPath
<1>. HIDE DEF u, n, k
<1>4. \A i \in 1 .. k : u[i] = x[i]
  BY <1>3, UnderIs
<1>5. x[k + 1] = n
  BY <1>3, AppendProperties
<1>6. \A i \in 1 .. Len(from) : from[i] = u[i]
  <2>1. \A i \in 1 .. Len(from) : i \in 1 .. k
    BY <1>1, <1>2
  <2>. QED BY <1>1, <1>4, <2>1
<1>7. Under(from, u)
  BY <1>2, <1>3, <1>6, UnderIs
<1>. DEFINE y == Rebase(x, from, to)
            w == Rebase(u, from, to)
            d == k - Len(from)
<1>8. d \in Nat /\ Len(x) - Len(from) = d + 1 /\ Len(u) - Len(from) = d
  BY <1>1, <1>2, <1>3
<1>9. /\ y \in Seq(Segs) /\ Len(y) = Len(to) + (d + 1)
      /\ \A i \in 1 .. Len(to) : y[i] = to[i]
      /\ \A i \in 1 .. d + 1 : y[Len(to) + i] = x[Len(from) + i]
  <2>1. /\ y \in Seq(Segs) /\ Len(y) = Len(to) + (Len(x) - Len(from))
        /\ \A i \in 1 .. Len(to) : y[i] = to[i]
        /\ \A i \in 1 .. Len(x) - Len(from) : y[Len(to) + i] = x[Len(from) + i]
    BY RebaseFacts
  <2>. HIDE DEF y, d
  <2>. QED BY <1>8, <2>1
<1>10. /\ w \in Seq(Segs) /\ Len(w) = Len(to) + d
       /\ \A i \in 1 .. Len(to) : w[i] = to[i]
       /\ \A i \in 1 .. d : w[Len(to) + i] = u[Len(from) + i]
  <2>0. u \in Seq(Segs) /\ Under(from, u)
    BY <1>3, <1>7
  <2>1. /\ w \in Seq(Segs) /\ Len(w) = Len(to) + (Len(u) - Len(from))
        /\ \A i \in 1 .. Len(to) : w[i] = to[i]
        /\ \A i \in 1 .. Len(u) - Len(from) : w[Len(to) + i] = u[Len(from) + i]
    BY <2>0, RebaseFacts
  <2>. HIDE DEF w, d
  <2>. QED BY <1>8, <2>1
<1>11. Len(from) + d = k
  BY <1>1, <1>2
<1>. DEFINE v == Append(w, n)
<1>12. /\ v \in Seq(Segs) /\ Len(v) = Len(w) + 1 /\ v[Len(w) + 1] = n /\ v # <<>>
       /\ \A i \in 1 .. Len(w) : v[i] = w[i]
       /\ Parent(v) = w /\ Name(v) = n
  BY <1>3, <1>10, AppendParts, AppendProperties
<1>. HIDE DEF y, w, v, d
<1>13. ASSUME NEW i \in 1 .. Len(y) PROVE y[i] = v[i]
  <2>1. CASE i \in 1 .. Len(to)
    <3>1. i \in 1 .. Len(w)
      BY <1>1, <1>8, <1>10, <2>1
    <3>. QED BY <1>9, <1>10, <1>12, <2>1, <3>1
  <2>2. CASE i \notin 1 .. Len(to)
    <3>. DEFINE j == i - Len(to)
    <3>1. j \in 1 .. d + 1 /\ i = Len(to) + j
      BY <1>1, <1>8, <1>9, <2>2
    <3>. HIDE DEF j
    <3>2. y[i] = x[Len(from) + j]
      BY <1>9, <3>1
    <3>3. CASE j = d + 1
      <4>1. i = Len(w) + 1 /\ Len(from) + j = k + 1
        BY <1>1, <1>8, <1>10, <1>11, <3>1, <3>3
      <4>. QED BY <1>5, <1>12, <3>2, <4>1
    <3>4. CASE j # d + 1
      <4>1. j \in 1 .. d /\ Len(from) + j \in 1 .. k /\ i \in 1 .. Len(w)
        BY <1>1, <1>2, <1>8, <1>10, <1>11, <3>1, <3>4
      <4>2. v[i] = u[Len(from) + j]
        BY <1>10, <1>12, <3>1, <4>1
      <4>. QED BY <1>4, <3>2, <4>1, <4>2
    <3>. QED BY <3>3, <3>4
  <2>. QED BY <2>1, <2>2
<1>14. Len(y) = Len(v)
  BY <1>1, <1>8, <1>9, <1>10, <1>12
<1>15. y = v
  BY <1>9, <1>12, <1>13, <1>14, SeqEqual
<1>. QED BY <1>3, <1>7, <1>12, <1>15 DEF y, w, u, n

-----------------------------------------------------------------------------
(***************************************************************************)
(* The file system.                                                        *)
(***************************************************************************)
PathLike == Seq(Segs) \ {<<>>}

\* Directories lie in directories, and so do files, or in the root.
FsOK ==
    /\ \A p \in dirs : p \in PathLike /\ Name(p) \in DirNames
    /\ \A p \in dirs : Len(p) > 1 => Parent(p) \in dirs
    /\ files \subseteq (dirs \cup {<<>>}) \X AllFiles
    /\ IsFiniteSet(files) /\ IsFiniteSet(dirs)

LEMMA PathParts ==
    ASSUME NEW p \in PathLike
    PROVE  /\ p \in Seq(Segs) /\ Len(p) \in Nat /\ Len(p) # 0
           /\ Parent(p) \in Seq(Segs) /\ Name(p) \in Segs
           /\ Len(Parent(p)) = Len(p) - 1
           /\ p = Append(Parent(p), Name(p)) /\ Under(Parent(p), p)
           /\ Len(p) > 1 => Parent(p) # <<>>
           /\ ~(Len(p) > 1) => Parent(p) = <<>>
<1>1. p \in Seq(Segs) /\ Len(p) \in Nat /\ Len(p) # 0
  BY DEF PathLike
<1>2. /\ Parent(p) \in Seq(Segs) /\ Name(p) \in Segs /\ Len(Parent(p)) = Len(p) - 1
      /\ p = Append(Parent(p), Name(p)) /\ Under(Parent(p), p)
  BY <1>1, SplitPath
<1>3. Len(p) > 1 => Len(Parent(p)) # 0
  BY <1>1, <1>2
<1>4. ~(Len(p) > 1) => Len(Parent(p)) = 0
  BY <1>1, <1>2
<1>5. Parent(p) = <<>> <=> Len(Parent(p)) = 0
  BY <1>2
<1>. QED BY <1>1, <1>2, <1>3, <1>4, <1>5

\* The names users may give to a directory.
LEMMA FsPathIsPath ==
    ASSUME NEW p \in FsPaths
    PROVE  p \in PathLike /\ Name(p) \in DirNames
<1>1. PICK n \in 1 .. MaxDepth : p \in [1 .. n -> DirNames]
  BY DEF FsPaths
<1>2. n \in Nat /\ n # 0
  BY DepthAssumption
<1>3. p \in Seq(DirNames) /\ Len(p) = n
  BY <1>1, <1>2
<1>4. Name(p) \in DirNames
  BY <1>2, <1>3 DEF Name
<1>5. DirNames \subseteq Segs
  BY DEF Segs
<1>6. p \in Seq(Segs)
  BY <1>3, <1>5, SeqMonotonic
<1>7. p # <<>>
  BY <1>2, <1>3
<1>. QED BY <1>4, <1>6, <1>7 DEF PathLike

\* A set of which every element comes from one of a finite set is finite.
LEMMA FiniteImage ==
    ASSUME NEW S, IsFiniteSet(S), NEW f, DOMAIN f = S,
           f = [x \in DOMAIN f |-> f[x]]
    PROVE  IsFiniteSet({f[x] : x \in S})
<1>. DEFINE T == {f[x] : x \in S}
<1>1. f \in Surjection(S, T)
  BY DEF Surjection
<1>. QED BY <1>1, FS_Surjection

\* The rename of a directory takes what is below it along.
LEMMA MoveDirKeeps ==
    ASSUME FsOK, NEW p \in dirs, NEW q \in PathLike, Name(q) \in DirNames,
           Len(q) > 1 => Parent(q) \in dirs, ~Under(p, q), MoveDir(p, q)
    PROVE  FsOK'
<1>1. /\ p \in Seq(Segs) /\ p # <<>> /\ Len(p) \in Nat /\ Len(p) # 0
      /\ q \in Seq(Segs) /\ q # <<>> /\ Len(q) \in Nat
      /\ Parent(q) \in Seq(Segs) /\ Under(Parent(q), q)
  BY PathParts DEF FsOK, PathLike
<1>2. /\ dirs' = {Moved(x, p, q) : x \in dirs}
      /\ files' = {<<Moved(x[1], p, q), x[2]>> : x \in files}
  BY DEF MoveDir
<1>3. \A x \in dirs : x \in Seq(Segs) /\ x # <<>> /\ Len(x) \in Nat /\ Name(x) \in DirNames
                      /\ Parent(x) \in Seq(Segs) /\ Under(Parent(x), x)
  BY PathParts DEF FsOK, PathLike
<1>4. \A x : ~Under(p, x) => Moved(x, p, q) = x
  BY DEF Moved
<1>5. \A x : Under(p, x) => Moved(x, p, q) = Rebase(x, p, q)
  BY DEF Moved
<1>6. Moved(p, p, q) = q
  BY <1>1, <1>5, UnderOrder, RebaseSelf
<1>7. ASSUME NEW x \in dirs
      PROVE  /\ Moved(x, p, q) \in PathLike /\ Name(Moved(x, p, q)) \in DirNames
             /\ Len(Moved(x, p, q)) > 1 => Parent(Moved(x, p, q)) \in dirs'
  <2>1. CASE x = p
    <3>1. Under(p, Parent(q)) => Under(p, q)
      BY <1>1, UnderOrder
    <3>2. Len(q) > 1 => Moved(Parent(q), p, q) = Parent(q)
      BY <1>4, <3>1
    <3>3. Len(q) > 1 => Parent(q) \in dirs'
      BY <1>2, <3>2
    <3>. QED BY <1>6, <2>1, <3>3
  <2>2. CASE x # p /\ Under(p, x)
    <3>1. /\ Under(p, Parent(x))
          /\ Parent(Rebase(x, p, q)) = Rebase(Parent(x), p, q)
          /\ Name(Rebase(x, p, q)) = Name(x)
          /\ Rebase(x, p, q) # <<>> /\ Rebase(x, p, q) \in Seq(Segs)
      BY <1>1, <1>3, <2>2, RebaseParts, RebaseFacts
    <3>2. Len(p) <= Len(x) /\ Len(p) # Len(x)
      BY <1>1, <1>3, <2>2, UnderOrder
    <3>3. Len(x) > 1
      BY <1>1, <1>3, <3>2
    <3>4. Parent(x) \in dirs
      BY <3>3 DEF FsOK
    <3>5. Rebase(Parent(x), p, q) \in dirs'
      BY <1>2, <1>5, <3>1, <3>4
    <3>. QED BY <1>3, <1>5, <2>2, <3>1, <3>5 DEF PathLike
  <2>3. CASE ~Under(p, x)
    <3>1. ~Under(p, Parent(x))
      BY <1>1, <1>3, <2>3, UnderOrder
    <3>2. Len(x) > 1 => Parent(x) \in dirs'
      BY <1>2, <1>4, <3>1 DEF FsOK
    <3>. QED BY <1>3, <1>4, <2>3, <3>2 DEF PathLike
  <2>. QED BY <2>1, <2>2, <2>3
<1>8. /\ \A r \in dirs' : r \in PathLike /\ Name(r) \in DirNames
      /\ \A r \in dirs' : Len(r) > 1 => Parent(r) \in dirs'
  BY <1>2, <1>7
<1>9. files' \subseteq (dirs' \cup {<<>>}) \X AllFiles
  <2>1. ~Under(p, <<>>)
    BY <1>1 DEF Under
  <2>2. ASSUME NEW x \in files PROVE <<Moved(x[1], p, q), x[2]>> \in (dirs' \cup {<<>>}) \X AllFiles
    <3>1. x[1] \in dirs \cup {<<>>} /\ x[2] \in AllFiles
      BY DEF FsOK
    <3>2. Moved(x[1], p, q) \in dirs' \cup {<<>>}
      BY <1>2, <1>4, <2>1, <3>1
    <3>. QED BY <3>1, <3>2
  <2>. QED BY <1>2, <2>2
<1>10. IsFiniteSet(files')
  <2>. DEFINE f == [x \in files |-> <<Moved(x[1], p, q), x[2]>>]
  <2>1. DOMAIN f = files /\ f = [x \in DOMAIN f |-> f[x]]
    OBVIOUS
  <2>2. files' = {f[x] : x \in files}
    BY <1>2
  <2>3. IsFiniteSet(files)
    BY DEF FsOK
  <2>. HIDE DEF f
  <2>. QED BY <2>1, <2>2, <2>3, FiniteImage
<1>11. IsFiniteSet(dirs')
  <2>. DEFINE f == [x \in dirs |-> Moved(x, p, q)]
  <2>1. DOMAIN f = dirs /\ f = [x \in DOMAIN f |-> f[x]]
    OBVIOUS
  <2>2. dirs' = {f[x] : x \in dirs}
    BY <1>2
  <2>3. IsFiniteSet(dirs)
    BY DEF FsOK
  <2>. HIDE DEF f
  <2>. QED BY <2>1, <2>2, <2>3, FiniteImage
<1>. QED BY <1>8, <1>9, <1>10, <1>11 DEF FsOK

\* A file that has another name, or another directory.
LEMMA MoveFileKeeps ==
    ASSUME FsOK, NEW p, NEW q, Parent(q) \in dirs \cup {<<>>}, Name(q) \in AllFiles,
           MoveFile(p, q)
    PROVE  FsOK'
<1>1. files' = (files \ {<<Parent(p), Name(p)>>}) \cup {<<Parent(q), Name(q)>>}
      /\ dirs' = dirs
  BY DEF MoveFile
<1>2. IsFiniteSet(files)
  BY DEF FsOK
<1>3. IsFiniteSet(files')
  BY <1>1, <1>2, FS_RemoveElement, FS_AddElement
<1>. QED BY <1>1, <1>3 DEF FsOK

-----------------------------------------------------------------------------
(***************************************************************************)
(* Events.                                                                 *)
(***************************************************************************)
PathKinds ==
    {"create_folder", "create_file", "from", "remove_folder", "remove_file", "remove_any"}

\* What a directory is called was one's name before.
Boths ==
    {b \in [kind : {"both"}, from : PathLike, to : PathLike] :
        Name(b.to) \in DirNames => Name(b.from) \in DirNames}

Events ==
    [kind : PathKinds, path : PathLike] \cup Boths \cup [kind : {"pathless"}, path : {<<>>}]

EventsOK == events \in Seq(Events) /\ pending \subseteq PathLike

LEMMA EventFacts ==
    ASSUME NEW x \in Events
    PROVE  /\ x.kind \in PathKinds => x.path \in PathLike
           /\ x.kind = "both" =>
                 /\ x.from \in PathLike /\ x.to \in PathLike
                 /\ Name(x.to) \in DirNames => Name(x.from) \in DirNames
BY DEF Events, Boths, PathKinds

LEMMA EventIsEvent ==
    ASSUME NEW kind \in PathKinds, NEW p \in PathLike
    PROVE  Event(kind, p) \in Events
BY DEF Event, Events

LEMMA RenamedIsEvents ==
    ASSUME NEW p \in PathLike, NEW q \in PathLike, Name(q) \in DirNames => Name(p) \in DirNames
    PROVE  Renamed(p, q) \in Seq(Events)
<1>1. Event("from", p) \in Events
  BY EventIsEvent DEF PathKinds
<1>2. [kind |-> "both", from |-> p, to |-> q] \in Boths
  BY DEF Boths
<1>3. [kind |-> "both", from |-> p, to |-> q] \in Events
  BY <1>2 DEF Events
<1>. QED BY <1>1, <1>3 DEF Renamed

LEMMA NotifyKeeps ==
    ASSUME EventsOK, NEW more \in Seq(Events), Notify(more)
    PROVE  events' \in Seq(Events)
BY DEF EventsOK, Notify

\* The names of directories and those of files.
LEMMA NamesApart ==
    /\ DirNames \cap AllFiles = {}
    /\ \A n \in DirNames : Norm[n] # Empty => Norm[n] \in DirNames
    /\ \A n \in AllFiles : Norm[n] \in AllFiles
    /\ Invalid \in DirNames /\ DirNames \subseteq Segs /\ AllFiles \subseteq Segs
<1>. USE NormAssumption, KindsAssumption DEF DirNames, AllFiles
<1>1. \A n \in AllFiles : Norm[n] \in FileNames /\ Norm[n] # Empty
  OBVIOUS
<1>2. \A n \in DirNames : Norm[n] \in Names \cup {Empty}
  OBVIOUS
<1>3. DirNames \cap AllFiles = {}
  BY <1>1, <1>2
<1>4. DirNames \subseteq Segs /\ AllFiles \subseteq Segs
  BY DEF Segs
<1>5. Invalid \in DirNames
  OBVIOUS
<1>. QED BY <1>1, <1>2, <1>3, <1>4, <1>5

\* The path of a file.
LEMMA FilePathIsPath ==
    ASSUME FsOK, NEW d \in dirs \cup {<<>>}, NEW f \in AllFiles
    PROVE  /\ Append(d, f) \in PathLike /\ Parent(Append(d, f)) = d
           /\ Name(Append(d, f)) = f
<1>1. d \in Seq(Segs)
  <2>1. CASE d \in dirs
    BY <2>1 DEF FsOK, PathLike
  <2>2. CASE d = <<>>
    BY <2>2
  <2>. QED BY <2>1, <2>2
<1>2. f \in Segs
  BY NamesApart
<1>. QED BY <1>1, <1>2, AppendParts DEF PathLike

LEMMA FilePathsArePaths ==
    ASSUME FsOK, NEW p \in FilePaths
    PROVE  p \in PathLike
<1>1. PICK d \in dirs \cup {<<>>}, f \in AllFiles : p = Append(d, f)
  BY DEF FilePaths
<1>. QED BY <1>1, FilePathIsPath

LEMMA DirIsPath ==
    ASSUME FsOK, NEW p \in dirs
    PROVE  p \in PathLike /\ Name(p) \in DirNames
BY DEF FsOK

-----------------------------------------------------------------------------
(***************************************************************************)
(* What users do.                                                          *)
(***************************************************************************)
LEMMA CreateFolderKeeps ==
    ASSUME FsOK, EventsOK, NEW p \in FsPaths, CreateFolder(p)
    PROVE  FsOK' /\ events' \in Seq(Events)
<1>1. /\ dirs' = dirs \cup {p} /\ files' = files /\ Notify(<<Event("create_folder", p)>>)
      /\ Len(p) > 1 => Parent(p) \in dirs
  BY DEF CreateFolder
<1>2. p \in PathLike /\ Name(p) \in DirNames
  BY FsPathIsPath
<1>3. FsOK'
  <2>1. IsFiniteSet(dirs')
    BY <1>1, FS_AddElement DEF FsOK
  <2>. QED BY <1>1, <1>2, <2>1 DEF FsOK
<1>4. <<Event("create_folder", p)>> \in Seq(Events)
  BY <1>2, EventIsEvent DEF PathKinds
<1>. QED BY <1>1, <1>3, <1>4, NotifyKeeps

LEMMA CreateFileKeeps ==
    ASSUME FsOK, EventsOK, NEW d \in dirs \cup {<<>>}, NEW f \in AllFiles, CreateFile(d, f)
    PROVE  FsOK' /\ events' \in Seq(Events)
<1>1. /\ dirs' = dirs /\ files' = files \cup {<<d, f>>}
      /\ Notify(<<Event("create_file", Append(d, f))>>)
  BY DEF CreateFile
<1>2. IsFiniteSet(files')
  BY <1>1, FS_AddElement DEF FsOK
<1>3. FsOK'
  BY <1>1, <1>2 DEF FsOK
<1>4. <<Event("create_file", Append(d, f))>> \in Seq(Events)
  BY FilePathIsPath, EventIsEvent DEF PathKinds
<1>. QED BY <1>1, <1>3, <1>4, NotifyKeeps

LEMMA RenameFileKeeps ==
    ASSUME FsOK, EventsOK, NEW x \in files, NEW c \in dirs \cup {<<>>}, NEW g \in AllFiles,
           RenameFile(x[1], x[2], c, g)
    PROVE  FsOK' /\ events' \in Seq(Events)
<1>. DEFINE p == Append(x[1], x[2])
            q == Append(c, g)
<1>1. MoveFile(p, q) /\ Notify(Renamed(p, q))
  BY DEF RenameFile
<1>2. x[1] \in dirs \cup {<<>>} /\ x[2] \in AllFiles
  BY DEF FsOK
<1>3. /\ p \in PathLike /\ q \in PathLike /\ Parent(q) = c /\ Name(q) = g
  BY <1>2, FilePathIsPath
<1>. HIDE DEF p, q
<1>4. FsOK'
  BY <1>1, <1>3, MoveFileKeeps
<1>5. Name(q) \notin DirNames
  BY <1>3, NamesApart
<1>6. Renamed(p, q) \in Seq(Events)
  BY <1>3, <1>5, RenamedIsEvents
<1>. QED BY <1>1, <1>4, <1>6, NotifyKeeps

LEMMA RenameFolderKeeps ==
    ASSUME FsOK, EventsOK, NEW p \in dirs, NEW q \in FsPaths, RenameFolder(p, q)
    PROVE  FsOK' /\ events' \in Seq(Events)
<1>1. /\ MoveDir(p, q) /\ Notify(Renamed(p, q)) /\ ~Under(p, q)
      /\ Len(q) > 1 => Parent(q) \in dirs
  BY DEF RenameFolder
<1>2. q \in PathLike /\ Name(q) \in DirNames /\ p \in PathLike /\ Name(p) \in DirNames
  BY FsPathIsPath DEF FsOK
<1>3. FsOK'
  BY <1>1, <1>2, MoveDirKeeps
<1>4. Renamed(p, q) \in Seq(Events)
  BY <1>2, RenamedIsEvents
<1>. QED BY <1>1, <1>3, <1>4, NotifyKeeps

\* Something goes, with all that lies below it.
LEMMA GoneKeeps ==
    ASSUME FsOK, NEW D \in SUBSET dirs, NEW F \in SUBSET files,
           dirs' = D, files' = F,
           \A r \in D : Len(r) > 1 => Parent(r) \in D,
           \A x \in F : x[1] \in D \cup {<<>>}
    PROVE  FsOK'
<1>1. IsFiniteSet(F) /\ IsFiniteSet(D)
  BY FS_Subset DEF FsOK
<1>2. \A x \in F : x \in (D \cup {<<>>}) \X AllFiles
  BY DEF FsOK
<1>. QED BY <1>1, <1>2 DEF FsOK

\* What is told when a directory with its files is removed: the files come first.
LEMMA FilesGoFirst ==
    ASSUME FsOK, NEW p \in dirs, DeleteFolder(p)
    PROVE  \E s \in Seq(Events) :
              /\ Notify(s \o <<Event("remove_folder", p)>>)
              /\ \A i \in DOMAIN s : s[i].kind = "remove_file" /\ s[i].path \notin dirs
<1>. DEFINE gone == {x \in files : x[1] = p}
<1>1. PICK order \in SetToSeqs(gone) :
         Notify([i \in DOMAIN order |-> Event("remove_file", Append(p, order[i][2]))]
                \o <<Event("remove_folder", p)>>)
  BY DEF DeleteFolder
<1>2. IsFiniteSet(gone)
  BY FS_Subset DEF FsOK
<1>3. order \in Seq(gone)
  <2>1. Cardinality(gone) \in Nat
    BY <1>2, FS_CardinalityType
  <2>. HIDE DEF gone
  <2>2. order \in [1 .. Cardinality(gone) -> gone]
    BY DEF SetToSeqs
  <2>. QED BY <2>1, <2>2
<1>4. ASSUME NEW x \in gone
      PROVE  /\ Event("remove_file", Append(p, x[2])) \in Events
             /\ Event("remove_file", Append(p, x[2])).kind = "remove_file"
             /\ Event("remove_file", Append(p, x[2])).path \notin dirs
  <2>1. x[2] \in AllFiles
    BY DEF FsOK
  <2>2. Append(p, x[2]) \in PathLike /\ Name(Append(p, x[2])) = x[2]
    BY <2>1, FilePathIsPath
  <2>3. Append(p, x[2]) \notin dirs
    BY <2>1, <2>2, NamesApart DEF FsOK
  <2>. QED BY <2>2, <2>3, EventIsEvent DEF PathKinds, Event
<1>. HIDE DEF gone
<1>. DEFINE s == [i \in DOMAIN order |-> Event("remove_file", Append(p, order[i][2]))]
<1>5. /\ Len(order) \in Nat /\ DOMAIN order = 1 .. Len(order)
      /\ \A i \in 1 .. Len(order) : order[i] \in gone
  BY <1>3
<1>6. s \in [1 .. Len(order) -> Events]
  BY <1>4, <1>5
<1>7. s \in Seq(Events)
  BY <1>5, <1>6
<1>8. \A i \in DOMAIN s : s[i].kind = "remove_file" /\ s[i].path \notin dirs
  BY <1>4, <1>5
<1>. QED BY <1>1, <1>7, <1>8

LEMMA DeleteFolderTells ==
    ASSUME FsOK, NEW p \in dirs, DeleteFolder(p)
    PROVE  \E more \in Seq(Events) :
              /\ Notify(more)
              /\ \A i \in DOMAIN more : more[i].kind \in {"remove_file", "remove_folder"}
<1>1. PICK s \in Seq(Events) :
         /\ Notify(s \o <<Event("remove_folder", p)>>)
         /\ \A i \in DOMAIN s : s[i].kind = "remove_file" /\ s[i].path \notin dirs
  BY FilesGoFirst
<1>2. Event("remove_folder", p) \in Events /\ Event("remove_folder", p).kind = "remove_folder"
  BY EventIsEvent DEF PathKinds, FsOK, Event
<1>3. PICK r : r = <<Event("remove_folder", p)>>
  OBVIOUS
<1>4. r \in Seq(Events) /\ \A i \in DOMAIN r : r[i].kind = "remove_folder"
  BY <1>2, <1>3
<1>. DEFINE more == s \o r
<1>5. /\ more \in Seq(Events) /\ DOMAIN more = 1 .. Len(s) + Len(r)
      /\ \A i \in 1 .. Len(s) + Len(r) : more[i] = IF i <= Len(s) THEN s[i] ELSE r[i - Len(s)]
      /\ DOMAIN s = 1 .. Len(s) /\ DOMAIN r = 1 .. Len(r) /\ Len(s) \in Nat /\ Len(r) \in Nat
  BY <1>4, ConcatProperties
<1>. HIDE DEF more
<1>6. ASSUME NEW i \in DOMAIN more PROVE more[i].kind \in {"remove_file", "remove_folder"}
  <2>1. CASE i <= Len(s)
    BY <1>1, <1>5, <2>1
  <2>2. CASE ~(i <= Len(s))
    <3>1. i - Len(s) \in DOMAIN r
      BY <1>5, <2>2
    <3>. QED BY <1>4, <1>5, <2>2, <3>1
  <2>. QED BY <2>1, <2>2
<1>7. Notify(more)
  BY <1>1, <1>3 DEF more
<1>. QED BY <1>5, <1>6, <1>7

LEMMA DeleteFolderKeeps ==
    ASSUME FsOK, EventsOK, NEW p \in dirs, DeleteFolder(p)
    PROVE  FsOK' /\ events' \in Seq(Events)
<1>. DEFINE gone == {x \in files : x[1] = p}
<1>1. /\ ~\E r \in dirs : Len(r) > 1 /\ Parent(r) = p
      /\ dirs' = dirs \ {p} /\ files' = files \ gone
  BY DEF DeleteFolder
<1>2. FsOK'
  <2>1. \A r \in dirs \ {p} : Len(r) > 1 => Parent(r) \in dirs \ {p}
    BY <1>1 DEF FsOK
  <2>2. \A x \in files \ gone : x[1] \in (dirs \ {p}) \cup {<<>>}
    BY DEF FsOK
  <2>3. dirs \ {p} \subseteq dirs /\ files \ gone \subseteq files
    OBVIOUS
  <2>. HIDE DEF gone
  <2>. QED BY <1>1, <2>1, <2>2, <2>3, GoneKeeps
<1>. QED BY <1>2, DeleteFolderTells, NotifyKeeps

LEMMA DeleteFileKeeps ==
    ASSUME FsOK, EventsOK, NEW x \in files, DeleteFile(x[1], x[2])
    PROVE  FsOK' /\ events' \in Seq(Events)
<1>. DEFINE F == files \ {<<x[1], x[2]>>}
<1>1. /\ dirs' = dirs /\ files' = F
      /\ Notify(<<Event("remove_file", Append(x[1], x[2]))>>)
  BY DEF DeleteFile
<1>2. x[1] \in dirs \cup {<<>>} /\ x[2] \in AllFiles
  BY DEF FsOK
<1>3. /\ F \subseteq files /\ \A y \in F : y[1] \in dirs \cup {<<>>}
      /\ \A r \in dirs : Len(r) > 1 => Parent(r) \in dirs
  BY DEF FsOK
<1>. HIDE DEF F
<1>4. FsOK'
  BY <1>1, <1>3, GoneKeeps
<1>5. <<Event("remove_file", Append(x[1], x[2]))>> \in Seq(Events)
  BY <1>2, FilePathIsPath, EventIsEvent DEF PathKinds
<1>. QED BY <1>1, <1>4, <1>5, NotifyKeeps
LEMMA MoveOutKeeps ==
    ASSUME FsOK, EventsOK, NEW p \in dirs \cup FilePaths, MoveOut(p)
    PROVE  FsOK' /\ events' \in Seq(Events)
<1>. DEFINE D == {r \in dirs : ~Under(p, r)}
            F == {x \in files : ~Under(p, Append(x[1], x[2]))}
<1>1. dirs' = D /\ files' = F /\ Notify(<<Event("from", p)>>)
  BY DEF MoveOut
<1>2. p \in PathLike
  BY FilePathsArePaths, DirIsPath
<1>3. ASSUME NEW r \in D, Len(r) > 1 PROVE Parent(r) \in D
  <2>1. r \in dirs /\ ~Under(p, r) /\ r \in PathLike /\ Parent(r) \in dirs
    BY <1>3 DEF FsOK
  <2>2. /\ p \in Seq(Segs) /\ Parent(r) \in Seq(Segs) /\ r \in Seq(Segs)
        /\ Under(Parent(r), r)
    BY <1>2, <2>1, PathParts
  <2>3. Under(p, Parent(r)) => Under(p, r)
    BY <2>2, UnderOrder
  <2>. QED BY <2>1, <2>3
<1>4. ASSUME NEW x \in F PROVE x[1] \in D \cup {<<>>}
  <2>1. x \in files /\ ~Under(p, Append(x[1], x[2]))
        /\ x[1] \in dirs \cup {<<>>} /\ x[2] \in AllFiles
    BY DEF FsOK
  <2>. DEFINE y == Append(x[1], x[2])
  <2>2. y \in PathLike /\ Parent(y) = x[1]
    BY <2>1, FilePathIsPath
  <2>. HIDE DEF y
  <2>3. y \in Seq(Segs) /\ Under(x[1], y) /\ p \in Seq(Segs) /\ x[1] \in Seq(Segs)
    BY <1>2, <2>2, PathParts
  <2>4. Under(p, x[1]) => Under(p, y)
    BY <2>3, UnderOrder
  <2>. QED BY <2>1, <2>4 DEF y
<1>5. D \subseteq dirs /\ F \subseteq files
  OBVIOUS
<1>. HIDE DEF D, F
<1>6. FsOK'
  BY <1>1, <1>3, <1>4, <1>5, GoneKeeps
<1>7. <<Event("from", p)>> \in Seq(Events)
  BY <1>2, EventIsEvent DEF PathKinds
<1>. QED BY <1>1, <1>6, <1>7, NotifyKeeps

LEMMA MoveInKeeps ==
    ASSUME FsOK, EventsOK, NEW p \in FsPaths \cup FilePaths, MoveIn(p)
    PROVE  FsOK' /\ events' \in Seq(Events)
<1>1. /\ Len(p) > 1 => Parent(p) \in dirs
      /\ \/ Name(p) \in DirNames /\ dirs' = dirs \cup {p} /\ files' = files
         \/ Name(p) \in AllFiles /\ files' = files \cup {<<Parent(p), Name(p)>>} /\ dirs' = dirs
      /\ events' = events
  BY DEF MoveIn
<1>2. p \in PathLike
  BY FilePathsArePaths, FsPathIsPath
<1>3. Parent(p) \in dirs \cup {<<>>}
  BY <1>1, <1>2, PathParts
<1>4. CASE Name(p) \in DirNames /\ dirs' = dirs \cup {p} /\ files' = files
  <2>1. IsFiniteSet(dirs')
    BY <1>4, FS_AddElement DEF FsOK
  <2>. QED BY <1>1, <1>2, <1>4, <2>1 DEF FsOK, EventsOK
<1>5. CASE Name(p) \in AllFiles /\ files' = files \cup {<<Parent(p), Name(p)>>} /\ dirs' = dirs
  <2>1. IsFiniteSet(files')
    BY <1>5, FS_AddElement DEF FsOK
  <2>. QED BY <1>1, <1>3, <1>5, <2>1 DEF FsOK, EventsOK
<1>. QED BY <1>1, <1>4, <1>5

\* What users did is bounded, and nothing else of the system is theirs.
LEMMA UserKeeps ==
    ASSUME FsOK, EventsOK, acts \in 0 .. MaxActs, User
    PROVE  /\ FsOK' /\ EventsOK'
           /\ acts' \in 0 .. MaxActs /\ course' \in {"even", "renaming", "lost"}
           /\ UNCHANGED <<waits, watching, skips, pending, manager>>
<1>1. ASSUME NEW kind, Act(kind)
      PROVE  /\ acts' \in 0 .. MaxActs /\ course' \in {"even", "renaming", "lost"}
             /\ UNCHANGED <<waits, watching, skips, pending, manager>>
  <2>1. Course(kind) \in {"even", "renaming", "lost"}
    BY DEF Course
  <2>2. MaxActs \in Nat /\ MaxLost \in 0 .. MaxActs
    BY ActsAssumption
  <2>. QED BY <1>1, <2>1, <2>2 DEF Act
<1>2. ASSUME NEW p \in FsPaths, CreateFolder(p)
      PROVE  FsOK' /\ events' \in Seq(Events) /\ \E kind : Act(kind)
  BY <1>2, CreateFolderKeeps DEF CreateFolder
<1>3. ASSUME NEW d \in dirs \cup {<<>>}, NEW f \in AllFiles, CreateFile(d, f)
      PROVE  FsOK' /\ events' \in Seq(Events) /\ \E kind : Act(kind)
  BY <1>3, CreateFileKeeps DEF CreateFile
<1>4. ASSUME NEW x \in files, NEW c \in dirs \cup {<<>>}, NEW g \in AllFiles,
             RenameFile(x[1], x[2], c, g)
      PROVE  FsOK' /\ events' \in Seq(Events) /\ \E kind : Act(kind)
  BY <1>4, RenameFileKeeps DEF RenameFile
<1>5. ASSUME NEW p \in dirs, NEW q \in FsPaths, RenameFolder(p, q)
      PROVE  FsOK' /\ events' \in Seq(Events) /\ \E kind : Act(kind)
  BY <1>5, RenameFolderKeeps DEF RenameFolder
<1>6. ASSUME NEW p \in dirs, DeleteFolder(p)
      PROVE  FsOK' /\ events' \in Seq(Events) /\ \E kind : Act(kind)
  BY <1>6, DeleteFolderKeeps DEF DeleteFolder
<1>7. ASSUME NEW x \in files, DeleteFile(x[1], x[2])
      PROVE  FsOK' /\ events' \in Seq(Events) /\ \E kind : Act(kind)
  BY <1>7, DeleteFileKeeps DEF DeleteFile
<1>8. ASSUME NEW p \in dirs \cup FilePaths, MoveOut(p)
      PROVE  FsOK' /\ events' \in Seq(Events) /\ \E kind : Act(kind)
  BY <1>8, MoveOutKeeps DEF MoveOut
<1>9. ASSUME NEW p \in FsPaths \cup FilePaths, MoveIn(p)
      PROVE  FsOK' /\ events' \in Seq(Events) /\ \E kind : Act(kind)
  BY <1>9, MoveInKeeps DEF MoveIn
<1>10. FsOK' /\ events' \in Seq(Events) /\ \E kind : Act(kind)
  BY <1>2, <1>3, <1>4, <1>5, <1>6, <1>7, <1>8, <1>9 DEF User
<1>. QED BY <1>1, <1>10 DEF EventsOK

-----------------------------------------------------------------------------
(***************************************************************************)
(* What the watcher makes of an event.                                     *)
(***************************************************************************)
\* The changes it tells the manager, and its question.
Messages ==
    [type : {"new_bucket", "delete_bucket"}, bucket : Segs]
    \cup [type : {"new_key", "delete_key"}, at : PathLike]
    \cup [type : {"name_bucket"}, from : Segs, to : Segs]
    \cup [type : {"name_key"}, at : PathLike, to : Segs]
    \cup [type : {"new_object", "delete_object"}, at : Seq(Segs), name : Segs]
    \cup [type : {"name_object"}, at : Seq(Segs), from : Segs, to : Segs]
    \cup [type : {"what_is"}, path : PathLike]

\* What a handler leaves behind: only a question to a manager that is there is waited for.
Handled ==
    /\ FsOK' /\ EventsOK'
    /\ waits' \in BOOLEAN /\ watching' \in BOOLEAN
    /\ \/ ~waits' /\ TellNothing
       \/ \E c \in Messages : Tell(c) /\ (waits' => alive /\ c.type = "what_is")

Flags == waits \in BOOLEAN /\ watching \in BOOLEAN

\* A name that comes after the first place of a bucket.
LEMMA KeyAfterIsPath ==
    ASSUME NEW p \in PathLike, NEW b \in Segs, NEW k \in DOMAIN p, p[k] = b
    PROVE  KeyAfter(b, p) \in PathLike
<1>1. p \in Seq(Segs) /\ Len(p) \in Nat /\ DOMAIN p = 1 .. Len(p)
  BY PathParts
<1>. DEFINE T == {i \in 1 .. Len(p) : p[i] = b}
            i0 == CHOOSE i \in DOMAIN p : p[i] = b /\ \A j \in 1 .. i - 1 : p[j] # b
            rest == SubSeq(p, i0 + 1, Len(p))
            z == IF rest = <<>> THEN <<Dot>> ELSE rest
<1>2. T \in SUBSET Nat /\ T # {}
  BY <1>1
<1>3. PICK m \in T : \A i \in T : m <= i
  BY <1>2, LeastNumber
<1>4. m \in DOMAIN p /\ p[m] = b /\ \A j \in 1 .. m - 1 : p[j] # b
  BY <1>1, <1>3
<1>5. i0 \in DOMAIN p
  BY <1>4
<1>6. KeyAfter(b, p) = <<b>> \o z
  BY DEF KeyAfter
<1>. HIDE DEF i0, T
<1>7. rest \in Seq(Segs)
  BY <1>1, <1>5
<1>8. Dot \in Segs
  BY DEF Segs
<1>. HIDE DEF rest
<1>9. z \in Seq(Segs)
  BY <1>7, <1>8
<1>. HIDE DEF z
<1>10. <<b>> \o z \in Seq(Segs) /\ Len(<<b>> \o z) = 1 + Len(z) /\ Len(z) \in Nat
  BY <1>9
<1>11. <<b>> \o z # <<>>
  BY <1>10
<1>. QED BY <1>6, <1>10, <1>11 DEF PathLike

\* Another last name.
LEMMA RenamedParts ==
    ASSUME NEW p \in PathLike, NEW n \in Segs
    PROVE  /\ Append(Parent(p), n) \in PathLike
           /\ Parent(Append(Parent(p), n)) = Parent(p) /\ Name(Append(Parent(p), n)) = n
           /\ Len(Append(Parent(p), n)) = Len(p)
<1>1. Parent(p) \in Seq(Segs) /\ Len(Parent(p)) = Len(p) - 1 /\ Len(p) \in Nat
  BY PathParts
<1>. QED BY <1>1, AppendParts DEF PathLike

LEMMA EventAtHand ==
    ASSUME EventsOK, NEW kind, Handles(kind)
    PROVE  /\ e \in Events /\ e.kind = kind /\ Tail(events) \in Seq(Events)
           /\ ~waits /\ watching
<1>1. events \in Seq(Events) /\ events # <<>>
  BY DEF EventsOK, Handles
<1>2. Head(events) \in Events /\ Tail(events) \in Seq(Events)
  BY <1>1
<1>. QED BY <1>2 DEF Handles, e

LEMMA DoneKeeps ==
    ASSUME Flags, Tail(events) \in Seq(Events), NEW more \in Seq(Events), Done(more)
    PROVE  /\ events' \in Seq(Events) /\ waits' \in BOOLEAN /\ watching' \in BOOLEAN
           /\ waits' = waits
<1>1. events' = Tail(events) \o more /\ waits' = waits /\ watching' = watching
  BY DEF Done
<1>2. Tail(events) \o more \in Seq(Events)
  BY ConcatProperties
<1>. QED BY <1>1, <1>2 DEF Flags

LEMMA FsStays ==
    ASSUME FsOK, UNCHANGED fs
    PROVE  FsOK'
<1>1. dirs' = dirs /\ files' = files
  BY DEF fs
<1>. QED BY <1>1 DEF FsOK

LEMMA NoMore == <<>> \in Seq(Events)
OBVIOUS

LEMMA PanicKeeps ==
    ASSUME WatcherPanics
    PROVE  events' \in Seq(Events) /\ waits' \in BOOLEAN /\ watching' \in BOOLEAN /\ ~waits'
<1>1. events' = <<>> /\ waits' = FALSE /\ watching' = FALSE
  BY DEF WatcherPanics
<1>2. events' \in Seq(Events)
  BY <1>1, NoMore
<1>3. waits' \in BOOLEAN /\ watching' \in BOOLEAN /\ ~waits'
  BY <1>1, Zenon
<1>. QED BY <1>2, <1>3

LEMMA NewFolderIsMessage ==
    ASSUME NEW p \in PathLike
    PROVE  NewFolder(p) \in Messages /\ NewFolder(p).type # "what_is"
<1>1. p \in Seq(Segs) /\ Len(p) \in Nat /\ Len(p) # 0
  BY PathParts
<1>2. p[1] \in Segs
  BY <1>1
<1>. QED BY <1>2 DEF NewFolder, Messages

LEMMA CreateFolderHandled ==
    ASSUME FsOK, EventsOK, Flags, HandleCreateFolder
    PROVE  Handled
<1>. DEFINE p == e.path
            q == NormalNew(p)
            key == [type |-> "new_key", at |-> KeyAfter(Name(q), q)]
<1>1. /\ e \in Events /\ e.kind = "create_folder" /\ Tail(events) \in Seq(Events)
      /\ ~waits /\ watching
  BY EventAtHand DEF HandleCreateFolder
<1>2. p \in PathLike
  BY <1>1, EventFacts DEF PathKinds
<1>3. pending' = pending
  BY DEF HandleCreateFolder
<1>4. \/ q = p /\ Done(<<>>) /\ UNCHANGED fs /\ Tell(NewFolder(p))
      \/ Done(<<>>) /\ UNCHANGED fs /\ TellNothing
      \/ /\ CanMoveDir(p, q) /\ MoveDir(p, q) /\ Done(Renamed(p, q))
         /\ IF Len(p) = 1 THEN Tell(NewFolder(q)) ELSE Tell(key)
  BY DEF HandleCreateFolder
<1>5. q = Append(Parent(p), IF Norm[Name(p)] = Empty THEN Invalid ELSE Norm[Name(p)])
  BY DEF NormalNew, Normal
<1>. HIDE DEF p, q, key
<1>6. CASE Done(<<>>) /\ UNCHANGED fs /\ Tell(NewFolder(p))
  <2>1. FsOK' /\ events' \in Seq(Events) /\ waits' \in BOOLEAN /\ watching' \in BOOLEAN /\ ~waits'
    BY <1>1, <1>6, FsStays, DoneKeeps, NoMore
  <2>2. NewFolder(p) \in Messages
    BY <1>2, NewFolderIsMessage
  <2>. QED BY <1>3, <1>6, <2>1, <2>2 DEF Handled, EventsOK
<1>7. CASE Done(<<>>) /\ UNCHANGED fs /\ TellNothing
  <2>1. FsOK' /\ events' \in Seq(Events) /\ waits' \in BOOLEAN /\ watching' \in BOOLEAN /\ ~waits'
    BY <1>1, <1>7, FsStays, DoneKeeps, NoMore
  <2>. QED BY <1>3, <1>7, <2>1 DEF Handled, EventsOK
<1>8. CASE /\ CanMoveDir(p, q) /\ MoveDir(p, q) /\ Done(Renamed(p, q))
           /\ IF Len(p) = 1 THEN Tell(NewFolder(q)) ELSE Tell(key)
  <2>1. p \in dirs /\ ~Under(p, q) /\ (Len(q) > 1 => Parent(q) \in dirs)
    BY <1>8 DEF CanMoveDir
  <2>2. Name(p) \in DirNames
    BY <2>1, DirIsPath
  <2>. DEFINE n == IF Norm[Name(p)] = Empty THEN Invalid ELSE Norm[Name(p)]
  <2>3. n \in DirNames /\ n \in Segs
    BY <2>2, NamesApart
  <2>4. q = Append(Parent(p), n)
    BY <1>5
  <2>. HIDE DEF n
  <2>5. q \in PathLike /\ Name(q) = n
    BY <1>2, <2>3, <2>4, RenamedParts
  <2>6. FsOK'
    BY <1>8, <2>1, <2>3, <2>5, MoveDirKeeps
  <2>7. Renamed(p, q) \in Seq(Events)
    BY <1>2, <2>2, <2>5, RenamedIsEvents
  <2>8. events' \in Seq(Events) /\ waits' \in BOOLEAN /\ watching' \in BOOLEAN /\ ~waits'
    BY <1>1, <1>8, <2>7, DoneKeeps
  <2>9. \E c \in Messages : Tell(c)
    <3>1. q \in Seq(Segs) /\ Len(q) \in Nat /\ Len(q) # 0
      BY <2>5, PathParts
    <3>2. Len(q) \in DOMAIN q /\ q[Len(q)] = n
      BY <2>5, <3>1 DEF Name
    <3>3. KeyAfter(n, q) \in PathLike
      BY <2>3, <2>5, <3>2, KeyAfterIsPath
    <3>4. key \in Messages
      BY <2>5, <3>3 DEF Messages, key
    <3>5. NewFolder(q) \in Messages
      BY <2>5, NewFolderIsMessage
    <3>. QED BY <1>8, <3>4, <3>5
  <2>. QED BY <1>3, <2>6, <2>8, <2>9 DEF Handled, EventsOK
<1>. QED BY <1>4, <1>6, <1>7, <1>8

\* A file the normalised name of which is that of a file.
LEMMA NormalFile ==
    ASSUME FsOK, NEW p \in PathLike, IsFile(p)
    PROVE  /\ Normal(p) \in PathLike /\ Name(Normal(p)) \in AllFiles
           /\ Parent(Normal(p)) = Parent(p) /\ Parent(p) \in dirs \cup {<<>>}
           /\ Name(p) \in AllFiles /\ Renamed(p, Normal(p)) \in Seq(Events)
<1>1. Parent(p) \in dirs \cup {<<>>} /\ Name(p) \in AllFiles
  BY DEF IsFile, FsOK
<1>2. Norm[Name(p)] \in AllFiles /\ Norm[Name(p)] \in Segs /\ Norm[Name(p)] \notin DirNames
  BY <1>1, NamesApart
<1>3. /\ Normal(p) \in PathLike /\ Parent(Normal(p)) = Parent(p)
      /\ Name(Normal(p)) = Norm[Name(p)]
  BY <1>2, RenamedParts DEF Normal
<1>4. Renamed(p, Normal(p)) \in Seq(Events)
  BY <1>2, <1>3, RenamedIsEvents
<1>. QED BY <1>1, <1>2, <1>3, <1>4

LEMMA CreateFileHandled ==
    ASSUME FsOK, EventsOK, Flags, HandleCreateFile
    PROVE  Handled
<1>. DEFINE p == e.path
            q == Normal(p)
            new == [type |-> "new_object", at |-> Parent(p), name |-> Name(q)]
<1>1. /\ e \in Events /\ e.kind = "create_file" /\ Tail(events) \in Seq(Events)
      /\ ~waits /\ watching
  BY EventAtHand DEF HandleCreateFile
<1>2. p \in PathLike /\ Parent(p) \in Seq(Segs) /\ Name(p) \in Segs
  BY <1>1, EventFacts, PathParts DEF PathKinds
<1>3. pending' = pending
  BY DEF HandleCreateFile
<1>4. \/ q = p /\ Done(<<>>) /\ UNCHANGED fs /\ Tell(new)
      \/ Done(<<>>) /\ UNCHANGED fs /\ TellNothing
      \/ IsFile(p) /\ MoveFile(p, q) /\ Done(Renamed(p, q)) /\ Tell(new)
  BY DEF HandleCreateFile
<1>5. Name(q) \in Segs => new \in Messages
  BY <1>2 DEF Messages
<1>6. CASE q = p /\ Done(<<>>) /\ UNCHANGED fs /\ Tell(new)
  <2>. HIDE DEF q, p, new
  <2>1. FsOK' /\ events' \in Seq(Events) /\ waits' \in BOOLEAN /\ watching' \in BOOLEAN /\ ~waits'
    BY <1>1, <1>6, FsStays, DoneKeeps, NoMore
  <2>2. new \in Messages
    BY <1>2, <1>5, <1>6
  <2>. QED BY <1>3, <1>6, <2>1, <2>2 DEF Handled, EventsOK
<1>7. CASE Done(<<>>) /\ UNCHANGED fs /\ TellNothing
  <2>1. FsOK' /\ events' \in Seq(Events) /\ waits' \in BOOLEAN /\ watching' \in BOOLEAN /\ ~waits'
    BY <1>1, <1>7, FsStays, DoneKeeps, NoMore
  <2>. QED BY <1>3, <1>7, <2>1 DEF Handled, EventsOK
<1>8. CASE IsFile(p) /\ MoveFile(p, q) /\ Done(Renamed(p, q)) /\ Tell(new)
  <2>1. /\ Name(q) \in AllFiles /\ Parent(q) \in dirs \cup {<<>>}
        /\ Renamed(p, q) \in Seq(Events)
    BY <1>2, <1>8, NormalFile
  <2>. HIDE DEF q, p, new
  <2>2. FsOK'
    BY <1>8, <2>1, MoveFileKeeps
  <2>3. events' \in Seq(Events) /\ waits' \in BOOLEAN /\ watching' \in BOOLEAN /\ ~waits'
    BY <1>1, <1>8, <2>1, DoneKeeps
  <2>4. new \in Messages
    BY <1>5, <2>1, NamesApart
  <2>. QED BY <1>3, <1>8, <2>2, <2>3, <2>4 DEF Handled, EventsOK
<1>. QED BY <1>4, <1>6, <1>7, <1>8

LEMMA FromHandled ==
    ASSUME FsOK, EventsOK, Flags, HandleFrom
    PROVE  Handled
<1>1. /\ e \in Events /\ e.kind = "from" /\ Tail(events) \in Seq(Events)
      /\ ~waits /\ watching
  BY EventAtHand DEF HandleFrom
<1>2. e.path \in PathLike
  BY <1>1, EventFacts DEF PathKinds
<1>3. pending' = pending \cup {e.path} /\ Done(<<>>) /\ UNCHANGED fs /\ TellNothing
  BY DEF HandleFrom
<1>4. FsOK' /\ events' \in Seq(Events) /\ waits' \in BOOLEAN /\ watching' \in BOOLEAN /\ ~waits'
  BY <1>1, <1>3, FsStays, DoneKeeps, NoMore
<1>. QED BY <1>2, <1>3, <1>4 DEF Handled, EventsOK

\* What the manager is told of the new name of a directory.
LEMMA NamedIsMessage ==
    ASSUME NEW p \in PathLike, NEW q \in PathLike, Len(q) = 1 \/ HasKey(p, q)
    PROVE  Named(p, q) \in Messages
<1>1. /\ p \in Seq(Segs) /\ q \in Seq(Segs) /\ Name(p) \in Segs /\ Name(q) \in Segs
      /\ Len(q) \in Nat /\ Len(q) # 0
  BY PathParts
<1>2. CASE Len(q) = 1
  BY <1>1, <1>2 DEF Named, Messages
<1>3. CASE Len(q) # 1
  <2>1. PICK k \in DOMAIN p : p[k] = q[1]
    BY <1>3 DEF HasKey
  <2>2. q[1] \in Segs
    BY <1>1
  <2>3. KeyAfter(q[1], p) \in PathLike
    BY <2>1, <2>2, KeyAfterIsPath
  <2>. QED BY <1>1, <1>3, <2>3 DEF Named, Messages
<1>. QED BY <1>2, <1>3

LEMMA BothDirHandled ==
    ASSUME FsOK, EventsOK, Flags, HandleBothDir
    PROVE  Handled
<1>. DEFINE p == e.from
            o == e.to
            q == Normal(o)
            known == Len(q) = 1 \/ HasKey(p, q)
<1>1. /\ e \in Events /\ e.kind = "both" /\ Tail(events) \in Seq(Events)
      /\ ~waits /\ watching
  BY EventAtHand DEF HandleBothDir
<1>2. p \in PathLike /\ o \in PathLike /\ (Name(o) \in DirNames => Name(p) \in DirNames)
  BY <1>1, EventFacts
<1>3. pending' = pending \ {p} /\ o \in dirs
  BY DEF HandleBothDir, IsDir
<1>4. \/ Done(<<>>) /\ UNCHANGED fs /\ TellNothing
      \/ q = o /\ known /\ Done(<<>>) /\ UNCHANGED fs /\ Tell(Named(p, q))
      \/ WatcherPanics /\ UNCHANGED fs /\ TellNothing
      \/ CanMoveDir(o, p) /\ MoveDir(o, p) /\ Done(Renamed(o, p)) /\ TellNothing
      \/ /\ Name(q) # Empty /\ known /\ Tell(Named(p, q))
         /\ \/ CanMoveDir(o, q) /\ MoveDir(o, q) /\ Done(Renamed(o, q))
            \/ Done(<<>>) /\ UNCHANGED fs
      \/ /\ Name(q) # Empty /\ WatcherPanics /\ TellNothing
         /\ CanMoveDir(o, q) /\ MoveDir(o, q)
  BY DEF HandleBothDir
<1>5. Name(o) \in DirNames /\ Name(p) \in DirNames
  BY <1>2, <1>3, DirIsPath
<1>6. Norm[Name(o)] \in Segs /\ (Norm[Name(o)] # Empty => Norm[Name(o)] \in DirNames)
  <2>1. Norm[Name(o)] # Empty => Norm[Name(o)] \in DirNames
    BY <1>5, NamesApart
  <2>2. Empty \in Segs /\ DirNames \subseteq Segs
    BY DEF Segs
  <2>. QED BY <2>1, <2>2
<1>7. q \in PathLike /\ (Name(q) # Empty => Name(q) \in DirNames)
  BY <1>2, <1>6, RenamedParts DEF Normal
<1>. HIDE DEF q, p, o
<1>8. known => Named(p, q) \in Messages
  BY <1>2, <1>7, NamedIsMessage
<1>9. pending' \subseteq PathLike
  BY <1>3 DEF EventsOK
<1>10. ASSUME Done(<<>>), UNCHANGED fs
       PROVE  FsOK' /\ events' \in Seq(Events) /\ waits' \in BOOLEAN /\ watching' \in BOOLEAN /\ ~waits'
  BY <1>1, <1>10, FsStays, DoneKeeps, NoMore
<1>11. ASSUME NEW r \in PathLike, Name(r) \in DirNames, CanMoveDir(o, r), MoveDir(o, r)
       PROVE  FsOK' /\ Renamed(o, r) \in Seq(Events)
  <2>1. ~Under(o, r) /\ (Len(r) > 1 => Parent(r) \in dirs)
    BY <1>11 DEF CanMoveDir
  <2>2. FsOK'
    BY <1>3, <1>11, <2>1, MoveDirKeeps
  <2>. QED BY <1>2, <1>5, <2>2, RenamedIsEvents
<1>12. ASSUME NEW r \in PathLike, Name(r) \in DirNames, CanMoveDir(o, r), MoveDir(o, r),
              Done(Renamed(o, r))
       PROVE  FsOK' /\ events' \in Seq(Events) /\ waits' \in BOOLEAN /\ watching' \in BOOLEAN /\ ~waits'
  <2>1. FsOK' /\ Renamed(o, r) \in Seq(Events)
    BY <1>11, <1>12
  <2>. QED BY <1>1, <1>12, <2>1, DoneKeeps
<1>13. CASE Done(<<>>) /\ UNCHANGED fs /\ TellNothing
  BY <1>9, <1>10, <1>13 DEF Handled, EventsOK
<1>14. CASE q = o /\ known /\ Done(<<>>) /\ UNCHANGED fs /\ Tell(Named(p, q))
  BY <1>8, <1>9, <1>10, <1>14 DEF Handled, EventsOK
<1>15. CASE WatcherPanics /\ UNCHANGED fs /\ TellNothing
  BY <1>9, <1>15, FsStays, PanicKeeps DEF Handled, EventsOK
<1>16. CASE CanMoveDir(o, p) /\ MoveDir(o, p) /\ Done(Renamed(o, p)) /\ TellNothing
  BY <1>2, <1>5, <1>9, <1>12, <1>16 DEF Handled, EventsOK
<1>17. CASE /\ Name(q) # Empty /\ known /\ Tell(Named(p, q))
            /\ \/ CanMoveDir(o, q) /\ MoveDir(o, q) /\ Done(Renamed(o, q))
               \/ Done(<<>>) /\ UNCHANGED fs
  <2>1. FsOK' /\ events' \in Seq(Events) /\ waits' \in BOOLEAN /\ watching' \in BOOLEAN /\ ~waits'
    BY <1>7, <1>10, <1>12, <1>17
  <2>. QED BY <1>8, <1>9, <1>17, <2>1 DEF Handled, EventsOK
<1>18. CASE /\ Name(q) # Empty /\ WatcherPanics /\ TellNothing
            /\ CanMoveDir(o, q) /\ MoveDir(o, q)
  BY <1>7, <1>9, <1>11, <1>18, PanicKeeps DEF Handled, EventsOK
<1>. QED BY <1>4, <1>13, <1>14, <1>15, <1>16, <1>17, <1>18

LEMMA BothObjectHandled ==
    ASSUME FsOK, EventsOK, Flags, HandleBothObject
    PROVE  Handled
<1>. DEFINE p == e.from
            o == e.to
            q == Normal(o)
            named == [type |-> "name_object", at |-> Parent(q), from |-> Name(p), to |-> Name(q)]
            renamed == [type |-> "name_object", at |-> Parent(q), from |-> Name(o), to |-> Name(q)]
<1>1. /\ e \in Events /\ e.kind = "both" /\ Tail(events) \in Seq(Events)
      /\ ~waits /\ watching
  BY EventAtHand DEF HandleBothObject
<1>2. p \in PathLike /\ o \in PathLike
  BY <1>1, EventFacts
<1>3. pending' = pending \ {p}
  BY DEF HandleBothObject
<1>4. \/ Done(<<>>) /\ UNCHANGED fs /\ TellNothing
      \/ q = o /\ Done(<<>>) /\ UNCHANGED fs /\ Tell(named)
      \/ WatcherPanics /\ UNCHANGED fs /\ TellNothing
      \/ IsFile(o) /\ MoveFile(o, q) /\ Done(Renamed(o, q)) /\ Tell(renamed)
  BY DEF HandleBothObject
<1>5. Parent(o) \in Seq(Segs) /\ Name(o) \in Segs /\ Name(p) \in Segs
  BY <1>2, PathParts
<1>6. IsFile(o) => /\ q \in PathLike /\ Name(q) \in AllFiles /\ Parent(q) = Parent(o)
                   /\ Parent(q) \in dirs \cup {<<>>} /\ Renamed(o, q) \in Seq(Events)
  BY <1>2, NormalFile
<1>. HIDE DEF q, p, o
<1>7. (q = o \/ IsFile(o)) => Parent(q) \in Seq(Segs) /\ Name(q) \in Segs
  BY <1>5, <1>6, NamesApart
<1>8. (q = o \/ IsFile(o)) => named \in Messages /\ renamed \in Messages
  BY <1>5, <1>7 DEF Messages
<1>. HIDE DEF named, renamed
<1>9. pending' \subseteq PathLike
  BY <1>3 DEF EventsOK
<1>10. ASSUME Done(<<>>), UNCHANGED fs
       PROVE  FsOK' /\ events' \in Seq(Events) /\ waits' \in BOOLEAN /\ watching' \in BOOLEAN /\ ~waits'
  BY <1>1, <1>10, FsStays, DoneKeeps, NoMore
<1>11. CASE Done(<<>>) /\ UNCHANGED fs /\ TellNothing
  BY <1>9, <1>10, <1>11 DEF Handled, EventsOK
<1>12. CASE q = o /\ Done(<<>>) /\ UNCHANGED fs /\ Tell(named)
  BY <1>8, <1>9, <1>10, <1>12 DEF Handled, EventsOK
<1>13. CASE WatcherPanics /\ UNCHANGED fs /\ TellNothing
  BY <1>9, <1>13, FsStays, PanicKeeps DEF Handled, EventsOK
<1>14. CASE IsFile(o) /\ MoveFile(o, q) /\ Done(Renamed(o, q)) /\ Tell(renamed)
  <2>1. FsOK'
    BY <1>6, <1>14, MoveFileKeeps
  <2>2. events' \in Seq(Events) /\ waits' \in BOOLEAN /\ watching' \in BOOLEAN /\ ~waits'
    BY <1>1, <1>6, <1>14, DoneKeeps
  <2>. QED BY <1>8, <1>9, <1>14, <2>1, <2>2 DEF Handled, EventsOK
<1>. QED BY <1>4, <1>11, <1>12, <1>13, <1>14

LEMMA RemoveFolderHandled ==
    ASSUME FsOK, EventsOK, Flags, HandleRemoveFolder
    PROVE  Handled
<1>. DEFINE p == e.path
            c == IF Len(p) = 1 THEN [type |-> "delete_bucket", bucket |-> p[1]]
                 ELSE [type |-> "delete_key", at |-> p]
<1>1. /\ e \in Events /\ e.kind = "remove_folder" /\ Tail(events) \in Seq(Events)
      /\ ~waits /\ watching
  BY EventAtHand DEF HandleRemoveFolder
<1>2. p \in PathLike
  BY <1>1, EventFacts DEF PathKinds
<1>3. pending' = pending /\ Done(<<>>) /\ UNCHANGED fs /\ Tell(c)
  BY DEF HandleRemoveFolder
<1>. HIDE DEF p
<1>4. p \in Seq(Segs) /\ Len(p) \in Nat /\ Len(p) # 0
  BY <1>2, PathParts
<1>5. p[1] \in Segs
  BY <1>4
<1>6. c \in Messages
  BY <1>2, <1>5 DEF Messages
<1>. HIDE DEF c
<1>7. FsOK' /\ events' \in Seq(Events) /\ waits' \in BOOLEAN /\ watching' \in BOOLEAN /\ ~waits'
  BY <1>1, <1>3, FsStays, DoneKeeps, NoMore
<1>. QED BY <1>3, <1>6, <1>7 DEF Handled, EventsOK

LEMMA RemoveFileHandled ==
    ASSUME FsOK, EventsOK, Flags, HandleRemoveFile
    PROVE  Handled
<1>. DEFINE c == [type |-> "delete_object", at |-> e.path, name |-> Name(e.path)]
<1>1. /\ e \in Events /\ e.kind = "remove_file" /\ Tail(events) \in Seq(Events)
      /\ ~waits /\ watching
  BY EventAtHand DEF HandleRemoveFile
<1>2. e.path \in Seq(Segs) /\ Name(e.path) \in Segs
  BY <1>1, EventFacts, PathParts DEF PathKinds
<1>3. pending' = pending /\ Done(<<>>) /\ UNCHANGED fs /\ Tell(c)
  BY DEF HandleRemoveFile
<1>4. c \in Messages
  BY <1>2 DEF Messages
<1>. HIDE DEF c
<1>5. FsOK' /\ events' \in Seq(Events) /\ waits' \in BOOLEAN /\ watching' \in BOOLEAN /\ ~waits'
  BY <1>1, <1>3, FsStays, DoneKeeps, NoMore
<1>. QED BY <1>3, <1>4, <1>5 DEF Handled, EventsOK

LEMMA RemoveAnyHandled ==
    ASSUME FsOK, EventsOK, Flags, HandleRemoveAny
    PROVE  Handled
<1>. DEFINE c == [type |-> "what_is", path |-> e.path]
<1>1. /\ e \in Events /\ e.kind = "remove_any" /\ Tail(events) \in Seq(Events)
      /\ ~waits /\ watching
  BY EventAtHand DEF HandleRemoveAny
<1>2. e.path \in PathLike
  BY <1>1, EventFacts DEF PathKinds
<1>3. /\ pending' = pending /\ UNCHANGED fs
      /\ \/ alive /\ waits' = TRUE /\ events' = Tail(events) /\ watching' = watching /\ Tell(c)
         \/ WatcherPanics /\ TellNothing
  BY DEF HandleRemoveAny
<1>4. c \in Messages /\ c.type = "what_is"
  BY <1>2 DEF Messages
<1>. HIDE DEF c
<1>5. FsOK'
  BY <1>3, FsStays
<1>6. CASE alive /\ waits' = TRUE /\ events' = Tail(events) /\ watching' = watching /\ Tell(c)
  <2>1. waits' \in BOOLEAN /\ watching' \in BOOLEAN
    BY <1>6, Zenon DEF Flags
  <2>2. events' \in Seq(Events)
    BY <1>1, <1>6
  <2>. QED BY <1>3, <1>4, <1>5, <1>6, <2>1, <2>2 DEF Handled, EventsOK
<1>7. CASE WatcherPanics /\ TellNothing
  BY <1>3, <1>5, <1>7, PanicKeeps DEF Handled, EventsOK
<1>. QED BY <1>3, <1>6, <1>7

LEMMA PathlessHandled ==
    ASSUME FsOK, EventsOK, Flags, HandlePathless
    PROVE  Handled
<1>1. Tail(events) \in Seq(Events) /\ ~waits
  BY EventAtHand DEF HandlePathless
<1>2. pending' = pending /\ Done(<<>>) /\ UNCHANGED fs /\ TellNothing
  BY DEF HandlePathless
<1>3. FsOK' /\ events' \in Seq(Events) /\ waits' \in BOOLEAN /\ watching' \in BOOLEAN /\ ~waits'
  BY <1>1, <1>2, FsStays, DoneKeeps, NoMore
<1>. QED BY <1>2, <1>3 DEF Handled, EventsOK

LEMMA WatcherHandled ==
    ASSUME FsOK, EventsOK, Flags, Watcher
    PROVE  Handled
BY CreateFolderHandled, CreateFileHandled, FromHandled, BothDirHandled, BothObjectHandled,
   RemoveFolderHandled, RemoveFileHandled, RemoveAnyHandled, PathlessHandled DEF Watcher

-----------------------------------------------------------------------------
(***************************************************************************)
(* The tree.  An entry hangs in the child map of the one above it: that    *)
(* all those further above are there too follows.                          *)
(***************************************************************************)
Hung(t) ==
    /\ DOMAIN t \subseteq PathLike
    /\ \A p \in DOMAIN t : Len(p) > 1 => Parent(p) \in DOMAIN t /\ t[Parent(p)].keys

\* Functions of entries.
Entries(t) ==
    /\ t = [p \in DOMAIN t |-> t[p]]
    /\ \A p \in DOMAIN t : t[p] = [objects |-> t[p].objects, keys |-> t[p].keys]

TreeOK(t) == Hung(t) /\ Entries(t)

LEMMA HungIsNested ==
    ASSUME NEW t, Hung(t)
    PROVE  Nested(t)
<1>. DEFINE Bad(p) == {d \in Nat : \E n \in 1 .. Len(p) - 1 :
                          /\ d = Len(p) - n
                          /\ ~(SubSeq(p, 1, n) \in DOMAIN t /\ t[SubSeq(p, 1, n)].keys)}
<1>. SUFFICES ASSUME NEW p \in DOMAIN t, NEW n \in 1 .. Len(p) - 1,
                     ~(SubSeq(p, 1, n) \in DOMAIN t /\ t[SubSeq(p, 1, n)].keys)
              PROVE  FALSE
  BY DEF Nested
<1>1. p \in PathLike /\ p \in Seq(Segs) /\ Len(p) \in Nat
  BY PathParts DEF Hung
<1>2. Len(p) - n \in Bad(p)
  BY <1>1
<1>3. PICK d \in Bad(p) : \A k \in Bad(p) : d <= k
  <2>1. Bad(p) \in SUBSET Nat /\ Bad(p) # {}
    BY <1>2
  <2>. HIDE DEF Bad
  <2>. QED BY <2>1, LeastNumber
<1>4. PICK m \in 1 .. Len(p) - 1 :
         d = Len(p) - m /\ ~(SubSeq(p, 1, m) \in DOMAIN t /\ t[SubSeq(p, 1, m)].keys)
  BY <1>3
<1>. DEFINE x == SubSeq(p, 1, m + 1)
            y == SubSeq(p, 1, m)
<1>5. x \in Seq(Segs) /\ Len(x) = m + 1 /\ \A i \in 1 .. m + 1 : x[i] = p[i]
  <2>. DEFINE k == m + 1
  <2>1. k \in 0 .. Len(p)
    BY <1>1, <1>4
  <2>. HIDE DEF k
  <2>2. /\ SubSeq(p, 1, k) \in Seq(Segs) /\ Len(SubSeq(p, 1, k)) = k
        /\ \A i \in 1 .. k : SubSeq(p, 1, k)[i] = p[i]
    BY <1>1, <2>1, PrefixFacts
  <2>. QED BY <2>2 DEF k
<1>6. y \in Seq(Segs) /\ Len(y) = m /\ \A i \in 1 .. m : y[i] = p[i]
  <2>1. m \in 0 .. Len(p)
    BY <1>1, <1>4
  <2>. QED BY <1>1, <2>1, PrefixFacts
<1>7. x \in DOMAIN t
  <2>1. CASE m + 1 = Len(p)
    <3>. HIDE DEF x
    <3>1. x = p
      BY <1>1, <1>5, <2>1, SeqEqual
    <3>. QED BY <3>1
  <2>2. CASE m + 1 # Len(p)
    <3>1. m + 1 \in 1 .. Len(p) - 1 /\ Len(p) - (m + 1) \in Nat
          /\ ~(Len(p) - m <= Len(p) - (m + 1))
      BY <1>1, <1>4, <2>2
    <3>2. Len(p) - (m + 1) \notin Bad(p)
      BY <1>3, <1>4, <3>1
    <3>. QED BY <3>1, <3>2
  <2>. QED BY <2>1, <2>2
<1>. HIDE DEF x, y
<1>8. Len(x) # 0 /\ Len(x) > 1 /\ m \in Nat
  BY <1>4, <1>5
<1>9. Parent(x) \in Seq(Segs) /\ Len(Parent(x)) = Len(x) - 1 /\ Under(Parent(x), x)
  BY <1>5, <1>8, SplitPath
<1>10. Parent(x) = y
  <2>1. Len(Parent(x)) = m
    BY <1>5, <1>8, <1>9
  <2>2. \A i \in 1 .. m : Parent(x)[i] = x[i]
    BY <1>5, <1>9, <2>1, UnderIs
  <2>3. \A i \in 1 .. m : Parent(x)[i] = y[i]
    BY <1>5, <1>6, <1>8, <2>2
  <2>. QED BY <1>6, <1>9, <2>1, <2>3, SeqEqual
<1>11. y \in DOMAIN t /\ t[y].keys
  BY <1>7, <1>8, <1>10 DEF Hung
<1>. QED BY <1>4, <1>11 DEF y

\* Moving there and back.
LEMMA RebaseBack ==
    ASSUME NEW from \in Seq(Segs), NEW to \in Seq(Segs), NEW x \in Seq(Segs), Under(from, x)
    PROVE  Rebase(Rebase(x, from, to), to, from) = x
<1>. DEFINE y == Rebase(x, from, to)
            z == Rebase(y, to, from)
            d == Len(x) - Len(from)
<1>1. /\ y \in Seq(Segs) /\ Len(y) = Len(to) + d /\ d \in Nat /\ Under(to, y)
      /\ \A i \in 1 .. d : y[Len(to) + i] = x[Len(from) + i]
  BY RebaseFacts
<1>2. /\ Len(from) \in Nat /\ Len(to) \in Nat /\ Len(x) \in Nat
      /\ \A i \in 1 .. Len(from) : from[i] = x[i]
  BY UnderIs
<1>3. Len(x) = Len(from) + d
  BY <1>2
<1>. HIDE DEF y, d
<1>4. Len(y) - Len(to) = d
  BY <1>1, <1>2
<1>. HIDE DEF z
<1>5. /\ z \in Seq(Segs) /\ Len(z) = Len(from) + d
      /\ \A i \in 1 .. Len(from) : z[i] = from[i]
      /\ \A i \in 1 .. d : z[Len(from) + i] = y[Len(to) + i]
  <2>1. y \in Seq(Segs) /\ Under(to, y)
    BY <1>1
  <2>2. /\ z \in Seq(Segs) /\ Len(z) = Len(from) + (Len(y) - Len(to))
        /\ \A i \in 1 .. Len(from) : z[i] = from[i]
        /\ \A i \in 1 .. Len(y) - Len(to) : z[Len(from) + i] = y[Len(to) + i]
    BY <2>1, RebaseFacts DEF z
  <2>. QED BY <1>4, <2>2
<1>6. ASSUME NEW i \in 1 .. Len(x) PROVE z[i] = x[i]
  <2>1. CASE i \in 1 .. Len(from)
    BY <1>2, <1>5, <2>1
  <2>2. CASE i \notin 1 .. Len(from)
    <3>. DEFINE j == i - Len(from)
    <3>1. j \in 1 .. d /\ i = Len(from) + j
      BY <1>1, <1>2, <1>3, <2>2
    <3>. HIDE DEF j
    <3>. QED BY <1>1, <1>5, <3>1
  <2>. QED BY <2>1, <2>2
<1>7. z = x
  BY <1>3, <1>5, <1>6, SeqEqual
<1>. QED BY <1>7 DEF z, y

LEMMA OrDefaultKeeps ==
    ASSUME NEW t, TreeOK(t), NEW p \in PathLike,
           Len(p) > 1 => Parent(p) \in DOMAIN t /\ t[Parent(p)].keys
    PROVE  TreeOK(OrDefault(t, p))
<1>. DEFINE u == OrDefault(t, p)
<1>1. /\ DOMAIN u = DOMAIN t \cup {p}
      /\ \A q \in DOMAIN t : u[q] = t[q]
      /\ p \notin DOMAIN t => u[p] = EmptyEntry
      /\ u = [q \in DOMAIN u |-> u[q]]
  BY DEF OrDefault
<1>. HIDE DEF u
<1>2. EmptyEntry = [objects |-> EmptyEntry.objects, keys |-> EmptyEntry.keys]
  BY DEF EmptyEntry
<1>3. \A q \in DOMAIN u : u[q] = [objects |-> u[q].objects, keys |-> u[q].keys]
  BY <1>1, <1>2 DEF TreeOK, Entries
<1>4. Hung(u)
  BY <1>1 DEF TreeOK, Hung
<1>. QED BY <1>1, <1>3, <1>4 DEF u, TreeOK, Entries

LEMMA RemoveKeeps ==
    ASSUME NEW t, TreeOK(t), NEW p \in PathLike
    PROVE  TreeOK(RemoveEntry(t, p))
<1>. DEFINE u == RemoveEntry(t, p)
<1>1. /\ DOMAIN u = {q \in DOMAIN t : ~Under(p, q)}
      /\ \A q \in DOMAIN u : u[q] = t[q]
      /\ u = [q \in DOMAIN u |-> u[q]]
  BY DEF RemoveEntry
<1>. HIDE DEF u
<1>2. Entries(u)
  BY <1>1 DEF TreeOK, Entries
<1>3. ASSUME NEW q \in DOMAIN u, Len(q) > 1
      PROVE  Parent(q) \in DOMAIN u /\ u[Parent(q)].keys
  <2>1. q \in DOMAIN t /\ ~Under(p, q) /\ q \in PathLike
        /\ Parent(q) \in DOMAIN t /\ t[Parent(q)].keys
    BY <1>1, <1>3 DEF TreeOK, Hung
  <2>2. p \in Seq(Segs) /\ q \in Seq(Segs) /\ Parent(q) \in Seq(Segs) /\ Under(Parent(q), q)
    BY <2>1, PathParts
  <2>3. ~Under(p, Parent(q))
    BY <2>1, <2>2, UnderOrder
  <2>. QED BY <1>1, <2>1, <2>3
<1>4. Hung(u)
  BY <1>1, <1>3 DEF TreeOK, Hung
<1>. QED BY <1>2, <1>4 DEF u, TreeOK

\* An entry that is there is moved to another place in the same map.
LEMMA MoveKeeps ==
    ASSUME NEW t, TreeOK(t), NEW from \in DOMAIN t, NEW to \in PathLike,
           Parent(to) = Parent(from)
    PROVE  TreeOK(MoveEntry(t, from, to))
<1>. DEFINE kept == {q \in DOMAIN t : ~Under(from, q) /\ ~Under(to, q)}
            below == {r \in DOMAIN t : Under(from, r)}
            moved == {Rebase(q, from, to) : q \in below}
            u == MoveEntry(t, from, to)
<1>1. /\ DOMAIN u = kept \cup moved
      /\ \A q \in DOMAIN u : u[q] = IF q \in moved THEN t[Rebase(q, to, from)] ELSE t[q]
      /\ u = [q \in DOMAIN u |-> u[q]]
  BY DEF MoveEntry
<1>2. \A q \in DOMAIN t : /\ q \in PathLike /\ q \in Seq(Segs)
                          /\ Len(q) > 1 => Parent(q) \in DOMAIN t /\ t[Parent(q)].keys
                          /\ t[q] = [objects |-> t[q].objects, keys |-> t[q].keys]
  BY PathParts DEF TreeOK, Hung, Entries
<1>3. /\ from \in PathLike /\ from \in Seq(Segs) /\ to \in Seq(Segs)
      /\ Len(from) \in Nat /\ Len(to) \in Nat /\ Len(to) = Len(from)
      /\ Len(Parent(from)) = Len(from) - 1 /\ Parent(from) \in Seq(Segs)
  BY <1>2, PathParts
<1>4. ASSUME NEW x \in below
      PROVE  /\ Rebase(x, from, to) \in PathLike /\ Under(to, Rebase(x, from, to))
             /\ Rebase(Rebase(x, from, to), to, from) = x
  <2>1. x \in Seq(Segs) /\ Under(from, x) /\ x \in PathLike
    BY <1>2
  <2>2. Rebase(x, from, to) \in Seq(Segs) /\ Under(to, Rebase(x, from, to))
    BY <1>3, <2>1, RebaseFacts
  <2>3. Rebase(Rebase(x, from, to), to, from) = x
    BY <1>3, <2>1, RebaseBack
  <2>4. Rebase(x, from, to) # <<>>
    <3>1. CASE x = from
      <4>1. Rebase(from, from, to) = to
        BY <1>3, RebaseSelf
      <4>. QED BY <3>1, <4>1 DEF PathLike
    <3>2. CASE x # from
      BY <1>3, <2>1, <3>2, RebaseParts
    <3>. QED BY <3>1, <3>2
  <2>. QED BY <2>2, <2>3, <2>4 DEF PathLike
<1>5. \A q \in moved : \E x \in below : q = Rebase(x, from, to)
  OBVIOUS
<1>6. \A x \in below : x \in DOMAIN t /\ Under(from, x) /\ Rebase(x, from, to) \in moved
  OBVIOUS
<1>7. \A q : q \in kept <=> q \in DOMAIN t /\ ~Under(from, q) /\ ~Under(to, q)
  OBVIOUS
<1>70. \A x \in DOMAIN t : Under(from, x) => x \in below
  OBVIOUS
<1>. HIDE DEF kept, below, moved, u
<1>8. \A q \in moved : q \in PathLike /\ Under(to, q) /\ \E x \in below :
                          q = Rebase(x, from, to) /\ u[q] = t[x]
  BY <1>1, <1>4, <1>5
<1>9. \A q \in kept : q \notin moved /\ u[q] = t[q]
  BY <1>1, <1>7, <1>8
<1>10. \A q \in DOMAIN u : u[q] = [objects |-> u[q].objects, keys |-> u[q].keys]
  BY <1>1, <1>2, <1>6, <1>7, <1>8, <1>9
<1>11. DOMAIN u \subseteq PathLike
  BY <1>1, <1>2, <1>7, <1>8
<1>12. ASSUME Len(from) > 1
       PROVE  Parent(from) \in DOMAIN u /\ u[Parent(from)].keys
  <2>1. Parent(from) \in DOMAIN t /\ t[Parent(from)].keys
    BY <1>2, <1>12
  <2>2. ~Under(from, Parent(from)) /\ ~Under(to, Parent(from))
    BY <1>3 DEF Under
  <2>. QED BY <1>1, <1>7, <1>9, <2>1, <2>2
<1>13. ASSUME NEW q \in kept, Len(q) > 1
       PROVE  Parent(q) \in DOMAIN u /\ u[Parent(q)].keys
  <2>1. /\ q \in DOMAIN t /\ ~Under(from, q) /\ ~Under(to, q) /\ q \in PathLike
        /\ Parent(q) \in DOMAIN t /\ t[Parent(q)].keys
    BY <1>2, <1>7, <1>13
  <2>2. q \in Seq(Segs) /\ Parent(q) \in Seq(Segs) /\ Under(Parent(q), q)
    BY <2>1, PathParts
  <2>3. ~Under(from, Parent(q)) /\ ~Under(to, Parent(q))
    BY <1>3, <2>1, <2>2, UnderOrder
  <2>. QED BY <1>1, <1>7, <1>9, <2>1, <2>3
<1>14. ASSUME NEW x \in below, x # from
       PROVE  /\ Parent(Rebase(x, from, to)) \in DOMAIN u
              /\ u[Parent(Rebase(x, from, to))].keys
  <2>1. x \in DOMAIN t /\ Under(from, x) /\ x \in PathLike /\ x \in Seq(Segs)
    BY <1>2, <1>6
  <2>2. /\ Under(from, Parent(x))
        /\ Parent(Rebase(x, from, to)) = Rebase(Parent(x), from, to)
    BY <1>3, <1>14, <2>1, RebaseParts
  <2>3. Len(from) <= Len(Parent(x)) /\ Len(from) # 0 /\ Len(x) \in Nat
        /\ Len(Parent(x)) = Len(x) - 1
    BY <1>3, <2>1, <2>2, PathParts DEF Under
  <2>4. Len(x) > 1
    BY <1>3, <2>3
  <2>5. Parent(x) \in DOMAIN t /\ t[Parent(x)].keys
    BY <1>2, <2>1, <2>4
  <2>6. Parent(x) \in below
    BY <1>70, <2>2, <2>5
  <2>7. Rebase(Parent(x), from, to) \in moved /\ u[Rebase(Parent(x), from, to)] = t[Parent(x)]
    BY <1>1, <1>4, <1>6, <2>6
  <2>. QED BY <1>1, <2>2, <2>5, <2>7
<1>15. Rebase(from, from, to) = to
  BY <1>3, RebaseSelf
<1>16. \A q \in DOMAIN u : Len(q) > 1 => Parent(q) \in DOMAIN u /\ u[Parent(q)].keys
  <2>. SUFFICES ASSUME NEW q \in DOMAIN u, Len(q) > 1
                PROVE  Parent(q) \in DOMAIN u /\ u[Parent(q)].keys
    OBVIOUS
  <2>1. CASE q \in kept
    BY <1>13, <2>1
  <2>2. CASE q \in moved
    <3>1. PICK x \in below : q = Rebase(x, from, to)
      BY <1>8, <2>2
    <3>2. CASE x = from
      BY <1>3, <1>12, <1>15, <3>1, <3>2
    <3>3. CASE x # from
      BY <1>14, <3>1, <3>3
    <3>. QED BY <3>2, <3>3
  <2>. QED BY <1>1, <2>1, <2>2
<1>17. TreeOK(u)
  BY <1>1, <1>10, <1>11, <1>16 DEF TreeOK, Hung, Entries
<1>. QED BY <1>17 DEF u

\* An entry with other objects.
WithObjects(t, p, v) == [t EXCEPT ![p].objects = v]

LEMMA WithObjectsKeeps ==
    ASSUME NEW t, TreeOK(t), NEW p \in DOMAIN t, NEW v
    PROVE  TreeOK(WithObjects(t, p, v))
<1>. DEFINE u == WithObjects(t, p, v)
<1>1. t[p] = [objects |-> t[p].objects, keys |-> t[p].keys]
  BY DEF TreeOK, Entries
<1>2. [t[p] EXCEPT !.objects = v] = [objects |-> v, keys |-> t[p].keys]
  BY <1>1
<1>3. /\ DOMAIN u = DOMAIN t
      /\ \A q \in DOMAIN t : u[q] = IF q = p THEN [t[p] EXCEPT !.objects = v] ELSE t[q]
      /\ u = [q \in DOMAIN u |-> u[q]]
  BY DEF WithObjects
<1>. HIDE DEF u
<1>4. u[p] = [objects |-> v, keys |-> t[p].keys]
  BY <1>2, <1>3
<1>5. \A q \in DOMAIN t : u[q].keys = t[q].keys
  BY <1>3, <1>4
<1>6. \A q \in DOMAIN t : u[q] = [objects |-> u[q].objects, keys |-> u[q].keys]
  BY <1>3, <1>4 DEF TreeOK, Entries
<1>7. Hung(u)
  BY <1>3, <1>5 DEF TreeOK, Hung
<1>. QED BY <1>3, <1>6, <1>7 DEF u, TreeOK, Entries

\* What a message is of that has a certain type.
LEMMA MessageFacts ==
    ASSUME NEW c \in Messages
    PROVE  /\ c.type \in {"new_bucket", "delete_bucket"} => c.bucket \in Segs
           /\ c.type \in {"new_key", "delete_key", "name_key"} => c.at \in PathLike
           /\ c.type = "name_key" => c.to \in Segs
           /\ c.type = "name_bucket" => c.from \in Segs /\ c.to \in Segs
           /\ c.type \in {"new_bucket", "delete_bucket", "new_key", "delete_key", "name_bucket",
                          "name_key", "new_object", "delete_object", "name_object", "what_is"}
BY DEF Messages

LEMMA BucketIsPath ==
    ASSUME NEW b \in Segs
    PROVE  <<b>> \in PathLike /\ Len(<<b>>) = 1 /\ Parent(<<b>>) = <<>>
<1>1. <<b>> \in Seq(Segs) /\ Len(<<b>>) = 1 /\ <<b>> # <<>>
  OBVIOUS
<1>2. <<b>> \in PathLike
  BY <1>1 DEF PathLike
<1>3. Parent(<<b>>) = <<>>
  BY <1>1, <1>2, PathParts
<1>. QED BY <1>1, <1>2, <1>3

\* A change the manager can apply leaves every entry in the one above it.
LEMMA ApplyKeeps ==
    ASSUME NEW t, TreeOK(t), NEW c \in Messages, c.type # "what_is", ~Panics(t, c)
    PROVE  TreeOK(Apply(t, c))
<1>0. \A p \in DOMAIN t : p \in PathLike
  BY DEF TreeOK, Hung
<1>1. CASE c.type = "new_object"
  <2>1. Apply(t, c) = TreeNewObject(t, c.at, c.name)
    BY <1>1 DEF Apply
  <2>. DEFINE v == Append(t[c.at].objects, c.name)
  <2>2. Apply(t, c) = IF c.at \in DOMAIN t THEN WithObjects(t, c.at, v) ELSE t
    BY <2>1 DEF TreeNewObject, WithObjects
  <2>. HIDE DEF v
  <2>. QED BY <2>2, WithObjectsKeeps
<1>2. CASE c.type = "name_object"
  <2>1. Apply(t, c) = TreeNameObject(t, c.at, c.from, c.to)
    BY <1>2 DEF Apply
  <2>2. CASE c.at \in DOMAIN t /\ Holds(t[c.at].objects, c.from)
    <3>. DEFINE v == [t[c.at].objects EXCEPT ![IndexOf(t[c.at].objects, c.from)] = c.to]
    <3>1. Apply(t, c) = WithObjects(t, c.at, v)
      BY <2>1, <2>2 DEF TreeNameObject, WithObjects
    <3>. HIDE DEF v
    <3>. QED BY <2>2, <3>1, WithObjectsKeeps
  <2>. QED BY <2>1, <2>2 DEF TreeNameObject
<1>3. CASE c.type = "delete_object"
  <2>1. Apply(t, c) = TreeDeleteObject(t, c.at, c.name)
    BY <1>3 DEF Apply
  <2>2. CASE c.at \in DOMAIN t /\ Holds(t[c.at].objects, c.name)
    <3>. DEFINE v == SwapRemove(t[c.at].objects, IndexOf(t[c.at].objects, c.name))
    <3>1. Apply(t, c) = WithObjects(t, c.at, v)
      BY <2>1, <2>2 DEF TreeDeleteObject, WithObjects
    <3>. HIDE DEF v
    <3>. QED BY <2>2, <3>1, WithObjectsKeeps
  <2>. QED BY <2>1, <2>2 DEF TreeDeleteObject
<1>4. CASE c.type = "new_bucket"
  <2>1. Apply(t, c) = OrDefault(t, <<c.bucket>>)
    BY <1>4 DEF Apply, TreeNewBucket
  <2>2. <<c.bucket>> \in PathLike /\ ~(Len(<<c.bucket>>) > 1)
    BY <1>4, MessageFacts, BucketIsPath
  <2>. QED BY <2>1, <2>2, OrDefaultKeeps
<1>5. CASE c.type = "delete_bucket"
  <2>1. Apply(t, c) = RemoveEntry(t, <<c.bucket>>)
    BY <1>5 DEF Apply, TreeDeleteBucket
  <2>2. <<c.bucket>> \in PathLike
    BY <1>5, MessageFacts, BucketIsPath
  <2>. QED BY <2>1, <2>2, RemoveKeeps
<1>6. CASE c.type = "name_bucket"
  <2>1. Apply(t, c) = IF <<c.from>> \in DOMAIN t THEN MoveEntry(t, <<c.from>>, <<c.to>>) ELSE t
    BY <1>6 DEF Apply, TreeNameBucket
  <2>2. <<c.to>> \in PathLike /\ Parent(<<c.to>>) = Parent(<<c.from>>)
    BY <1>6, MessageFacts, BucketIsPath
  <2>. QED BY <2>1, <2>2, MoveKeeps
<1>7. CASE c.type = "new_key"
  <2>1. Apply(t, c) = IF Parent(c.at) \in DOMAIN t THEN OrDefault(t, c.at) ELSE t
    BY <1>7 DEF Apply, TreeNewKey
  <2>2. c.at \in PathLike /\ (Parent(c.at) \in DOMAIN t => t[Parent(c.at)].keys)
    BY <1>7, MessageFacts DEF Panics
  <2>. QED BY <2>1, <2>2, OrDefaultKeeps
<1>8. CASE c.type = "delete_key"
  <2>1. Apply(t, c) = IF Parent(c.at) \in DOMAIN t THEN RemoveEntry(t, c.at) ELSE t
    BY <1>8 DEF Apply, TreeDeleteKey
  <2>2. c.at \in PathLike
    BY <1>8, MessageFacts
  <2>. QED BY <2>1, <2>2, RemoveKeeps
<1>9. CASE c.type = "name_key"
  <2>. DEFINE new == Append(Parent(c.at), c.to)
  <2>1. Apply(t, c) = IF Parent(c.at) \notin DOMAIN t \/ new \in DOMAIN t
                      THEN t
                      ELSE IF c.at \in DOMAIN t THEN MoveEntry(t, c.at, new) ELSE OrDefault(t, new)
    BY <1>9 DEF Apply, TreeNameKey
  <2>2. /\ c.at \in PathLike /\ c.to \in Segs
        /\ Parent(c.at) \in DOMAIN t => t[Parent(c.at)].keys
    BY <1>9, MessageFacts DEF Panics
  <2>3. new \in PathLike /\ Parent(new) = Parent(c.at)
    BY <2>2, RenamedParts
  <2>. HIDE DEF new
  <2>. QED BY <2>1, <2>2, <2>3, MoveKeeps, OrDefaultKeeps
<1>. QED BY <1>1, <1>2, <1>3, <1>4, <1>5, <1>6, <1>7, <1>8, <1>9, MessageFacts

-----------------------------------------------------------------------------
(***************************************************************************)
(* The whole system.                                                       *)
(***************************************************************************)
\* An answer is waited for only while the question is in the mailbox.
WaitOK == waits => \E i \in DOMAIN mailbox : mailbox[i].type = "what_is"

UsersOK == acts \in 0 .. MaxActs /\ course \in {"even", "renaming", "lost"}

IndInv ==
    /\ FsOK /\ EventsOK
    /\ Flags /\ alive \in BOOLEAN
    /\ mailbox \in Seq(Messages) /\ WaitOK
    /\ TreeOK(tree)
    /\ UsersOK

LEMMA InitInv ==
    ASSUME Init
    PROVE  IndInv
<1>1. /\ dirs = InitialDirs /\ files = InitialFiles
      /\ events = <<>> /\ waits = FALSE /\ watching = TRUE /\ pending = {}
      /\ mailbox = <<>> /\ alive = TRUE
      /\ tree = Built(InitialDirs, InitialFiles)
      /\ acts = 0 /\ course = "even"
  BY DEF Init
<1>2. \A p \in InitialDirs : p \in PathLike /\ Name(p) \in DirNames
  BY LayoutAssumption, FsPathIsPath
<1>3. ASSUME NEW p \in InitialDirs, Len(p) > 1 PROVE Parent(p) \in InitialDirs
  <2>1. Len(p) \in Nat
    BY <1>2, PathParts
  <2>2. Len(p) - 1 \in 1 .. Len(p)
    BY <1>3, <2>1
  <2>. QED BY <2>2, LayoutAssumption DEF Parent
<1>4. FsOK
  <2>1. /\ files \subseteq (dirs \cup {<<>>}) \X AllFiles
        /\ IsFiniteSet(files) /\ IsFiniteSet(dirs)
    BY <1>1, LayoutAssumption DEF AllFiles
  <2>. QED BY <1>1, <1>2, <1>3, <2>1 DEF FsOK
<1>5. EventsOK /\ mailbox \in Seq(Messages)
  BY <1>1 DEF EventsOK
<1>6. Flags /\ alive \in BOOLEAN /\ WaitOK
  BY <1>1, Zenon DEF Flags, WaitOK
<1>7. UsersOK
  BY <1>1, ActsAssumption DEF UsersOK
<1>8. TreeOK(tree)
  <2>1. /\ DOMAIN tree = InitialDirs
        /\ tree = [p \in DOMAIN tree |-> tree[p]]
        /\ \A p \in InitialDirs :
              /\ tree[p] = [objects |-> tree[p].objects, keys |-> tree[p].keys]
              /\ tree[p].keys = \E q \in InitialDirs : Len(q) > 1 /\ Parent(q) = p
    BY <1>1 DEF Built
  <2>2. \A p \in InitialDirs : Len(p) > 1 => Parent(p) \in InitialDirs /\ tree[Parent(p)].keys
    BY <1>3, <2>1
  <2>. QED BY <1>2, <2>1, <2>2 DEF TreeOK, Hung, Entries
<1>. QED BY <1>4, <1>5, <1>6, <1>7, <1>8 DEF IndInv

LEMMA ReportKeeps ==
    ASSUME IndInv, NEW p \in pending, Report(p)
    PROVE  IndInv'
<1>1. /\ pending' = pending \ {p} /\ Notify(<<Event("remove_any", p)>>) /\ UNCHANGED fs
      /\ waits' = waits /\ watching' = watching
      /\ mailbox' = mailbox /\ alive' = alive /\ tree' = tree
      /\ acts' = acts /\ course' = course
  BY DEF Report, manager, users
<1>2. FsOK /\ EventsOK /\ p \in PathLike
  BY DEF IndInv, EventsOK
<1>3. <<Event("remove_any", p)>> \in Seq(Events)
  BY <1>2, EventIsEvent DEF PathKinds
<1>4. FsOK' /\ EventsOK'
  <2>1. events' \in Seq(Events)
    BY <1>1, <1>2, <1>3, NotifyKeeps
  <2>2. pending' \subseteq PathLike
    BY <1>1, <1>2 DEF EventsOK
  <2>. QED BY <1>1, <1>2, <2>1, <2>2, FsStays DEF EventsOK
<1>5. Flags' /\ (alive \in BOOLEAN)' /\ WaitOK' /\ UsersOK' /\ mailbox' \in Seq(Messages)
  BY <1>1 DEF IndInv, Flags, WaitOK, UsersOK
<1>6. TreeOK(tree)'
  BY <1>1 DEF IndInv
<1>. QED BY <1>4, <1>5, <1>6 DEF IndInv

LEMMA UserStep ==
    ASSUME IndInv, User
    PROVE  IndInv'
<1>1. FsOK /\ EventsOK /\ acts \in 0 .. MaxActs
  BY DEF IndInv, UsersOK
<1>2. /\ FsOK' /\ EventsOK'
      /\ acts' \in 0 .. MaxActs /\ course' \in {"even", "renaming", "lost"}
      /\ UNCHANGED <<waits, watching, skips, pending, manager>>
  BY <1>1, UserKeeps
<1>3. waits' = waits /\ watching' = watching /\ mailbox' = mailbox /\ alive' = alive /\ tree' = tree
  BY <1>2 DEF manager
<1>4. Flags' /\ (alive \in BOOLEAN)' /\ WaitOK' /\ UsersOK' /\ mailbox' \in Seq(Messages)
  BY <1>2, <1>3 DEF IndInv, Flags, WaitOK, UsersOK
<1>5. TreeOK(tree)'
  BY <1>3 DEF IndInv
<1>. QED BY <1>2, <1>4, <1>5 DEF IndInv

LEMMA WatcherStep ==
    ASSUME IndInv, Watcher
    PROVE  IndInv'
<1>1. Handled
  BY WatcherHandled DEF IndInv
<1>2. mailbox \in Seq(Messages)
  BY DEF IndInv
<1>3. /\ alive' = alive /\ tree' = tree /\ acts' = acts /\ course' = course
      /\ mailbox' \in Seq(Messages) /\ WaitOK'
  <2>1. CASE ~waits' /\ TellNothing
    BY <1>2, <2>1 DEF TellNothing, manager, users, WaitOK
  <2>2. ASSUME NEW c \in Messages, Tell(c), waits' => alive /\ c.type = "what_is"
        PROVE  /\ alive' = alive /\ tree' = tree /\ acts' = acts /\ course' = course
               /\ mailbox' \in Seq(Messages) /\ WaitOK'
    <3>1. /\ mailbox' = IF alive THEN Append(mailbox, c) ELSE mailbox
          /\ alive' = alive /\ tree' = tree /\ acts' = acts /\ course' = course
      BY <2>2 DEF Tell, users
    <3>2. /\ Append(mailbox, c) \in Seq(Messages)
          /\ Len(mailbox) + 1 \in DOMAIN Append(mailbox, c)
          /\ Append(mailbox, c)[Len(mailbox) + 1] = c
      BY <1>2, AppendProperties
    <3>3. mailbox' \in Seq(Messages)
      BY <1>2, <3>1, <3>2
    <3>4. WaitOK'
      BY <2>2, <3>1, <3>2 DEF WaitOK
    <3>. QED BY <3>1, <3>3, <3>4
  <2>. QED BY <1>1, <2>1, <2>2 DEF Handled
<1>4. Flags' /\ (alive \in BOOLEAN)' /\ UsersOK'
  BY <1>1, <1>3 DEF IndInv, Flags, UsersOK, Handled
<1>5. TreeOK(tree)'
  BY <1>3 DEF IndInv
<1>. QED BY <1>1, <1>3, <1>4, <1>5 DEF IndInv, Handled

\* The rest of the mailbox.
LEMMA MailLeft ==
    ASSUME NEW m \in Seq(Messages), m # <<>>
    PROVE  /\ Head(m) \in Messages /\ Tail(m) \in Seq(Messages)
           /\ (\E i \in DOMAIN m : m[i].type = "what_is") /\ Head(m).type # "what_is"
                 => \E i \in DOMAIN Tail(m) : Tail(m)[i].type = "what_is"
<1>1. /\ Head(m) \in Messages /\ Tail(m) \in Seq(Messages) /\ Head(m) = m[1]
      /\ Len(Tail(m)) = Len(m) - 1 /\ \A i \in 1 .. Len(m) - 1 : Tail(m)[i] = m[i + 1]
  BY HeadTailProperties
<1>2. ASSUME NEW i \in DOMAIN m, m[i].type = "what_is", Head(m).type # "what_is"
      PROVE  \E j \in DOMAIN Tail(m) : Tail(m)[j].type = "what_is"
  <2>1. i - 1 \in 1 .. Len(m) - 1 /\ (i - 1) + 1 = i
    BY <1>1, <1>2
  <2>2. i - 1 \in DOMAIN Tail(m) /\ Tail(m)[i - 1] = m[i]
    BY <1>1, <2>1
  <2>. QED BY <1>2, <2>2
<1>. QED BY <1>1, <1>2

LEMMA ChangeStep ==
    ASSUME IndInv, ManagerChange
    PROVE  IndInv'
<1>1. /\ mailbox # <<>> /\ Head(mailbox).type # "what_is" /\ ~Panics(tree, Head(mailbox))
      /\ tree' = Apply(tree, Head(mailbox)) /\ mailbox' = Tail(mailbox) /\ UNCHANGED fs
      /\ events' = events /\ pending' = pending /\ waits' = waits /\ watching' = watching
      /\ alive' = alive /\ acts' = acts /\ course' = course
  BY DEF ManagerChange, watcher, users
<1>2. mailbox \in Seq(Messages) /\ TreeOK(tree) /\ WaitOK /\ FsOK
  BY DEF IndInv
<1>3. Head(mailbox) \in Messages /\ mailbox' \in Seq(Messages)
  BY <1>1, <1>2, MailLeft
<1>4. TreeOK(tree')
  BY <1>1, <1>2, <1>3, ApplyKeeps
<1>5. WaitOK'
  BY <1>1, <1>2, MailLeft DEF WaitOK
<1>6. FsOK' /\ EventsOK'
  BY <1>1, <1>2, FsStays DEF IndInv, EventsOK
<1>7. Flags' /\ (alive \in BOOLEAN)' /\ UsersOK'
  BY <1>1 DEF IndInv, Flags, UsersOK
<1>. QED BY <1>3, <1>4, <1>5, <1>6, <1>7 DEF IndInv

LEMMA PanicStep ==
    ASSUME IndInv, ManagerPanics
    PROVE  IndInv'
<1>1. /\ alive' = FALSE /\ mailbox' = <<>> /\ UNCHANGED fs
      /\ pending' = pending /\ tree' = tree /\ acts' = acts /\ course' = course
      /\ \/ WatcherPanics
         \/ ~waits /\ events' = events /\ waits' = waits /\ watching' = watching
  BY DEF ManagerPanics, users
<1>2. FsOK' /\ mailbox' \in Seq(Messages) /\ (alive \in BOOLEAN)'
  <2>1. FsOK'
    BY <1>1, FsStays DEF IndInv
  <2>2. mailbox' \in Seq(Messages)
    BY <1>1
  <2>3. (alive \in BOOLEAN)'
    BY <1>1, Zenon
  <2>. QED BY <2>1, <2>2, <2>3
<1>3. events' \in Seq(Events) /\ Flags' /\ ~waits'
  <2>1. CASE WatcherPanics
    BY <2>1, PanicKeeps DEF Flags
  <2>2. CASE ~waits /\ events' = events /\ waits' = waits /\ watching' = watching
    <3>1. events' \in Seq(Events)
      BY <2>2 DEF IndInv, EventsOK
    <3>2. Flags' /\ ~waits'
      BY <2>2, Zenon DEF IndInv, Flags
    <3>. QED BY <3>1, <3>2
  <2>. QED BY <1>1, <2>1, <2>2
<1>4. EventsOK' /\ UsersOK' /\ WaitOK'
  BY <1>1, <1>3 DEF IndInv, EventsOK, UsersOK, WaitOK
<1>5. TreeOK(tree)'
  BY <1>1 DEF IndInv
<1>. QED BY <1>2, <1>3, <1>4, <1>5 DEF IndInv

LEMMA AnswerStep ==
    ASSUME IndInv, ManagerAnswers
    PROVE  IndInv'
<1>1. /\ mailbox # <<>> /\ mailbox' = Tail(mailbox) /\ waits' = FALSE
      /\ Notify(<<Event("pathless", <<>>)>>) /\ UNCHANGED fs
      /\ watching' = watching /\ pending' = pending /\ alive' = alive /\ tree' = tree
      /\ acts' = acts /\ course' = course
  BY DEF ManagerAnswers, users
<1>2. mailbox \in Seq(Messages) /\ FsOK /\ EventsOK
  BY DEF IndInv
<1>3. mailbox' \in Seq(Messages)
  BY <1>1, <1>2, MailLeft
<1>4. <<Event("pathless", <<>>)>> \in Seq(Events)
  BY DEF Event, Events
<1>5. FsOK' /\ EventsOK'
  <2>1. events' \in Seq(Events)
    BY <1>1, <1>2, <1>4, NotifyKeeps
  <2>. QED BY <1>1, <1>2, <2>1, FsStays DEF EventsOK
<1>6. Flags' /\ WaitOK' /\ (alive \in BOOLEAN)'
  BY <1>1, Zenon DEF IndInv, Flags, WaitOK
<1>7. UsersOK'
  BY <1>1 DEF IndInv, UsersOK
<1>8. TreeOK(tree)'
  BY <1>1 DEF IndInv
<1>. QED BY <1>3, <1>5, <1>6, <1>7, <1>8 DEF IndInv

LEMMA StutterStep ==
    ASSUME IndInv, UNCHANGED vars
    PROVE  IndInv'
<1>1. /\ UNCHANGED fs /\ events' = events /\ waits' = waits /\ watching' = watching
      /\ pending' = pending /\ mailbox' = mailbox /\ alive' = alive /\ tree' = tree
      /\ acts' = acts /\ course' = course
  BY DEF vars, watcher, manager, users
<1>2. FsOK' /\ EventsOK' /\ mailbox' \in Seq(Messages)
  BY <1>1, FsStays DEF IndInv, EventsOK
<1>3. Flags' /\ WaitOK' /\ (alive \in BOOLEAN)' /\ UsersOK'
  BY <1>1 DEF IndInv, Flags, WaitOK, UsersOK
<1>4. TreeOK(tree)'
  BY <1>1 DEF IndInv
<1>. QED BY <1>2, <1>3, <1>4 DEF IndInv

LEMMA InvIsTyped ==
    ASSUME IndInv
    PROVE  TypeOK
<1>1. Nested(tree)
  BY HungIsNested DEF IndInv, TreeOK
<1>2. /\ \A p \in dirs : Name(p) \in DirNames /\ (Len(p) > 1 => Parent(p) \in dirs)
      /\ files \subseteq (dirs \cup {<<>>}) \X AllFiles
  BY DEF IndInv, FsOK
<1>3. waits \in BOOLEAN /\ watching \in BOOLEAN /\ alive \in BOOLEAN
  BY DEF IndInv, Flags
<1>4. waits => \E i \in DOMAIN mailbox : mailbox[i].type = "what_is"
  BY DEF IndInv, WaitOK
<1>5. acts \in 0 .. MaxActs /\ course \in {"even", "renaming", "lost"}
  BY DEF IndInv, UsersOK
<1>. QED BY <1>1, <1>2, <1>3, <1>4, <1>5 DEF TypeOK

LEMMA NextTyped ==
    ASSUME IndInv, [Next]_vars
    PROVE  IndInv'
<1>1. CASE User
  BY <1>1, UserStep
<1>2. CASE System
  BY <1>2, WatcherStep, ReportKeeps, ChangeStep, PanicStep, AnswerStep DEF System
<1>3. CASE UNCHANGED vars
  BY <1>3, StutterStep
<1>. QED BY <1>1, <1>2, <1>3 DEF Next

\* Whatever users, the watcher and the manager do, files lie in directories that are
\* there, every entry of the index hangs in the one above it, and the watcher waits
\* only for an answer that is going to come (event_watcher/mod.rs, bucket_map.rs).
THEOREM IndexIsTyped == Spec => []TypeOK
<1>1. Init => IndInv
  BY InitInv
<1>2. IndInv /\ [Next]_vars => IndInv'
  BY NextTyped
<1>3. IndInv => TypeOK
  BY InvIsTyped
<1>. QED BY <1>1, <1>2, <1>3, PTL DEF Spec

-----------------------------------------------------------------------------
(***************************************************************************)
(* The renames of the service replace nothing.  No two names of a          *)
(* directory come to the same in the end, and to be given an allowed name  *)
(* does not change what a name comes to; a name that is given back has     *)
(* been kept free.                                                         *)
(***************************************************************************)
LEMMA FinalFacts ==
    /\ \A n \in AllFiles : Final(n) = Norm[n]
    /\ \A n \in AllFiles : Norm[Norm[n]] = Norm[n]
    /\ \A n \in DirNames : Norm[n] # Empty => Final(Norm[n]) = Final(n)
    /\ \A n \in DirNames : Norm[n] = Empty => Final(Invalid) = Final(n)
<1>. USE NormAssumption, KindsAssumption DEF DirNames, AllFiles
<1>1. \A n \in AllFiles : Norm[n] \in FileNames /\ Norm[n] # Empty
  OBVIOUS
<1>2. \A n \in AllFiles : Norm[Norm[n]] = Norm[n]
  BY <1>1
<1>3. \A n \in DirNames : Norm[n] # Empty => Norm[n] \in Names
  OBVIOUS
<1>4. \A n \in Names : Norm[n] = n /\ n # Empty
  OBVIOUS
<1>5. \A n \in DirNames : Norm[n] # Empty => Final(Norm[n]) = Final(n)
  BY <1>3, <1>4 DEF Final
<1>. QED BY <1>1, <1>2, <1>5 DEF Final

\* Where nothing is, nothing is below.
LEMMA NoneBelow ==
    ASSUME FsOK, NEW q \in PathLike, q \notin dirs, NEW x \in dirs \cup {<<>>}
    PROVE  ~Under(q, x)
<1>. DEFINE t == [p \in dirs |-> [keys |-> TRUE]]
<1>1. DOMAIN t = dirs /\ \A p \in dirs : t[p].keys
  OBVIOUS
<1>. HIDE DEF t
<1>2. Hung(t)
  BY <1>1 DEF FsOK, Hung
<1>3. Nested(t)
  BY <1>2, HungIsNested
<1>4. q \in Seq(Segs) /\ Len(q) \in Nat /\ Len(q) # 0
  BY PathParts
<1>5. ASSUME Under(q, x) PROVE FALSE
  <2>1. CASE x = <<>>
    BY <1>4, <1>5, <2>1 DEF Under
  <2>2. CASE x \in dirs
    <3>1. x \in PathLike /\ x \in Seq(Segs) /\ Len(x) \in Nat
      BY <2>2, DirIsPath, PathParts
    <3>2. Len(q) <= Len(x) /\ SubSeq(x, 1, Len(q)) = q
      BY <1>5 DEF Under
    <3>3. Len(q) # Len(x)
      BY <1>4, <1>5, <2>2, <3>1, UnderOrder
    <3>4. Len(q) \in 1 .. Len(x) - 1
      BY <1>4, <3>1, <3>2, <3>3
    <3>5. SubSeq(x, 1, Len(q)) \in DOMAIN t
      BY <1>1, <1>3, <2>2, <3>4 DEF Nested
    <3>. QED BY <1>1, <3>2, <3>5
  <2>. QED BY <2>1, <2>2
<1>. QED BY <1>5

\* A one-to-one image is as large.
LEMMA SameSize ==
    ASSUME NEW S, IsFiniteSet(S), NEW f, DOMAIN f = S, f = [x \in DOMAIN f |-> f[x]],
           \A x, y \in S : f[x] = f[y] => x = y
    PROVE  Cardinality({f[x] : x \in S}) = Cardinality(S)
<1>. DEFINE T == {f[x] : x \in S}
<1>1. f \in Surjection(S, T)
  BY DEF Surjection
<1>2. f \in Injection(S, T)
  BY DEF Injection, IsInjective
<1>. HIDE DEF T
<1>3. Cardinality(T) = Cardinality(S)
  BY <1>1, <1>2, FS_Surjection
<1>. QED BY <1>3 DEF T

\* Nobody else in the directory has a name that comes to the same as q's.
FreeFor(p, q) ==
    \A r \in dirs \ {p} : Parent(r) = Parent(q) => Final(Name(r)) # Final(Name(q))

\* What a rename of a directory to a free name beside it does to paths.
LEMMA MovedApart ==
    ASSUME FsOK, NEW p \in dirs, NEW q \in PathLike, Parent(q) = Parent(p), q \notin dirs
    PROVE  /\ \A x \in dirs : Moved(x, p, q) \in PathLike
           /\ \A x, y \in dirs \cup {<<>>} : Moved(x, p, q) = Moved(y, p, q) => x = y
           /\ Moved(p, p, q) = q /\ Moved(<<>>, p, q) = <<>>
           /\ \A x \in dirs : x # p =>
                 /\ Name(Moved(x, p, q)) = Name(x) /\ Moved(x, p, q) # q
                 /\ Parent(Moved(x, p, q)) = Moved(Parent(x), p, q)
           /\ Moved(Parent(p), p, q) = Parent(p)
<1>1. /\ p \in PathLike /\ p \in Seq(Segs) /\ q \in Seq(Segs) /\ Parent(p) \in Seq(Segs)
      /\ Len(p) \in Nat /\ Len(q) \in Nat /\ Len(p) # 0 /\ Len(q) # 0
      /\ Len(Parent(p)) = Len(p) - 1 /\ Len(Parent(q)) = Len(q) - 1
  BY DirIsPath, PathParts
<1>2. Len(p) = Len(q)
  BY <1>1
<1>3. \A x \in dirs \cup {<<>>} : x \in Seq(Segs)
  <2>1. \A x \in dirs : x \in Seq(Segs)
    BY DirIsPath, PathParts
  <2>2. <<>> \in Seq(Segs)
    OBVIOUS
  <2>. QED BY <2>1, <2>2
<1>4. \A x \in dirs \cup {<<>>} : ~Under(q, x)
  BY NoneBelow
<1>5. \A x : /\ ~Under(p, x) => Moved(x, p, q) = x
             /\ Under(p, x) => Moved(x, p, q) = Rebase(x, p, q)
  BY DEF Moved
<1>6. Moved(p, p, q) = q
  BY <1>1, <1>5, UnderOrder, RebaseSelf
<1>7. ~Under(p, <<>>) /\ ~Under(p, Parent(p))
  BY <1>1 DEF Under
<1>8. \A x \in dirs \cup {<<>>} : Under(p, x) =>
         /\ Rebase(x, p, q) \in Seq(Segs) /\ Under(q, Rebase(x, p, q))
         /\ Rebase(Rebase(x, p, q), q, p) = x
  BY <1>1, <1>3, RebaseFacts, RebaseBack
<1>9. ASSUME NEW x \in dirs \cup {<<>>}, NEW y \in dirs \cup {<<>>},
             Moved(x, p, q) = Moved(y, p, q)
      PROVE  x = y
  BY <1>4, <1>5, <1>8, <1>9
<1>10. ASSUME NEW x \in dirs, x # p
       PROVE  /\ Name(Moved(x, p, q)) = Name(x) /\ Moved(x, p, q) # q
              /\ Parent(Moved(x, p, q)) = Moved(Parent(x), p, q)
              /\ Moved(x, p, q) \in PathLike
  <2>0. Moved(x, p, q) # q
    BY <1>6, <1>9, <1>10
  <2>1. CASE Under(p, x)
    <3>1. x \in Seq(Segs)
      BY <1>3
    <3>2. /\ Under(p, Parent(x))
          /\ Parent(Rebase(x, p, q)) = Rebase(Parent(x), p, q)
          /\ Name(Rebase(x, p, q)) = Name(x) /\ Rebase(x, p, q) # <<>>
      BY <1>1, <1>10, <2>1, <3>1, RebaseParts
    <3>. QED BY <1>5, <1>8, <2>0, <2>1, <3>2 DEF PathLike
  <2>2. CASE ~Under(p, x)
    <3>1. x \in PathLike /\ x \in Seq(Segs) /\ Parent(x) \in Seq(Segs) /\ Under(Parent(x), x)
      BY DirIsPath, PathParts
    <3>2. ~Under(p, Parent(x))
      BY <1>1, <2>2, <3>1, UnderOrder
    <3>. QED BY <1>5, <2>0, <2>2, <3>1, <3>2
  <2>. QED BY <2>1, <2>2
<1>11. \A x \in dirs : Moved(x, p, q) \in PathLike
  BY <1>6, <1>10
<1>. QED BY <1>5, <1>6, <1>7, <1>9, <1>10, <1>11

LEMMA ParentThere ==
    ASSUME FsOK, NEW x \in dirs
    PROVE  Parent(x) \in dirs \cup {<<>>}
<1>1. x \in PathLike /\ (Len(x) > 1 => Parent(x) \in dirs)
  BY DEF FsOK
<1>. QED BY <1>1, PathParts

\* The rename of a directory to a free name beside it.
LEMMA MoveDirApart ==
    ASSUME FsOK, Distinct(dirs, files), NEW p \in dirs, NEW q \in PathLike,
           Parent(q) = Parent(p), q # p, FreeFor(p, q), MoveDir(p, q)
    PROVE  /\ Distinct(dirs', files')
           /\ Cardinality(dirs') = Cardinality(dirs)
           /\ Cardinality(files') = Cardinality(files)
           /\ \A r \in dirs' : r # q /\ Parent(r) = Parent(p) => r \in dirs \ {p}
<1>1. /\ dirs' = {Moved(x, p, q) : x \in dirs}
      /\ files' = {<<Moved(x[1], p, q), x[2]>> : x \in files}
  BY DEF MoveDir
<1>2. q \notin dirs
  BY DEF FreeFor
<1>3. /\ \A x, y \in dirs \cup {<<>>} : Moved(x, p, q) = Moved(y, p, q) => x = y
      /\ Moved(p, p, q) = q
      /\ \A x \in dirs : x # p =>
            /\ Name(Moved(x, p, q)) = Name(x) /\ Moved(x, p, q) # q
            /\ Parent(Moved(x, p, q)) = Moved(Parent(x), p, q)
      /\ Moved(Parent(p), p, q) = Parent(p)
  BY <1>2, MovedApart
<1>4. \A x \in dirs : Parent(x) \in dirs \cup {<<>>}
  BY ParentThere
<1>5. \A x \in files : x[1] \in dirs \cup {<<>>} /\ x = <<x[1], x[2]>>
  BY DEF FsOK
<1>6. /\ \A r, s \in dirs : Parent(r) = Parent(s) /\ r # s => Final(Name(r)) # Final(Name(s))
      /\ \A x, y \in files : x[1] = y[1] /\ x # y => Norm[x[2]] # Norm[y[2]]
  BY DEF Distinct
<1>7. ASSUME NEW r \in dirs, r # p, Parent(Moved(r, p, q)) = Parent(p)
      PROVE  Parent(r) = Parent(p) /\ Moved(r, p, q) = r
  <2>1. Parent(r) = Parent(p)
    BY <1>3, <1>4, <1>7
  <2>2. /\ r \in Seq(Segs) /\ p \in Seq(Segs) /\ Len(r) \in Nat /\ Len(p) \in Nat
        /\ Len(Parent(r)) = Len(r) - 1 /\ Len(Parent(p)) = Len(p) - 1
    BY DirIsPath, PathParts
  <2>3. Len(r) = Len(p)
    BY <2>1, <2>2
  <2>4. ~Under(p, r)
    BY <1>7, <2>2, <2>3, UnderOrder
  <2>. QED BY <2>1, <2>4 DEF Moved
<1>8. ASSUME NEW r \in dirs, NEW s \in dirs, r # s,
             Parent(Moved(r, p, q)) = Parent(Moved(s, p, q))
      PROVE  Final(Name(Moved(r, p, q))) # Final(Name(Moved(s, p, q)))
  <2>1. ASSUME NEW y \in dirs, y # p, Parent(Moved(y, p, q)) = Parent(p)
        PROVE  Final(Name(Moved(y, p, q))) # Final(Name(q))
    BY <1>7, <2>1 DEF FreeFor
  <2>2. CASE r = p
    BY <1>3, <1>8, <2>1, <2>2
  <2>3. CASE s = p
    BY <1>3, <1>8, <2>1, <2>3
  <2>4. CASE r # p /\ s # p
    <3>1. Moved(Parent(r), p, q) = Moved(Parent(s), p, q)
      BY <1>3, <1>8, <2>4
    <3>2. Parent(r) = Parent(s)
      BY <1>3, <1>4, <3>1
    <3>. QED BY <1>3, <1>6, <1>8, <2>4, <3>2
  <2>. QED BY <2>2, <2>3, <2>4
<1>9. ASSUME NEW x \in files, NEW y \in files, Moved(x[1], p, q) = Moved(y[1], p, q), x # y
      PROVE  Norm[x[2]] # Norm[y[2]]
  BY <1>3, <1>5, <1>6, <1>9
<1>10. Distinct(dirs', files')
  <2>1. \A r, s \in dirs' : Parent(r) = Parent(s) /\ r # s => Final(Name(r)) # Final(Name(s))
    BY <1>1, <1>8
  <2>2. ASSUME NEW x \in files', NEW y \in files', x[1] = y[1], x # y
        PROVE  Norm[x[2]] # Norm[y[2]]
    <3>1. PICK v \in files : x = <<Moved(v[1], p, q), v[2]>>
      BY <1>1
    <3>2. PICK w \in files : y = <<Moved(w[1], p, q), w[2]>>
      BY <1>1
    <3>3. Moved(v[1], p, q) = Moved(w[1], p, q) /\ v # w
      BY <2>2, <3>1, <3>2
    <3>. QED BY <1>9, <3>1, <3>2, <3>3
  <2>. QED BY <2>1, <2>2 DEF Distinct
<1>11. Cardinality(dirs') = Cardinality(dirs)
  <2>. DEFINE f == [x \in dirs |-> Moved(x, p, q)]
  <2>1. DOMAIN f = dirs /\ f = [x \in DOMAIN f |-> f[x]]
    OBVIOUS
  <2>2. dirs' = {f[x] : x \in dirs}
    BY <1>1
  <2>3. \A x, y \in dirs : f[x] = f[y] => x = y
    BY <1>3
  <2>4. IsFiniteSet(dirs)
    BY DEF FsOK
  <2>. HIDE DEF f
  <2>. QED BY <2>1, <2>2, <2>3, <2>4, SameSize
<1>12. Cardinality(files') = Cardinality(files)
  <2>. DEFINE f == [x \in files |-> <<Moved(x[1], p, q), x[2]>>]
  <2>1. DOMAIN f = files /\ f = [x \in DOMAIN f |-> f[x]]
    OBVIOUS
  <2>2. files' = {f[x] : x \in files}
    BY <1>1
  <2>3. ASSUME NEW x \in files, NEW y \in files, f[x] = f[y] PROVE x = y
    <3>1. Moved(x[1], p, q) = Moved(y[1], p, q) /\ x[2] = y[2]
      BY <2>3
    <3>. QED BY <1>3, <1>5, <3>1
  <2>4. IsFiniteSet(files)
    BY DEF FsOK
  <2>. HIDE DEF f
  <2>. QED BY <2>1, <2>2, <2>3, <2>4, SameSize
<1>13. ASSUME NEW r \in dirs', r # q, Parent(r) = Parent(p) PROVE r \in dirs \ {p}
  <2>1. PICK x \in dirs : r = Moved(x, p, q)
    BY <1>1
  <2>2. x # p
    BY <1>3, <1>13, <2>1
  <2>3. Moved(x, p, q) = x
    BY <1>7, <1>13, <2>1, <2>2
  <2>. QED BY <2>1, <2>2, <2>3
<1>. QED BY <1>10, <1>11, <1>12, <1>13

\* A name that comes to the same is free for its directory.
LEMMA SameFinalFree ==
    ASSUME Distinct(dirs, files), NEW p \in dirs, NEW q,
           Parent(q) = Parent(p), Final(Name(q)) = Final(Name(p))
    PROVE  FreeFor(p, q)
BY DEF Distinct, FreeFor

\* The rename of a file to a name that comes to the same.
LEMMA MoveFileApart ==
    ASSUME FsOK, Distinct(dirs, files), NEW p \in PathLike, IsFile(p), NEW q \in PathLike,
           Parent(q) = Parent(p), q # p, Norm[Name(q)] = Norm[Name(p)], MoveFile(p, q)
    PROVE  /\ Distinct(dirs', files')
           /\ Cardinality(dirs') = Cardinality(dirs)
           /\ Cardinality(files') = Cardinality(files)
<1>. DEFINE x == <<Parent(p), Name(p)>>
            y == <<Parent(q), Name(q)>>
<1>1. x \in files /\ dirs' = dirs /\ files' = (files \ {x}) \cup {y}
  BY DEF IsFile, MoveFile
<1>2. p = Append(Parent(p), Name(p)) /\ q = Append(Parent(q), Name(q))
  BY PathParts
<1>3. x[1] = Parent(p) /\ x[2] = Name(p) /\ y[1] = Parent(p) /\ y[2] = Name(q) /\ x # y
  BY <1>2
<1>. HIDE DEF x, y
<1>4. /\ \A r, s \in dirs : Parent(r) = Parent(s) /\ r # s => Final(Name(r)) # Final(Name(s))
      /\ \A v, w \in files : v[1] = w[1] /\ v # w => Norm[v[2]] # Norm[w[2]]
  BY DEF Distinct
<1>5. \A v \in files : v # x /\ v[1] = y[1] => Norm[v[2]] # Norm[y[2]]
  BY <1>1, <1>3, <1>4
<1>6. y \notin files
  BY <1>3, <1>5
<1>7. Distinct(dirs', files')
  BY <1>1, <1>4, <1>5 DEF Distinct
<1>8. IsFiniteSet(files)
  BY DEF FsOK
<1>9. IsFiniteSet(files \ {x}) /\ Cardinality(files \ {x}) = Cardinality(files) - 1
  BY <1>1, <1>8, FS_RemoveElement
<1>10. Cardinality(files') = Cardinality(files \ {x}) + 1
  <2>1. y \notin files \ {x}
    BY <1>6
  <2>. QED BY <1>1, <1>9, <2>1, FS_AddElement
<1>11. Cardinality(files) \in Nat
  BY <1>8, FS_CardinalityType
<1>. QED BY <1>1, <1>7, <1>9, <1>10, <1>11

(***************************************************************************)
(* What is under way while the index may follow: in an even course nothing *)
(* renames a directory; in that of a rename of a directory at most one     *)
(* event renames or restores one, and the name it would give back is free. *)
(***************************************************************************)
EvenEvent(x) ==
    /\ x.kind = "create_folder" => Norm[Name(x.path)] = Name(x.path)
    /\ x.kind = "both" => Name(x.to) \in AllFiles

RenamingEvent(x) ==
    /\ x.kind # "create_file"
    /\ x.kind = "both" => Parent(x.from) = Parent(x.to) /\ Name(x.to) \in DirNames

Moves(x) == x.kind \in {"create_folder", "both"}

\* Nobody took the name a rename has left.
BackFree(D, x) ==
    \A r \in D \ {x.to} : Parent(r) = Parent(x.from) => Final(Name(r)) # Final(Name(x.from))

Even(s) == \A i \in DOMAIN s : EvenEvent(s[i])

NoMoves(s) == \A i \in DOMAIN s : ~Moves(s[i])

Renaming(D, s) ==
    /\ \A i \in DOMAIN s : RenamingEvent(s[i])
    /\ \A i, j \in DOMAIN s : Moves(s[i]) /\ Moves(s[j]) => i = j
    /\ \A i \in DOMAIN s : s[i].kind = "both" => BackFree(D, s[i])

CourseInv ==
    /\ course # "lost" => Distinct(dirs, files)
    /\ course = "even" => Even(events)
    /\ course = "renaming" => Renaming(dirs, events)

\* The events at hand, and the rest of them.
LEMMA EventsLeft ==
    ASSUME NEW s \in Seq(Events), s # <<>>
    PROVE  /\ Tail(s) \in Seq(Events) /\ 1 \in DOMAIN s /\ Head(s) = s[1]
           /\ \A i \in DOMAIN Tail(s) : i + 1 \in DOMAIN s /\ Tail(s)[i] = s[i + 1] /\ i + 1 # 1
OBVIOUS

LEMMA CourseLeft ==
    ASSUME NEW s \in Seq(Events), s # <<>>, NEW D
    PROVE  /\ Even(s) => EvenEvent(Head(s)) /\ Even(Tail(s))
           /\ Renaming(D, s) =>
                 /\ RenamingEvent(Head(s)) /\ Renaming(D, Tail(s))
                 /\ Head(s).kind = "both" => BackFree(D, Head(s))
                 /\ Moves(Head(s)) => NoMoves(Tail(s))
<1>. DEFINE t == Tail(s)
<1>1. /\ 1 \in DOMAIN s /\ Head(s) = s[1]
      /\ \A i \in DOMAIN t : i + 1 \in DOMAIN s /\ t[i] = s[i + 1] /\ i + 1 # 1
  BY EventsLeft
<1>2. DOMAIN t \subseteq Nat
  BY EventsLeft
<1>. HIDE DEF t
<1>3. Even(s) => EvenEvent(Head(s)) /\ Even(t)
  BY <1>1 DEF Even
<1>4. ASSUME Renaming(D, s)
      PROVE  /\ RenamingEvent(Head(s)) /\ Renaming(D, t)
             /\ Head(s).kind = "both" => BackFree(D, Head(s))
             /\ Moves(Head(s)) => NoMoves(t)
  <2>1. /\ \A i \in DOMAIN s : RenamingEvent(s[i])
        /\ \A i, j \in DOMAIN s : Moves(s[i]) /\ Moves(s[j]) => i = j
        /\ \A i \in DOMAIN s : s[i].kind = "both" => BackFree(D, s[i])
    BY <1>4 DEF Renaming
  <2>2. ASSUME NEW i \in DOMAIN t, NEW j \in DOMAIN t, Moves(t[i]), Moves(t[j]) PROVE i = j
    <3>1. i + 1 = j + 1
      BY <1>1, <2>1, <2>2
    <3>. QED BY <1>2, <3>1
  <2>3. Renaming(D, t)
    BY <1>1, <2>1, <2>2 DEF Renaming
  <2>4. Moves(Head(s)) => NoMoves(t)
    BY <1>1, <2>1 DEF NoMoves
  <2>. QED BY <1>1, <2>1, <2>3, <2>4
<1>. QED BY <1>3, <1>4 DEF t

LEMMA CourseJoined ==
    ASSUME NEW s \in Seq(Events), NEW t \in Seq(Events), NEW D
    PROVE  /\ Even(s) /\ Even(t) => Even(s \o t)
           /\ Renaming(D, s) /\ Renaming(D, t) /\ (NoMoves(s) \/ NoMoves(t))
                 => Renaming(D, s \o t)
<1>. DEFINE u == s \o t
<1>1. \A i \in DOMAIN u :
         \/ i \in DOMAIN s /\ u[i] = s[i]
         \/ i - Len(s) \in DOMAIN t /\ u[i] = t[i - Len(s)] /\ i \in Nat
  <2>1. /\ Len(u) = Len(s) + Len(t)
        /\ \A i \in 1 .. Len(s) + Len(t) :
              u[i] = IF i <= Len(s) THEN s[i] ELSE t[i - Len(s)]
    BY ConcatProperties
  <2>2. u \in Seq(Events) /\ DOMAIN u = 1 .. Len(u)
    BY ConcatProperties
  <2>3. DOMAIN s = 1 .. Len(s) /\ DOMAIN t = 1 .. Len(t) /\ Len(s) \in Nat /\ Len(t) \in Nat
    OBVIOUS
  <2>. HIDE DEF u
  <2>. QED BY <2>1, <2>2, <2>3
<1>2. Len(s) \in Nat
  OBVIOUS
<1>. HIDE DEF u
<1>3. Even(s) /\ Even(t) => Even(u)
  BY <1>1 DEF Even
<1>4. ASSUME Renaming(D, s), Renaming(D, t), NoMoves(s) \/ NoMoves(t)
      PROVE  Renaming(D, u)
  <2>1. /\ \A i \in DOMAIN s : RenamingEvent(s[i])
        /\ \A i, j \in DOMAIN s : Moves(s[i]) /\ Moves(s[j]) => i = j
        /\ \A i \in DOMAIN s : s[i].kind = "both" => BackFree(D, s[i])
    BY <1>4 DEF Renaming
  <2>2. /\ \A i \in DOMAIN t : RenamingEvent(t[i])
        /\ \A i, j \in DOMAIN t : Moves(t[i]) /\ Moves(t[j]) => i = j
        /\ \A i \in DOMAIN t : t[i].kind = "both" => BackFree(D, t[i])
    BY <1>4 DEF Renaming
  <2>3. ASSUME NEW i \in DOMAIN u, NEW j \in DOMAIN u, Moves(u[i]), Moves(u[j]) PROVE i = j
    <3>1. CASE NoMoves(s)
      <4>1. /\ i - Len(s) \in DOMAIN t /\ u[i] = t[i - Len(s)] /\ i \in Nat
            /\ j - Len(s) \in DOMAIN t /\ u[j] = t[j - Len(s)] /\ j \in Nat
        BY <1>1, <2>3, <3>1 DEF NoMoves
      <4>2. i - Len(s) = j - Len(s)
        BY <2>2, <2>3, <4>1
      <4>. QED BY <1>2, <4>1, <4>2
    <3>2. CASE NoMoves(t)
      <4>1. /\ i \in DOMAIN s /\ u[i] = s[i]
            /\ j \in DOMAIN s /\ u[j] = s[j]
        BY <1>1, <2>3, <3>2 DEF NoMoves
      <4>. QED BY <2>1, <2>3, <4>1
    <3>. QED BY <1>4, <3>1, <3>2
  <2>. QED BY <1>1, <2>1, <2>2, <2>3 DEF Renaming
<1>. QED BY <1>3, <1>4 DEF u

\* What renames nothing.
LEMMA NothingMoves ==
    ASSUME NEW s, NEW D,
           \A i \in DOMAIN s :
              s[i].kind \in {"from", "remove_folder", "remove_file", "remove_any", "pathless"}
    PROVE  Even(s) /\ NoMoves(s) /\ Renaming(D, s)
<1>1. \A i \in DOMAIN s : EvenEvent(s[i]) /\ ~Moves(s[i]) /\ RenamingEvent(s[i])
                          /\ s[i].kind # "both"
  BY DEF EvenEvent, Moves, RenamingEvent
<1>. QED BY <1>1 DEF Even, NoMoves, Renaming

LEMMA NoEvents == \A D : Even(<<>>) /\ NoMoves(<<>>) /\ Renaming(D, <<>>)
<1>1. \A D : Even(<<>>) /\ NoMoves(<<>>) /\ Renaming(D, <<>>)
  BY DEF Even, NoMoves, Renaming
<1>. QED BY <1>1

LEMMA OneEvent ==
    ASSUME NEW kind \in {"from", "remove_folder", "remove_file", "remove_any", "pathless"},
           NEW p, NEW D
    PROVE  /\ Even(<<Event(kind, p)>>) /\ NoMoves(<<Event(kind, p)>>)
           /\ Renaming(D, <<Event(kind, p)>>)
<1>. DEFINE s == <<Event(kind, p)>>
<1>1. \A i \in DOMAIN s : s[i].kind = kind
  BY DEF Event
<1>. HIDE DEF s
<1>2. \A i \in DOMAIN s :
         s[i].kind \in {"from", "remove_folder", "remove_file", "remove_any", "pathless"}
  BY <1>1
<1>3. Even(s) /\ NoMoves(s) /\ Renaming(D, s)
  BY <1>2, NothingMoves
<1>. QED BY <1>3 DEF s

\* The events of a rename.
LEMMA RenamedCourse ==
    ASSUME NEW p, NEW q, NEW D
    PROVE  /\ Name(q) \in AllFiles => Even(Renamed(p, q))
           /\ /\ Parent(p) = Parent(q) /\ Name(q) \in DirNames
              /\ \A r \in D \ {q} : Parent(r) = Parent(p) => Final(Name(r)) # Final(Name(p))
              => Renaming(D, Renamed(p, q))
<1>. DEFINE b == [kind |-> "both", from |-> p, to |-> q]
            s == Renamed(p, q)
<1>1. /\ DOMAIN s = {1, 2} /\ s[1] = Event("from", p) /\ s[2] = b
  BY DEF Renamed
<1>2. s[1].kind = "from" /\ s[2].kind = "both" /\ s[2].from = p /\ s[2].to = q
  BY <1>1 DEF Event
<1>. HIDE DEF s, b
<1>3. Name(q) \in AllFiles => Even(s)
  BY <1>1, <1>2 DEF Even, EvenEvent
<1>4. ASSUME Parent(p) = Parent(q), Name(q) \in DirNames,
             \A r \in D \ {q} : Parent(r) = Parent(p) => Final(Name(r)) # Final(Name(p))
      PROVE  Renaming(D, s)
  <2>1. \A i \in DOMAIN s : RenamingEvent(s[i])
    BY <1>1, <1>2, <1>4 DEF RenamingEvent
  <2>2. ~Moves(s[1])
    BY <1>2 DEF Moves
  <2>3. BackFree(D, s[2])
    BY <1>2, <1>4 DEF BackFree
  <2>. QED BY <1>1, <1>2, <2>1, <2>2, <2>3 DEF Renaming
<1>. QED BY <1>3, <1>4 DEF s

(***************************************************************************)
(* What the service does keeps the course, and the files and directories   *)
(* that are there.                                                         *)
(***************************************************************************)
Gentle ==
    /\ CourseInv'
    /\ course # "lost" => /\ Cardinality(dirs') = Cardinality(dirs)
                          /\ Cardinality(files') = Cardinality(files)

LEMMA LostIsGentle ==
    ASSUME course = "lost", course' = course
    PROVE  Gentle
BY DEF Gentle, CourseInv

\* The event at hand is left out, and some that rename nothing come last.
LEMMA StaysGentle ==
    ASSUME EventsOK, CourseInv, course' = course, UNCHANGED fs,
           events # <<>>, NEW s \in {events, Tail(events)},
           NEW t \in Seq(Events), events' = s \o t,
           Even(t), NoMoves(t), Renaming(dirs, t)
    PROVE  Gentle
<1>1. dirs' = dirs /\ files' = files /\ events \in Seq(Events)
  BY DEF fs, EventsOK
<1>2. /\ s \in Seq(Events)
      /\ course = "even" => Even(s)
      /\ course = "renaming" => Renaming(dirs, s)
  <2>1. CASE s = events
    BY <1>1, <2>1 DEF CourseInv
  <2>2. CASE s = Tail(events)
    BY <1>1, <2>2, EventsLeft, CourseLeft DEF CourseInv
  <2>. QED BY <2>1, <2>2
<1>3. /\ course = "even" => Even(events')
      /\ course = "renaming" => Renaming(dirs, events')
  BY <1>2, CourseJoined
<1>4. CourseInv'
  BY <1>1, <1>3 DEF CourseInv
<1>. QED BY <1>1, <1>4 DEF Gentle

LEMMA DoneGentle ==
    ASSUME EventsOK, CourseInv, course' = course, UNCHANGED fs, events # <<>>,
           events' = Tail(events) \/ Done(<<>>)
    PROVE  Gentle
<1>1. events \in Seq(Events)
  BY DEF EventsOK
<1>2. Tail(events) \o <<>> = Tail(events)
  BY <1>1, EventsLeft
<1>3. events' = Tail(events) \o <<>>
  BY <1>2 DEF Done
<1>. QED BY <1>3, NoMore, NoEvents, StaysGentle

LEMMA PanicGentle ==
    ASSUME EventsOK, CourseInv, course' = course, UNCHANGED fs, WatcherPanics
    PROVE  Gentle
<1>1. CourseInv'
  BY NoEvents DEF WatcherPanics, CourseInv, fs
<1>. QED BY <1>1 DEF Gentle, fs

LEMMA NotifyGentle ==
    ASSUME EventsOK, CourseInv, course' = course, UNCHANGED fs,
           NEW kind \in {"from", "remove_folder", "remove_file", "remove_any", "pathless"},
           NEW p, <<Event(kind, p)>> \in Seq(Events), Notify(<<Event(kind, p)>>)
    PROVE  Gentle
<1>1. \/ events' = events \o <<Event(kind, p)>>
      \/ events' = events \o <<>>
  <2>1. events \in Seq(Events)
    BY DEF EventsOK
  <2>. QED BY <2>1 DEF Notify
<1>2. CASE events' = events \o <<Event(kind, p)>>
  <2>1. CASE events # <<>>
    BY <1>2, <2>1, OneEvent, StaysGentle
  <2>2. CASE events = <<>>
    <3>1. events' = <<Event(kind, p)>>
      BY <1>2, <2>2
    <3>2. CourseInv'
      BY <3>1, OneEvent DEF CourseInv, fs
    <3>. QED BY <3>2 DEF Gentle, fs
  <2>. QED BY <2>1, <2>2
<1>3. CASE events' = events \o <<>>
  <2>1. events' = events
    BY <1>3 DEF EventsOK
  <2>2. CourseInv'
    BY <2>1 DEF CourseInv, fs
  <2>. QED BY <2>2 DEF Gentle, fs
<1>. QED BY <1>1, <1>2, <1>3

\* A directory gets another name that was free.
LEMMA DirGentle ==
    ASSUME FsOK, EventsOK, CourseInv, course = "renaming", course' = course,
           events # <<>>, Moves(Head(events)),
           NEW o \in dirs, NEW r \in PathLike, Name(r) \in DirNames,
           Parent(r) = Parent(o), r # o, FreeFor(o, r), MoveDir(o, r),
           Done(Renamed(o, r)) \/ WatcherPanics
    PROVE  Gentle
<1>1. Distinct(dirs, files) /\ Renaming(dirs, events) /\ events \in Seq(Events)
  BY DEF CourseInv, EventsOK
<1>2. /\ Distinct(dirs', files')
      /\ Cardinality(dirs') = Cardinality(dirs)
      /\ Cardinality(files') = Cardinality(files)
      /\ \A x \in dirs' : x # r /\ Parent(x) = Parent(o) => x \in dirs \ {o}
  BY <1>1, MoveDirApart
<1>3. Renaming(dirs', Renamed(o, r))
  <2>1. \A x \in dirs' \ {r} : Parent(x) = Parent(o) => Final(Name(x)) # Final(Name(o))
    BY <1>1, <1>2 DEF Distinct
  <2>. QED BY <2>1, RenamedCourse
<1>4. Renaming(dirs', events')
  <2>1. CASE WatcherPanics
    BY <2>1, NoEvents DEF WatcherPanics
  <2>2. CASE Done(Renamed(o, r))
    <3>1. NoMoves(Tail(events)) /\ Tail(events) \in Seq(Events) /\ Renaming(dirs, Tail(events))
      BY <1>1, EventsLeft, CourseLeft
    <3>2. Renaming(dirs', Tail(events))
      BY <3>1 DEF Renaming, NoMoves, Moves
    <3>3. Name(o) \in DirNames /\ o \in PathLike
      BY DirIsPath
    <3>4. Renamed(o, r) \in Seq(Events)
      BY <3>3, RenamedIsEvents
    <3>5. Renaming(dirs', Tail(events) \o Renamed(o, r))
      BY <1>3, <3>1, <3>2, <3>4, CourseJoined
    <3>. QED BY <2>2, <3>5 DEF Done
  <2>. QED BY <2>1, <2>2
<1>. QED BY <1>2, <1>4 DEF Gentle, CourseInv

\* A file gets the name that is made of its own.
LEMMA FileGentle ==
    ASSUME FsOK, EventsOK, CourseInv, course = "even", course' = course,
           events # <<>>, NEW p \in PathLike, IsFile(p), NEW q, q = Normal(p), q # p,
           MoveFile(p, q), Done(Renamed(p, q))
    PROVE  Gentle
<1>1. Distinct(dirs, files) /\ Even(events) /\ events \in Seq(Events)
  BY DEF CourseInv, EventsOK
<1>2. /\ q \in PathLike /\ Name(q) \in AllFiles /\ Parent(q) = Parent(p)
      /\ Name(p) \in AllFiles /\ Renamed(p, q) \in Seq(Events)
  BY NormalFile
<1>3. Name(q) = Norm[Name(p)]
  <2>1. Norm[Name(p)] \in Segs
    BY <1>2, NamesApart
  <2>. QED BY <2>1, RenamedParts DEF Normal
<1>4. Norm[Name(q)] = Norm[Name(p)]
  BY <1>2, <1>3, FinalFacts
<1>5. /\ Distinct(dirs', files')
      /\ Cardinality(dirs') = Cardinality(dirs)
      /\ Cardinality(files') = Cardinality(files)
  BY <1>1, <1>2, <1>4, MoveFileApart
<1>6. Even(events')
  <2>1. Even(Tail(events)) /\ Tail(events) \in Seq(Events)
    BY <1>1, EventsLeft, CourseLeft
  <2>2. Even(Renamed(p, q))
    BY <1>2, RenamedCourse
  <2>3. Even(Tail(events) \o Renamed(p, q))
    BY <1>2, <2>1, <2>2, CourseJoined
  <2>. QED BY <2>3 DEF Done
<1>. QED BY <1>5, <1>6 DEF Gentle, CourseInv

\* What a step of the watcher starts from, as long as the index may follow.
Following ==
    /\ FsOK /\ EventsOK /\ UsersOK /\ CourseInv
    /\ course # "lost" /\ course' = course

LEMMA AtHand ==
    ASSUME Following, NEW kind, Handles(kind)
    PROVE  /\ events # <<>> /\ e = Head(events) /\ e \in Events /\ e.kind = kind
           /\ Distinct(dirs, files)
           /\ course = "even" => EvenEvent(e)
           /\ course = "renaming" =>
                 /\ RenamingEvent(e)
                 /\ e.kind = "both" => BackFree(dirs, e)
           /\ course = "even" \/ course = "renaming"
<1>1. events \in Seq(Events) /\ events # <<>> /\ e = Head(events) /\ e.kind = kind
  BY DEF Following, EventsOK, Handles, e
<1>2. e \in Events
  BY EventAtHand DEF Following
<1>3. Distinct(dirs, files) /\ (course = "even" \/ course = "renaming")
  BY DEF Following, CourseInv, UsersOK
<1>4. /\ course = "even" => Even(events)
      /\ course = "renaming" => Renaming(dirs, events)
  BY DEF Following, CourseInv
<1>5. /\ course = "even" => EvenEvent(Head(events))
      /\ course = "renaming" =>
            /\ RenamingEvent(Head(events))
            /\ Head(events).kind = "both" => BackFree(dirs, Head(events))
  BY <1>1, <1>4, CourseLeft
<1>. QED BY <1>1, <1>2, <1>3, <1>5

LEMMA CreateFolderGentle ==
    ASSUME Following, HandleCreateFolder
    PROVE  Gentle
<1>. DEFINE p == e.path
            q == NormalNew(p)
<1>1. /\ events # <<>> /\ e = Head(events) /\ e \in Events /\ e.kind = "create_folder"
      /\ Distinct(dirs, files)
      /\ course = "even" => EvenEvent(e)
      /\ course = "even" \/ course = "renaming"
  BY AtHand DEF HandleCreateFolder
<1>2. p \in PathLike
  BY <1>1, EventFacts DEF PathKinds
<1>3. \/ Done(<<>>) /\ UNCHANGED fs
      \/ q # p /\ CanMoveDir(p, q) /\ MoveDir(p, q) /\ Done(Renamed(p, q))
  BY DEF HandleCreateFolder
<1>4. FsOK /\ EventsOK /\ CourseInv /\ course' = course
  BY DEF Following
<1>5. CASE Done(<<>>) /\ UNCHANGED fs
  BY <1>1, <1>4, <1>5, DoneGentle
<1>6. CASE q # p /\ CanMoveDir(p, q) /\ MoveDir(p, q) /\ Done(Renamed(p, q))
  <2>. DEFINE n == IF Norm[Name(p)] = Empty THEN Invalid ELSE Norm[Name(p)]
  <2>1. q = Append(Parent(p), n)
    BY DEF NormalNew, Normal
  <2>2. p \in dirs
    BY <1>6 DEF CanMoveDir
  <2>3. Name(p) \in DirNames
    BY <1>4, <2>2, DirIsPath
  <2>4. n \in DirNames /\ n \in Segs
    BY <2>3, NamesApart
  <2>5. Final(n) = Final(Name(p))
    BY <2>3, FinalFacts
  <2>. HIDE DEF n, q, p
  <2>6. q \in PathLike /\ Name(q) = n /\ Parent(q) = Parent(p)
    BY <1>2, <2>1, <2>4, RenamedParts
  <2>7. course = "renaming"
    <3>1. ASSUME course = "even" PROVE FALSE
      <4>1. Norm[Name(p)] = Name(p)
        BY <1>1, <3>1 DEF EvenEvent, p
      <4>2. Name(p) # Empty
        BY <2>3, <4>1, NormAssumption, KindsAssumption DEF DirNames
      <4>3. n = Name(p)
        BY <4>1, <4>2 DEF n
      <4>4. p = Append(Parent(p), Name(p))
        BY <1>2, PathParts
      <4>. QED BY <1>6, <2>1, <4>3, <4>4
    <3>. QED BY <1>1, <3>1
  <2>8. FreeFor(p, q)
    BY <1>1, <2>2, <2>5, <2>6, SameFinalFree
  <2>9. Moves(Head(events))
    BY <1>1 DEF Moves
  <2>. QED BY <1>1, <1>4, <1>6, <2>2, <2>4, <2>6, <2>7, <2>8, <2>9, DirGentle
<1>. QED BY <1>3, <1>5, <1>6

LEMMA CreateFileGentle ==
    ASSUME Following, HandleCreateFile
    PROVE  Gentle
<1>. DEFINE p == e.path
            q == Normal(p)
<1>1. /\ events # <<>> /\ e = Head(events) /\ e \in Events /\ e.kind = "create_file"
      /\ course = "renaming" => RenamingEvent(e)
      /\ course = "even" \/ course = "renaming"
  BY AtHand DEF HandleCreateFile
<1>2. course = "even"
  BY <1>1 DEF RenamingEvent
<1>3. p \in PathLike
  BY <1>1, EventFacts DEF PathKinds
<1>4. \/ Done(<<>>) /\ UNCHANGED fs
      \/ q # p /\ IsFile(p) /\ MoveFile(p, q) /\ Done(Renamed(p, q))
  BY DEF HandleCreateFile
<1>5. FsOK /\ EventsOK /\ CourseInv /\ course' = course
  BY DEF Following
<1>6. q = Normal(p)
  OBVIOUS
<1>. HIDE DEF p, q
<1>7. CASE Done(<<>>) /\ UNCHANGED fs
  BY <1>1, <1>5, <1>7, DoneGentle
<1>8. CASE q # p /\ IsFile(p) /\ MoveFile(p, q) /\ Done(Renamed(p, q))
  BY <1>1, <1>2, <1>3, <1>5, <1>6, <1>8, FileGentle
<1>. QED BY <1>4, <1>7, <1>8

LEMMA BothObjectGentle ==
    ASSUME Following, HandleBothObject
    PROVE  Gentle
<1>. DEFINE p == e.to
            q == Normal(p)
<1>1. /\ events # <<>> /\ e = Head(events) /\ e \in Events /\ e.kind = "both"
      /\ course = "renaming" => RenamingEvent(e)
      /\ course = "even" \/ course = "renaming"
  BY AtHand DEF HandleBothObject
<1>2. p \in PathLike
  BY <1>1, EventFacts
<1>3. \/ Done(<<>>) /\ UNCHANGED fs
      \/ WatcherPanics /\ UNCHANGED fs
      \/ q # p /\ IsFile(p) /\ MoveFile(p, q) /\ Done(Renamed(p, q))
  BY DEF HandleBothObject
<1>4. FsOK /\ EventsOK /\ CourseInv /\ course' = course
  BY DEF Following
<1>5. IsFile(p) => course = "even"
  <2>1. IsFile(p) => Name(p) \in AllFiles
    BY <1>2, <1>4, NormalFile
  <2>2. course = "renaming" => Name(p) \in DirNames
    BY <1>1 DEF RenamingEvent
  <2>. QED BY <1>1, <2>1, <2>2, NamesApart
<1>6. q = Normal(p)
  OBVIOUS
<1>. HIDE DEF p, q
<1>7. CASE Done(<<>>) /\ UNCHANGED fs
  BY <1>1, <1>4, <1>7, DoneGentle
<1>8. CASE WatcherPanics /\ UNCHANGED fs
  BY <1>4, <1>8, PanicGentle
<1>9. CASE q # p /\ IsFile(p) /\ MoveFile(p, q) /\ Done(Renamed(p, q))
  BY <1>1, <1>2, <1>4, <1>5, <1>6, <1>9, FileGentle
<1>. QED BY <1>3, <1>7, <1>8, <1>9

LEMMA BothDirGentle ==
    ASSUME Following, HandleBothDir
    PROVE  Gentle
<1>. DEFINE p == e.from
            o == e.to
            q == Normal(o)
<1>1. /\ events # <<>> /\ e = Head(events) /\ e \in Events /\ e.kind = "both"
      /\ Distinct(dirs, files)
      /\ course = "even" => EvenEvent(e)
      /\ course = "renaming" => RenamingEvent(e) /\ BackFree(dirs, e)
      /\ course = "even" \/ course = "renaming"
  BY AtHand DEF HandleBothDir
<1>2. o \in dirs
  BY DEF HandleBothDir, IsDir
<1>3. \/ Done(<<>>) /\ UNCHANGED fs
      \/ WatcherPanics /\ UNCHANGED fs
      \/ CanMoveDir(o, p) /\ MoveDir(o, p) /\ Done(Renamed(o, p))
      \/ /\ q # o /\ Name(q) # Empty /\ CanMoveDir(o, q) /\ MoveDir(o, q)
         /\ Done(Renamed(o, q)) \/ WatcherPanics
  BY DEF HandleBothDir
<1>4. FsOK /\ EventsOK /\ CourseInv /\ course' = course
  BY DEF Following
<1>5. o \in PathLike /\ p \in PathLike /\ Name(o) \in DirNames /\ Name(p) \in DirNames
  <2>1. o \in PathLike /\ Name(o) \in DirNames
    BY <1>2, <1>4, DirIsPath
  <2>. QED BY <1>1, <2>1, EventFacts
<1>6. course = "renaming"
  <2>1. course = "even" => Name(o) \in AllFiles
    BY <1>1 DEF EvenEvent
  <2>. QED BY <1>1, <1>5, <2>1, NamesApart
<1>7. Parent(p) = Parent(o)
  BY <1>1, <1>6 DEF RenamingEvent
<1>8. FreeFor(o, p)
  BY <1>1, <1>6 DEF BackFree, FreeFor
<1>9. Moves(Head(events))
  BY <1>1 DEF Moves
<1>10. q = Append(Parent(o), Norm[Name(o)])
  BY DEF Normal
<1>. HIDE DEF p, o, q
<1>11. CASE Done(<<>>) /\ UNCHANGED fs
  BY <1>1, <1>4, <1>11, DoneGentle
<1>12. CASE WatcherPanics /\ UNCHANGED fs
  BY <1>4, <1>12, PanicGentle
<1>13. CASE CanMoveDir(o, p) /\ MoveDir(o, p) /\ Done(Renamed(o, p))
  <2>1. p # o
    <3>1. ~Under(o, p)
      BY <1>13 DEF CanMoveDir
    <3>2. o \in Seq(Segs)
      BY <1>5, PathParts
    <3>. QED BY <3>1, <3>2, UnderOrder
  <2>. QED BY <1>1, <1>2, <1>4, <1>5, <1>6, <1>7, <1>8, <1>9, <1>13, <2>1, DirGentle
<1>14. CASE /\ q # o /\ Name(q) # Empty /\ CanMoveDir(o, q) /\ MoveDir(o, q)
            /\ Done(Renamed(o, q)) \/ WatcherPanics
  <2>. DEFINE n == Norm[Name(o)]
  <2>1. n \in Segs
    <3>1. n # Empty => n \in DirNames
      BY <1>5, NamesApart
    <3>. QED BY <3>1, NamesApart DEF Segs
  <2>2. q = Append(Parent(o), n)
    BY <1>10
  <2>. HIDE DEF n
  <2>3. q \in PathLike /\ Name(q) = n /\ Parent(q) = Parent(o)
    BY <1>5, <2>1, <2>2, RenamedParts
  <2>4. n \in DirNames
    BY <1>5, <1>14, <2>3, NamesApart DEF n
  <2>5. Final(Name(q)) = Final(Name(o))
    BY <1>5, <1>14, <2>3, FinalFacts DEF n
  <2>6. FreeFor(o, q)
    BY <1>1, <1>2, <2>3, <2>5, SameFinalFree
  <2>. QED BY <1>1, <1>2, <1>4, <1>6, <1>9, <1>14, <2>3, <2>4, <2>6, DirGentle
<1>. QED BY <1>3, <1>11, <1>12, <1>13, <1>14

\* The arms that touch no file.
LEMMA OthersGentle ==
    ASSUME Following,
           \/ HandleFrom \/ HandleRemoveFolder \/ HandleRemoveFile
           \/ HandleRemoveAny \/ HandlePathless
    PROVE  Gentle
<1>1. events # <<>>
  BY DEF HandleFrom, HandleRemoveFolder, HandleRemoveFile, HandleRemoveAny, HandlePathless,
         Handles
<1>2. /\ UNCHANGED fs
      /\ Done(<<>>) \/ events' = Tail(events) \/ WatcherPanics
  BY DEF HandleFrom, HandleRemoveFolder, HandleRemoveFile, HandleRemoveAny, HandlePathless
<1>3. EventsOK /\ CourseInv /\ course' = course
  BY DEF Following
<1>. QED BY <1>1, <1>2, <1>3, DoneGentle, PanicGentle

LEMMA SystemGentle ==
    ASSUME IndInv, CourseInv, System
    PROVE  Gentle
<1>1. course' = course
  <2>1. CASE Watcher
    <3>1. Handled
      BY <2>1, WatcherHandled DEF IndInv
    <3>. QED BY <3>1 DEF Handled, TellNothing, Tell, users
  <2>2. CASE ~Watcher
    BY <2>2 DEF System, Report, ManagerChange, ManagerPanics, ManagerAnswers, users
  <2>. QED BY <2>1, <2>2
<1>2. CASE course = "lost"
  BY <1>1, <1>2, LostIsGentle
<1>3. CASE course # "lost"
  <2>1. FsOK /\ EventsOK /\ UsersOK /\ Following
    BY <1>1, <1>3 DEF IndInv, Following
  <2>2. CASE Watcher
    BY <2>1, <2>2, CreateFolderGentle, CreateFileGentle, BothDirGentle, BothObjectGentle,
       OthersGentle DEF Watcher
  <2>3. ASSUME NEW p \in pending, Report(p) PROVE Gentle
    <3>1. UNCHANGED fs /\ Notify(<<Event("remove_any", p)>>)
      BY <2>3 DEF Report
    <3>2. <<Event("remove_any", p)>> \in Seq(Events)
      BY <2>1, EventIsEvent DEF PathKinds, EventsOK
    <3>. QED BY <1>1, <2>1, <3>1, <3>2, NotifyGentle
  <2>4. CASE ManagerChange
    <3>1. UNCHANGED fs /\ events' = events
      BY <2>4 DEF ManagerChange, watcher
    <3>. QED BY <1>1, <3>1 DEF Gentle, CourseInv, fs
  <2>5. CASE ManagerPanics
    <3>1. UNCHANGED fs /\ (WatcherPanics \/ events' = events)
      BY <2>5 DEF ManagerPanics
    <3>2. CASE WatcherPanics
      BY <1>1, <2>1, <3>1, <3>2, PanicGentle
    <3>3. CASE events' = events
      BY <1>1, <3>1, <3>3 DEF Gentle, CourseInv, fs
    <3>. QED BY <3>1, <3>2, <3>3
  <2>6. CASE ManagerAnswers
    <3>1. UNCHANGED fs /\ Notify(<<Event("pathless", <<>>)>>)
      BY <2>6 DEF ManagerAnswers
    <3>2. <<Event("pathless", <<>>)>> \in Seq(Events)
      BY DEF Event, Events
    <3>. QED BY <1>1, <2>1, <3>1, <3>2, NotifyGentle
  <2>. QED BY <2>2, <2>3, <2>4, <2>5, <2>6 DEF System
<1>. QED BY <1>2, <1>3

-----------------------------------------------------------------------------
(***************************************************************************)
(* What users do keeps the course they are on, or is what the index does   *)
(* not follow.                                                             *)
(***************************************************************************)
LEMMA ActCourse ==
    ASSUME IndInv, CourseInv, NEW kind, Act(kind)
    PROVE  \/ course' = "lost"
           \/ /\ kind \notin NotFollowed /\ kind \notin RenamesDir
              /\ course' = "even" /\ Even(events) /\ Distinct(dirs, files)
           \/ /\ kind \notin NotFollowed /\ kind \in RenamesDir
              /\ course' = "renaming" /\ events = <<>> /\ Distinct(dirs, files)
<1>1. course' = Course(kind)
  BY DEF Act
<1>2. course \in {"even", "renaming", "lost"}
  BY DEF IndInv, UsersOK
<1>3. Quiet => events = <<>>
  BY DEF Quiet
<1>4. SUFFICES ASSUME course # "lost", kind \notin NotFollowed,
                      Quiet \/ (course # "renaming" /\ kind \notin RenamesDir)
               PROVE  \/ /\ kind \notin RenamesDir
                         /\ course' = "even" /\ Even(events) /\ Distinct(dirs, files)
                      \/ /\ kind \in RenamesDir
                         /\ course' = "renaming" /\ events = <<>> /\ Distinct(dirs, files)
  BY <1>1 DEF Course
<1>5. course' = IF kind \in RenamesDir THEN "renaming" ELSE "even"
  BY <1>1, <1>4 DEF Course
<1>6. Distinct(dirs, files)
  BY <1>4 DEF CourseInv
<1>7. Even(events)
  BY <1>2, <1>3, <1>4, NoEvents DEF CourseInv
<1>. QED BY <1>3, <1>4, <1>5, <1>6, <1>7

\* What is told of a user's action comes last.
LEMMA ActKeeps ==
    ASSUME IndInv, CourseInv, NEW kind, Act(kind),
           NEW more \in Seq(Events), Notify(more),
           course' # "lost" => Distinct(dirs', files'),
           course' = "even" => Even(more),
           course' = "renaming" => Renaming(dirs', more)
    PROVE  CourseInv'
<1>1. events' = events \/ events' = events \o more
  BY DEF Notify
<1>2. events \in Seq(Events)
  BY DEF IndInv, EventsOK
<1>3. CASE course' = "lost"
  BY <1>3 DEF CourseInv
<1>4. CASE course' = "even" /\ Even(events)
  <2>1. Even(events')
    BY <1>1, <1>2, <1>4, CourseJoined
  <2>. QED BY <1>4, <2>1 DEF CourseInv
<1>5. CASE course' = "renaming" /\ events = <<>>
  <2>1. events' = <<>> \/ events' = more
    BY <1>1, <1>5
  <2>2. Renaming(dirs', events')
    BY <1>5, <2>1, NoEvents
  <2>. QED BY <1>5, <2>2 DEF CourseInv
<1>. QED BY <1>3, <1>4, <1>5, ActCourse

LEMMA CreateFolderCourse ==
    ASSUME IndInv, CourseInv, NEW p \in FsPaths, CreateFolder(p)
    PROVE  CourseInv'
<1>. DEFINE n == Name(p)
            known == \E r \in dirs : Len(r) > 1 /\ Parent(r) = Parent(p) /\ ~Unseen(r)
            kind == IF Norm[n] = Empty THEN "create_empty"
                    ELSE IF Len(p) = 1
                         THEN IF n \in RawNames THEN "create_bucket_raw" ELSE "create_bucket"
                    ELSE IF n \in RawNames THEN "create_key_raw"
                    ELSE IF known THEN "create_key" ELSE "first_key"
            more == <<Event("create_folder", p)>>
<1>1. /\ Act(kind) /\ Notify(more)
      /\ dirs' = dirs \cup {p} /\ files' = files /\ Free(Parent(p), n)
  BY DEF CreateFolder
<1>. HIDE DEF known
<1>2. kind \notin NotFollowed /\ kind \notin RenamesDir => n \notin RawNames
  BY DEF NotFollowed, RenamesDir
<1>3. p \in PathLike /\ n \in DirNames
  BY FsPathIsPath
<1>4. more \in Seq(Events)
  BY <1>3, EventIsEvent DEF PathKinds
<1>5. DOMAIN more = {1} /\ more[1].kind = "create_folder" /\ more[1].path = p
  BY DEF Event
<1>. HIDE DEF kind, more
<1>6. Distinct(dirs, files) => Distinct(dirs', files')
  BY <1>1 DEF Distinct, Free
<1>7. Renaming(dirs', more)
  BY <1>5 DEF Renaming, RenamingEvent, Moves
<1>8. n \notin RawNames => Even(more)
  <2>1. n \notin RawNames => Norm[n] = n
    BY <1>3, NormAssumption DEF DirNames
  <2>. QED BY <1>5, <2>1 DEF Even, EvenEvent
<1>9. course' # "lost" => Distinct(dirs', files')
  BY <1>1, <1>6, ActCourse
<1>10. course' = "even" => Even(more)
  BY <1>1, <1>2, <1>8, ActCourse
<1>. QED BY <1>1, <1>4, <1>7, <1>9, <1>10, ActKeeps

LEMMA CreateFileCourse ==
    ASSUME IndInv, CourseInv, NEW d \in dirs \cup {<<>>}, NEW f \in AllFiles,
           CreateFile(d, f)
    PROVE  CourseInv'
<1>. DEFINE kind == IF Taken(<<>>, d, f) THEN "replace_file"
                    ELSE IF Reported(Append(d, f)) THEN "remake_file" ELSE "create_file"
            more == <<Event("create_file", Append(d, f))>>
<1>1. /\ Act(kind) /\ Notify(more)
      /\ dirs' = dirs /\ files' = files \cup {<<d, f>>}
  BY DEF CreateFile
<1>2. FsOK
  BY DEF IndInv
<1>3. /\ kind \notin NotFollowed => ~Taken(<<>>, d, f)
      /\ kind \notin RenamesDir
  BY DEF NotFollowed, RenamesDir
<1>4. more \in Seq(Events)
  BY <1>2, FilePathIsPath, EventIsEvent DEF PathKinds
<1>5. DOMAIN more = {1} /\ more[1].kind = "create_file"
  BY DEF Event
<1>. HIDE DEF kind, more
<1>6. Even(more)
  BY <1>5 DEF Even, EvenEvent
<1>7. ASSUME Distinct(dirs, files), ~Taken(<<>>, d, f) PROVE Distinct(dirs', files')
  <2>1. \A x \in files : x[1] \in dirs \cup {<<>>} /\ x[2] \in AllFiles
    BY <1>2 DEF FsOK
  <2>2. \A x \in files : Append(x[1], x[2]) # <<>>
    BY <1>2, <2>1, FilePathIsPath DEF PathLike
  <2>3. \A x \in files : x[1] = d => Norm[x[2]] # Norm[f]
    BY <1>7, <2>2 DEF Taken
  <2>. QED BY <1>1, <1>7, <2>3 DEF Distinct
<1>8. course' # "lost" => course' = "even" /\ Distinct(dirs', files')
  BY <1>1, <1>3, <1>7, ActCourse
<1>. QED BY <1>1, <1>4, <1>6, <1>8, ActKeeps

LEMMA RenameFileCourse ==
    ASSUME IndInv, CourseInv, NEW x \in files, NEW c \in dirs \cup {<<>>}, NEW g \in AllFiles,
           RenameFile(x[1], x[2], c, g)
    PROVE  CourseInv'
<1>. DEFINE p == Append(x[1], x[2])
            q == Append(c, g)
            kind == IF Taken(p, c, g) THEN "replace_file"
                    ELSE IF c = <<>> THEN "rename_root_file"
                    ELSE IF c # x[1] THEN "move_file"
                    ELSE IF {x[2], g} \subseteq FileNames THEN "rename_file"
                                                          ELSE "rename_file_raw"
<1>1. Act(kind) /\ MoveFile(p, q) /\ Notify(Renamed(p, q))
  BY DEF RenameFile
<1>2. FsOK /\ x[1] \in dirs \cup {<<>>} /\ x[2] \in AllFiles /\ x = <<x[1], x[2]>>
  BY DEF IndInv, FsOK
<1>3. /\ p \in PathLike /\ Parent(p) = x[1] /\ Name(p) = x[2]
      /\ q \in PathLike /\ Parent(q) = c /\ Name(q) = g
  BY <1>2, FilePathIsPath
<1>4. /\ kind \notin NotFollowed => ~Taken(p, c, g)
      /\ kind \notin RenamesDir
  BY DEF NotFollowed, RenamesDir
<1>. HIDE DEF kind
<1>5. dirs' = dirs /\ files' = (files \ {x}) \cup {<<c, g>>}
  BY <1>1, <1>2, <1>3 DEF MoveFile
<1>6. ASSUME Distinct(dirs, files), ~Taken(p, c, g) PROVE Distinct(dirs', files')
  <2>1. ASSUME NEW y \in files, y # x, y[1] = c PROVE Norm[y[2]] # Norm[g]
    <3>1. y[1] \in dirs \cup {<<>>} /\ y[2] \in AllFiles /\ y = <<y[1], y[2]>>
      BY <1>2 DEF FsOK
    <3>2. Parent(Append(c, y[2])) = c /\ Name(Append(c, y[2])) = y[2]
      BY <1>2, <3>1, FilePathIsPath
    <3>3. Append(c, y[2]) # p
      BY <1>2, <1>3, <2>1, <3>1, <3>2
    <3>. QED BY <1>6, <2>1, <3>3 DEF Taken
  <2>2. <<c, g>>[1] = c /\ <<c, g>>[2] = g
    OBVIOUS
  <2>. QED BY <1>5, <1>6, <2>1, <2>2 DEF Distinct
<1>. HIDE DEF p, q
<1>7. course' # "lost" => course' = "even" /\ Distinct(dirs', files')
  BY <1>1, <1>4, <1>6, ActCourse
<1>8. Name(q) \notin DirNames
  BY <1>3, NamesApart
<1>9. Renamed(p, q) \in Seq(Events) /\ Even(Renamed(p, q))
  BY <1>3, <1>8, RenamedIsEvents, RenamedCourse
<1>. QED BY <1>1, <1>7, <1>9, ActKeeps

LEMMA RenameFolderCourse ==
    ASSUME IndInv, CourseInv, NEW p \in dirs, NEW q \in FsPaths, RenameFolder(p, q)
    PROVE  CourseInv'
<1>. DEFINE kind == IF Len(p) > 1 /\ Unseen(p) THEN "unseen_key"
                    ELSE IF Parent(q) # Parent(p) THEN "move_folder"
                    ELSE IF Norm[Name(q)] = Empty /\ Name(p) \in RawNames /\ ~Unseen(p)
                         THEN "rename_raw" ELSE "rename_folder"
<1>1. /\ Act(kind) /\ MoveDir(p, q) /\ Notify(Renamed(p, q))
      /\ ~Under(p, q) /\ Free(Parent(q), Name(q))
  BY DEF RenameFolder
<1>2. /\ kind \in NotFollowed \/ kind \in RenamesDir
      /\ kind \notin NotFollowed => Parent(q) = Parent(p)
  BY DEF NotFollowed, RenamesDir
<1>. HIDE DEF kind
<1>3. FsOK /\ q \in PathLike /\ Name(q) \in DirNames /\ p \in PathLike /\ Name(p) \in DirNames
  <2>1. FsOK
    BY DEF IndInv
  <2>. QED BY <2>1, FsPathIsPath, DirIsPath
<1>4. Renamed(p, q) \in Seq(Events)
  BY <1>3, RenamedIsEvents
<1>5. course' # "lost" => /\ course' = "renaming" /\ Distinct(dirs, files)
                          /\ Parent(q) = Parent(p)
  BY <1>1, <1>2, ActCourse
<1>6. ASSUME Distinct(dirs, files), Parent(q) = Parent(p)
      PROVE  Distinct(dirs', files') /\ Renaming(dirs', Renamed(p, q))
  <2>1. q # p
    <3>1. p \in Seq(Segs)
      BY <1>3, PathParts
    <3>. QED BY <1>1, <3>1, UnderOrder
  <2>2. FreeFor(p, q)
    BY <1>1 DEF Free, FreeFor
  <2>3. /\ Distinct(dirs', files')
        /\ \A r \in dirs' : r # q /\ Parent(r) = Parent(p) => r \in dirs \ {p}
    BY <1>1, <1>3, <1>6, <2>1, <2>2, MoveDirApart
  <2>4. \A r \in dirs' \ {q} : Parent(r) = Parent(p) => Final(Name(r)) # Final(Name(p))
    BY <1>6, <2>3 DEF Distinct
  <2>. QED BY <1>3, <1>6, <2>3, <2>4, RenamedCourse
<1>. QED BY <1>1, <1>4, <1>5, <1>6, ActKeeps

LEMMA DeleteFolderCourse ==
    ASSUME IndInv, CourseInv, NEW p \in dirs, DeleteFolder(p)
    PROVE  CourseInv'
<1>. DEFINE kind == IF Len(p) > 1 /\ Unseen(p) THEN "unseen_key" ELSE "delete_folder"
<1>1. Act(kind) /\ dirs' \subseteq dirs /\ files' \subseteq files
  BY DEF DeleteFolder
<1>2. PICK more \in Seq(Events) :
         /\ Notify(more)
         /\ \A i \in DOMAIN more : more[i].kind \in {"remove_file", "remove_folder"}
  BY DeleteFolderTells DEF IndInv
<1>3. kind \notin RenamesDir
  BY DEF RenamesDir
<1>. HIDE DEF kind
<1>4. Distinct(dirs, files) => Distinct(dirs', files')
  BY <1>1 DEF Distinct
<1>5. course' # "lost" => course' = "even" /\ Distinct(dirs', files')
  BY <1>1, <1>3, <1>4, ActCourse
<1>6. Even(more)
  BY <1>2, NothingMoves
<1>. QED BY <1>1, <1>2, <1>5, <1>6, ActKeeps

LEMMA LostCourse ==
    ASSUME IndInv, CourseInv, NEW kind \in NotFollowed, Act(kind)
    PROVE  CourseInv'
<1>1. course' = "lost"
  BY ActCourse
<1>. QED BY <1>1 DEF CourseInv

LEMMA MoveInCourse ==
    ASSUME IndInv, CourseInv, NEW p \in FsPaths \cup FilePaths, MoveIn(p)
    PROVE  CourseInv'
<1>. DEFINE d == Parent(p)
            n == Name(p)
            kind == IF Reported(p) THEN "remake_file" ELSE "move_in"
<1>1. /\ Act(kind) /\ events' = events /\ Free(d, n)
      /\ \/ dirs' = dirs \cup {p} /\ files' = files
         \/ n \in AllFiles /\ files' = files \cup {<<d, n>>} /\ dirs' = dirs
  BY DEF MoveIn
<1>. HIDE DEF d
<1>2. kind \notin RenamesDir
  BY DEF RenamesDir
<1>. HIDE DEF kind
<1>3. \/ course' = "lost"
      \/ course' = "even" /\ Even(events) /\ Distinct(dirs, files)
  BY <1>1, <1>2, ActCourse
<1>4. \A x \in files : x[2] \in AllFiles
  BY DEF IndInv, FsOK
<1>5. \A f \in AllFiles : Final(f) = Norm[f]
  BY FinalFacts
<1>6. n \in AllFiles => \A x \in files : x[1] = d => Norm[x[2]] # Norm[n]
  BY <1>1, <1>4, <1>5 DEF Free
<1>7. Distinct(dirs, files) => Distinct(dirs', files')
  <2>1. CASE dirs' = dirs \cup {p} /\ files' = files
    BY <1>1, <2>1 DEF Distinct, Free, d
  <2>2. CASE n \in AllFiles /\ files' = files \cup {<<d, n>>} /\ dirs' = dirs
    BY <1>6, <2>2 DEF Distinct
  <2>. QED BY <1>1, <2>1, <2>2
<1>. QED BY <1>1, <1>3, <1>7 DEF CourseInv

LEMMA UserCourse ==
    ASSUME IndInv, CourseInv, User
    PROVE  CourseInv'
<1>1. ASSUME NEW p \in FsPaths, CreateFolder(p) PROVE CourseInv'
  BY <1>1, CreateFolderCourse
<1>2. ASSUME NEW d \in dirs \cup {<<>>}, NEW f \in AllFiles, CreateFile(d, f)
      PROVE  CourseInv'
  BY <1>2, CreateFileCourse
<1>3. ASSUME NEW x \in files, NEW c \in dirs \cup {<<>>}, NEW g \in AllFiles,
             RenameFile(x[1], x[2], c, g)
      PROVE  CourseInv'
  BY <1>3, RenameFileCourse
<1>4. ASSUME NEW p \in dirs, NEW q \in FsPaths, RenameFolder(p, q) PROVE CourseInv'
  BY <1>4, RenameFolderCourse
<1>5. ASSUME NEW p \in dirs, DeleteFolder(p) PROVE CourseInv'
  BY <1>5, DeleteFolderCourse
<1>6. ASSUME NEW x \in files, DeleteFile(x[1], x[2]) PROVE CourseInv'
  <2>1. Act("delete_file") /\ "delete_file" \in NotFollowed
    BY <1>6 DEF DeleteFile, NotFollowed
  <2>. QED BY <2>1, LostCourse
<1>7. ASSUME NEW p, MoveOut(p) PROVE CourseInv'
  <2>1. Act("move_out") /\ "move_out" \in NotFollowed
    BY <1>7 DEF MoveOut, NotFollowed
  <2>. QED BY <2>1, LostCourse
<1>8. ASSUME NEW p \in FsPaths \cup FilePaths, MoveIn(p) PROVE CourseInv'
  BY <1>8, MoveInCourse
<1>. QED BY <1>1, <1>2, <1>3, <1>4, <1>5, <1>6, <1>7, <1>8 DEF User

LEMMA InitCourse ==
    ASSUME Init
    PROVE  CourseInv
<1>1. Distinct(dirs, files) /\ events = <<>> /\ course = "even"
  BY LayoutAssumption DEF Init
<1>. QED BY <1>1, NoEvents DEF CourseInv

\* The kinds of steps: only users change users.
LEMMA NextCourse ==
    ASSUME IndInv, CourseInv, [Next]_vars
    PROVE  /\ CourseInv'
           /\ course # "lost" /\ UNCHANGED users =>
                 /\ Cardinality(dirs') = Cardinality(dirs)
                 /\ Cardinality(files') = Cardinality(files)
<1>1. CASE User
  <2>1. CourseInv'
    BY <1>1, UserCourse
  <2>2. \E kind : Act(kind)
    BY <1>1 DEF User, CreateFolder, CreateFile, RenameFile, RenameFolder, DeleteFolder,
       DeleteFile, MoveOut, MoveIn
  <2>3. acts' = acts + 1 /\ acts \in 0 .. MaxActs
    BY <2>2 DEF Act, IndInv, UsersOK
  <2>4. acts' # acts
    BY <2>3, ActsAssumption
  <2>. QED BY <2>1, <2>4 DEF users
<1>2. CASE System
  BY <1>2, SystemGentle DEF Gentle
<1>3. CASE UNCHANGED vars
  <2>1. dirs' = dirs /\ files' = files /\ events' = events /\ course' = course
    BY <1>3 DEF vars, fs, watcher, users
  <2>. QED BY <2>1 DEF CourseInv
<1>. QED BY <1>1, <1>2, <1>3 DEF Next

\* As long as users choose names that do not come to the same, and the index may
\* follow what they do, no rename the watcher makes itself (the hd_ functions of
\* manager/utils/mod.rs: an allowed name for one that is not, and the old name given
\* back when there would be none) replaces a file or a directory of theirs.
THEOREM ServiceReplacesNothing == Spec => NothingReplaced
<1>. DEFINE Inv == IndInv /\ CourseInv
            Step == course # "lost" /\ UNCHANGED users =>
                       /\ Cardinality(dirs') = Cardinality(dirs)
                       /\ Cardinality(files') = Cardinality(files)
<1>1. Init => Inv
  BY InitInv, InitCourse
<1>2. Inv /\ [Next]_vars => Inv'
  BY NextTyped, NextCourse
<1>3. Inv /\ [Next]_vars => [Step]_vars
  BY NextCourse
<1>4. Spec => [][Step]_vars
  <2>. HIDE DEF Inv, Step
  <2>. QED BY <1>1, <1>2, <1>3, PTL DEF Spec
<1>. QED BY <1>4 DEF NothingReplaced

=============================================================================
