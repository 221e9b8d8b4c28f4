--------------------------- MODULE ManagerProofs ---------------------------
(***************************************************************************)
(* Proofs about Manager: the tree stays a tree and the records unique      *)
(* under every change, no change reaches another bucket, and a renamed key *)
(* keeps its objects.  And the two writes keep the tree and the records in *)
(* step: SetsApart of Manager lists all changes whose filters in the       *)
(* database and whose walk of the tree select different objects.           *)
(***************************************************************************)
EXTENDS Manager, SequenceTheorems, WellFoundedInduction, TLAPS

-----------------------------------------------------------------------------
(***************************************************************************)
(* Paths.                                                                  *)
(***************************************************************************)
LEMMA PathIsSeq ==
    ASSUME NEW x
    PROVE  x \in Paths <=> x \in Seq(Names) /\ Len(x) \in 1 .. MaxDepth
<1>1. ASSUME x \in Paths
      PROVE  x \in Seq(Names) /\ Len(x) \in 1 .. MaxDepth
  <2>1. PICK n \in 1 .. MaxDepth : x \in [1 .. n -> Names]
    BY <1>1 DEF Paths
  <2>. QED BY <2>1, DepthAssumption
<1>2. ASSUME x \in Seq(Names), Len(x) \in 1 .. MaxDepth
      PROVE  x \in Paths
  <2>1. x \in [1 .. Len(x) -> Names]
    BY <1>2
  <2>. QED BY <1>2, <2>1 DEF Paths
<1>. QED BY <1>1, <1>2

\* What a path looks like to the arithmetic below.
LEMMA PathFacts ==
    ASSUME NEW x \in Paths
    PROVE  /\ x \in Seq(Names)
           /\ Len(x) \in Nat /\ Len(x) >= 1 /\ Len(x) <= MaxDepth
           /\ DOMAIN x = 1 .. Len(x)
           /\ \A i \in 1 .. Len(x) : x[i] \in Names
BY PathIsSeq, DepthAssumption

\* Paths with the same segments are the same.
LEMMA SamePath ==
    ASSUME NEW x \in Seq(Names), NEW y \in Seq(Names), Len(x) = Len(y),
           \A i \in 1 .. Len(x) : x[i] = y[i]
    PROVE  x = y
BY SeqEqual

\* The path of the first n segments.
LEMMA PrefixFacts ==
    ASSUME NEW x \in Paths, NEW n \in 1 .. Len(x)
    PROVE  /\ SubSeq(x, 1, n) \in Paths
           /\ Len(SubSeq(x, 1, n)) = n
           /\ \A i \in 1 .. n : SubSeq(x, 1, n)[i] = x[i]
<1>1. n \in Nat /\ n >= 1 /\ n <= MaxDepth /\ \A i \in 1 .. n : x[i] \in Names
  BY PathFacts, DepthAssumption
<1>2. /\ SubSeq(x, 1, n) \in Seq(Names)
      /\ Len(SubSeq(x, 1, n)) = n
      /\ \A i \in 1 .. n : SubSeq(x, 1, n)[i] = x[1 + i - 1]
  BY <1>1, SubSeqProperties
<1>3. n \in 1 .. MaxDepth
  BY <1>1
<1>4. SubSeq(x, 1, n) \in Paths
  BY <1>2, <1>3, PathIsSeq
<1>5. \A i \in 1 .. n : SubSeq(x, 1, n)[i] = x[i]
  BY <1>1, <1>2
<1>. QED BY <1>2, <1>4, <1>5

\* The entry above an entry that is not a bucket.
LEMMA ParentFacts ==
    ASSUME NEW x \in Paths, Len(x) > 1
    PROVE  /\ Parent(x) \in Paths
           /\ Len(Parent(x)) = Len(x) - 1
           /\ \A i \in 1 .. Len(x) - 1 : Parent(x)[i] = x[i]
<1>. DEFINE k == Len(x) - 1
<1>1. k \in 1 .. Len(x)
  BY PathFacts
<1>2. Parent(x) = SubSeq(x, 1, k)
  BY DEF Parent
<1>. HIDE DEF k
<1>3. /\ Parent(x) \in Paths /\ Len(Parent(x)) = k
      /\ \A i \in 1 .. k : Parent(x)[i] = x[i]
  BY <1>1, <1>2, PrefixFacts
<1>. QED BY <1>3 DEF k

\* A bucket, and a path with another last name.
LEMMA BucketFacts ==
    ASSUME NEW b \in Names
    PROVE  /\ <<b>> \in Paths /\ Len(<<b>>) = 1 /\ <<b>>[1] = b
<1>1. <<b>> \in [1 .. 1 -> Names] /\ 1 \in 1 .. MaxDepth
  BY DepthAssumption
<1>. QED BY <1>1 DEF Paths

LEMMA RenamedFacts ==
    ASSUME NEW x \in Paths, Len(x) > 1, NEW b \in Names
    PROVE  /\ Append(Parent(x), b) \in Paths
           /\ Len(Append(Parent(x), b)) = Len(x)
           /\ \A i \in 1 .. Len(x) - 1 : Append(Parent(x), b)[i] = x[i]
           /\ Append(Parent(x), b)[Len(x)] = b
<1>1. /\ Parent(x) \in Seq(Names) /\ Len(Parent(x)) = Len(x) - 1
      /\ \A i \in 1 .. Len(x) - 1 : Parent(x)[i] = x[i]
      /\ Len(x) \in 1 .. MaxDepth /\ Len(x) \in Nat
  BY ParentFacts, PathFacts, DepthAssumption
<1>2. /\ Append(Parent(x), b) \in Seq(Names)
      /\ Len(Append(Parent(x), b)) = Len(Parent(x)) + 1
      /\ \A i \in 1 .. Len(Parent(x)) : Append(Parent(x), b)[i] = Parent(x)[i]
      /\ Append(Parent(x), b)[Len(Parent(x)) + 1] = b
  BY <1>1, AppendProperties
<1>3. Len(Append(Parent(x), b)) = Len(x)
  BY <1>1, <1>2
<1>4. Append(Parent(x), b) \in Paths
  BY <1>1, <1>2, <1>3, PathIsSeq
<1>5. Append(Parent(x), b)[Len(x)] = b
  BY <1>1, <1>2
<1>. QED BY <1>1, <1>2, <1>3, <1>4, <1>5

\* Under, segment by segment.
LEMMA UnderFacts ==
    ASSUME NEW p \in Paths, NEW q \in Paths
    PROVE  Under(p, q) <=> Len(p) <= Len(q) /\ \A i \in 1 .. Len(p) : q[i] = p[i]
<1>1. CASE Len(p) <= Len(q)
  <2>1. Len(p) \in 1 .. Len(q)
    BY <1>1, PathFacts
  <2>2. /\ SubSeq(q, 1, Len(p)) \in Paths /\ Len(SubSeq(q, 1, Len(p))) = Len(p)
        /\ \A i \in 1 .. Len(p) : SubSeq(q, 1, Len(p))[i] = q[i]
    BY <2>1, PrefixFacts
  <2>3. ASSUME \A i \in 1 .. Len(p) : q[i] = p[i] PROVE SubSeq(q, 1, Len(p)) = p
    BY <2>2, <2>3, PathFacts, SamePath
  <2>. QED BY <1>1, <2>2, <2>3 DEF Under
<1>2. CASE ~(Len(p) <= Len(q))
  BY <1>2 DEF Under
<1>. QED BY <1>1, <1>2

LEMMA UnderSelf == \A p \in Paths : Under(p, p)
BY UnderFacts, PathFacts

LEMMA UnderTransitive ==
    ASSUME NEW p \in Paths, NEW q \in Paths, NEW r \in Paths, Under(p, q), Under(q, r)
    PROVE  Under(p, r)
<1>1. /\ Len(p) <= Len(q) /\ \A i \in 1 .. Len(p) : q[i] = p[i]
      /\ Len(q) <= Len(r) /\ \A i \in 1 .. Len(q) : r[i] = q[i]
  BY UnderFacts
<1>2. Len(p) <= Len(r) /\ \A i \in 1 .. Len(p) : r[i] = p[i]
  BY <1>1, PathFacts
<1>. QED BY <1>2, UnderFacts

\* A prefix of a path has the path below it.
LEMMA PrefixAbove ==
    ASSUME NEW q \in Paths, NEW n \in 1 .. Len(q)
    PROVE  Under(SubSeq(q, 1, n), q)
<1>1. Len(SubSeq(q, 1, n)) = n
  BY PrefixFacts
<1>. QED BY <1>1, PathFacts DEF Under

\* What Rebase makes of a path when both places are equally deep.
LEMMA RebaseFacts ==
    ASSUME NEW q \in Paths, NEW from \in Paths, NEW to \in Paths,
           Len(from) = Len(to), Under(from, q)
    PROVE  /\ Rebase(q, from, to) \in Paths
           /\ Len(Rebase(q, from, to)) = Len(q)
           /\ \A i \in 1 .. Len(to) : Rebase(q, from, to)[i] = to[i]
           /\ \A i \in Len(to) + 1 .. Len(q) : Rebase(q, from, to)[i] = q[i]
           /\ Under(to, Rebase(q, from, to))
<1>. DEFINE k == Len(from)
            s == SubSeq(q, k + 1, Len(q))
<1>1. /\ k \in Nat /\ Len(q) \in Nat /\ Len(q) <= MaxDepth /\ Len(q) >= 1
      /\ k <= Len(q) /\ Len(to) = k
      /\ \A i \in 1 .. Len(q) : q[i] \in Names
  BY UnderFacts, PathFacts
<1>2. to \in Seq(Names)
  BY PathFacts
<1>3. Rebase(q, from, to) = to \o s
  BY DEF Rebase
<1>. HIDE DEF k
<1>4. \A i \in k + 1 .. Len(q) : q[i] \in Names
  BY <1>1
<1>5. /\ s \in Seq(Names)
      /\ Len(s) = Len(q) - k
      /\ \A i \in 1 .. Len(q) - k : s[i] = q[k + i]
  <2>1. /\ SubSeq(q, k + 1, Len(q)) \in Seq(Names)
        /\ Len(SubSeq(q, k + 1, Len(q)))
             = IF k + 1 <= Len(q) THEN Len(q) - (k + 1) + 1 ELSE 0
        /\ \A i \in 1 .. Len(q) - (k + 1) + 1 :
              SubSeq(q, k + 1, Len(q))[i] = q[k + 1 + i - 1]
    <3>1. k + 1 \in Int /\ Len(q) \in Int
      BY <1>1
    <3>. QED BY <1>4, <3>1, SubSeqProperties
  <2>2. Len(s) = Len(q) - k
    BY <1>1, <2>1
  <2>3. Len(q) - (k + 1) + 1 = Len(q) - k /\ \A i \in Nat : k + 1 + i - 1 = k + i
    BY <1>1
  <2>4. \A i \in 1 .. Len(q) - k : s[i] = q[k + i]
    BY <1>1, <2>1, <2>3
  <2>. QED BY <2>1, <2>2, <2>4
<1>. HIDE DEF s
<1>6. /\ to \o s \in Seq(Names)
      /\ Len(to \o s) = Len(q)
      /\ \A i \in 1 .. Len(to \o s) :
            (to \o s)[i] = IF i <= Len(to) THEN to[i] ELSE s[i - Len(to)]
  <2>1. /\ to \o s \in Seq(Names)
        /\ Len(to \o s) = Len(to) + Len(s)
        /\ \A i \in 1 .. Len(to) + Len(s) :
              (to \o s)[i] = IF i <= Len(to) THEN to[i] ELSE s[i - Len(to)]
    BY <1>2, <1>5, ConcatProperties
  <2>2. Len(to) + Len(s) = Len(q)
    BY <1>1, <1>5
  <2>. QED BY <2>1, <2>2
<1>7. to \o s \in Paths
  BY <1>1, <1>6, PathIsSeq
<1>8. \A i \in 1 .. k : (to \o s)[i] = to[i]
  BY <1>1, <1>6
<1>9. \A i \in k + 1 .. Len(q) : (to \o s)[i] = q[i]
  <2>. SUFFICES ASSUME NEW i \in k + 1 .. Len(q) PROVE (to \o s)[i] = q[i]
    OBVIOUS
  <2>1. i \in 1 .. Len(q) /\ ~(i <= k) /\ i - k \in 1 .. Len(q) - k /\ k + (i - k) = i
    BY <1>1
  <2>2. (to \o s)[i] = s[i - k]
    BY <1>1, <1>6, <2>1
  <2>. QED BY <1>5, <2>1, <2>2
<1>10. Under(to, to \o s)
  BY <1>1, <1>6, <1>7, <1>8, UnderFacts
<1>. QED BY <1>1, <1>3, <1>6, <1>7, <1>8, <1>9, <1>10

\* Moving there and back.
LEMMA RebaseBack ==
    ASSUME NEW q \in Paths, NEW from \in Paths, NEW to \in Paths,
           Len(from) = Len(to), Under(from, q)
    PROVE  Rebase(Rebase(q, from, to), to, from) = q
<1>. DEFINE r == Rebase(q, from, to)
<1>1. /\ r \in Paths /\ Len(r) = Len(q) /\ Under(to, r)
      /\ \A i \in Len(to) + 1 .. Len(q) : r[i] = q[i]
  BY RebaseFacts
<1>2. Len(from) <= Len(q) /\ \A i \in 1 .. Len(from) : q[i] = from[i]
  BY UnderFacts
<1>. HIDE DEF r
<1>3. /\ Rebase(r, to, from) \in Paths /\ Len(Rebase(r, to, from)) = Len(r)
      /\ \A i \in 1 .. Len(from) : Rebase(r, to, from)[i] = from[i]
      /\ \A i \in Len(from) + 1 .. Len(r) : Rebase(r, to, from)[i] = r[i]
  BY <1>1, RebaseFacts
<1>4. \A i \in 1 .. Len(q) : Rebase(r, to, from)[i] = q[i]
  <2>. SUFFICES ASSUME NEW i \in 1 .. Len(q) PROVE Rebase(r, to, from)[i] = q[i]
    OBVIOUS
  <2>1. CASE i <= Len(from)
    BY <1>2, <1>3, <2>1, PathFacts
  <2>2. CASE i > Len(from)
    <3>1. i \in Len(from) + 1 .. Len(q)
      BY <2>2, PathFacts
    <3>. QED BY <1>1, <1>3, <3>1
  <2>. QED BY <2>1, <2>2, PathFacts
<1>. QED BY <1>1, <1>3, <1>4, PathFacts, SamePath DEF r

\* The prefix of a moved path that reaches below the place it was moved to.
LEMMA RebasePrefix ==
    ASSUME NEW q \in Paths, NEW from \in Paths, NEW to \in Paths,
           Len(from) = Len(to), Under(from, q), NEW n \in Len(to) .. Len(q)
    PROVE  /\ Under(from, SubSeq(q, 1, n))
           /\ SubSeq(Rebase(q, from, to), 1, n) = Rebase(SubSeq(q, 1, n), from, to)
<1>. DEFINE s == SubSeq(q, 1, n)
            r == Rebase(q, from, to)
<1>0. n \in 1 .. Len(q) /\ n \in Nat /\ Len(to) <= n
  BY PathFacts
<1>1. /\ s \in Paths /\ Len(s) = n /\ \A i \in 1 .. n : s[i] = q[i]
  BY <1>0, PrefixFacts
<1>2. Len(from) <= Len(q) /\ \A i \in 1 .. Len(from) : q[i] = from[i]
  BY UnderFacts
<1>3. Under(from, s)
  <2>1. Len(from) <= Len(s) /\ \A i \in 1 .. Len(from) : s[i] = from[i]
    BY <1>0, <1>1, <1>2, PathFacts
  <2>. QED BY <1>1, <2>1, UnderFacts
<1>4. /\ r \in Paths /\ Len(r) = Len(q)
      /\ \A i \in 1 .. Len(to) : r[i] = to[i]
      /\ \A i \in Len(to) + 1 .. Len(q) : r[i] = q[i]
  BY RebaseFacts
<1>. HIDE DEF r, s
<1>5. /\ Rebase(s, from, to) \in Paths /\ Len(Rebase(s, from, to)) = n
      /\ \A i \in 1 .. Len(to) : Rebase(s, from, to)[i] = to[i]
      /\ \A i \in Len(to) + 1 .. n : Rebase(s, from, to)[i] = s[i]
  BY <1>1, <1>3, RebaseFacts
<1>6. /\ SubSeq(r, 1, n) \in Paths /\ Len(SubSeq(r, 1, n)) = n
      /\ \A i \in 1 .. n : SubSeq(r, 1, n)[i] = r[i]
  BY <1>0, <1>4, PrefixFacts
<1>7. \A i \in 1 .. n : SubSeq(r, 1, n)[i] = Rebase(s, from, to)[i]
  <2>. SUFFICES ASSUME NEW i \in 1 .. n PROVE r[i] = Rebase(s, from, to)[i]
    BY <1>6
  <2>1. CASE i <= Len(to)
    BY <1>4, <1>5, <2>1, PathFacts
  <2>2. CASE i > Len(to)
    <3>1. i \in Len(to) + 1 .. n /\ i \in Len(to) + 1 .. Len(q)
      BY <1>0, <2>2, PathFacts
    <3>. QED BY <1>1, <1>4, <1>5, <3>1
  <2>. QED BY <2>1, <2>2, PathFacts
<1>8. SubSeq(r, 1, n) = Rebase(s, from, to)
  BY <1>5, <1>6, <1>7, PathFacts, SamePath
<1>. QED BY <1>3, <1>8 DEF r, s

-----------------------------------------------------------------------------
(***************************************************************************)
(* Trees.                                                                  *)
(***************************************************************************)
LEMMA TreeFacts ==
    ASSUME NEW t, IsTree(t)
    PROVE  /\ DOMAIN t \subseteq Paths
           /\ \A p \in DOMAIN t :
                 /\ p \in Paths /\ t[p] \in KeyEntry
                 /\ t[p].objects \in Seq(FileNames) /\ t[p].keys \in BOOLEAN
           /\ \A p \in DOMAIN t : \A n \in 1 .. Len(p) - 1 :
                 SubSeq(p, 1, n) \in DOMAIN t /\ t[SubSeq(p, 1, n)].keys
BY DEF IsTree, Nested, KeyEntry

\* The map of a bucket's or a key's entry is Some whenever something is below it.
LEMMA AboveParent ==
    ASSUME NEW t, IsTree(t), NEW p \in Paths, Len(p) > 1,
           Parent(p) \in DOMAIN t, t[Parent(p)].keys
    PROVE  \A n \in 1 .. Len(p) - 1 : SubSeq(p, 1, n) \in DOMAIN t /\ t[SubSeq(p, 1, n)].keys
<1>. SUFFICES ASSUME NEW n \in 1 .. Len(p) - 1
              PROVE  SubSeq(p, 1, n) \in DOMAIN t /\ t[SubSeq(p, 1, n)].keys
  OBVIOUS
<1>1. CASE n = Len(p) - 1
  BY <1>1 DEF Parent
<1>2. CASE n # Len(p) - 1
  <2>1. /\ Parent(p) \in Paths /\ Len(Parent(p)) = Len(p) - 1
        /\ \A i \in 1 .. Len(p) - 1 : Parent(p)[i] = p[i]
    BY ParentFacts
  <2>2. n \in 1 .. Len(p) /\ n \in 1 .. Len(Parent(p)) /\ n \in 1 .. Len(Parent(p)) - 1
    BY <1>2, <2>1, PathFacts
  <2>3. /\ SubSeq(p, 1, n) \in Paths /\ Len(SubSeq(p, 1, n)) = n
        /\ \A i \in 1 .. n : SubSeq(p, 1, n)[i] = p[i]
    BY <2>2, PrefixFacts
  <2>4. /\ SubSeq(Parent(p), 1, n) \in Paths /\ Len(SubSeq(Parent(p), 1, n)) = n
        /\ \A i \in 1 .. n : SubSeq(Parent(p), 1, n)[i] = Parent(p)[i]
    BY <2>1, <2>2, PrefixFacts
  <2>5. SubSeq(Parent(p), 1, n) = SubSeq(p, 1, n)
    <3>1. \A i \in 1 .. n : SubSeq(Parent(p), 1, n)[i] = SubSeq(p, 1, n)[i]
      BY <2>1, <2>2, <2>3, <2>4
    <3>. QED BY <2>3, <2>4, <3>1, PathFacts, SamePath
  <2>. QED BY <2>2, <2>5, TreeFacts
<1>. QED BY <1>1, <1>2

\* Whoever is in the tree has its bucket and its parent in the tree.
LEMMA AncestorsThere ==
    ASSUME NEW t, IsTree(t), NEW p \in Paths, NEW q \in DOMAIN t, Under(p, q)
    PROVE  p \in DOMAIN t /\ (p # q => t[p].keys)
<1>1. q \in Paths /\ Len(p) \in 1 .. Len(q) /\ SubSeq(q, 1, Len(p)) = p
  BY TreeFacts, PathFacts DEF Under
<1>2. CASE Len(p) = Len(q)
  <2>1. p = q
    BY <1>1, <1>2, UnderFacts, PathFacts, SamePath
  <2>. QED BY <2>1
<1>3. CASE Len(p) # Len(q)
  <2>1. Len(p) \in 1 .. Len(q) - 1
    BY <1>1, <1>3, PathFacts
  <2>2. SubSeq(q, 1, Len(p)) \in DOMAIN t /\ t[SubSeq(q, 1, Len(p))].keys
    BY <2>1, TreeFacts
  <2>. QED BY <1>1, <2>2
<1>. QED BY <1>2, <1>3

LEMMA ParentThere ==
    ASSUME NEW t, IsTree(t), NEW p \in DOMAIN t, Len(p) > 1
    PROVE  Parent(p) \in DOMAIN t /\ t[Parent(p)].keys
<1>1. p \in Paths /\ Len(p) - 1 \in 1 .. Len(p) - 1
  BY TreeFacts, PathFacts
<1>. QED BY <1>1, TreeFacts DEF Parent

LEMMA EmptyEntryType == EmptyEntry \in KeyEntry /\ EmptyEntry.objects = <<>>
BY DEF EmptyEntry, KeyEntry

\* An entry that is added hangs in the maps above it.
LEMMA OrDefaultFacts ==
    ASSUME NEW t, NEW p
    PROVE  /\ DOMAIN OrDefault(t, p) = DOMAIN t \cup {p}
           /\ \A q \in DOMAIN t : OrDefault(t, p)[q] = t[q]
           /\ p \notin DOMAIN t => OrDefault(t, p)[p] = EmptyEntry
           /\ OrDefault(t, p) = [q \in DOMAIN OrDefault(t, p) |-> OrDefault(t, p)[q]]
BY DEF OrDefault

LEMMA OrDefaultIsTree ==
    ASSUME NEW t, IsTree(t), NEW p \in Paths,
           \A n \in 1 .. Len(p) - 1 : SubSeq(p, 1, n) \in DOMAIN t /\ t[SubSeq(p, 1, n)].keys
    PROVE  IsTree(OrDefault(t, p))
<1>. DEFINE u == OrDefault(t, p)
<1>1. /\ DOMAIN u = DOMAIN t \cup {p}
      /\ \A q \in DOMAIN t : u[q] = t[q]
      /\ p \notin DOMAIN t => u[p] = EmptyEntry
      /\ u = [q \in DOMAIN u |-> u[q]]
  BY OrDefaultFacts
<1>. HIDE DEF u
<1>2. DOMAIN u \subseteq Paths
  BY <1>1, TreeFacts
<1>3. \A q \in DOMAIN u : u[q] \in KeyEntry
  BY <1>1, TreeFacts, EmptyEntryType
<1>4. \A q \in DOMAIN u : \A n \in 1 .. Len(q) - 1 :
         SubSeq(q, 1, n) \in DOMAIN u /\ u[SubSeq(q, 1, n)].keys
  BY <1>1, TreeFacts
<1>5. u \in [DOMAIN u -> KeyEntry]
  BY <1>1, <1>3
<1>6. IsTree(u)
  BY <1>2, <1>4, <1>5 DEF IsTree, Nested
<1>. QED BY <1>6 DEF u

\* What is left when an entry goes with everything below it.
LEMMA RemoveFacts ==
    ASSUME NEW t, NEW p
    PROVE  /\ DOMAIN RemoveEntry(t, p) = {q \in DOMAIN t : ~Under(p, q)}
           /\ \A q \in DOMAIN RemoveEntry(t, p) : RemoveEntry(t, p)[q] = t[q]
           /\ RemoveEntry(t, p)
                = [q \in DOMAIN RemoveEntry(t, p) |-> RemoveEntry(t, p)[q]]
BY DEF RemoveEntry

LEMMA RemoveIsTree ==
    ASSUME NEW t, IsTree(t), NEW p \in Paths
    PROVE  IsTree(RemoveEntry(t, p))
<1>. DEFINE u == RemoveEntry(t, p)
<1>1. /\ DOMAIN u = {q \in DOMAIN t : ~Under(p, q)}
      /\ \A q \in DOMAIN u : u[q] = t[q]
      /\ u = [q \in DOMAIN u |-> u[q]]
  BY RemoveFacts
<1>. HIDE DEF u
<1>2. DOMAIN u \subseteq Paths /\ \A q \in DOMAIN u : u[q] \in KeyEntry
  BY <1>1, TreeFacts
<1>3. ASSUME NEW q \in DOMAIN u, NEW n \in 1 .. Len(q) - 1
      PROVE  SubSeq(q, 1, n) \in DOMAIN u /\ u[SubSeq(q, 1, n)].keys
  <2>1. q \in Paths /\ q \in DOMAIN t /\ ~Under(p, q)
    BY <1>1, <1>2
  <2>2. SubSeq(q, 1, n) \in DOMAIN t /\ t[SubSeq(q, 1, n)].keys
    BY <2>1, TreeFacts
  <2>3. n \in 1 .. Len(q)
    BY <2>1, PathFacts
  <2>4. SubSeq(q, 1, n) \in Paths /\ Under(SubSeq(q, 1, n), q)
    BY <2>1, <2>3, PrefixAbove, PrefixFacts
  <2>5. ~Under(p, SubSeq(q, 1, n))
    BY <2>1, <2>4, UnderTransitive
  <2>. QED BY <1>1, <2>2, <2>5
<1>4. u \in [DOMAIN u -> KeyEntry]
  BY <1>1, <1>2
<1>5. IsTree(u)
  BY <1>2, <1>3, <1>4 DEF IsTree, Nested
<1>. QED BY <1>5 DEF u

\* An entry that is moved takes what is below it along and replaces what was there.
LEMMA MoveFacts ==
    ASSUME NEW t, IsTree(t), NEW from \in Paths, NEW to \in Paths, Len(from) = Len(to)
    PROVE  /\ \A q \in DOMAIN t :
                 ~Under(from, q) /\ ~Under(to, q) =>
                    q \in DOMAIN MoveEntry(t, from, to) /\ MoveEntry(t, from, to)[q] = t[q]
           /\ \A q \in DOMAIN t :
                 Under(from, q) =>
                    /\ Rebase(q, from, to) \in DOMAIN MoveEntry(t, from, to)
                    /\ MoveEntry(t, from, to)[Rebase(q, from, to)] = t[q]
           /\ \A r \in DOMAIN MoveEntry(t, from, to) :
                 \/ r \in DOMAIN t /\ ~Under(from, r) /\ ~Under(to, r)
                 \/ \E q \in DOMAIN t : Under(from, q) /\ r = Rebase(q, from, to)
           /\ MoveEntry(t, from, to)
                = [q \in DOMAIN MoveEntry(t, from, to) |-> MoveEntry(t, from, to)[q]]
<1>. DEFINE kept  == {q \in DOMAIN t : ~Under(from, q) /\ ~Under(to, q)}
            moved == {Rebase(q, from, to) : q \in {r \in DOMAIN t : Under(from, r)}}
            u     == MoveEntry(t, from, to)
<1>1. u = [q \in kept \cup moved |-> IF q \in moved THEN t[Rebase(q, to, from)] ELSE t[q]]
  BY DEF MoveEntry
<1>2. \A q \in DOMAIN t : Under(from, q) =>
         Under(to, Rebase(q, from, to)) /\ Rebase(Rebase(q, from, to), to, from) = q
  BY TreeFacts, RebaseFacts, RebaseBack
<1>. HIDE DEF u
<1>3. \A q \in kept : q \notin moved
  BY <1>2
<1>4. DOMAIN u = kept \cup moved
  BY <1>1
<1>5. \A q \in kept : u[q] = t[q]
  BY <1>1, <1>3
<1>6. \A q \in DOMAIN t : Under(from, q) =>
         Rebase(q, from, to) \in moved /\ u[Rebase(q, from, to)] = t[q]
  BY <1>1, <1>2
<1>7. u = [q \in DOMAIN u |-> u[q]]
  BY <1>1
<1>. QED BY <1>4, <1>5, <1>6, <1>7 DEF u

\* The move keeps the tree when both places have the same entry above them.
LEMMA MoveIsTree ==
    ASSUME NEW t, IsTree(t), NEW from \in DOMAIN t, NEW to \in Paths, Len(from) = Len(to),
           \A i \in 1 .. Len(from) - 1 : from[i] = to[i]
    PROVE  IsTree(MoveEntry(t, from, to))
<1>. DEFINE u == MoveEntry(t, from, to)
<1>0. from \in Paths
  BY TreeFacts
<1>1. /\ \A q \in DOMAIN t :
            ~Under(from, q) /\ ~Under(to, q) => q \in DOMAIN u /\ u[q] = t[q]
      /\ \A q \in DOMAIN t :
            Under(from, q) =>
               Rebase(q, from, to) \in DOMAIN u /\ u[Rebase(q, from, to)] = t[q]
      /\ \A r \in DOMAIN u :
            \/ r \in DOMAIN t /\ ~Under(from, r) /\ ~Under(to, r)
            \/ \E q \in DOMAIN t : Under(from, q) /\ r = Rebase(q, from, to)
      /\ u = [q \in DOMAIN u |-> u[q]]
  BY <1>0, MoveFacts
<1>. HIDE DEF u
<1>2. \A r \in DOMAIN u : r \in Paths /\ u[r] \in KeyEntry
  <2>1. \A q \in DOMAIN t : Under(from, q) => Rebase(q, from, to) \in Paths
    BY <1>0, TreeFacts, RebaseFacts
  <2>. QED BY <1>1, <2>1, TreeFacts
<1>3. ASSUME NEW r \in DOMAIN u, NEW n \in 1 .. Len(r) - 1
      PROVE  SubSeq(r, 1, n) \in DOMAIN u /\ u[SubSeq(r, 1, n)].keys
  <2>1. CASE r \in DOMAIN t /\ ~Under(from, r) /\ ~Under(to, r)
    <3>1. SubSeq(r, 1, n) \in DOMAIN t /\ t[SubSeq(r, 1, n)].keys
      BY <2>1, TreeFacts
    <3>2. r \in Paths /\ n \in 1 .. Len(r)
      BY <2>1, TreeFacts, PathFacts
    <3>3. SubSeq(r, 1, n) \in Paths /\ Under(SubSeq(r, 1, n), r)
      BY <3>2, PrefixAbove, PrefixFacts
    <3>4. ~Under(from, SubSeq(r, 1, n)) /\ ~Under(to, SubSeq(r, 1, n))
      BY <1>0, <2>1, <3>2, <3>3, UnderTransitive
    <3>. QED BY <1>1, <3>1, <3>4
  <2>2. CASE \E q \in DOMAIN t : Under(from, q) /\ r = Rebase(q, from, to)
    <3>1. PICK q \in DOMAIN t : Under(from, q) /\ r = Rebase(q, from, to)
      BY <2>2
    <3>2. /\ q \in Paths /\ Len(r) = Len(q) /\ r \in Paths
          /\ \A i \in 1 .. Len(to) : r[i] = to[i]
          /\ Len(from) <= Len(q) /\ \A i \in 1 .. Len(from) : q[i] = from[i]
      BY <1>0, <3>1, TreeFacts, RebaseFacts, UnderFacts
    <3>3. n \in 1 .. Len(q) /\ n \in 1 .. Len(q) - 1 /\ n \in 1 .. Len(r)
      BY <3>2, PathFacts
    <3>4. SubSeq(q, 1, n) \in DOMAIN t /\ t[SubSeq(q, 1, n)].keys
      BY <3>3, TreeFacts
    <3>5. CASE n >= Len(to)
      <4>1. n \in Len(to) .. Len(q)
        BY <3>3, <3>5, PathFacts
      <4>2. Under(from, SubSeq(q, 1, n)) /\ SubSeq(r, 1, n) = Rebase(SubSeq(q, 1, n), from, to)
        BY <1>0, <3>1, <3>2, <4>1, RebasePrefix
      <4>3. /\ Rebase(SubSeq(q, 1, n), from, to) \in DOMAIN u
            /\ u[Rebase(SubSeq(q, 1, n), from, to)] = t[SubSeq(q, 1, n)]
        BY <1>1, <3>4, <4>2
      <4>. QED BY <3>4, <4>2, <4>3
    <3>6. CASE n < Len(to)
      <4>1. /\ SubSeq(r, 1, n) \in Paths /\ Len(SubSeq(r, 1, n)) = n
            /\ \A i \in 1 .. n : SubSeq(r, 1, n)[i] = r[i]
            /\ SubSeq(q, 1, n) \in Paths /\ Len(SubSeq(q, 1, n)) = n
            /\ \A i \in 1 .. n : SubSeq(q, 1, n)[i] = q[i]
        BY <3>2, <3>3, PrefixFacts
      <4>2. \A i \in 1 .. n : r[i] = q[i]
        BY <1>0, <3>2, <3>3, <3>6, PathFacts
      <4>3. \A i \in 1 .. n : SubSeq(r, 1, n)[i] = SubSeq(q, 1, n)[i]
        BY <4>1, <4>2
      <4>4. SubSeq(r, 1, n) = SubSeq(q, 1, n)
        BY <4>1, <4>3, PathFacts, SamePath
      <4>5. ~Under(from, SubSeq(r, 1, n)) /\ ~Under(to, SubSeq(r, 1, n))
        <5>1. ~(Len(from) <= Len(SubSeq(r, 1, n))) /\ ~(Len(to) <= Len(SubSeq(r, 1, n)))
          BY <1>0, <3>3, <3>6, <4>1, PathFacts
        <5>. QED BY <5>1 DEF Under
      <4>. QED BY <1>1, <3>4, <4>4, <4>5
    <3>. QED BY <3>2, <3>3, <3>5, <3>6, PathFacts
  <2>. QED BY <1>1, <2>1, <2>2
<1>4. u \in [DOMAIN u -> KeyEntry]
  BY <1>1, <1>2
<1>5. IsTree(u)
  BY <1>2, <1>3, <1>4 DEF IsTree, Nested
<1>. QED BY <1>5 DEF u

\* The tree with another list of objects in one entry.
WithObjects(t, p, s) == [t EXCEPT ![p].objects = s]

LEMMA SetObjectsFacts ==
    ASSUME NEW t, IsTree(t), NEW p \in DOMAIN t, NEW s \in Seq(FileNames)
    PROVE  /\ IsTree(WithObjects(t, p, s))
           /\ DOMAIN WithObjects(t, p, s) = DOMAIN t
           /\ WithObjects(t, p, s)[p].objects = s
           /\ \A q \in DOMAIN t : q # p => WithObjects(t, p, s)[q] = t[q]
<1>. DEFINE u == WithObjects(t, p, s)
<1>1. /\ DOMAIN u = DOMAIN t
      /\ u[p] = [t[p] EXCEPT !.objects = s]
      /\ \A q \in DOMAIN t : q # p => u[q] = t[q]
      /\ u = [q \in DOMAIN u |-> u[q]]
  BY TreeFacts DEF IsTree, WithObjects
<1>. HIDE DEF u
<1>2. u[p] \in KeyEntry /\ u[p].objects = s /\ u[p].keys = t[p].keys
  <2>1. t[p] \in KeyEntry
    BY TreeFacts
  <2>. QED BY <1>1, <2>1 DEF KeyEntry
<1>3. \A q \in DOMAIN u : u[q] \in KeyEntry /\ u[q].keys = t[q].keys
  BY <1>1, <1>2, TreeFacts
<1>4. u \in [DOMAIN u -> KeyEntry]
  BY <1>1, <1>3
<1>5. \A q \in DOMAIN u : \A n \in 1 .. Len(q) - 1 :
         SubSeq(q, 1, n) \in DOMAIN u /\ u[SubSeq(q, 1, n)].keys
  <2>. SUFFICES ASSUME NEW q \in DOMAIN t, NEW n \in 1 .. Len(q) - 1
                PROVE  SubSeq(q, 1, n) \in DOMAIN u /\ u[SubSeq(q, 1, n)].keys
    BY <1>1
  <2>1. SubSeq(q, 1, n) \in DOMAIN t /\ t[SubSeq(q, 1, n)].keys
    BY TreeFacts
  <2>. QED BY <1>1, <1>3, <2>1
<1>6. IsTree(u)
  BY <1>1, <1>4, <1>5, TreeFacts DEF IsTree, Nested
<1>. QED BY <1>1, <1>2, <1>6 DEF u

-----------------------------------------------------------------------------
(***************************************************************************)
(* Changes of the tree.                                                    *)
(***************************************************************************)
\* What a change of each kind carries.
LEMMA ChangeFacts ==
    ASSUME NEW c \in Change
    PROVE  /\ c.type \in {"new_object", "delete_object", "name_object", "new_bucket",
                          "delete_bucket", "name_bucket", "new_key", "delete_key", "name_key"}
           /\ c.type \in {"new_object", "delete_object"} => c.at \in Paths /\ c.name \in FileNames
           /\ c.type = "name_object" =>
                 c.at \in Paths /\ c.from \in FileNames /\ c.to \in FileNames
           /\ c.type \in {"new_bucket", "delete_bucket"} => c.bucket \in Names
           /\ c.type = "name_bucket" => c.from \in Names /\ c.to \in Names
           /\ c.type \in {"new_key", "delete_key", "name_key"} =>
                 c.at \in Paths /\ Len(c.at) > 1
           /\ c.type = "name_key" => c.to \in Names
BY DEF Change

\* A set of numbers has a least one.
LEMMA LeastOne ==
    ASSUME NEW T \in SUBSET Nat, T # {}
    PROVE  \E m \in T : \A k \in T : m <= k
<1>. DEFINE R == {ss \in Nat \X Nat : ss[1] < ss[2]}
<1>1. IsWellFoundedOn(R, Nat)
  BY NatLessThanWellFounded DEF OpToRel
<1>2. \A k, m \in T : k < m => <<k, m>> \in R
  OBVIOUS
<1>. HIDE DEF R
<1>3. PICK m \in T : \A k \in T : ~(<<k, m>> \in R)
  BY <1>1, WFMin
<1>4. \A k \in T : ~(k < m)
  BY <1>2, <1>3
<1>. QED BY <1>4

\* The place of a file name in an entry's list.
LEMMA IndexFacts ==
    ASSUME NEW s \in Seq(FileNames), NEW f, Holds(s, f)
    PROVE  IndexOf(s, f) \in DOMAIN s /\ s[IndexOf(s, f)] = f
<1>. DEFINE T == {i \in DOMAIN s : s[i] = f}
<1>1. T \in SUBSET Nat /\ T # {}
  BY DEF Holds
<1>2. PICK i \in T : \A k \in T : i <= k
  <2>. HIDE DEF T
  <2>. QED BY <1>1, LeastOne
<1>3. \A j \in 1 .. i - 1 : s[j] # f
  <2>. SUFFICES ASSUME NEW j \in 1 .. i - 1, s[j] = f PROVE FALSE
    OBVIOUS
  <2>1. i \in DOMAIN s /\ i \in Nat /\ j \in Nat /\ j < i /\ j >= 1
    OBVIOUS
  <2>2. j \in DOMAIN s
    BY <2>1
  <2>. QED BY <1>2, <2>1, <2>2
<1>4. \E k \in DOMAIN s : s[k] = f /\ \A j \in 1 .. k - 1 : s[j] # f
  BY <1>2, <1>3
<1>. QED BY <1>4 DEF IndexOf

\* swap_remove leaves a list, of what was in the list.
LEMMA SwapRemoveFacts ==
    ASSUME NEW s \in Seq(FileNames), NEW i \in DOMAIN s
    PROVE  /\ SwapRemove(s, i) \in Seq(FileNames)
           /\ Len(SwapRemove(s, i)) = Len(s) - 1
           /\ DOMAIN SwapRemove(s, i) = 1 .. Len(s) - 1
           /\ \A j \in 1 .. Len(s) - 1 :
                 SwapRemove(s, i)[j] = IF j = i THEN s[Len(s)] ELSE s[j]
<1>1. Len(s) \in Nat /\ Len(s) - 1 \in Nat /\ Len(s) \in DOMAIN s
  OBVIOUS
<1>2. \A j \in 1 .. Len(s) - 1 : (IF j = i THEN s[Len(s)] ELSE s[j]) \in FileNames
  BY <1>1
<1>3. SwapRemove(s, i) \in [1 .. Len(s) - 1 -> FileNames]
  BY <1>2 DEF SwapRemove
<1>4. SwapRemove(s, i) \in Seq(FileNames) /\ Len(SwapRemove(s, i)) = Len(s) - 1
  BY <1>1, <1>3
<1>. QED BY <1>4 DEF SwapRemove

\* The parent of a renamed path is the parent of the path.
LEMMA RenamedParent ==
    ASSUME NEW x \in Paths, Len(x) > 1, NEW b \in Names
    PROVE  Parent(Append(Parent(x), b)) = Parent(x)
<1>. DEFINE y == Append(Parent(x), b)
<1>1. /\ y \in Paths /\ Len(y) = Len(x)
      /\ \A i \in 1 .. Len(x) - 1 : y[i] = x[i]
  BY RenamedFacts
<1>. HIDE DEF y
<1>2. /\ Parent(y) \in Paths /\ Len(Parent(y)) = Len(x) - 1
      /\ \A i \in 1 .. Len(x) - 1 : Parent(y)[i] = y[i]
  BY <1>1, ParentFacts
<1>3. /\ Parent(x) \in Paths /\ Len(Parent(x)) = Len(x) - 1
      /\ \A i \in 1 .. Len(x) - 1 : Parent(x)[i] = x[i]
  BY ParentFacts
<1>4. \A i \in 1 .. Len(Parent(y)) : Parent(y)[i] = Parent(x)[i]
  BY <1>1, <1>2, <1>3
<1>. QED BY <1>2, <1>3, <1>4, PathFacts, SamePath DEF y

\* The arms of BucketMap::change that touch one entry's objects.
LEMMA ObjectChangesKeepTree ==
    ASSUME NEW t, IsTree(t), NEW p \in Paths, NEW f \in FileNames, NEW g \in FileNames
    PROVE  /\ IsTree(TreeNewObject(t, p, f))
           /\ IsTree(TreeNameObject(t, p, f, g))
           /\ IsTree(TreeDeleteObject(t, p, f))
<1>1. CASE p \notin DOMAIN t
  BY <1>1 DEF TreeNewObject, TreeNameObject, TreeDeleteObject
<1>2. CASE p \in DOMAIN t
  <2>. DEFINE s == t[p].objects
              i == IndexOf(s, f)
  <2>1. s \in Seq(FileNames)
    BY <1>2, TreeFacts
  <2>2. IsTree(TreeNewObject(t, p, f))
    <3>1. TreeNewObject(t, p, f) = WithObjects(t, p, Append(s, f))
      BY <1>2 DEF TreeNewObject, WithObjects
    <3>2. Append(s, f) \in Seq(FileNames)
      BY <2>1
    <3>. HIDE DEF s
    <3>3. IsTree(WithObjects(t, p, Append(s, f)))
      BY <1>2, <3>2, SetObjectsFacts
    <3>. QED BY <3>1, <3>3
  <2>3. CASE Holds(s, f)
    <3>1. i \in DOMAIN s
      BY <2>1, <2>3, IndexFacts
    <3>2. TreeNameObject(t, p, f, g) = WithObjects(t, p, [s EXCEPT ![i] = g])
      BY <1>2, <2>3 DEF TreeNameObject, WithObjects
    <3>3. TreeDeleteObject(t, p, f) = WithObjects(t, p, SwapRemove(s, i))
      BY <1>2, <2>3 DEF TreeDeleteObject, WithObjects
    <3>. HIDE DEF s, i
    <3>4. [s EXCEPT ![i] = g] \in Seq(FileNames)
      BY <2>1, <3>1
    <3>5. SwapRemove(s, i) \in Seq(FileNames)
      BY <2>1, <3>1, SwapRemoveFacts
    <3>6. IsTree(WithObjects(t, p, [s EXCEPT ![i] = g]))
      BY <1>2, <3>4, SetObjectsFacts
    <3>7. IsTree(WithObjects(t, p, SwapRemove(s, i)))
      BY <1>2, <3>5, SetObjectsFacts
    <3>. QED BY <2>2, <3>2, <3>3, <3>6, <3>7
  <2>4. CASE ~Holds(s, f)
    BY <2>2, <2>4 DEF TreeNameObject, TreeDeleteObject
  <2>. QED BY <2>3, <2>4
<1>. QED BY <1>1, <1>2

\* The arms that touch buckets.
LEMMA BucketChangesKeepTree ==
    ASSUME NEW t, IsTree(t), NEW b \in Names, NEW c \in Names
    PROVE  /\ IsTree(TreeNewBucket(t, b))
           /\ IsTree(TreeDeleteBucket(t, b))
           /\ IsTree(TreeNameBucket(t, b, c))
<1>1. <<b>> \in Paths /\ Len(<<b>>) = 1 /\ <<c>> \in Paths /\ Len(<<c>>) = 1
  BY BucketFacts
<1>2. IsTree(OrDefault(t, <<b>>))
  <2>1. \A n \in 1 .. Len(<<b>>) - 1 :
           SubSeq(<<b>>, 1, n) \in DOMAIN t /\ t[SubSeq(<<b>>, 1, n)].keys
    BY <1>1
  <2>. QED BY <1>1, <2>1, OrDefaultIsTree
<1>3. IsTree(RemoveEntry(t, <<b>>))
  BY <1>1, RemoveIsTree
<1>4. <<b>> \in DOMAIN t => IsTree(MoveEntry(t, <<b>>, <<c>>))
  <2>1. \A i \in 1 .. Len(<<b>>) - 1 : <<b>>[i] = <<c>>[i]
    BY <1>1
  <2>. QED BY <1>1, <2>1, MoveIsTree
<1>. QED BY <1>2, <1>3, <1>4 DEF TreeNewBucket, TreeDeleteBucket, TreeNameBucket

\* The arms that touch keys, as long as the map above is not None.
LEMMA KeyChangesKeepTree ==
    ASSUME NEW t, IsTree(t), NEW p \in Paths, Len(p) > 1, NEW b \in Names,
           Parent(p) \in DOMAIN t => t[Parent(p)].keys
    PROVE  /\ IsTree(TreeNewKey(t, p))
           /\ IsTree(TreeDeleteKey(t, p))
           /\ IsTree(TreeNameKey(t, p, b))
<1>. DEFINE new == Append(Parent(p), b)
<1>1. CASE Parent(p) \notin DOMAIN t
  BY <1>1 DEF TreeNewKey, TreeDeleteKey, TreeNameKey
<1>2. CASE Parent(p) \in DOMAIN t
  <2>1. IsTree(OrDefault(t, p))
    BY <1>2, AboveParent, OrDefaultIsTree
  <2>2. IsTree(RemoveEntry(t, p))
    BY RemoveIsTree
  <2>3. /\ new \in Paths /\ Len(new) = Len(p) /\ Parent(new) = Parent(p)
        /\ \A i \in 1 .. Len(p) - 1 : p[i] = new[i]
    BY RenamedFacts, RenamedParent
  <2>. HIDE DEF new
  <2>4. IsTree(OrDefault(t, new))
    BY <1>2, <2>3, AboveParent, OrDefaultIsTree
  <2>5. p \in DOMAIN t => IsTree(MoveEntry(t, p, new))
    BY <2>3, MoveIsTree
  <2>. QED BY <1>2, <2>1, <2>2, <2>4, <2>5 DEF TreeNewKey, TreeDeleteKey, TreeNameKey, new
<1>. QED BY <1>1, <1>2

\* BucketMap::change leaves a tree.
LEMMA ApplyIsTree ==
    ASSUME NEW t, IsTree(t), NEW c \in Change, ~Panics(t, c)
    PROVE  IsTree(Apply(t, c))
<1>1. CASE c.type = "new_object"
  BY <1>1, ChangeFacts, ObjectChangesKeepTree DEF Apply
<1>2. CASE c.type = "delete_object"
  BY <1>2, ChangeFacts, ObjectChangesKeepTree DEF Apply
<1>3. CASE c.type = "name_object"
  BY <1>3, ChangeFacts, ObjectChangesKeepTree DEF Apply
<1>4. CASE c.type = "new_bucket"
  BY <1>4, ChangeFacts, BucketChangesKeepTree DEF Apply
<1>5. CASE c.type = "delete_bucket"
  BY <1>5, ChangeFacts, BucketChangesKeepTree DEF Apply
<1>6. CASE c.type = "name_bucket"
  BY <1>6, ChangeFacts, BucketChangesKeepTree DEF Apply
<1>7. CASE c.type \in {"new_key", "delete_key", "name_key"}
  <2>1. c.at \in Paths /\ Len(c.at) > 1 /\ (Parent(c.at) \in DOMAIN t => t[Parent(c.at)].keys)
    BY <1>7, ChangeFacts DEF Panics
  <2>2. c.at[1] \in Names
    BY <2>1, PathFacts
  <2>3. CASE c.type = "new_key"
    BY <2>1, <2>2, <2>3, KeyChangesKeepTree DEF Apply
  <2>4. CASE c.type = "delete_key"
    BY <2>1, <2>2, <2>4, KeyChangesKeepTree DEF Apply
  <2>5. CASE c.type = "name_key"
    BY <2>1, <2>5, ChangeFacts, KeyChangesKeepTree DEF Apply
  <2>. QED BY <1>7, <2>3, <2>4, <2>5
<1>. QED BY <1>1, <1>2, <1>3, <1>4, <1>5, <1>6, <1>7, ChangeFacts

-----------------------------------------------------------------------------
(***************************************************************************)
(* Records.                                                                *)
(***************************************************************************)
\* The rows d with those in U updated.
Updated(d, new, U) == (d \ U) \cup {new[r] : r \in U}

\* What update_many leaves: some of the rows are updated, each to a place that
\* no other row had, and all of them if all these places are free.
LEMMA UpdateManyFacts ==
    ASSUME NEW d, NEW R, R \subseteq d, NEW new
    PROVE  \A e \in UpdateMany(d, R, new) : \E U \in SUBSET R :
              /\ e = Updated(d, new, U)
              /\ \A r \in U : \A s \in d : s # r => ~SameIndex(new[r], s)
              /\ (\A r \in R : \A s \in d : s # r => ~SameIndex(new[r], s)) => U = R
<1>. SUFFICES ASSUME NEW e \in UpdateMany(d, R, new)
              PROVE  \E U \in SUBSET R :
                        /\ e = Updated(d, new, U)
                        /\ \A r \in U : \A s \in d : s # r => ~SameIndex(new[r], s)
                        /\ (\A r \in R : \A s \in d : s # r => ~SameIndex(new[r], s)) => U = R
  OBVIOUS
<1>. DEFINE colliding == {r \in R : \E s \in d \ {r} : SameIndex(new[r], s)}
<1>1. CASE colliding = {}
  <2>1. e = Updated(d, new, R)
    BY <1>1 DEF UpdateMany, Updated
  <2>. QED BY <1>1, <2>1
<1>2. CASE colliding # {}
  <2>1. PICK U \in SUBSET (R \ colliding) : e = Updated(d, new, U)
    BY <1>2 DEF UpdateMany, Updated
  <2>. QED BY <1>2, <2>1
<1>. QED BY <1>1, <1>2

\* Rows that stay apart when all of them are updated stay unique when some are.
LEMMA UpdateManyKeeps ==
    ASSUME NEW d \in SUBSET Record, UniqueIndex(d), NEW R \in SUBSET d, NEW new,
           \A r \in R : new[r] \in Record,
           \A r, s \in R : SameIndex(new[r], new[s]) => r = s,
           NEW e \in UpdateMany(d, R, new)
    PROVE  e \in SUBSET Record /\ UniqueIndex(e)
<1>0. PICK U \in SUBSET R :
         /\ e = Updated(d, new, U)
         /\ \A r \in U : \A s \in d : s # r => ~SameIndex(new[r], s)
  <2>1. \A x \in UpdateMany(d, R, new) : \E U \in SUBSET R :
              /\ x = Updated(d, new, U)
              /\ \A r \in U : \A s \in d : s # r => ~SameIndex(new[r], s)
              /\ (\A r \in R : \A s \in d : s # r => ~SameIndex(new[r], s)) => U = R
    BY UpdateManyFacts
  <2>. QED BY <2>1
<1>1. /\ e = (d \ U) \cup {new[r] : r \in U}
      /\ \A r \in U : \A s \in d : s # r => ~SameIndex(new[r], s)
  BY <1>0 DEF Updated
<1>2. ASSUME NEW x \in e, NEW y \in e, SameIndex(x, y) PROVE x = y
  <2>1. CASE x \in d /\ x \notin U /\ y \in d /\ y \notin U
    BY <1>2, <2>1 DEF UniqueIndex
  <2>2. CASE x \in d /\ x \notin U /\ \E r \in U : y = new[r]
    BY <1>1, <1>2, <2>2 DEF SameIndex
  <2>3. CASE y \in d /\ y \notin U /\ \E r \in U : x = new[r]
    BY <1>1, <1>2, <2>3 DEF SameIndex
  <2>4. CASE (\E r \in U : x = new[r]) /\ (\E r \in U : y = new[r])
    BY <1>2, <2>4
  <2>. QED BY <1>1, <2>1, <2>2, <2>3, <2>4
<1>. QED BY <1>1, <1>2 DEF UniqueIndex

\* A record and its place.
LEMMA RecordFacts ==
    ASSUME NEW r \in Record
    PROVE  /\ r.at \in Paths /\ r.file_name \in FileNames
           /\ r.name \in FileNames \cup {NoName}
           /\ \A p \in Paths :
                 /\ [r EXCEPT !.at = p] \in Record
                 /\ [r EXCEPT !.at = p].at = p
                 /\ [r EXCEPT !.at = p].file_name = r.file_name
                 /\ (p = r.at => [r EXCEPT !.at = p] = r)
           /\ \A f \in FileNames :
                 /\ [r EXCEPT !.name = f] \in Record
                 /\ [r EXCEPT !.name = f].at = r.at
                 /\ [r EXCEPT !.name = f].file_name = r.file_name
BY DEF Record

\* A record that goes with its bucket to another.
LEMMA BucketMoved ==
    ASSUME NEW p \in Paths, NEW b \in Names
    PROVE  /\ <<b>> \o Tail(p) \in Paths
           /\ Len(<<b>> \o Tail(p)) = Len(p)
           /\ (<<b>> \o Tail(p))[1] = b
           /\ \A i \in 2 .. Len(p) : (<<b>> \o Tail(p))[i] = p[i]
<1>1. /\ Tail(p) \in Seq(Names) /\ Len(Tail(p)) = Len(p) - 1
      /\ \A i \in 1 .. Len(p) - 1 : Tail(p)[i] = p[i + 1]
      /\ Len(p) \in Nat /\ Len(p) >= 1 /\ Len(p) \in 1 .. MaxDepth
  <2>1. p \in Seq(Names) /\ Len(p) \in Nat /\ Len(p) >= 1 /\ Len(p) \in 1 .. MaxDepth
    BY PathIsSeq, DepthAssumption
  <2>2. p # <<>>
    BY <2>1
  <2>. QED BY <2>1, <2>2, HeadTailProperties
<1>2. /\ <<b>> \o Tail(p) \in Seq(Names)
      /\ Len(<<b>> \o Tail(p)) = 1 + Len(Tail(p))
      /\ \A i \in 1 .. 1 + Len(Tail(p)) :
            (<<b>> \o Tail(p))[i] = IF i <= 1 THEN b ELSE Tail(p)[i - 1]
  <2>1. <<b>> \in Seq(Names) /\ Len(<<b>>) = 1 /\ <<b>>[1] = b
    OBVIOUS
  <2>2. /\ <<b>> \o Tail(p) \in Seq(Names)
        /\ Len(<<b>> \o Tail(p)) = Len(<<b>>) + Len(Tail(p))
        /\ \A i \in 1 .. Len(<<b>>) + Len(Tail(p)) :
              (<<b>> \o Tail(p))[i]
                = IF i <= Len(<<b>>) THEN <<b>>[i] ELSE Tail(p)[i - Len(<<b>>)]
    BY <1>1, <2>1, ConcatProperties
  <2>. QED BY <1>1, <2>1, <2>2
<1>3. Len(<<b>> \o Tail(p)) = Len(p)
  BY <1>1, <1>2
<1>4. <<b>> \o Tail(p) \in Paths
  BY <1>1, <1>2, <1>3, PathIsSeq
<1>5. (<<b>> \o Tail(p))[1] = b
  BY <1>1, <1>2
<1>6. \A i \in 2 .. Len(p) : (<<b>> \o Tail(p))[i] = p[i]
  <2>. SUFFICES ASSUME NEW i \in 2 .. Len(p) PROVE (<<b>> \o Tail(p))[i] = p[i]
    OBVIOUS
  <2>1. i \in 1 .. 1 + Len(Tail(p)) /\ ~(i <= 1) /\ i - 1 \in 1 .. Len(p) - 1
    BY <1>1
  <2>2. (<<b>> \o Tail(p))[i] = Tail(p)[i - 1] /\ Tail(p)[i - 1] = p[i - 1 + 1]
    BY <1>1, <1>2, <2>1
  <2>. QED BY <2>1, <2>2
<1>. QED BY <1>3, <1>4, <1>5, <1>6

\* Two paths of one bucket that go to the same path were the same.
LEMMA BucketMovedApart ==
    ASSUME NEW p \in Paths, NEW q \in Paths, NEW b \in Names, BucketOf(p) = BucketOf(q),
           <<b>> \o Tail(p) = <<b>> \o Tail(q)
    PROVE  p = q
<1>1. Len(p) = Len(q) /\ \A i \in 2 .. Len(p) : p[i] = q[i]
  <2>1. /\ Len(<<b>> \o Tail(p)) = Len(p)
        /\ \A i \in 2 .. Len(p) : (<<b>> \o Tail(p))[i] = p[i]
    BY BucketMoved
  <2>2. /\ Len(<<b>> \o Tail(q)) = Len(q)
        /\ \A i \in 2 .. Len(q) : (<<b>> \o Tail(q))[i] = q[i]
    BY BucketMoved
  <2>. QED BY <2>1, <2>2
<1>2. \A i \in 1 .. Len(p) : p[i] = q[i]
  <2>. SUFFICES ASSUME NEW i \in 1 .. Len(p) PROVE p[i] = q[i]
    OBVIOUS
  <2>1. i = 1 \/ i \in 2 .. Len(p)
    BY PathFacts
  <2>. QED BY <1>1, <2>1 DEF BucketOf
<1>. QED BY <1>1, <1>2, PathFacts, SamePath

\* The key set_name_key writes: the new name alone, below the bucket.
LEMMA KeyMoved ==
    ASSUME NEW p \in Paths, Len(p) > 1, NEW b \in Names
    PROVE  /\ <<BucketOf(p), b>> \in Paths /\ Len(<<BucketOf(p), b>>) = 2
           /\ <<BucketOf(p), b>>[1] = p[1] /\ <<BucketOf(p), b>>[2] = b
<1>1. BucketOf(p) \in Names /\ 2 \in 1 .. MaxDepth
  BY PathFacts, DepthAssumption DEF BucketOf
<1>2. <<BucketOf(p), b>> \in [1 .. 2 -> Names]
  BY <1>1
<1>. QED BY <1>1, <1>2 DEF Paths, BucketOf

\* set_name_bucket: rows of one bucket that go to another stay apart.
LEMMA BucketRowsKeep ==
    ASSUME NEW d \in SUBSET Record, UniqueIndex(d), NEW from \in Names, NEW to \in Names
    PROVE  \A e \in set_name_bucket(d, from, to) : e \in SUBSET Record /\ UniqueIndex(e)
<1>. SUFFICES ASSUME NEW e \in set_name_bucket(d, from, to)
              PROVE  e \in SUBSET Record /\ UniqueIndex(e)
  OBVIOUS
<1>. DEFINE rows == {r \in d : BucketOf(r.at) = from}
            new  == [r \in rows |-> [r EXCEPT !.at = <<to>> \o Tail(@)]]
<1>1. e \in UpdateMany(d, rows, new)
  BY DEF set_name_bucket
<1>2. ASSUME NEW r \in rows
      PROVE  /\ r \in Record /\ r.at \in Paths /\ BucketOf(r.at) = from
             /\ new[r] \in Record /\ new[r].at = <<to>> \o Tail(r.at)
             /\ new[r].file_name = r.file_name
  <2>. DEFINE q == <<to>> \o Tail(r.at)
  <2>1. r \in Record /\ r.at \in Paths /\ new[r] = [r EXCEPT !.at = q]
    BY RecordFacts
  <2>2. q \in Paths
    BY <2>1, BucketMoved
  <2>3. BucketOf(r.at) = from
    OBVIOUS
  <2>. HIDE DEF new, q
  <2>4. /\ new[r] \in Record /\ new[r].at = q
        /\ new[r].file_name = r.file_name
    BY <2>1, <2>2, RecordFacts
  <2>. QED BY <2>1, <2>3, <2>4 DEF q
<1>3. rows \in SUBSET d
  OBVIOUS
<1>4. ASSUME NEW r \in rows, NEW s \in rows, SameIndex(new[r], new[s])
      PROVE  r = s
  <2>1. <<to>> \o Tail(r.at) = <<to>> \o Tail(s.at) /\ r.file_name = s.file_name
    BY <1>2, <1>4 DEF SameIndex
  <2>2. r.at \in Paths /\ s.at \in Paths /\ BucketOf(r.at) = BucketOf(s.at)
    BY <1>2
  <2>3. r.at = s.at
    BY <2>1, <2>2, BucketMovedApart
  <2>. QED BY <2>1, <2>3 DEF SameIndex, UniqueIndex
<1>. HIDE DEF rows, new
<1>. QED BY <1>1, <1>2, <1>3, <1>4, UpdateManyKeeps

\* set_name_key: rows of one key that go to another stay apart.
LEMMA KeyRowsKeep ==
    ASSUME NEW d \in SUBSET Record, UniqueIndex(d), NEW p \in Paths, Len(p) > 1, NEW to \in Names
    PROVE  \A e \in set_name_key(d, p, to) : e \in SUBSET Record /\ UniqueIndex(e)
<1>. SUFFICES ASSUME NEW e \in set_name_key(d, p, to)
              PROVE  e \in SUBSET Record /\ UniqueIndex(e)
  OBVIOUS
<1>. DEFINE rows == {r \in d : r.at = p}
            new  == [r \in rows |-> [r EXCEPT !.at = <<BucketOf(p), to>>]]
<1>1. e \in UpdateMany(d, rows, new)
  BY DEF set_name_key
<1>2. ASSUME NEW r \in rows
      PROVE  new[r] \in Record /\ new[r].file_name = r.file_name
  <2>1. r \in Record /\ new[r] = [r EXCEPT !.at = <<BucketOf(p), to>>]
    OBVIOUS
  <2>2. <<BucketOf(p), to>> \in Paths
    BY KeyMoved
  <2>. HIDE DEF new
  <2>. QED BY <2>1, <2>2, RecordFacts
<1>3. rows \in SUBSET d
  OBVIOUS
<1>4. ASSUME NEW r \in rows, NEW s \in rows, SameIndex(new[r], new[s])
      PROVE  r = s
  <2>1. r.file_name = s.file_name
    BY <1>2, <1>4 DEF SameIndex
  <2>. QED BY <2>1 DEF SameIndex, UniqueIndex
<1>. HIDE DEF rows, new
<1>. QED BY <1>1, <1>2, <1>3, <1>4, UpdateManyKeeps

\* set_name: a record gets another object.name and stays where it is.
Named(r, p, from, to) ==
    IF r.at = p /\ r.file_name = from THEN [r EXCEPT !.name = to] ELSE r

LEMMA NamedFacts ==
    ASSUME NEW r \in Record, NEW p, NEW from, NEW to \in FileNames
    PROVE  /\ Named(r, p, from, to) \in Record
           /\ Named(r, p, from, to).at = r.at
           /\ Named(r, p, from, to).file_name = r.file_name
BY RecordFacts DEF Named

LEMMA NamedRowsKeep ==
    ASSUME NEW d \in SUBSET Record, UniqueIndex(d), NEW p, NEW from, NEW to \in FileNames
    PROVE  \A e \in set_name(d, p, from, to) : e \in SUBSET Record /\ UniqueIndex(e)
<1>1. set_name(d, p, from, to) = {{Named(r, p, from, to) : r \in d}}
  BY DEF set_name, Named
<1>. DEFINE e == {Named(r, p, from, to) : r \in d}
<1>2. e \in SUBSET Record
  BY NamedFacts
<1>3. ASSUME NEW x \in e, NEW y \in e, SameIndex(x, y) PROVE x = y
  <2>1. PICK r \in d : x = Named(r, p, from, to)
    OBVIOUS
  <2>2. PICK s \in d : y = Named(s, p, from, to)
    OBVIOUS
  <2>3. SameIndex(r, s)
    BY <1>3, <2>1, <2>2, NamedFacts DEF SameIndex
  <2>. QED BY <2>1, <2>2, <2>3 DEF UniqueIndex
<1>4. UniqueIndex(e)
  <2>. HIDE DEF e
  <2>. QED BY <1>3 DEF UniqueIndex
<1>. QED BY <1>1, <1>2, <1>4

\* A call that only deletes, and one that inserts.
LEMMA FewerRowsKeep ==
    ASSUME NEW d \in SUBSET Record, UniqueIndex(d), NEW e \in SUBSET d
    PROVE  e \in SUBSET Record /\ UniqueIndex(e)
BY DEF UniqueIndex

LEMMA NewRowKeeps ==
    ASSUME NEW d \in SUBSET Record, UniqueIndex(d), NEW p \in Paths, NEW f \in FileNames
    PROVE  \A e \in new_object(d, p, f) : e \in SUBSET Record /\ UniqueIndex(e)
<1>. DEFINE r == [at |-> p, file_name |-> f, name |-> NoName]
<1>1. r \in Record
  BY DEF Record
<1>. HIDE DEF r
<1>2. CASE \E s \in d : SameIndex(r, s)
  BY <1>2 DEF new_object, r
<1>3. CASE ~\E s \in d : SameIndex(r, s)
  <2>1. UniqueIndex(d \cup {r})
    BY <1>3 DEF UniqueIndex, SameIndex
  <2>. QED BY <1>1, <1>3, <2>1 DEF new_object, r
<1>. QED BY <1>2, <1>3

\* Whatever a call of LocalStorage leaves are records under the unique index.
LEMMA StoreKeepsRecords ==
    ASSUME NEW d \in SUBSET Record, UniqueIndex(d), NEW c \in Change
    PROVE  \A e \in Store(d, c) : e \in SUBSET Record /\ UniqueIndex(e)
<1>1. CASE c.type = "new_object"
  BY <1>1, ChangeFacts, NewRowKeeps DEF Store
<1>2. CASE c.type = "delete_object"
  BY <1>2, FewerRowsKeep DEF Store, delete_object
<1>3. CASE c.type = "name_object"
  BY <1>3, ChangeFacts, NamedRowsKeep DEF Store
<1>4. CASE c.type = "delete_bucket"
  BY <1>4, FewerRowsKeep DEF Store, delete_bucket
<1>5. CASE c.type = "name_bucket"
  BY <1>5, ChangeFacts, BucketRowsKeep DEF Store
<1>6. CASE c.type = "name_key"
  BY <1>6, ChangeFacts, KeyRowsKeep DEF Store
<1>7. CASE c.type = "delete_key"
  BY <1>7, FewerRowsKeep DEF Store, delete_key
<1>8. CASE c.type \in {"new_key", "new_bucket"}
  BY <1>8 DEF Store
<1>. QED BY <1>1, <1>2, <1>3, <1>4, <1>5, <1>6, <1>7, <1>8, ChangeFacts

-----------------------------------------------------------------------------
(***************************************************************************)
(* The invariant: types, and what the tree and the records are.            *)
(***************************************************************************)
LEMMA TypeInvariant == Spec => []TypeOK
<1>1. Init => TypeOK
  <2>. SUFFICES ASSUME Init PROVE TypeOK
    OBVIOUS
  <2>1. IsTree(tree)
    BY InitialTreesAssumption DEF Init
  <2>2. RecordsOf(tree) \subseteq Record
    BY <2>1, TreeFacts DEF RecordsOf, Objects, Record
  <2>3. UniqueIndex(RecordsOf(tree))
    BY DEF RecordsOf, UniqueIndex, SameIndex, Objects
  <2>4. UniqueIndex(db)
    BY <2>3 DEF Init, UniqueIndex
  <2>. QED BY <2>1, <2>2, <2>4, BoundsAssumption DEF Init, TypeOK, Agree
<1>2. TypeOK /\ [Next]_vars => TypeOK'
  <2>. SUFFICES ASSUME TypeOK, [Next]_vars PROVE TypeOK'
    OBVIOUS
  <2>1. ASSUME mailbox # <<>>
        PROVE  change \in Changes /\ change \in Change /\ Tail(mailbox) \in Seq(Changes)
    BY <2>1, ChangesAssumption DEF change, TypeOK
  <2>2. ASSUME NEW c \in Changes, Tell(c) PROVE TypeOK'
    <3>1. mailbox' \in Seq(Changes) /\ (mailbox # <<>> => mailbox' # <<>>)
      BY <2>2 DEF TypeOK, Tell
    <3>2. told' \in 0 .. MaxTells
      BY <2>2, BoundsAssumption DEF TypeOK, Tell
    <3>. QED BY <2>2, <3>1, <3>2 DEF TypeOK, Tell
  <2>3. CASE ChangeLocalStorage
    <3>1. db' \in SUBSET Record /\ UniqueIndex(db')
      BY <2>1, <2>3, StoreKeepsRecords DEF TypeOK, ChangeLocalStorage
    <3>. QED BY <2>3, <3>1 DEF TypeOK, ChangeLocalStorage
  <2>4. CASE StorageFails
    <3>1. faults' \in 0 .. MaxFaults
      BY <2>4, BoundsAssumption DEF TypeOK, StorageFails
    <3>. QED BY <2>4, <3>1 DEF TypeOK, StorageFails
  <2>5. CASE ChangeTree
    <3>1. mailbox # <<>>
      BY <2>5 DEF TypeOK, ChangeTree
    <3>2. IsTree(tree')
      BY <2>1, <2>5, <3>1, ApplyIsTree DEF TypeOK, ChangeTree
    <3>3. alive' \in BOOLEAN /\ clean' \in BOOLEAN /\ (~alive' => FALSE)
      BY <2>5, <3>1 DEF TypeOK, ChangeTree
    <3>4. mailbox' \in Seq(Changes)
      BY <2>1, <2>5, <3>1 DEF ChangeTree
    <3>5. /\ db' \subseteq Record /\ UniqueIndex(db')
          /\ pc' = "recv" /\ told' \in 0 .. MaxTells /\ faults' \in 0 .. MaxFaults
      BY <2>5 DEF TypeOK, ChangeTree
    <3>. QED BY <3>2, <3>3, <3>4, <3>5 DEF TypeOK
  <2>6. CASE Panic
    <3>1. mailbox' = <<>> /\ mailbox' \in Seq(Changes)
      BY <2>6 DEF Panic
    <3>2. alive' = FALSE /\ clean' = clean /\ clean \in BOOLEAN
      BY <2>6 DEF TypeOK, Panic
    <3>3. /\ IsTree(tree') /\ db' \subseteq Record /\ UniqueIndex(db')
          /\ pc' = "recv" /\ told' \in 0 .. MaxTells /\ faults' \in 0 .. MaxFaults
      BY <2>6 DEF TypeOK, Panic
    <3>. QED BY <3>1, <3>2, <3>3 DEF TypeOK
  <2>7. CASE UNCHANGED vars
    BY <2>7 DEF TypeOK, vars
  <2>. QED BY <2>2, <2>3, <2>4, <2>5, <2>6, <2>7 DEF Next, Handle
<1>. QED BY <1>1, <1>2, PTL DEF Spec

\* Every change of every kind leaves a tree in which whatever is in a map is
\* reached through the maps above it, and records under the unique index.
THEOREM ManagerIsTyped == Spec => []TypeOK
BY TypeInvariant

-----------------------------------------------------------------------------
(***************************************************************************)
(* No change reaches another bucket.                                       *)
(***************************************************************************)
LEMMA BelowIsSameBucket ==
    ASSUME NEW p \in Paths, NEW q \in Paths, Under(p, q)
    PROVE  BucketOf(q) = BucketOf(p)
<1>1. 1 \in 1 .. Len(p) /\ \A i \in 1 .. Len(p) : q[i] = p[i]
  BY UnderFacts, PathFacts
<1>. QED BY <1>1 DEF BucketOf

\* Two trees have the same entries in a bucket.
SameIn(t, u, b) ==
    /\ \A p \in DOMAIN t : BucketOf(p) = b => p \in DOMAIN u /\ u[p] = t[p]
    /\ \A p \in DOMAIN u : BucketOf(p) = b => p \in DOMAIN t

LEMMA SameBucketTree ==
    ASSUME NEW t, NEW u, NEW b, SameIn(t, u, b)
    PROVE  BucketTreeOf(u, b) = BucketTreeOf(t, b)
<1>1. \A p : p \in {q \in DOMAIN u : BucketOf(q) = b} <=> p \in {q \in DOMAIN t : BucketOf(q) = b}
  BY DEF SameIn
<1>2. {q \in DOMAIN u : BucketOf(q) = b} = {q \in DOMAIN t : BucketOf(q) = b}
  BY <1>1
<1>3. \A p \in {q \in DOMAIN t : BucketOf(q) = b} : u[p] = t[p]
  BY DEF SameIn
<1>. DEFINE S == {q \in DOMAIN t : BucketOf(q) = b}
<1>4. BucketTreeOf(u, b) = {<<p, u[p]>> : p \in S}
  BY <1>2 DEF BucketTreeOf
<1>5. BucketTreeOf(t, b) = {<<p, t[p]>> : p \in S}
  BY DEF BucketTreeOf
<1>6. \A p \in S : u[p] = t[p]
  BY <1>3
<1>. HIDE DEF S
<1>. QED BY <1>4, <1>5, <1>6

\* An entry that is added, removed or moved leaves the other buckets alone.
LEMMA AddElsewhere ==
    ASSUME NEW t, NEW p \in Paths, NEW b, BucketOf(p) # b
    PROVE  SameIn(t, OrDefault(t, p), b)
<1>. DEFINE u == OrDefault(t, p)
<1>1. DOMAIN u = DOMAIN t \cup {p} /\ \A q \in DOMAIN t : u[q] = t[q]
  BY DEF OrDefault
<1>. HIDE DEF u
<1>2. SameIn(t, u, b)
  BY <1>1 DEF SameIn
<1>. QED BY <1>2 DEF u

LEMMA RemoveElsewhere ==
    ASSUME NEW t, IsTree(t), NEW p \in Paths, NEW b, BucketOf(p) # b
    PROVE  SameIn(t, RemoveEntry(t, p), b)
<1>1. \A q \in DOMAIN t : BucketOf(q) = b => ~Under(p, q)
  BY TreeFacts, BelowIsSameBucket
<1>. DEFINE u == RemoveEntry(t, p)
<1>2. DOMAIN u = {q \in DOMAIN t : ~Under(p, q)} /\ \A q \in DOMAIN u : u[q] = t[q]
  BY DEF RemoveEntry
<1>. HIDE DEF u
<1>3. SameIn(t, u, b)
  BY <1>1, <1>2 DEF SameIn
<1>. QED BY <1>3 DEF u

LEMMA MoveElsewhere ==
    ASSUME NEW t, IsTree(t), NEW from \in Paths, NEW to \in Paths, Len(from) = Len(to),
           NEW b, BucketOf(from) # b, BucketOf(to) # b
    PROVE  SameIn(t, MoveEntry(t, from, to), b)
<1>. DEFINE u == MoveEntry(t, from, to)
<1>1. /\ \A q \in DOMAIN t :
            ~Under(from, q) /\ ~Under(to, q) => q \in DOMAIN u /\ u[q] = t[q]
      /\ \A r \in DOMAIN u :
            \/ r \in DOMAIN t /\ ~Under(from, r) /\ ~Under(to, r)
            \/ \E q \in DOMAIN t : Under(from, q) /\ r = Rebase(q, from, to)
  BY MoveFacts
<1>. HIDE DEF u
<1>2. \A q \in DOMAIN t : BucketOf(q) = b => ~Under(from, q) /\ ~Under(to, q)
  BY TreeFacts, BelowIsSameBucket
<1>3. \A q \in DOMAIN t : Under(from, q) => BucketOf(Rebase(q, from, to)) # b
  BY TreeFacts, RebaseFacts, BelowIsSameBucket
<1>4. SameIn(t, u, b)
  BY <1>1, <1>2, <1>3 DEF SameIn
<1>. QED BY <1>4 DEF u

LEMMA SetObjectsElsewhere ==
    ASSUME NEW t, IsTree(t), NEW p \in DOMAIN t, NEW s, NEW b, BucketOf(p) # b
    PROVE  SameIn(t, [t EXCEPT ![p].objects = s], b)
BY TreeFacts DEF SameIn, IsTree

\* A renamed key stays in its bucket.
LEMMA RenamedBucket ==
    ASSUME NEW p \in Paths, Len(p) > 1, NEW n \in Names
    PROVE  BucketOf(Append(Parent(p), n)) = BucketOf(p)
<1>1. 1 \in 1 .. Len(p) - 1
  BY PathFacts
<1>. QED BY <1>1, RenamedFacts DEF BucketOf

\* The write of the tree.
LEMMA TreeElsewhere ==
    ASSUME NEW t, IsTree(t), NEW c \in Change, NEW b \in Names \ Touched(c)
    PROVE  SameIn(t, Apply(t, c), b)
<1>1. SameIn(t, t, b)
  BY DEF SameIn
<1>2. CASE c.type \in {"new_object", "delete_object", "name_object"}
  <2>1. BucketOf(c.at) # b
    BY <1>2 DEF Touched
  <2>2. CASE c.at \notin DOMAIN t
    BY <1>1, <1>2, <2>2
       DEF Apply, TreeNewObject, TreeDeleteObject, TreeNameObject
  <2>3. CASE c.at \in DOMAIN t
    <3>. DEFINE s == t[c.at].objects
    <3>1. \A z : SameIn(t, [t EXCEPT ![c.at].objects = z], b)
      BY <2>1, <2>3, SetObjectsElsewhere
    <3>2. CASE c.type = "new_object"
      <4>1. Apply(t, c) = [t EXCEPT ![c.at].objects = Append(s, c.name)]
        BY <2>3, <3>2 DEF Apply, TreeNewObject
      <4>. HIDE DEF s
      <4>. QED BY <3>1, <4>1
    <3>3. CASE c.type = "delete_object"
      <4>1. \/ Apply(t, c) = [t EXCEPT ![c.at].objects = SwapRemove(s, IndexOf(s, c.name))]
            \/ Apply(t, c) = t
        BY <2>3, <3>3 DEF Apply, TreeDeleteObject
      <4>. HIDE DEF s
      <4>. QED BY <1>1, <3>1, <4>1
    <3>4. CASE c.type = "name_object"
      <4>1. \/ Apply(t, c)
                 = [t EXCEPT ![c.at].objects = [s EXCEPT ![IndexOf(s, c.from)] = c.to]]
            \/ Apply(t, c) = t
        BY <2>3, <3>4 DEF Apply, TreeNameObject
      <4>. HIDE DEF s
      <4>. QED BY <1>1, <3>1, <4>1
    <3>. QED BY <1>2, <3>2, <3>3, <3>4
  <2>. QED BY <2>2, <2>3
<1>3. CASE c.type \in {"new_bucket", "delete_bucket"}
  <2>1. c.bucket \in Names /\ c.bucket # b
    BY <1>3, ChangeFacts DEF Touched
  <2>2. <<c.bucket>> \in Paths /\ BucketOf(<<c.bucket>>) # b
    BY <2>1, BucketFacts DEF BucketOf
  <2>3. SameIn(t, OrDefault(t, <<c.bucket>>), b) /\ SameIn(t, RemoveEntry(t, <<c.bucket>>), b)
    BY <2>2, AddElsewhere, RemoveElsewhere
  <2>. QED BY <1>3, <2>3 DEF Apply, TreeNewBucket, TreeDeleteBucket
<1>4. CASE c.type = "name_bucket"
  <2>1. c.from \in Names /\ c.to \in Names /\ c.from # b /\ c.to # b
    BY <1>4, ChangeFacts DEF Touched
  <2>2. /\ <<c.from>> \in Paths /\ BucketOf(<<c.from>>) # b /\ Len(<<c.from>>) = 1
        /\ <<c.to>> \in Paths /\ BucketOf(<<c.to>>) # b /\ Len(<<c.to>>) = 1
    BY <2>1, BucketFacts DEF BucketOf
  <2>3. SameIn(t, MoveEntry(t, <<c.from>>, <<c.to>>), b)
    BY <2>2, MoveElsewhere
  <2>. QED BY <1>1, <1>4, <2>3 DEF Apply, TreeNameBucket
<1>5. CASE c.type \in {"new_key", "delete_key", "name_key"}
  <2>1. c.at \in Paths /\ Len(c.at) > 1 /\ BucketOf(c.at) # b
    BY <1>5, ChangeFacts DEF Touched
  <2>2. CASE c.type \in {"new_key", "delete_key"}
    <3>1. SameIn(t, OrDefault(t, c.at), b) /\ SameIn(t, RemoveEntry(t, c.at), b)
      BY <2>1, AddElsewhere, RemoveElsewhere
    <3>. QED BY <1>1, <2>2, <3>1 DEF Apply, TreeNewKey, TreeDeleteKey
  <2>3. CASE c.type = "name_key"
    <3>. DEFINE new == Append(Parent(c.at), c.to)
    <3>1. new \in Paths /\ Len(new) = Len(c.at) /\ BucketOf(new) # b
      BY <2>1, <2>3, ChangeFacts, RenamedFacts, RenamedBucket
    <3>2. SameIn(t, OrDefault(t, new), b) /\ SameIn(t, MoveEntry(t, c.at, new), b)
      <4>. HIDE DEF new
      <4>. QED BY <2>1, <3>1, AddElsewhere, MoveElsewhere
    <3>3. Apply(t, c) \in {t, OrDefault(t, new), MoveEntry(t, c.at, new)}
      BY <2>3 DEF Apply, TreeNameKey
    <3>. HIDE DEF new
    <3>. QED BY <1>1, <3>2, <3>3
  <2>. QED BY <1>5, <2>2, <2>3
<1>. QED BY <1>2, <1>3, <1>4, <1>5, ChangeFacts

\* Updated rows leave a bucket alone that none of them is in or goes to.
LEMMA UpdateElsewhere ==
    ASSUME NEW d, NEW R, R \subseteq d, NEW new, NEW b,
           \A r \in R : BucketOf(r.at) # b /\ BucketOf(new[r].at) # b
    PROVE  \A e \in UpdateMany(d, R, new) : BucketRows(e, b) = BucketRows(d, b)
<1>. SUFFICES ASSUME NEW e \in UpdateMany(d, R, new)
              PROVE  BucketRows(e, b) = BucketRows(d, b)
  OBVIOUS
<1>0. PICK U \in SUBSET R :
         /\ e = Updated(d, new, U)
         /\ \A r \in U : \A s \in d : s # r => ~SameIndex(new[r], s)
  <2>1. \A x \in UpdateMany(d, R, new) : \E U \in SUBSET R :
              /\ x = Updated(d, new, U)
              /\ \A r \in U : \A s \in d : s # r => ~SameIndex(new[r], s)
              /\ (\A r \in R : \A s \in d : s # r => ~SameIndex(new[r], s)) => U = R
    BY UpdateManyFacts
  <2>. QED BY <2>1
<1>. QED BY <1>0 DEF Updated, BucketRows

\* The write of the database.
LEMMA StoreElsewhere ==
    ASSUME NEW d \in SUBSET Record, NEW c \in Change, NEW b \in Names \ Touched(c)
    PROVE  \A e \in Store(d, c) : BucketRows(e, b) = BucketRows(d, b)
<1>1. CASE c.type = "new_object"
  BY <1>1 DEF Store, new_object, BucketRows, Touched
<1>2. CASE c.type = "delete_object"
  BY <1>2 DEF Store, delete_object, BucketRows, Touched
<1>3. CASE c.type = "name_object"
  <2>1. BucketOf(c.at) # b /\ c.to \in FileNames
    BY <1>3, ChangeFacts DEF Touched
  <2>2. \A r \in d : /\ Named(r, c.at, c.from, c.to).at = r.at
                     /\ (BucketOf(r.at) = b => Named(r, c.at, c.from, c.to) = r)
    BY <2>1, NamedFacts DEF Named
  <2>3. Store(d, c) = {{Named(r, c.at, c.from, c.to) : r \in d}}
    BY <1>3 DEF Store, set_name, Named
  <2>. QED BY <2>2, <2>3 DEF BucketRows
<1>4. CASE c.type = "delete_bucket"
  BY <1>4 DEF Store, delete_bucket, BucketRows, Touched
<1>5. CASE c.type = "name_bucket"
  <2>. DEFINE rows == {r \in d : BucketOf(r.at) = c.from}
              new  == [r \in rows |-> [r EXCEPT !.at = <<c.to>> \o Tail(@)]]
  <2>1. c.from # b /\ c.to # b /\ c.to \in Names
    BY <1>5, ChangeFacts DEF Touched
  <2>2. ASSUME NEW r \in rows
        PROVE  BucketOf(r.at) # b /\ BucketOf(new[r].at) # b
    <3>1. r \in Record /\ r.at \in Paths
      BY RecordFacts
    <3>2. new[r].at = <<c.to>> \o Tail(r.at)
      BY <3>1 DEF Record
    <3>3. (<<c.to>> \o Tail(r.at))[1] = c.to
      BY <2>1, <3>1, BucketMoved
    <3>. QED BY <2>1, <3>2, <3>3 DEF BucketOf
  <2>3. Store(d, c) = UpdateMany(d, rows, new)
    BY <1>5 DEF Store, set_name_bucket
  <2>4. rows \subseteq d
    OBVIOUS
  <2>. HIDE DEF rows, new
  <2>. QED BY <2>2, <2>3, <2>4, UpdateElsewhere
<1>6. CASE c.type = "name_key"
  <2>. DEFINE rows == {r \in d : r.at = c.at}
              new  == [r \in rows |-> [r EXCEPT !.at = <<BucketOf(c.at), c.to>>]]
  <2>1. BucketOf(c.at) # b
    BY <1>6 DEF Touched
  <2>2. ASSUME NEW r \in rows
        PROVE  BucketOf(r.at) # b /\ BucketOf(new[r].at) # b
    <3>1. r \in Record /\ r.at = c.at
      OBVIOUS
    <3>2. new[r].at = <<BucketOf(c.at), c.to>>
      BY <3>1 DEF Record
    <3>. QED BY <2>1, <3>1, <3>2 DEF BucketOf
  <2>3. Store(d, c) = UpdateMany(d, rows, new)
    BY <1>6 DEF Store, set_name_key
  <2>4. rows \subseteq d
    OBVIOUS
  <2>. HIDE DEF rows, new
  <2>. QED BY <2>2, <2>3, <2>4, UpdateElsewhere
<1>7. CASE c.type = "delete_key"
  BY <1>7 DEF Store, delete_key, BucketRows, Touched
<1>8. CASE c.type \in {"new_key", "new_bucket"}
  BY <1>8 DEF Store
<1>. QED BY <1>1, <1>2, <1>3, <1>4, <1>5, <1>6, <1>7, <1>8, ChangeFacts

\* Neither write of a change reaches a bucket the change does not name, for any
\* names, any depth of the keys and any changes.
THEOREM BucketsAreApart == Spec => Isolation
<1>. DEFINE Apart == \A b \in Names :
                        mailbox = <<>> \/ b \notin Touched(change) =>
                           /\ BucketTreeOf(tree', b) = BucketTreeOf(tree, b)
                           /\ BucketRows(db', b) = BucketRows(db, b)
<1>1. TypeOK /\ [Next]_vars => [Apart]_<<tree, db>>
  <2>. SUFFICES ASSUME TypeOK, [Next]_vars, ~UNCHANGED <<tree, db>>
                PROVE  Apart
    OBVIOUS
  <2>1. ChangeLocalStorage \/ ChangeTree
    BY DEF Next, Handle, Tell, StorageFails, Panic, vars
  <2>2. mailbox # <<>> /\ change \in Change
    BY <2>1, ChangesAssumption DEF ChangeLocalStorage, ChangeTree, TypeOK, change
  <2>3. ASSUME NEW b \in Names, b \notin Touched(change)
        PROVE  /\ BucketTreeOf(tree', b) = BucketTreeOf(tree, b)
               /\ BucketRows(db', b) = BucketRows(db, b)
    <3>1. b \in Names \ Touched(change)
      BY <2>3
    <3>2. CASE ChangeLocalStorage
      <4>1. tree' = tree /\ db' \in Store(db, change)
        BY <3>2 DEF ChangeLocalStorage
      <4>2. BucketRows(db', b) = BucketRows(db, b)
        BY <2>2, <3>1, <4>1, StoreElsewhere DEF TypeOK
      <4>. QED BY <4>1, <4>2
    <3>3. CASE ChangeTree
      <4>1. tree' = Apply(tree, change) /\ db' = db
        BY <3>3 DEF ChangeTree
      <4>2. SameIn(tree, tree', b)
        BY <2>2, <3>1, <4>1, TreeElsewhere DEF TypeOK
      <4>. QED BY <4>1, <4>2, SameBucketTree
    <3>. QED BY <2>1, <3>2, <3>3
  <2>. QED BY <2>2, <2>3
<1>. QED BY <1>1, TypeInvariant, PTL DEF Spec, Isolation

-----------------------------------------------------------------------------
(***************************************************************************)
(* Objects: a tree has the object f of the entry p.                        *)
(***************************************************************************)
Has(t, p, f) == p \in DOMAIN t /\ Holds(t[p].objects, f)

LEMMA ObjectsFacts ==
    ASSUME NEW t
    PROVE  /\ \A p, f : <<p, f>> \in Objects(t) <=> Has(t, p, f)
           /\ \A x \in Objects(t) : x = <<x[1], x[2]>> /\ Has(t, x[1], x[2])
<1>1. ASSUME NEW p, NEW f, <<p, f>> \in Objects(t)
      PROVE  Has(t, p, f)
  BY <1>1 DEF Objects, Has, Holds
<1>2. ASSUME NEW p, NEW f, Has(t, p, f)
      PROVE  <<p, f>> \in Objects(t)
  <2>1. PICK i \in DOMAIN t[p].objects : t[p].objects[i] = f
    BY <1>2 DEF Has, Holds
  <2>2. <<p, f>> \in {<<p, t[p].objects[j]>> : j \in DOMAIN t[p].objects}
    BY <2>1
  <2>. QED BY <1>2, <2>2 DEF Objects, Has
<1>3. \A x \in Objects(t) : x = <<x[1], x[2]>>
  BY DEF Objects
<1>. QED BY <1>1, <1>2, <1>3

\* Every object of t is where it was in u, or goes along from p to new, where
\* there was nothing.
Kept(t, u, p, new) ==
    \A x \in Objects(t) :
       \/ x \in Objects(u)
       \/ /\ Under(p, x[1])
          /\ <<Rebase(x[1], p, new), x[2]>> \in Objects(u)
          /\ ~\E y \in Objects(t) : Under(new, y[1])

\* There is nothing below an entry that is not there.
LEMMA NothingBelow ==
    ASSUME NEW t, IsTree(t), NEW p \in Paths, p \notin DOMAIN t
    PROVE  \A q \in DOMAIN t : ~Under(p, q)
<1>. SUFFICES ASSUME NEW q \in DOMAIN t, Under(p, q) PROVE FALSE
  OBVIOUS
<1>. QED BY AncestorsThere

LEMMA NameKeyKeeps ==
    ASSUME NEW t, IsTree(t), NEW p \in Paths, Len(p) > 1, NEW to \in Names
    PROVE  Kept(t, TreeNameKey(t, p, to), p, Append(Parent(p), to))
<1>. DEFINE new == Append(Parent(p), to)
            u   == TreeNameKey(t, p, to)
<1>1. new \in Paths /\ Len(new) = Len(p)
  BY RenamedFacts
<1>2. u = IF Parent(p) \notin DOMAIN t \/ new \in DOMAIN t
          THEN t
          ELSE IF p \in DOMAIN t THEN MoveEntry(t, p, new) ELSE OrDefault(t, new)
  BY DEF TreeNameKey
<1>. SUFFICES Kept(t, u, p, new)
  OBVIOUS
<1>. HIDE DEF new, u
<1>3. CASE u = t
  BY <1>3 DEF Kept
<1>4. CASE new \notin DOMAIN t /\ u = OrDefault(t, new)
  <2>1. \A q \in DOMAIN t : q \in DOMAIN u /\ u[q] = t[q]
    BY <1>4 DEF OrDefault
  <2>2. \A q, f : Has(t, q, f) => Has(u, q, f)
    BY <2>1 DEF Has
  <2>3. ASSUME NEW x \in Objects(t) PROVE x \in Objects(u)
    <3>1. x = <<x[1], x[2]>> /\ Has(u, x[1], x[2])
      BY <2>2, ObjectsFacts
    <3>. QED BY <3>1, ObjectsFacts
  <2>. QED BY <2>3 DEF Kept
<1>5. CASE new \notin DOMAIN t /\ u = MoveEntry(t, p, new)
  <2>1. \A q \in DOMAIN t : ~Under(new, q)
    BY <1>1, <1>5, NothingBelow
  <2>2. /\ \A q \in DOMAIN t :
              ~Under(p, q) /\ ~Under(new, q) =>
                 q \in DOMAIN MoveEntry(t, p, new) /\ MoveEntry(t, p, new)[q] = t[q]
        /\ \A q \in DOMAIN t :
              Under(p, q) =>
                 /\ Rebase(q, p, new) \in DOMAIN MoveEntry(t, p, new)
                 /\ MoveEntry(t, p, new)[Rebase(q, p, new)] = t[q]
    BY <1>1, MoveFacts
  <2>3. /\ \A q \in DOMAIN t : ~Under(p, q) => q \in DOMAIN u /\ u[q] = t[q]
        /\ \A q \in DOMAIN t :
              Under(p, q) => Rebase(q, p, new) \in DOMAIN u /\ u[Rebase(q, p, new)] = t[q]
    BY <1>5, <2>1, <2>2
  <2>4. ASSUME NEW x \in Objects(t)
        PROVE  x \in Objects(u) \/ /\ Under(p, x[1])
                                   /\ <<Rebase(x[1], p, new), x[2]>> \in Objects(u)
    <3>1. x = <<x[1], x[2]>> /\ Has(t, x[1], x[2]) /\ x[1] \in DOMAIN t
      BY ObjectsFacts DEF Has
    <3>2. CASE ~Under(p, x[1])
      <4>1. Has(u, x[1], x[2])
        BY <2>3, <3>1, <3>2 DEF Has
      <4>. QED BY <3>1, <4>1, ObjectsFacts
    <3>3. CASE Under(p, x[1])
      <4>1. Has(u, Rebase(x[1], p, new), x[2])
        BY <2>3, <3>1, <3>3 DEF Has
      <4>. QED BY <3>3, <4>1, ObjectsFacts
    <3>. QED BY <3>2, <3>3
  <2>5. ~\E y \in Objects(t) : Under(new, y[1])
    <3>1. \A y \in Objects(t) : y[1] \in DOMAIN t
      BY ObjectsFacts DEF Has
    <3>. QED BY <2>1, <3>1
  <2>. QED BY <2>4, <2>5 DEF Kept
<1>. QED BY <1>2, <1>3, <1>4, <1>5

\* Renaming a key drops no object of the index, for any tree of any depth:
\* every object stays where it was or goes along with the key to a place at
\* which there was nothing.
THEOREM RenamedKeyKeepsObjects == Spec => NameKeyKeepsObjects
<1>1. ASSUME TypeOK, [Next]_vars, ~UNCHANGED tree, pc = "tree", change.type = "name_key"
      PROVE  Kept(tree, tree', change.at, Append(Parent(change.at), change.to))
  <2>1. tree' = Apply(tree, change) /\ mailbox # <<>>
    BY <1>1 DEF Next, Handle, Tell, ChangeLocalStorage, StorageFails, ChangeTree, Panic,
                vars, TypeOK
  <2>2. change \in Change /\ IsTree(tree)
    BY <1>1, <2>1, ChangesAssumption DEF TypeOK, change
  <2>3. change.at \in Paths /\ Len(change.at) > 1 /\ change.to \in Names
    BY <1>1, <2>2, ChangeFacts
  <2>4. tree' = TreeNameKey(tree, change.at, change.to)
    BY <1>1, <2>1 DEF Apply
  <2>. QED BY <2>2, <2>3, <2>4, NameKeyKeeps
<1>2. TypeOK /\ [Next]_vars =>
         [pc = "tree" /\ change.type = "name_key" =>
             LET new == Append(Parent(change.at), change.to)
             IN  \A x \in Objects(tree) :
                    \/ x \in Objects(tree')
                    \/ /\ Under(change.at, x[1])
                       /\ <<Rebase(x[1], change.at, new), x[2]>> \in Objects(tree')
                       /\ ~\E y \in Objects(tree) : Under(new, y[1])]_tree
  BY <1>1 DEF Kept
<1>. QED BY <1>2, TypeInvariant, PTL DEF Spec, NameKeyKeepsObjects

-----------------------------------------------------------------------------
(***************************************************************************)
(* Lists of file names.                                                    *)
(***************************************************************************)
\* push adds one name to the list.
LEMMA AppendHolds ==
    ASSUME NEW s \in Seq(FileNames), NEW f \in FileNames
    PROVE  /\ \A g : Holds(Append(s, f), g) <=> Holds(s, g) \/ g = f
           /\ NoDuplicates(s) /\ ~Holds(s, f) => NoDuplicates(Append(s, f))
<1>. DEFINE u == Append(s, f)
<1>1. /\ u \in Seq(FileNames) /\ Len(u) = Len(s) + 1
      /\ \A i \in 1 .. Len(s) : u[i] = s[i]
      /\ u[Len(s) + 1] = f
  BY AppendProperties
<1>. HIDE DEF u
<1>2. /\ Len(s) \in Nat /\ DOMAIN s = 1 .. Len(s) /\ DOMAIN u = 1 .. Len(s) + 1
      /\ \A i \in DOMAIN u : i \in DOMAIN s \/ i = Len(s) + 1
      /\ Len(s) + 1 \in DOMAIN u /\ Len(s) + 1 \notin DOMAIN s
      /\ DOMAIN s \subseteq DOMAIN u
  BY <1>1
<1>3. \A g : Holds(u, g) <=> Holds(s, g) \/ g = f
  BY <1>1, <1>2 DEF Holds
<1>4. ASSUME NoDuplicates(s), ~Holds(s, f) PROVE NoDuplicates(u)
  BY <1>1, <1>2, <1>4 DEF NoDuplicates, Holds
<1>. QED BY <1>3, <1>4 DEF u

\* swap_remove takes one name out of the list.
LEMMA SwapRemoveHolds ==
    ASSUME NEW s \in Seq(FileNames), NEW i \in DOMAIN s, NoDuplicates(s)
    PROVE  /\ NoDuplicates(SwapRemove(s, i))
           /\ \A g : Holds(SwapRemove(s, i), g) <=> Holds(s, g) /\ g # s[i]
<1>. DEFINE u == SwapRemove(s, i)
            n == Len(s)
<1>1. /\ DOMAIN u = 1 .. n - 1
      /\ \A j \in 1 .. n - 1 : u[j] = IF j = i THEN s[n] ELSE s[j]
  BY SwapRemoveFacts
<1>2. n \in Nat /\ DOMAIN s = 1 .. n /\ i \in 1 .. n /\ n >= 1 /\ n \in DOMAIN s
  OBVIOUS
<1>. HIDE DEF u, n
<1>3. \A j \in DOMAIN u : j \in DOMAIN s /\ j # n
  BY <1>1, <1>2
<1>4. NoDuplicates(u)
  <2>1. ASSUME NEW j \in DOMAIN u, NEW k \in DOMAIN u, u[j] = u[k] PROVE j = k
    BY <1>1, <1>2, <1>3, <2>1 DEF NoDuplicates
  <2>. QED BY <2>1 DEF NoDuplicates
<1>5. ASSUME NEW g, Holds(u, g) PROVE Holds(s, g) /\ g # s[i]
  <2>1. PICK j \in DOMAIN u : u[j] = g
    BY <1>5 DEF Holds
  <2>2. CASE j = i
    BY <1>1, <1>2, <1>3, <2>1, <2>2 DEF Holds, NoDuplicates
  <2>3. CASE j # i
    BY <1>1, <1>2, <1>3, <2>1, <2>3 DEF Holds, NoDuplicates
  <2>. QED BY <2>2, <2>3
<1>6. ASSUME NEW g, Holds(s, g), g # s[i] PROVE Holds(u, g)
  <2>1. PICK j \in DOMAIN s : s[j] = g
    BY <1>6 DEF Holds
  <2>2. j # i
    BY <1>6, <2>1
  <2>3. CASE j = n
    <3>1. i \in DOMAIN u /\ u[i] = g
      BY <1>1, <1>2, <2>1, <2>2, <2>3
    <3>. QED BY <3>1 DEF Holds
  <2>4. CASE j # n
    <3>1. j \in DOMAIN u /\ u[j] = g
      BY <1>1, <1>2, <2>1, <2>2, <2>4
    <3>. QED BY <3>1 DEF Holds
  <2>. QED BY <2>3, <2>4
<1>. QED BY <1>4, <1>5, <1>6 DEF u

-----------------------------------------------------------------------------
(***************************************************************************)
(* Agreement, object by object.                                            *)
(***************************************************************************)
RecordAt(d, p, f) == \E r \in d : r.at = p /\ r.file_name = f

NoneTwice(t) == \A p \in DOMAIN t : NoDuplicates(t[p].objects)

Same(t, d) == \A p \in Paths : \A f \in FileNames : Has(t, p, f) <=> RecordAt(d, p, f)

\* What a tree has is a file name at a path.
LEMMA HasFacts ==
    ASSUME NEW t, IsTree(t)
    PROVE  \A p, f : Has(t, p, f) => p \in Paths /\ f \in FileNames
<1>. SUFFICES ASSUME NEW p, NEW f, Has(t, p, f) PROVE p \in Paths /\ f \in FileNames
  OBVIOUS
<1>1. p \in DOMAIN t /\ p \in Paths /\ t[p].objects \in Seq(FileNames)
  BY TreeFacts DEF Has
<1>2. PICK i \in DOMAIN t[p].objects : t[p].objects[i] = f
  BY DEF Has, Holds
<1>. QED BY <1>1, <1>2

\* What a tree has is one of its objects.
LEMMA HadIsObject ==
    ASSUME NEW t
    PROVE  \A q, f : Has(t, q, f) => \E x \in Objects(t) : x[1] = q
<1>. SUFFICES ASSUME NEW q, NEW f, Has(t, q, f) PROVE \E x \in Objects(t) : x[1] = q
  OBVIOUS
<1>1. <<q, f>> \in Objects(t)
  BY ObjectsFacts
<1>2. <<q, f>>[1] = q
  OBVIOUS
<1>. QED BY <1>1, <1>2

\* Agree, for each place and file name.
LEMMA AgreeFacts ==
    ASSUME NEW t, IsTree(t), NEW d \in SUBSET Record
    PROVE  Agree(t, d) <=> NoneTwice(t) /\ Same(t, d)
<1>. DEFINE X == {<<r.at, r.file_name>> : r \in d}
<1>1. \A p, f : <<p, f>> \in X <=> RecordAt(d, p, f)
  BY DEF RecordAt
<1>2. \A x \in X : x = <<x[1], x[2]>>
  OBVIOUS
<1>3. \A p, f : RecordAt(d, p, f) => p \in Paths /\ f \in FileNames
  BY RecordFacts DEF RecordAt
<1>4. Agree(t, d) <=> NoneTwice(t) /\ Objects(t) = X
  BY DEF Agree, NoneTwice
<1>. HIDE DEF X
<1>5. ASSUME Objects(t) = X PROVE Same(t, d)
  BY <1>1, <1>5, ObjectsFacts DEF Same
<1>6. ASSUME Same(t, d) PROVE Objects(t) = X
  <2>1. \A p, f : Has(t, p, f) <=> RecordAt(d, p, f)
    BY <1>3, <1>6, HasFacts DEF Same
  <2>2. \A p, f : <<p, f>> \in Objects(t) <=> <<p, f>> \in X
    BY <1>1, <2>1, ObjectsFacts
  <2>3. \A x \in Objects(t) : x \in X
    <3>. SUFFICES ASSUME NEW x \in Objects(t) PROVE x \in X
      OBVIOUS
    <3>1. x = <<x[1], x[2]>>
      BY ObjectsFacts
    <3>. QED BY <2>2, <3>1
  <2>4. \A x \in X : x \in Objects(t)
    <3>. SUFFICES ASSUME NEW x \in X PROVE x \in Objects(t)
      OBVIOUS
    <3>1. x = <<x[1], x[2]>>
      BY <1>2
    <3>. QED BY <2>2, <3>1
  <2>. QED BY <2>3, <2>4
<1>. QED BY <1>4, <1>5, <1>6

-----------------------------------------------------------------------------
(***************************************************************************)
(* Changes of one object.                                                  *)
(***************************************************************************)
\* What a tree has when one entry's list is another.
LEMMA ListChanged ==
    ASSUME NEW t, IsTree(t), NEW p \in DOMAIN t, NEW s \in Seq(FileNames)
    PROVE  /\ \A q, g : Has(WithObjects(t, p, s), q, g)
                 <=> (q = p /\ Holds(s, g)) \/ (q # p /\ Has(t, q, g))
           /\ NoneTwice(t) /\ NoDuplicates(s) => NoneTwice(WithObjects(t, p, s))
<1>. DEFINE u == WithObjects(t, p, s)
<1>1. /\ DOMAIN u = DOMAIN t
      /\ u[p].objects = s
      /\ \A q \in DOMAIN t : q # p => u[q] = t[q]
  BY SetObjectsFacts
<1>. HIDE DEF u
<1>2. \A q, g : Has(u, q, g) <=> (q = p /\ Holds(s, g)) \/ (q # p /\ Has(t, q, g))
  BY <1>1 DEF Has
<1>3. NoneTwice(t) /\ NoDuplicates(s) => NoneTwice(u)
  BY <1>1 DEF NoneTwice
<1>. QED BY <1>2, <1>3 DEF u

\* A new object gets its record; its entry is there and does not list it yet.
LEMMA NewObjectAgrees ==
    ASSUME NEW t, IsTree(t), NEW d \in SUBSET Record, Agree(t, d),
           NEW p \in DOMAIN t, NEW f \in FileNames, ~Holds(t[p].objects, f)
    PROVE  \A e \in new_object(d, p, f) : Agree(TreeNewObject(t, p, f), e)
<1>. DEFINE r == [at |-> p, file_name |-> f, name |-> NoName]
            s == Append(t[p].objects, f)
            u == TreeNewObject(t, p, f)
            e == d \cup {r}
<1>1. p \in Paths /\ t[p].objects \in Seq(FileNames) /\ s \in Seq(FileNames)
  BY TreeFacts
<1>2. r \in Record /\ r.at = p /\ r.file_name = f
  BY <1>1 DEF Record
<1>3. NoneTwice(t) /\ Same(t, d)
  BY AgreeFacts
<1>4. ~RecordAt(d, p, f)
  BY <1>1, <1>3 DEF Same, Has
<1>5. new_object(d, p, f) = {e}
  BY <1>2, <1>4 DEF new_object, SameIndex, RecordAt
<1>6. u = WithObjects(t, p, s)
  BY DEF TreeNewObject, WithObjects
<1>7. /\ \A q, g : Has(u, q, g) <=> (q = p /\ Holds(s, g)) \/ (q # p /\ Has(t, q, g))
      /\ NoneTwice(t) /\ NoDuplicates(s) => NoneTwice(u)
  <2>. HIDE DEF u, s
  <2>. QED BY <1>1, <1>6, ListChanged
<1>8. /\ \A g : Holds(s, g) <=> Holds(t[p].objects, g) \/ g = f
      /\ NoDuplicates(t[p].objects) => NoDuplicates(s)
  BY <1>1, AppendHolds
<1>9. IsTree(u)
  BY <1>1, ObjectChangesKeepTree
<1>10. \A q, g : RecordAt(e, q, g) <=> RecordAt(d, q, g) \/ (q = p /\ g = f)
  <2>. HIDE DEF r
  <2>. QED BY <1>2 DEF RecordAt
<1>. SUFFICES Agree(u, e)
  BY <1>5
<1>11. e \in SUBSET Record
  BY <1>2
<1>. HIDE DEF u, e, s, r
<1>12. \A q, g : Has(u, q, g) <=> Has(t, q, g) \/ (q = p /\ g = f)
  BY <1>7, <1>8 DEF Has
<1>13. Same(u, e)
  BY <1>3, <1>10, <1>12 DEF Same
<1>14. NoneTwice(u)
  BY <1>3, <1>7, <1>8 DEF NoneTwice
<1>. QED BY <1>9, <1>11, <1>13, <1>14, AgreeFacts

\* A deleted object goes with its record, whether the entry lists it or not.
LEMMA DeletedObjectAgrees ==
    ASSUME NEW t, IsTree(t), NEW d \in SUBSET Record, Agree(t, d),
           NEW p \in Paths, NEW f \in FileNames
    PROVE  \A e \in delete_object(d, p, f) : Agree(TreeDeleteObject(t, p, f), e)
<1>. DEFINE u == TreeDeleteObject(t, p, f)
            e == {r \in d : ~(r.at = p /\ r.file_name = f)}
<1>1. NoneTwice(t) /\ Same(t, d)
  BY AgreeFacts
<1>2. IsTree(u)
  BY ObjectChangesKeepTree
<1>3. \A q, g : RecordAt(e, q, g) <=> RecordAt(d, q, g) /\ ~(q = p /\ g = f)
  BY DEF RecordAt
<1>4. NoneTwice(u) /\ \A q, g : Has(u, q, g) <=> Has(t, q, g) /\ ~(q = p /\ g = f)
  <2>1. CASE ~Has(t, p, f)
    <3>1. u = t
      BY <2>1 DEF TreeDeleteObject, Has
    <3>. QED BY <1>1, <2>1, <3>1
  <2>2. CASE Has(t, p, f)
    <3>. DEFINE s == t[p].objects
                i == IndexOf(s, f)
    <3>1. p \in DOMAIN t /\ Holds(s, f) /\ s \in Seq(FileNames) /\ NoDuplicates(s)
      BY <1>1, <2>2, TreeFacts DEF Has, NoneTwice
    <3>2. i \in DOMAIN s /\ s[i] = f
      BY <3>1, IndexFacts
    <3>3. u = WithObjects(t, p, SwapRemove(s, i))
      BY <3>1 DEF TreeDeleteObject, WithObjects
    <3>4. \A q : Has(t, p, q) <=> Holds(s, q)
      BY <3>1 DEF Has
    <3>. HIDE DEF u, s, i
    <3>5. SwapRemove(s, i) \in Seq(FileNames)
      BY <3>1, <3>2, SwapRemoveFacts
    <3>6. /\ NoDuplicates(SwapRemove(s, i))
          /\ \A g : Holds(SwapRemove(s, i), g) <=> Holds(s, g) /\ g # s[i]
      BY <3>1, <3>2, SwapRemoveHolds
    <3>7. /\ \A q, g : Has(u, q, g)
                <=> (q = p /\ Holds(SwapRemove(s, i), g)) \/ (q # p /\ Has(t, q, g))
          /\ NoneTwice(u)
      BY <1>1, <3>1, <3>3, <3>5, <3>6, ListChanged
    <3>. QED BY <3>2, <3>4, <3>6, <3>7
  <2>. QED BY <2>1, <2>2
<1>. SUFFICES Agree(u, e)
  BY DEF delete_object
<1>5. e \in SUBSET Record
  OBVIOUS
<1>. HIDE DEF u, e
<1>6. Same(u, e)
  BY <1>1, <1>3, <1>4 DEF Same
<1>. QED BY <1>2, <1>4, <1>5, <1>6, AgreeFacts

\* set_name changes the name in a record and neither its place nor its file, and
\* the tree does not change when the old name is the new one or is not listed.
LEMMA NamedObjectAgrees ==
    ASSUME NEW t, IsTree(t), NEW d \in SUBSET Record, Agree(t, d), NEW p \in Paths,
           NEW f \in FileNames, NEW g \in FileNames, f = g \/ ~Has(t, p, f)
    PROVE  \A e \in set_name(d, p, f, g) : Agree(TreeNameObject(t, p, f, g), e)
<1>. DEFINE u == TreeNameObject(t, p, f, g)
            e == {Named(r, p, f, g) : r \in d}
<1>1. NoneTwice(t) /\ Same(t, d)
  BY AgreeFacts
<1>2. IsTree(u)
  BY ObjectChangesKeepTree
<1>3. \A r \in d : /\ Named(r, p, f, g) \in Record
                   /\ Named(r, p, f, g).at = r.at
                   /\ Named(r, p, f, g).file_name = r.file_name
  BY NamedFacts
<1>4. \A q, h : RecordAt(e, q, h) <=> RecordAt(d, q, h)
  BY <1>3 DEF RecordAt
<1>5. NoneTwice(u) /\ \A q, h : Has(u, q, h) <=> Has(t, q, h)
  <2>1. CASE ~Has(t, p, f)
    <3>1. u = t
      BY <2>1 DEF TreeNameObject, Has
    <3>. QED BY <1>1, <3>1
  <2>2. CASE Has(t, p, f)
    <3>. DEFINE s == t[p].objects
                i == IndexOf(s, f)
                v == [s EXCEPT ![i] = g]
    <3>1. p \in DOMAIN t /\ Holds(s, f) /\ s \in Seq(FileNames) /\ NoDuplicates(s) /\ f = g
      BY <1>1, <2>2, TreeFacts DEF Has, NoneTwice
    <3>2. i \in DOMAIN s /\ s[i] = f
      BY <3>1, IndexFacts
    <3>3. u = WithObjects(t, p, v)
      BY <3>1 DEF TreeNameObject, WithObjects
    <3>4. \A q : Has(t, p, q) <=> Holds(s, q)
      BY <3>1 DEF Has
    <3>. HIDE DEF u, s, i
    <3>5. v = s
      BY <3>1, <3>2
    <3>. HIDE DEF v
    <3>6. /\ \A q, h : Has(u, q, h) <=> (q = p /\ Holds(s, h)) \/ (q # p /\ Has(t, q, h))
          /\ NoneTwice(u)
      BY <1>1, <3>1, <3>3, <3>5, ListChanged
    <3>. QED BY <3>4, <3>6
  <2>. QED BY <2>1, <2>2
<1>6. set_name(d, p, f, g) = {e}
  BY DEF set_name, Named
<1>. SUFFICES Agree(u, e)
  BY <1>6
<1>7. e \in SUBSET Record
  BY <1>3
<1>. HIDE DEF u, e
<1>8. Same(u, e)
  BY <1>1, <1>4, <1>5 DEF Same
<1>. QED BY <1>2, <1>5, <1>7, <1>8, AgreeFacts

-----------------------------------------------------------------------------
(***************************************************************************)
(* Changes of entries.                                                     *)
(***************************************************************************)
\* An entry that is added has no object.
LEMMA NewEntryAgrees ==
    ASSUME NEW t, IsTree(t), NEW d \in SUBSET Record, Agree(t, d), NEW p \in Paths,
           IsTree(OrDefault(t, p))
    PROVE  Agree(OrDefault(t, p), d)
<1>. DEFINE u == OrDefault(t, p)
<1>1. NoneTwice(t) /\ Same(t, d)
  BY AgreeFacts
<1>2. /\ DOMAIN u = DOMAIN t \cup {p}
      /\ \A q \in DOMAIN t : u[q] = t[q]
      /\ p \notin DOMAIN t => u[p] = EmptyEntry
  BY DEF OrDefault
<1>3. NoDuplicates(EmptyEntry.objects) /\ \A f : ~Holds(EmptyEntry.objects, f)
  BY EmptyEntryType DEF NoDuplicates, Holds
<1>. HIDE DEF u
<1>4. \A q, f : Has(u, q, f) <=> Has(t, q, f)
  BY <1>2, <1>3 DEF Has
<1>5. NoneTwice(u)
  BY <1>1, <1>2, <1>3 DEF NoneTwice
<1>6. Same(u, d)
  BY <1>1, <1>4 DEF Same
<1>7. IsTree(u)
  BY DEF u
<1>8. Agree(u, d)
  BY <1>5, <1>6, <1>7, AgreeFacts
<1>. QED BY <1>8 DEF u

\* What is left of the objects when an entry goes.
LEMMA RemovedAgrees ==
    ASSUME NEW t, IsTree(t), NEW d \in SUBSET Record, Agree(t, d), NEW p \in Paths,
           NEW e \in SUBSET d,
           \A r \in d : r \in e <=> ~Under(p, r.at)
    PROVE  Agree(RemoveEntry(t, p), e)
<1>. DEFINE u == RemoveEntry(t, p)
<1>1. NoneTwice(t) /\ Same(t, d)
  BY AgreeFacts
<1>2. /\ DOMAIN u = {q \in DOMAIN t : ~Under(p, q)}
      /\ \A q \in DOMAIN u : u[q] = t[q]
  BY RemoveFacts
<1>3. IsTree(u)
  BY RemoveIsTree
<1>. HIDE DEF u
<1>4. \A q, f : Has(u, q, f) <=> Has(t, q, f) /\ ~Under(p, q)
  BY <1>2 DEF Has
<1>5. \A q, f : RecordAt(e, q, f) <=> RecordAt(d, q, f) /\ ~Under(p, q)
  BY DEF RecordAt
<1>6. NoneTwice(u)
  BY <1>1, <1>2 DEF NoneTwice
<1>7. Same(u, e)
  BY <1>1, <1>4, <1>5 DEF Same
<1>8. Agree(u, e)
  BY <1>3, <1>6, <1>7, AgreeFacts
<1>. QED BY <1>8 DEF u

\* The place the entry from goes to has no objects but those of from.
Vacant(t, from, to) == \A q, f : Has(t, q, f) /\ Under(to, q) => Under(from, q)

\* The records e are the records d with those below from moved to to.
Moved(d, e, from, to) ==
    \A q, f : RecordAt(e, q, f) <=>
       \/ RecordAt(d, q, f) /\ ~Under(from, q)
       \/ \E r \in Paths : /\ Under(from, r) /\ q = Rebase(r, from, to)
                           /\ RecordAt(d, r, f)

\* What the objects are when an entry has gone elsewhere.
LEMMA MovedAgrees ==
    ASSUME NEW t, IsTree(t), NEW d \in SUBSET Record, Agree(t, d),
           NEW from \in DOMAIN t, NEW to \in Paths, Len(from) = Len(to),
           \A i \in 1 .. Len(from) - 1 : from[i] = to[i],
           Vacant(t, from, to),
           NEW e \in SUBSET Record, Moved(d, e, from, to)
    PROVE  Agree(MoveEntry(t, from, to), e)
<1>. DEFINE u == MoveEntry(t, from, to)
<1>1. NoneTwice(t) /\ Same(t, d)
  BY AgreeFacts
<1>2. from \in Paths
  BY TreeFacts
<1>3. /\ \A q \in DOMAIN t :
            ~Under(from, q) /\ ~Under(to, q) => q \in DOMAIN u /\ u[q] = t[q]
      /\ \A q \in DOMAIN t :
            Under(from, q) =>
               Rebase(q, from, to) \in DOMAIN u /\ u[Rebase(q, from, to)] = t[q]
      /\ \A r \in DOMAIN u :
            \/ r \in DOMAIN t /\ ~Under(from, r) /\ ~Under(to, r)
            \/ \E q \in DOMAIN t : Under(from, q) /\ r = Rebase(q, from, to)
  BY <1>2, MoveFacts
<1>4. IsTree(u)
  BY MoveIsTree
<1>. HIDE DEF u
<1>5. \A r, f : RecordAt(d, r, f) <=> Has(t, r, f)
  <2>1. \A r, f : RecordAt(d, r, f) => r \in Paths /\ f \in FileNames
    BY RecordFacts DEF RecordAt
  <2>. QED BY <1>1, <2>1, HasFacts DEF Same
<1>6. NoneTwice(u)
  <2>. SUFFICES ASSUME NEW r \in DOMAIN u PROVE NoDuplicates(u[r].objects)
    BY DEF NoneTwice
  <2>1. \E q \in DOMAIN t : u[r] = t[q]
    BY <1>3
  <2>. QED BY <1>1, <2>1 DEF NoneTwice
<1>7. ASSUME NEW q, NEW f, Has(u, q, f) PROVE RecordAt(e, q, f)
  <2>1. CASE q \in DOMAIN t /\ ~Under(from, q) /\ ~Under(to, q)
    <3>1. Has(t, q, f)
      BY <1>3, <1>7, <2>1 DEF Has
    <3>. QED BY <1>5, <2>1, <3>1 DEF Moved
  <2>2. CASE \E r \in DOMAIN t : Under(from, r) /\ q = Rebase(r, from, to)
    <3>1. PICK r \in DOMAIN t : Under(from, r) /\ q = Rebase(r, from, to)
      BY <2>2
    <3>2. Has(t, r, f) /\ r \in Paths
      BY <1>3, <1>7, <3>1, TreeFacts DEF Has
    <3>. QED BY <1>5, <3>1, <3>2 DEF Moved
  <2>. QED BY <1>3, <1>7, <2>1, <2>2 DEF Has
<1>8. ASSUME NEW q, NEW f, RecordAt(e, q, f) PROVE Has(u, q, f)
  <2>1. CASE RecordAt(d, q, f) /\ ~Under(from, q)
    <3>1. Has(t, q, f) /\ ~Under(to, q)
      BY <1>5, <2>1 DEF Vacant
    <3>. QED BY <1>3, <2>1, <3>1 DEF Has
  <2>2. CASE \E r \in Paths : /\ Under(from, r) /\ q = Rebase(r, from, to)
                              /\ RecordAt(d, r, f)
    <3>1. PICK r \in Paths : /\ Under(from, r) /\ q = Rebase(r, from, to)
                             /\ RecordAt(d, r, f)
      BY <2>2
    <3>2. Has(t, r, f)
      BY <1>5, <3>1
    <3>. QED BY <1>3, <3>1, <3>2 DEF Has
  <2>. QED BY <1>8, <2>1, <2>2 DEF Moved
<1>9. Same(u, e)
  BY <1>7, <1>8 DEF Same
<1>10. Agree(u, e)
  BY <1>4, <1>6, <1>9, AgreeFacts
<1>. QED BY <1>10 DEF u

\* The filter on the bucket selects what is below the bucket.
LEMMA BucketAbove ==
    ASSUME NEW b \in Names, NEW q \in Paths
    PROVE  Under(<<b>>, q) <=> BucketOf(q) = b
<1>1. <<b>> \in Paths /\ Len(<<b>>) = 1 /\ <<b>>[1] = b /\ Len(q) \in Nat /\ Len(q) >= 1
  BY BucketFacts, PathFacts
<1>. QED BY <1>1, UnderFacts DEF BucketOf

\* delete_bucket.
LEMMA DeletedBucketAgrees ==
    ASSUME NEW t, IsTree(t), NEW d \in SUBSET Record, Agree(t, d), NEW b \in Names
    PROVE  \A e \in delete_bucket(d, b) : Agree(TreeDeleteBucket(t, b), e)
<1>. DEFINE e == {r \in d : BucketOf(r.at) # b}
<1>1. <<b>> \in Paths
  BY BucketFacts
<1>2. \A r \in d : r \in e <=> ~Under(<<b>>, r.at)
  BY RecordFacts, BucketAbove
<1>3. e \in SUBSET d
  OBVIOUS
<1>. SUFFICES Agree(RemoveEntry(t, <<b>>), e)
  BY DEF delete_bucket, TreeDeleteBucket
<1>. HIDE DEF e
<1>. QED BY <1>1, <1>2, <1>3, RemovedAgrees

\* delete_key, when nothing below the key has an object.
LEMMA DeletedKeyAgrees ==
    ASSUME NEW t, IsTree(t), NEW d \in SUBSET Record, Agree(t, d),
           NEW p \in Paths, Len(p) > 1,
           \A q, f : Has(t, q, f) /\ Under(p, q) => q = p
    PROVE  \A e \in delete_key(d, p) : Agree(TreeDeleteKey(t, p), e)
<1>. DEFINE e == {r \in d : r.at # p}
<1>1. NoneTwice(t) /\ Same(t, d)
  BY AgreeFacts
<1>2. \A r \in d : RecordAt(d, r.at, r.file_name) /\ r.at \in Paths /\ r.file_name \in FileNames
  BY RecordFacts DEF RecordAt
<1>3. \A r \in d : Has(t, r.at, r.file_name)
  BY <1>1, <1>2 DEF Same
<1>4. e \in SUBSET d
  OBVIOUS
<1>. SUFFICES Agree(TreeDeleteKey(t, p), e)
  BY DEF delete_key
<1>5. CASE Parent(p) \in DOMAIN t
  <2>1. \A r \in d : r \in e <=> ~Under(p, r.at)
    BY <1>3, UnderSelf
  <2>. HIDE DEF e
  <2>. QED BY <1>4, <1>5, <2>1, RemovedAgrees DEF TreeDeleteKey
<1>6. CASE Parent(p) \notin DOMAIN t
  <2>1. p \notin DOMAIN t
    BY <1>6, ParentThere
  <2>2. e = d
    BY <1>3, <2>1 DEF Has
  <2>. QED BY <1>6, <2>2 DEF TreeDeleteKey
<1>. QED BY <1>5, <1>6

-----------------------------------------------------------------------------
(***************************************************************************)
(* Renames of buckets and keys.                                            *)
(***************************************************************************)
\* update_many goes through all rows when none of them collides.
LEMMA AllUpdated ==
    ASSUME NEW d, NEW R, R \subseteq d, NEW new,
           \A r \in R : \A s \in d : s # r => ~SameIndex(new[r], s)
    PROVE  \A e \in UpdateMany(d, R, new) : e = Updated(d, new, R)
<1>1. \A e \in UpdateMany(d, R, new) : \E U \in SUBSET R :
         /\ e = Updated(d, new, U)
         /\ \A r \in U : \A s \in d : s # r => ~SameIndex(new[r], s)
         /\ (\A r \in R : \A s \in d : s # r => ~SameIndex(new[r], s)) => U = R
  BY UpdateManyFacts
<1>. QED BY <1>1

LEMMA UpdatedRecords ==
    ASSUME NEW d, NEW R, NEW new
    PROVE  \A q, f : RecordAt(Updated(d, new, R), q, f) <=>
              \/ \E r \in d : r \notin R /\ r.at = q /\ r.file_name = f
              \/ \E r \in R : new[r].at = q /\ new[r].file_name = f
BY DEF RecordAt, Updated

\* Every record is that of an object.
LEMMA RecordIsHad ==
    ASSUME NEW t, IsTree(t), NEW d \in SUBSET Record, Agree(t, d)
    PROVE  /\ \A r \in d : r.at \in Paths /\ Has(t, r.at, r.file_name)
           /\ \A q, f : RecordAt(d, q, f) <=> Has(t, q, f)
<1>1. Same(t, d)
  BY AgreeFacts
<1>2. \A r \in d : r.at \in Paths /\ r.file_name \in FileNames /\ RecordAt(d, r.at, r.file_name)
  BY RecordFacts DEF RecordAt
<1>3. \A r, f : RecordAt(d, r, f) => r \in Paths /\ f \in FileNames
  BY RecordFacts DEF RecordAt
<1>. QED BY <1>1, <1>2, <1>3, HasFacts DEF Same

\* A bucket's rename does the same to the key of a record as to a path.
LEMMA BucketRebased ==
    ASSUME NEW q \in Paths, NEW b \in Names
    PROVE  /\ Rebase(q, <<BucketOf(q)>>, <<b>>) = <<b>> \o Tail(q)
           /\ b = BucketOf(q) => <<b>> \o Tail(q) = q
<1>. DEFINE x == <<b>> \o Tail(q)
            y == Rebase(q, <<BucketOf(q)>>, <<b>>)
            from == <<BucketOf(q)>>
            to == <<b>>
<1>1. /\ x \in Paths /\ Len(x) = Len(q) /\ x[1] = b
      /\ \A i \in 2 .. Len(q) : x[i] = q[i]
  BY BucketMoved
<1>2. BucketOf(q) \in Names
  BY PathFacts DEF BucketOf
<1>3. /\ from \in Paths /\ Len(from) = 1 /\ to \in Paths /\ Len(to) = 1 /\ to[1] = b
      /\ Under(from, q) /\ Len(from) = Len(to)
  BY <1>2, BucketFacts, BucketAbove
<1>4. /\ y \in Paths /\ Len(y) = Len(q)
      /\ \A i \in 1 .. Len(to) : y[i] = to[i]
      /\ \A i \in Len(to) + 1 .. Len(q) : y[i] = q[i]
  <2>. HIDE DEF from, to
  <2>1. y = Rebase(q, from, to)
    BY DEF from, to
  <2>. HIDE DEF y
  <2>2. /\ Rebase(q, from, to) \in Paths
        /\ Len(Rebase(q, from, to)) = Len(q)
        /\ \A i \in 1 .. Len(to) : Rebase(q, from, to)[i] = to[i]
        /\ \A i \in Len(to) + 1 .. Len(q) : Rebase(q, from, to)[i] = q[i]
        /\ Under(to, Rebase(q, from, to))
    BY <1>3, RebaseFacts
  <2>. QED BY <2>1, <2>2
<1>5. Len(q) \in Nat /\ Len(q) >= 1
  BY PathFacts
<1>. HIDE DEF x, y, from, to
<1>6. y[1] = b /\ \A i \in 2 .. Len(q) : y[i] = q[i]
  BY <1>3, <1>4
<1>7. \A i \in 1 .. Len(q) : i = 1 \/ i \in 2 .. Len(q)
  BY <1>5
<1>8. y = x
  <2>1. \A i \in 1 .. Len(y) : y[i] = x[i]
    BY <1>1, <1>4, <1>6, <1>7
  <2>. QED BY <1>1, <1>4, <2>1, PathFacts, SamePath
<1>9. b = BucketOf(q) => x = q
  <2>. SUFFICES ASSUME b = BucketOf(q) PROVE x = q
    OBVIOUS
  <2>1. \A i \in 1 .. Len(x) : x[i] = q[i]
    BY <1>1, <1>7 DEF BucketOf
  <2>. QED BY <1>1, <2>1, PathFacts, SamePath
<1>. QED BY <1>8, <1>9 DEF x, y, from, to

\* A bucket that is renamed takes its records along, unless it replaces one that
\* has objects: nothing can collide.
LEMMA NamedBucketAgrees ==
    ASSUME NEW t, IsTree(t), NEW d \in SUBSET Record, UniqueIndex(d), Agree(t, d),
           NEW from \in Names, NEW to \in Names,
           \/ from = to
           \/ <<from>> \notin DOMAIN t
           \/ \A q, f : Has(t, q, f) => BucketOf(q) # to
    PROVE  \A e \in set_name_bucket(d, from, to) : Agree(TreeNameBucket(t, from, to), e)
<1>. DEFINE rows == {r \in d : BucketOf(r.at) = from}
            new  == [r \in rows |-> [r EXCEPT !.at = <<to>> \o Tail(@)]]
<1>1. /\ \A r \in d : r.at \in Paths /\ Has(t, r.at, r.file_name)
      /\ \A q, f : RecordAt(d, q, f) <=> Has(t, q, f)
  BY RecordIsHad
<1>2. <<from>> \in Paths /\ <<to>> \in Paths /\ Len(<<from>>) = 1 /\ Len(<<to>>) = 1
  BY BucketFacts
<1>3. ASSUME NEW r \in rows
      PROVE  /\ r \in d /\ r.at \in Paths /\ BucketOf(r.at) = from
             /\ new[r] \in Record /\ new[r].file_name = r.file_name
             /\ new[r].at = <<to>> \o Tail(r.at)
             /\ BucketOf(new[r].at) = to
             /\ new[r].at = Rebase(r.at, <<from>>, <<to>>)
             /\ from = to => new[r].at = r.at
  <2>. DEFINE q == <<to>> \o Tail(r.at)
  <2>1. r \in d /\ r \in Record /\ r.at \in Paths /\ new[r] = [r EXCEPT !.at = q]
    BY RecordFacts
  <2>2. q \in Paths /\ q[1] = to
    BY <2>1, BucketMoved
  <2>3. BucketOf(r.at) = from
    OBVIOUS
  <2>4. q = Rebase(r.at, <<from>>, <<to>>) /\ (from = to => q = r.at)
    BY <2>1, <2>3, BucketRebased
  <2>. HIDE DEF new, q
  <2>5. new[r] \in Record /\ new[r].at = q /\ new[r].file_name = r.file_name
    BY <2>1, <2>2, RecordFacts
  <2>6. BucketOf(q) = to
    BY <2>2 DEF BucketOf
  <2>7. new[r].at = <<to>> \o Tail(r.at)
    BY <2>5 DEF q
  <2>. QED BY <2>1, <2>3, <2>4, <2>5, <2>6, <2>7
<1>4. <<from>> \notin DOMAIN t => rows = {}
  <2>. SUFFICES ASSUME <<from>> \notin DOMAIN t, NEW r \in rows PROVE FALSE
    OBVIOUS
  <2>1. r.at \in Paths /\ r.at \in DOMAIN t /\ Under(<<from>>, r.at)
    BY <1>1, <1>3, BucketAbove DEF Has
  <2>. QED BY <1>2, <2>1, NothingBelow
<1>5. ASSUME NEW r \in rows, NEW s \in d, s # r PROVE ~SameIndex(new[r], s)
  <2>. SUFFICES ASSUME SameIndex(new[r], s) PROVE FALSE
    OBVIOUS
  <2>1. s.at = new[r].at /\ s.file_name = r.file_name
    BY <1>3 DEF SameIndex
  <2>2. CASE from = to
    <3>1. SameIndex(s, r)
      BY <1>3, <2>1, <2>2 DEF SameIndex
    <3>. QED BY <1>3, <1>5, <3>1 DEF UniqueIndex
  <2>3. CASE \A q, f : Has(t, q, f) => BucketOf(q) # to
    BY <1>1, <1>3, <2>1, <2>3
  <2>. QED BY <1>4, <2>2, <2>3
<1>6. rows \subseteq d
  OBVIOUS
<1>7. \A r \in d : r \in rows <=> Under(<<from>>, r.at)
  BY <1>1, BucketAbove
<1>8. set_name_bucket(d, from, to) = UpdateMany(d, rows, new)
  BY DEF set_name_bucket
<1>. HIDE DEF rows, new
<1>. DEFINE e == Updated(d, new, rows)
<1>. SUFFICES Agree(TreeNameBucket(t, from, to), e)
  BY <1>5, <1>6, <1>8, AllUpdated
<1>9. \A q, f : RecordAt(e, q, f) <=>
         \/ \E r \in d : r \notin rows /\ r.at = q /\ r.file_name = f
         \/ \E r \in rows : new[r].at = q /\ new[r].file_name = f
  BY UpdatedRecords
<1>10. e \in SUBSET Record
  BY <1>3 DEF Updated
<1>11. CASE <<from>> \notin DOMAIN t
  <2>1. rows = {}
    BY <1>4, <1>11
  <2>2. e = d
    BY <2>1 DEF Updated
  <2>. QED BY <1>11, <2>2 DEF TreeNameBucket
<1>12. CASE <<from>> \in DOMAIN t
  <2>. DEFINE F == <<from>>
              T == <<to>>
  <2>1. F \in DOMAIN t /\ T \in Paths /\ Len(F) = Len(T) /\ Len(F) = 1
    BY <1>2, <1>12
  <2>2. TreeNameBucket(t, from, to) = MoveEntry(t, F, T)
    BY <1>12 DEF TreeNameBucket
  <2>3. Vacant(t, F, T)
    <3>1. \A q, f : Has(t, q, f) => q \in Paths
      BY HasFacts
    <3>2. \A q \in Paths : /\ Under(T, q) <=> BucketOf(q) = to
                           /\ Under(F, q) <=> BucketOf(q) = from
      BY BucketAbove
    <3>. QED BY <1>12, <3>1, <3>2 DEF Vacant
  <2>4. \A r \in rows : /\ r \in d /\ r.at \in Paths /\ new[r].file_name = r.file_name
                        /\ new[r].at = Rebase(r.at, F, T)
    BY <1>3
  <2>5. \A r \in d : r.at \in Paths /\ (r \in rows <=> Under(F, r.at))
    BY <1>1, <1>7
  <2>. HIDE DEF e, F, T
  <2>6. Moved(d, e, F, T)
    <3>1. \A q, f : (\E r \in d : r \notin rows /\ r.at = q /\ r.file_name = f)
                       <=> RecordAt(d, q, f) /\ ~Under(F, q)
      BY <2>5 DEF RecordAt
    <3>2. ASSUME NEW q, NEW f
          PROVE  (\E r \in rows : new[r].at = q /\ new[r].file_name = f)
                    <=> \E r \in Paths : /\ Under(F, r) /\ q = Rebase(r, F, T)
                                         /\ RecordAt(d, r, f)
      <4>1. ASSUME NEW r \in rows, new[r].at = q, new[r].file_name = f
            PROVE  /\ r.at \in Paths /\ Under(F, r.at) /\ q = Rebase(r.at, F, T)
                   /\ RecordAt(d, r.at, f)
        BY <2>4, <2>5, <4>1 DEF RecordAt
      <4>2. ASSUME NEW p \in Paths, Under(F, p), q = Rebase(p, F, T), RecordAt(d, p, f)
            PROVE  \E r \in rows : new[r].at = q /\ new[r].file_name = f
        BY <2>4, <2>5, <4>2 DEF RecordAt
      <4>. QED BY <4>1, <4>2
    <3>. QED BY <1>9, <3>1, <3>2 DEF Moved
  <2>7. \A i \in 1 .. Len(F) - 1 : F[i] = T[i]
    BY <2>1
  <2>8. Agree(MoveEntry(t, F, T), e)
    BY <1>10, <2>1, <2>3, <2>6, <2>7, MovedAgrees
  <2>. QED BY <2>2, <2>8 DEF F, T
<1>. QED BY <1>11, <1>12

\* set_name_key finds nothing to change.
LEMMA NoRows ==
    ASSUME NEW d, NEW p, NEW to, \A r \in d : r.at # p
    PROVE  \A e \in set_name_key(d, p, to) : e = d
<1>. DEFINE rows == {r \in d : r.at = p}
            new  == [r \in rows |-> [r EXCEPT !.at = <<BucketOf(p), to>>]]
<1>1. rows = {} /\ set_name_key(d, p, to) = UpdateMany(d, rows, new)
  BY DEF set_name_key
<1>. HIDE DEF rows, new
<1>2. \A e \in UpdateMany(d, rows, new) : e = Updated(d, new, rows)
  BY <1>1, AllUpdated
<1>3. Updated(d, new, rows) = d
  BY <1>1 DEF Updated
<1>. QED BY <1>1, <1>2, <1>3

\* The key set_name_key writes is the path of a renamed key right below its
\* bucket, and a renamed entry goes to where its new name is.
LEMMA KeyRebased ==
    ASSUME NEW p \in Paths, Len(p) > 1, NEW to \in Names
    PROVE  /\ Len(p) <= 2 => <<BucketOf(p), to>> = Append(Parent(p), to)
           /\ Rebase(p, p, Append(Parent(p), to)) = Append(Parent(p), to)
<1>. DEFINE k == <<BucketOf(p), to>>
            n == Append(Parent(p), to)
<1>1. /\ n \in Paths /\ Len(n) = Len(p)
      /\ \A i \in 1 .. Len(p) - 1 : n[i] = p[i]
      /\ n[Len(p)] = to
  BY RenamedFacts
<1>2. k \in Paths /\ Len(k) = 2 /\ k[1] = p[1] /\ k[2] = to
  BY KeyMoved
<1>3. Len(p) \in Nat
  BY PathFacts
<1>. HIDE DEF k, n
<1>4. ASSUME Len(p) <= 2 PROVE k = n
  <2>1. Len(p) = 2 /\ n[1] = p[1] /\ n[2] = to
    BY <1>1, <1>3, <1>4
  <2>2. \A i \in 1 .. Len(k) : k[i] = n[i]
    BY <1>2, <2>1
  <2>. QED BY <1>1, <1>2, <2>1, <2>2, PathFacts, SamePath
<1>5. Rebase(p, p, n) = n
  <2>1. Under(p, p)
    BY UnderSelf
  <2>2. /\ Rebase(p, p, n) \in Paths
        /\ Len(Rebase(p, p, n)) = Len(p)
        /\ \A i \in 1 .. Len(n) : Rebase(p, p, n)[i] = n[i]
    BY <1>1, <2>1, RebaseFacts
  <2>3. \A i \in 1 .. Len(n) : n[i] = Rebase(p, p, n)[i]
    BY <2>2
  <2>. QED BY <1>1, <2>2, <2>3, PathFacts, SamePath
<1>. QED BY <1>4, <1>5 DEF k, n

\* A key that is renamed takes its records along when it is right below its
\* bucket and nothing below it has an object, or when it has no records.
LEMMA NamedKeyAgrees ==
    ASSUME NEW t, IsTree(t), NEW d \in SUBSET Record, UniqueIndex(d), Agree(t, d),
           NEW p \in Paths, Len(p) > 1, NEW to \in Names,
           Parent(p) \in DOMAIN t => t[Parent(p)].keys,
           p \in DOMAIN t =>
              IF Append(Parent(p), to) \in DOMAIN t
              THEN t[p].objects = <<>> \/ p = <<BucketOf(p), to>>
              ELSE /\ t[p].objects = <<>> \/ Len(p) <= 2
                   /\ \A q, f : Has(t, q, f) /\ Under(p, q) => q = p
    PROVE  \A e \in set_name_key(d, p, to) : Agree(TreeNameKey(t, p, to), e)
<1>. DEFINE k    == <<BucketOf(p), to>>
            n    == Append(Parent(p), to)
            rows == {r \in d : r.at = p}
            new  == [r \in rows |-> [r EXCEPT !.at = k]]
<1>1. /\ \A r \in d : r.at \in Paths /\ Has(t, r.at, r.file_name)
      /\ \A q, f : RecordAt(d, q, f) <=> Has(t, q, f)
  BY RecordIsHad
<1>2. /\ n \in Paths /\ Len(n) = Len(p) /\ k \in Paths
      /\ \A i \in 1 .. Len(p) - 1 : p[i] = n[i]
      /\ Len(p) <= 2 => k = n
      /\ Rebase(p, p, n) = n
  BY RenamedFacts, KeyMoved, KeyRebased
<1>3. TreeNameKey(t, p, to) = IF Parent(p) \notin DOMAIN t \/ n \in DOMAIN t
                              THEN t
                              ELSE IF p \in DOMAIN t THEN MoveEntry(t, p, n)
                                                     ELSE OrDefault(t, n)
  BY DEF TreeNameKey
<1>4. IsTree(TreeNameKey(t, p, to))
  BY KeyChangesKeepTree
<1>5. p \notin DOMAIN t \/ t[p].objects = <<>> =>
         (\A r \in d : r.at # p) /\ \A e \in set_name_key(d, p, to) : e = d
  <2>1. p \notin DOMAIN t \/ t[p].objects = <<>> => \A r \in d : r.at # p
    BY <1>1 DEF Has, Holds
  <2>. QED BY <2>1, NoRows
<1>6. set_name_key(d, p, to) = UpdateMany(d, rows, new) /\ rows \subseteq d
  BY DEF set_name_key
<1>7. \A r \in rows : r \in d /\ r.at = p
  OBVIOUS
<1>8. \A r \in d : r \notin rows => r.at # p
  OBVIOUS
<1>9. ASSUME NEW r \in rows
      PROVE  new[r] \in Record /\ new[r].at = k /\ new[r].file_name = r.file_name
  <2>1. r \in Record /\ new[r] = [r EXCEPT !.at = k]
    OBVIOUS
  <2>. HIDE DEF new, k
  <2>. QED BY <1>2, <2>1, RecordFacts
<1>10. CASE p \notin DOMAIN t
  <2>. HIDE DEF n, k, rows, new
  <2>1. \A e \in set_name_key(d, p, to) : e = d
    BY <1>5, <1>10
  <2>2. CASE Parent(p) \notin DOMAIN t \/ n \in DOMAIN t
    BY <1>3, <2>1, <2>2
  <2>3. CASE ~(Parent(p) \notin DOMAIN t \/ n \in DOMAIN t)
    <3>1. TreeNameKey(t, p, to) = OrDefault(t, n)
      BY <1>3, <1>10, <2>3
    <3>2. Agree(OrDefault(t, n), d)
      BY <1>2, <1>4, <3>1, NewEntryAgrees
    <3>. QED BY <2>1, <3>1, <3>2
  <2>. QED BY <2>2, <2>3
<1>11. CASE p \in DOMAIN t /\ n \in DOMAIN t
  <2>1. TreeNameKey(t, p, to) = t
    BY <1>3, <1>11
  <2>2. CASE t[p].objects = <<>>
    BY <1>5, <2>1, <2>2
  <2>3. CASE p = k
    <3>. HIDE DEF n, k, rows, new
    <3>. DEFINE e == Updated(d, new, rows)
    <3>1. ASSUME NEW r \in rows, NEW s \in d, s # r PROVE ~SameIndex(new[r], s)
      BY <1>7, <1>9, <2>3, <3>1 DEF SameIndex, UniqueIndex
    <3>2. \A x \in set_name_key(d, p, to) : x = e
      BY <1>6, <3>1, AllUpdated
    <3>3. \A q, f : RecordAt(e, q, f) <=>
             \/ \E r \in d : r \notin rows /\ r.at = q /\ r.file_name = f
             \/ \E r \in rows : new[r].at = q /\ new[r].file_name = f
      BY UpdatedRecords
    <3>4. e \in SUBSET Record
      BY <1>9 DEF Updated
    <3>. HIDE DEF e
    <3>5. \A q, f : RecordAt(e, q, f) <=> RecordAt(d, q, f)
      BY <1>6, <1>7, <1>8, <1>9, <2>3, <3>3 DEF RecordAt
    <3>6. NoneTwice(t) /\ Same(t, d)
      BY AgreeFacts
    <3>7. Same(t, e)
      BY <3>5, <3>6 DEF Same
    <3>. QED BY <2>1, <3>2, <3>4, <3>6, <3>7, AgreeFacts
  <2>. QED BY <1>11, <2>2, <2>3
<1>12. CASE p \in DOMAIN t /\ n \notin DOMAIN t
  <2>0. /\ t[p].objects = <<>> \/ Len(p) <= 2
        /\ \A q, f : Has(t, q, f) /\ Under(p, q) => q = p
    BY <1>12
  <2>. HIDE DEF n, k, rows, new
  <2>1. TreeNameKey(t, p, to) = MoveEntry(t, p, n)
    BY <1>3, <1>12, ParentThere
  <2>2. Vacant(t, p, n)
    <3>1. \A q \in DOMAIN t : ~Under(n, q)
      BY <1>2, <1>12, NothingBelow
    <3>. QED BY <3>1 DEF Vacant, Has
  <2>3. \A q \in Paths : \A f : RecordAt(d, q, f) /\ Under(p, q) => q = p
    BY <1>1, <2>0
  <2>4. \A q, f : RecordAt(d, q, f) => q \in Paths
    BY <1>1 DEF RecordAt
  <2>5. CASE t[p].objects = <<>>
    <3>1. \A q, f : RecordAt(d, q, f) => ~Under(p, q)
      BY <1>5, <2>3, <2>4, <2>5 DEF RecordAt
    <3>2. Moved(d, d, p, n)
      BY <3>1 DEF Moved
    <3>3. Agree(MoveEntry(t, p, n), d)
      BY <1>2, <1>12, <2>2, <3>2, MovedAgrees
    <3>. QED BY <1>5, <2>1, <2>5, <3>3
  <2>6. CASE Len(p) <= 2
    <3>. DEFINE e == Updated(d, new, rows)
    <3>1. k = n
      BY <1>2, <2>6
    <3>2. ASSUME NEW r \in rows, NEW s \in d, s # r PROVE ~SameIndex(new[r], s)
      BY <1>1, <1>9, <1>12, <3>1, <3>2 DEF SameIndex, Has
    <3>3. \A x \in set_name_key(d, p, to) : x = e
      BY <1>6, <3>2, AllUpdated
    <3>4. \A q, f : RecordAt(e, q, f) <=>
             \/ \E r \in d : r \notin rows /\ r.at = q /\ r.file_name = f
             \/ \E r \in rows : new[r].at = q /\ new[r].file_name = f
      BY UpdatedRecords
    <3>5. e \in SUBSET Record
      BY <1>9 DEF Updated
    <3>. HIDE DEF e
    <3>6. Moved(d, e, p, n)
      <4>1. \A q, f : (\E r \in d : r \notin rows /\ r.at = q /\ r.file_name = f)
                         <=> RecordAt(d, q, f) /\ ~Under(p, q)
        BY <1>7, <1>8, <2>3, <2>4, UnderSelf DEF RecordAt
      <4>2. ASSUME NEW q, NEW f
            PROVE  (\E r \in rows : new[r].at = q /\ new[r].file_name = f)
                      <=> \E r \in Paths : /\ Under(p, r) /\ q = Rebase(r, p, n)
                                           /\ RecordAt(d, r, f)
        <5>1. ASSUME NEW r \in rows, new[r].at = q, new[r].file_name = f
              PROVE  Under(p, p) /\ q = Rebase(p, p, n) /\ RecordAt(d, p, f)
          BY <1>2, <1>7, <1>9, <3>1, <5>1, UnderSelf DEF RecordAt
        <5>2. ASSUME NEW r \in Paths, Under(p, r), q = Rebase(r, p, n), RecordAt(d, r, f)
              PROVE  \E s \in rows : new[s].at = q /\ new[s].file_name = f
          <6>1. r = p /\ q = n
            BY <1>2, <2>3, <5>2
          <6>2. PICK s \in d : s.at = p /\ s.file_name = f
            BY <5>2, <6>1 DEF RecordAt
          <6>. QED BY <1>8, <1>9, <3>1, <6>1, <6>2
        <5>. QED BY <5>1, <5>2
      <4>. QED BY <3>4, <4>1, <4>2 DEF Moved
    <3>7. Agree(MoveEntry(t, p, n), e)
      BY <1>2, <1>12, <2>2, <3>5, <3>6, MovedAgrees
    <3>. QED BY <2>1, <3>3, <3>7
  <2>. QED BY <2>0, <2>5, <2>6
<1>. QED BY <1>10, <1>11, <1>12

-----------------------------------------------------------------------------
(***************************************************************************)
(* The two writes of a change.                                             *)
(***************************************************************************)
\* The tree a change leaves: as it was if the change panics.
Left(t, c) == IF Panics(t, c) THEN t ELSE Apply(t, c)

\* A new key or bucket has no objects, and no records to change.
LEMMA NewPlaceAgrees ==
    ASSUME NEW t, IsTree(t), NEW d \in SUBSET Record, Agree(t, d), NEW c \in Change,
           c.type \in {"new_key", "new_bucket"}, ~Panics(t, c)
    PROVE  Agree(Apply(t, c), d)
<1>1. IsTree(Apply(t, c))
  BY ApplyIsTree
<1>2. CASE c.type = "new_bucket"
  <2>1. Apply(t, c) = OrDefault(t, <<c.bucket>>) /\ <<c.bucket>> \in Paths
    BY <1>2, ChangeFacts, BucketFacts DEF Apply, TreeNewBucket
  <2>. QED BY <1>1, <2>1, NewEntryAgrees
<1>3. CASE c.type = "new_key"
  <2>1. c.at \in Paths
    BY <1>3, ChangeFacts
  <2>2. Apply(t, c) = IF Parent(c.at) \in DOMAIN t THEN OrDefault(t, c.at) ELSE t
    BY <1>3 DEF Apply, TreeNewKey
  <2>3. CASE Parent(c.at) \in DOMAIN t
    <3>1. Apply(t, c) = OrDefault(t, c.at)
      BY <2>2, <2>3
    <3>. QED BY <1>1, <2>1, <3>1, NewEntryAgrees
  <2>. QED BY <2>2, <2>3
<1>. QED BY <1>2, <1>3

\* A change that panics finds no entry at its key, so that it has no records.
LEMMA PanicAgrees ==
    ASSUME NEW t, IsTree(t), NEW d \in SUBSET Record, Agree(t, d), NEW c \in Change,
           Panics(t, c)
    PROVE  \A e \in Store(d, c) : e = d
<1>1. c.at \in Paths /\ Len(c.at) > 1 /\ c.type \in {"new_key", "name_key", "delete_key"}
  BY ChangeFacts DEF Panics
<1>2. c.at \notin DOMAIN t
  BY <1>1, ParentThere DEF Panics
<1>3. \A r \in d : r.at # c.at
  BY <1>2, RecordIsHad DEF Has
<1>4. CASE c.type = "new_key"
  BY <1>4 DEF Store
<1>5. CASE c.type = "name_key"
  BY <1>3, <1>5, NoRows DEF Store
<1>6. CASE c.type = "delete_key"
  BY <1>3, <1>6 DEF Store, delete_key
<1>. QED BY <1>1, <1>4, <1>5, <1>6

\* Both writes of a change that is not one of SetsApart do the same.
LEMMA ChangeAgrees ==
    ASSUME NEW t, IsTree(t), NEW d \in SUBSET Record, UniqueIndex(d), Agree(t, d),
           NEW c \in Change, ~SetsApart(t, c)
    PROVE  \A e \in Store(d, c) : Agree(Left(t, c), e)
<1>0. CASE Panics(t, c)
  BY <1>0, PanicAgrees DEF Left
<1>. SUFFICES ASSUME ~Panics(t, c)
              PROVE  \A e \in Store(d, c) : Agree(Apply(t, c), e)
  BY <1>0 DEF Left
<1>1. CASE c.type = "new_object"
  <2>1. c.at \in DOMAIN t /\ ~Holds(t[c.at].objects, c.name) /\ c.name \in FileNames
    BY <1>1, ChangeFacts DEF SetsApart
  <2>2. Store(d, c) = new_object(d, c.at, c.name)
    BY <1>1 DEF Store
  <2>3. Apply(t, c) = TreeNewObject(t, c.at, c.name)
    BY <1>1 DEF Apply
  <2>. QED BY <2>1, <2>2, <2>3, NewObjectAgrees
<1>2. CASE c.type = "delete_object"
  BY <1>2, ChangeFacts, DeletedObjectAgrees DEF Store, Apply
<1>3. CASE c.type = "name_object"
  <2>1. c.from = c.to \/ ~Has(t, c.at, c.from)
    BY <1>3, ObjectsFacts DEF SetsApart
  <2>2. c.at \in Paths /\ c.from \in FileNames /\ c.to \in FileNames
    BY <1>3, ChangeFacts
  <2>3. Store(d, c) = set_name(d, c.at, c.from, c.to)
    BY <1>3 DEF Store
  <2>4. Apply(t, c) = TreeNameObject(t, c.at, c.from, c.to)
    BY <1>3 DEF Apply
  <2>. QED BY <2>1, <2>2, <2>3, <2>4, NamedObjectAgrees
<1>4. CASE c.type = "delete_bucket"
  BY <1>4, ChangeFacts, DeletedBucketAgrees DEF Store, Apply
<1>5. CASE c.type = "name_bucket"
  <2>1. c.from \in Names /\ c.to \in Names
    BY <1>5, ChangeFacts
  <2>2. \/ c.from = c.to
        \/ <<c.from>> \notin DOMAIN t
        \/ \A q, f : Has(t, q, f) => BucketOf(q) # c.to
    <3>1. CASE <<c.to>> \notin DOMAIN t
      <4>1. <<c.to>> \in Paths /\ \A q \in DOMAIN t : ~Under(<<c.to>>, q)
        BY <2>1, <3>1, BucketFacts, NothingBelow
      <4>2. \A q \in DOMAIN t : BucketOf(q) # c.to
        BY <2>1, <4>1, BucketAbove, TreeFacts
      <4>. QED BY <4>2 DEF Has
    <3>2. CASE \A x \in Objects(t) : BucketOf(x[1]) # c.to
      <4>1. \A q, f : Has(t, q, f) => \E x \in Objects(t) : x[1] = q
        BY HadIsObject
      <4>. QED BY <3>2, <4>1
    <3>. QED BY <1>5, <3>1, <3>2 DEF SetsApart
  <2>3. Store(d, c) = set_name_bucket(d, c.from, c.to)
    BY <1>5 DEF Store
  <2>4. Apply(t, c) = TreeNameBucket(t, c.from, c.to)
    BY <1>5 DEF Apply
  <2>. QED BY <2>1, <2>2, <2>3, <2>4, NamedBucketAgrees
<1>6. ASSUME NEW p, ObjectsBelow(t, p) = {}
      PROVE  \A q, f : Has(t, q, f) /\ Under(p, q) => q = p
  <2>1. \A q, f : Has(t, q, f) => \E x \in Objects(t) : x[1] = q
    BY HadIsObject
  <2>. QED BY <1>6, <2>1 DEF ObjectsBelow
<1>7. CASE c.type = "name_key"
  <2>1. c.at \in Paths /\ Len(c.at) > 1 /\ c.to \in Names /\ Len(c.at) \in Nat
    BY <1>7, ChangeFacts, PathFacts
  <2>2. Parent(c.at) \in DOMAIN t => t[Parent(c.at)].keys
    BY <1>7 DEF Panics
  <2>3. c.at \in DOMAIN t =>
           IF Append(Parent(c.at), c.to) \in DOMAIN t
           THEN t[c.at].objects = <<>> \/ c.at = <<BucketOf(c.at), c.to>>
           ELSE /\ t[c.at].objects = <<>> \/ Len(c.at) <= 2
                /\ ObjectsBelow(t, c.at) = {}
    BY <1>7, <2>1 DEF SetsApart
  <2>4. c.at \in DOMAIN t =>
           IF Append(Parent(c.at), c.to) \in DOMAIN t
           THEN t[c.at].objects = <<>> \/ c.at = <<BucketOf(c.at), c.to>>
           ELSE /\ t[c.at].objects = <<>> \/ Len(c.at) <= 2
                /\ \A q, f : Has(t, q, f) /\ Under(c.at, q) => q = c.at
    BY <1>6, <2>3
  <2>5. Store(d, c) = set_name_key(d, c.at, c.to)
    BY <1>7 DEF Store
  <2>6. Apply(t, c) = TreeNameKey(t, c.at, c.to)
    BY <1>7 DEF Apply
  <2>7. \A e \in set_name_key(d, c.at, c.to) : Agree(TreeNameKey(t, c.at, c.to), e)
    BY <2>1, <2>2, <2>4, NamedKeyAgrees
  <2>. QED BY <2>5, <2>6, <2>7
<1>8. CASE c.type = "delete_key"
  <2>1. c.at \in Paths /\ Len(c.at) > 1
    BY <1>8, ChangeFacts
  <2>2. \A q, f : Has(t, q, f) /\ Under(c.at, q) => q = c.at
    BY <1>6, <1>8 DEF SetsApart
  <2>3. Store(d, c) = delete_key(d, c.at)
    BY <1>8 DEF Store
  <2>4. Apply(t, c) = TreeDeleteKey(t, c.at)
    BY <1>8 DEF Apply
  <2>. QED BY <2>1, <2>2, <2>3, <2>4, DeletedKeyAgrees
<1>9. CASE c.type \in {"new_key", "new_bucket"}
  <2>1. Store(d, c) = {d}
    BY <1>9 DEF Store
  <2>. QED BY <1>9, <2>1, NewPlaceAgrees
<1>. QED BY <1>1, <1>2, <1>3, <1>4, <1>5, <1>7, <1>8, <1>9, ChangeFacts

-----------------------------------------------------------------------------
(***************************************************************************)
(* The invariant: between the two writes the records agree with the tree   *)
(* the change in hand is about to leave.                                   *)
(***************************************************************************)
BetweenWrites == pc = "tree" /\ clean => Agree(Left(tree, change), db)

\* Outside a change the tree and the records agree, for any names, any depth,
\* any changes and any number of them, as long as no database call failed and no
\* change was one of those SetsApart lists (Manager's handle, lines 89-90).
THEOREM TreeAndRecordsAgree == Spec => []InStep
<1>1. Init => InStep /\ BetweenWrites
  BY DEF Init, InStep, BetweenWrites
<1>2. TypeOK /\ InStep /\ BetweenWrites /\ [Next]_vars => InStep' /\ BetweenWrites'
  <2>. SUFFICES ASSUME TypeOK, InStep, BetweenWrites, [Next]_vars
                PROVE  InStep' /\ BetweenWrites'
    OBVIOUS
  <2>1. mailbox # <<>> => change \in Change
    BY ChangesAssumption DEF TypeOK, change
  <2>2. IsTree(tree) /\ db \in SUBSET Record /\ UniqueIndex(db) /\ clean \in BOOLEAN
    BY DEF TypeOK
  <2>3. ASSUME NEW c \in Changes, Tell(c) PROVE InStep' /\ BetweenWrites'
    <3>1. tree' = tree /\ db' = db /\ pc' = pc /\ clean' = clean
      BY <2>3 DEF Tell
    <3>2. pc = "tree" => change' = change
      BY <2>3 DEF Tell, TypeOK, change
    <3>3. InStep'
      BY <3>1 DEF InStep
    <3>4. BetweenWrites'
      BY <3>1, <3>2 DEF BetweenWrites, Left, Panics, Apply
    <3>. QED BY <3>3, <3>4
  <2>4. ASSUME pc = "recv", mailbox # <<>>, db' \in Store(db, change), pc' = "tree",
               tree' = tree, mailbox' = mailbox, clean' => clean /\ ~SetsApart(tree, change)
        PROVE  InStep' /\ BetweenWrites'
    <3>1. change' = change
      BY <2>4 DEF change
    <3>2. ASSUME clean' PROVE Agree(Left(tree, change), db')
      <4>1. Agree(tree, db) /\ ~SetsApart(tree, change)
        BY <2>4, <3>2 DEF InStep
      <4>2. \A e \in Store(db, change) : Agree(Left(tree, change), e)
        BY <2>1, <2>2, <2>4, <4>1, ChangeAgrees
      <4>. QED BY <2>4, <4>2
    <3>3. BetweenWrites'
      BY <2>4, <3>1, <3>2 DEF BetweenWrites, Left, Panics, Apply
    <3>4. InStep'
      BY <2>4 DEF InStep
    <3>. QED BY <3>3, <3>4
  <2>5. CASE ChangeLocalStorage
    BY <2>4, <2>5 DEF ChangeLocalStorage
  <2>6. CASE StorageFails
    <3>1. CASE clean'
      <4>1. db' \in Store(db, change)
        BY <2>6, <3>1 DEF StorageFails
      <4>. QED BY <2>4, <2>6, <4>1 DEF StorageFails
    <3>2. CASE ~clean'
      BY <3>2 DEF InStep, BetweenWrites
    <3>. QED BY <3>1, <3>2
  <2>7. CASE ChangeTree
    <3>1. pc = "tree" /\ pc' = "recv" /\ clean' = clean /\ db' = db
          /\ tree' = Left(tree, change)
      BY <2>7 DEF ChangeTree, Left
    <3>. QED BY <3>1 DEF InStep, BetweenWrites
  <2>8. CASE Panic
    <3>1. pc = "tree" /\ pc' = "recv" /\ clean' = clean /\ db' = db
          /\ tree' = Left(tree, change) /\ tree' = tree
      BY <2>8 DEF Panic, Left
    <3>. QED BY <3>1 DEF InStep, BetweenWrites
  <2>9. CASE UNCHANGED vars
    BY <2>9 DEF vars, InStep, BetweenWrites, Left, Panics, Apply, change
  <2>. QED BY <2>3, <2>5, <2>6, <2>7, <2>8, <2>9 DEF Next, Handle
<1>. QED BY <1>1, <1>2, TypeInvariant, PTL DEF Spec
=============================================================================
